-------------------------------- MODULE Shell --------------------------------
(***************************************************************************)
(* The shell, Userland/SampleCodeModule/shell.c, on the terminal: the line *)
(* editor, which keeps a buffer and the screen in step, the table of       *)
(* commands and what finds a command in it.  A step is an iteration of the *)
(* shell's loop.  What commands write is a parameter, a sequence of        *)
(* characters, line ends and clearings.                                    *)
(***************************************************************************)
EXTENDS Terminal

CONSTANTS
  BUFFER_SIZE, MAX_COMDESC, MAX_COMMANDS,
  Letters,      \* the characters keys may give, ENTER and BACKSPACE apart
  PROMPT,
  ENTER,        \* on the screen, the end of a line
  CLEAR,        \* on the screen, sys_clear_screen
  Welcome,      \* draw_Main_Screen
  Commands,     \* fillCommandList: <<[name, desc, cmdptr], ...>>
  Output,       \* [cmdptr -> what it writes], `help' and `fault' apart
  Listing,      \* the first line of help
  printMem,     \* `printMem '
  Dump,         \* what printMem writes when given an address
  Complaint,    \* `Not a valid command: '
  Code,         \* [letter -> its ASCII code]
  WORD          \* 2^64

NUL == "NUL"
SPACE == " "
None == -1

COLS == SCREEN_WIDTH \div CHAR_WIDTH
ROWS == SCREEN_HEIGHT \div CHAR_HEIGHT

(* 128 by 48 characters fill the screen, so that 101 of them, the most the *)
(* line editor takes, stay on it with the prompt.                          *)
ASSUME ShellAssumption ==
  /\ BUFFER_SIZE \in Nat /\ MAX_COMDESC \in Nat /\ WORD \in Nat \ {0}
  /\ {PROMPT, ENTER, CLEAR} \cap Letters = {} /\ PROMPT \notin {ENTER, CLEAR}
  /\ Code \in [Letters -> Nat] /\ (SPACE \in Letters => Code[SPACE] = 32)
  /\ SCREEN_WIDTH % CHAR_WIDTH = 0 /\ SCREEN_HEIGHT % CHAR_HEIGHT = 0
  /\ BUFFER_SIZE + 1 <= COLS * (ROWS - 1)
  /\ \A s \in {Welcome, Listing, printMem, Dump, Complaint} : Len(s) \in Nat
  /\ Commands \in Seq(Range(Commands)) /\ Len(Commands) <= MAX_COMMANDS
  /\ IsInjective([i \in DOMAIN Commands |-> Commands[i].name])
  /\ \A c \in Range(Commands) :
       /\ Len(c.name) \in Nat /\ Len(c.desc) \in Nat
       /\ c.cmdptr \notin {"help", "fault"} => Len(Output[c.cmdptr]) \in Nat

VARIABLES
  tty, terminalBuffer, buffersize,
  commandList,
  asked                \* the address printMem asked the kernel for in the last step

vars == <<tty, terminalBuffer, buffersize, commandList, asked>>

put(t, c) ==
  CASE c = ENTER -> newLine(t)
    [] c = CLEAR -> clean(t)
    [] OTHER     -> draw_char(t, c)

print(t, s) ==
  LET printed[n \in 0 .. Len(s)] == IF n = 0 THEN t ELSE put(printed[n - 1], s[n])
  IN printed[Len(s)]

initializeOS(t) == put(print(t, Welcome), PROMPT)

NoLine == [i \in 0 .. BUFFER_SIZE |-> NUL]

(* cleanBuffer stops one short of the last character.                      *)
cleanBuffer ==
  /\ terminalBuffer' = [NoLine EXCEPT ![BUFFER_SIZE] = terminalBuffer[BUFFER_SIZE]]
  /\ buffersize' = 0

fillCommandList(list) == list \o Commands

Init ==
  /\ tty = initializeOS(Blank) /\ terminalBuffer = NoLine /\ buffersize = 0
  /\ commandList = fillCommandList(<<>>)
  /\ asked = None
-----------------------------------------------------------------------------
HasRoom_Always == TRUE

HasRoom == buffersize <= BUFFER_SIZE

letter(c) ==
  /\ HasRoom
  /\ terminalBuffer' = [i \in DOMAIN terminalBuffer \cup {buffersize} |->
                          IF i = buffersize THEN c ELSE terminalBuffer[i]]
  /\ buffersize' = buffersize + 1
  /\ tty' = draw_char(tty, c)
  /\ asked' = None
  /\ UNCHANGED commandList

backspace ==
  /\ buffersize > 0
  /\ buffersize' = buffersize - 1
  /\ terminalBuffer' = [terminalBuffer EXCEPT ![buffersize'] = NUL]
  /\ tty' = delete_char(tty)
  /\ asked' = None
  /\ UNCHANGED commandList

(* What strncpy makes of the buffer: one NUL more than MAX_COMDESC may hold.*)
potentialCommand == [i \in 1 .. buffersize |-> terminalBuffer[i - 1]]

help(t, list) ==
  LET listed[n \in 0 .. Len(list)] ==
        IF n = 0 THEN print(t, Listing)
        ELSE newLine(print(print(listed[n - 1], list[n].name), list[n].desc))
  IN listed[Len(list)]

(* The first command of that name, if there is one.                        *)
find(list, line) ==
  LET i == SelectInSeq(list, LAMBDA c : c.name = line) IN IF i = 0 THEN "none" ELSE list[i].cmdptr

(* One digit; a letter counts from 0.                                      *)
digit(c) ==
  CASE Code[c] \in 48 .. 57 -> Code[c] - 48
    [] Code[c] \in 65 .. 70 -> Code[c] - 65
    [] OTHER                -> Code[c] - 97

strToNumHex_AddFirst(str) ==
  LET end == SelectInSeq(str \o <<SPACE>>, LAMBDA c : c = SPACE)
      number[n \in 0 .. (end - 1)] ==
        IF n = 0 THEN 0 ELSE ((number[n - 1] + digit(str[n])) * 16) % WORD
  IN number[end - 1]

(* The number ends at a space.                                             *)
strToNumHex(str) ==
  LET end == SelectInSeq(str \o <<SPACE>>, LAMBDA c : c = SPACE)
      number[n \in 0 .. (end - 1)] ==
        IF n = 0 THEN 0 ELSE (number[n - 1] * 16 + digit(str[n])) % WORD
  IN number[end - 1]

(* What follows `printMem ' and two characters more.                       *)
argument(line) == SubSeq(line, Len(printMem) + 3, Len(line))

command(line) ==
  LET cmd == find(commandList, line) IN
  /\ cmd \notin {"none", "fault"}
  /\ LET done == IF cmd = "help" THEN help(newLine(tty), commandList)
                 ELSE print(newLine(tty), Output[cmd])
     IN tty' = put(newLine(done), PROMPT)
  /\ asked' = None

dump(line) ==
  /\ find(commandList, line) = "none" /\ IsPrefix(printMem, line)
  /\ asked' = strToNumHex(argument(line))
  /\ tty' = put(print(newLine(tty), Dump), PROMPT)

unknown(line) ==
  /\ find(commandList, line) = "none" /\ ~ IsPrefix(printMem, line)
  /\ tty' = put(newLine(print(print(newLine(tty), Complaint), line)), PROMPT)
  /\ asked' = None

CommandHandler(line) == command(line) \/ dump(line) \/ unknown(line)

enter ==
  /\ CommandHandler(potentialCommand)
  /\ cleanBuffer
  /\ UNCHANGED commandList

_start_KeepsBss == commandList

(* The table as _start leaves it: it clears the program's variables.       *)
_start == <<>>

(* An exception clears the screen and starts the program again.  A line    *)
(* too long for potentialCommand, which writes past the array, is taken to *)
(* be harmless or to end like this.                                        *)
restart ==
  /\ find(commandList, potentialCommand) = "fault" \/ buffersize >= MAX_COMDESC
  /\ tty' = initializeOS(clean_all(newLine(tty)))
  /\ terminalBuffer' = NoLine /\ buffersize' = 0
  /\ commandList' = fillCommandList(_start)
  /\ asked' = None

Next == (\E c \in Letters : letter(c)) \/ backspace \/ enter \/ restart

Spec == Init /\ [][Next]_vars
-----------------------------------------------------------------------------
(* The cells of the screen are numbered along the lines; a cursor past the *)
(* end of a line is on the first cell of the next.                         *)
Cursor == (tty.y \div CHAR_HEIGHT) * COLS + tty.x \div CHAR_WIDTH
Shown(q) == tty.px[get_pixel((q % COLS) * CHAR_WIDTH, (q \div COLS) * CHAR_HEIGHT)]

(* The line editor never writes past terminalBuffer[BUFFER_SIZE], the last *)
(* cell the array has (lines 26 and 91-97), and the cursor stays on the    *)
(* screen whatever is typed, deleted or printed.                           *)
TypeOK ==
  /\ tty.x \in 0 .. SCREEN_WIDTH /\ tty.y \in 0 .. (SCREEN_HEIGHT - 1)
  /\ DOMAIN tty.px = Pixels
  /\ terminalBuffer \in [0 .. BUFFER_SIZE -> Letters \cup {NUL}]
  /\ buffersize \in 0 .. (BUFFER_SIZE + 1)

(* What stands on the screen between the prompt and the cursor is what the *)
(* command handler would be given: typing, deleting, line breaks in the    *)
(* middle of a command and scrolling keep the two in step, and nothing is  *)
(* left from the cursor on by whatever was deleted, scrolled or cleared    *)
(* (shell.c 79-98, video_driver.c 87-98 and 169-203).                      *)
LineShown ==
  LET first == Cursor - buffersize IN
  /\ Shown(first - 1) = PROMPT
  /\ \A k \in 0 .. (buffersize - 1) : Shown(first + k) = terminalBuffer[k]
  /\ \A q \in Cursor .. (COLS * ROWS - 1) : Shown(q) = BACKGROUND

(* However often an exception has started the program again, which fills   *)
(* its table from where commandsSize stands, no command is in the table    *)
(* twice and none is past its end (shell.c 22-23 and 149).                 *)
CommandsKept ==
  /\ Len(commandList) <= MAX_COMMANDS
  /\ IsInjective([i \in DOMAIN commandList |-> commandList[i].name])

(* printMem dumps from the address that was typed in digits after `0x';    *)
(* what is deleted and typed anew, and what follows a space, does not      *)
(* count (shell.c 177-185, Lib.c 92-121).                                  *)
IsNumeral(s) == \A k \in DOMAIN s : Code[s[k]] \in 48 .. 57
AddressOf(s) ==
  LET value[n \in 0 .. Len(s)] == IF n = 0 THEN 0 ELSE 16 * value[n - 1] + Code[s[n]] - 48
  IN value[Len(s)]
AddressRead ==
  [][LET typed == potentialCommand IN
     \A n \in 0 .. (Len(typed) - Len(printMem) - 2) :
       LET number == SubSeq(typed, Len(printMem) + 3, Len(printMem) + 2 + n)
           rest   == SubSeq(typed, Len(printMem) + 3 + n, Len(typed)) IN
       /\ asked' # None /\ IsNumeral(number) /\ (rest = <<>> \/ Head(rest) = SPACE)
       => asked' = AddressOf(number) % WORD]_vars
=============================================================================
