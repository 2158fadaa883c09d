------------------------------ MODULE Console ------------------------------
(***************************************************************************)
(* The terminal as programs see it: the system calls of                    *)
(* Kernel/interrupts/int80.c that reach the video driver, in any order,    *)
(* and the message the keyboard handler writes when its buffer is full.    *)
(* A call is one step, but delete_line takes one for each character.       *)
(***************************************************************************)
EXTENDS Writing

CONSTANTS
  Cursors,      \* the arguments of sys_cursor
  Margins,      \* the arguments of sys_setMargins
  MaxAbove      \* bound: lines above the screen that deleting may reach

ASSUME ConsoleAssumption ==
  /\ MaxAbove \in Nat
  /\ \A s \in Strings \cup {Message} : s \in Seq(Range(s))
  /\ Cursors \subseteq Int \X Int /\ Margins \subseteq Nat \X Nat
  /\ \A m \in Margins : m[1] + CHAR_WIDTH <= m[2] /\ m[2] <= SCREEN_WIDTH

VARIABLES
  aux_x, aux_y,
  deleting      \* delete_line is running

aux == <<aux_x, aux_y>>
vars == <<tty, aux, deleting>>

Init == tty = Blank /\ aux_x = 0 /\ aux_y = 0 /\ deleting = FALSE

Call(op(_)) == ~ deleting /\ tty' = op(tty) /\ UNCHANGED <<aux, deleting>>

(* Strings, single characters and numbers alike.                           *)
sys_write(s) == LET op(t) == draw_string(t, s) IN Call(op)

sys_newline == Call(newLine)

sys_clear_screen == Call(clean)

(* The bound: deleting takes the cursor up and left for ever.              *)
Bounded == tty.x >= 0 /\ tty.y >= - MaxAbove * CHAR_HEIGHT

deleteChar == Bounded /\ Call(delete_char)

deleteLine == ~ deleting /\ deleting' = TRUE /\ UNCHANGED <<tty, aux>>

(* The loop of delete_line.                                                *)
InLine == tty.x >= tty.left

deleteNext ==
  /\ deleting /\ Bounded
  /\ IF InLine THEN tty' = delete_char(tty) /\ UNCHANGED deleting
               ELSE deleting' = FALSE /\ UNCHANGED tty
  /\ UNCHANGED aux

(* A cursor on an edge of the screen is ignored; (-1, -1) goes back to     *)
(* where it was.                                                           *)
sys_cursor(x, y) ==
  /\ ~ deleting
  /\ \/ /\ x > 0 /\ y > 0 /\ x < SCREEN_WIDTH /\ y < SCREEN_HEIGHT
        /\ aux_x' = tty.x /\ aux_y' = tty.y
        /\ tty' = [tty EXCEPT !.x = x, !.y = y]
     \/ /\ x = -1 /\ y = -1
        /\ tty' = [tty EXCEPT !.x = aux_x, !.y = aux_y]
        /\ UNCHANGED aux
  /\ UNCHANGED deleting

sys_setMargins(l, r) ==
  LET op(t) == [t EXCEPT !.left = l, !.right = r] IN Call(op)

(* printException, which then waits for a key and starts the user program  *)
(* again.  The exceptions are the user program's, so no call is running.   *)
printException == Call(clean_all)

(* The keyboard interrupt, which comes at any time, also inside delete_line*)
overflowMessage == tty' = draw_string(tty, Message) /\ UNCHANGED <<aux, deleting>>

Next ==
  \/ \E s \in Strings : sys_write(s)
  \/ sys_newline \/ sys_clear_screen
  \/ deleteChar \/ deleteLine \/ deleteNext
  \/ \E c \in Cursors : sys_cursor(c[1], c[2])
  \/ \E m \in Margins : sys_setMargins(m[1], m[2])
  \/ printException
  \/ overflowMessage

Spec == Init /\ [][Next]_vars
-----------------------------------------------------------------------------
(* The cursor is on one of the columns the margins divide into.            *)
Inside(t) ==
  /\ t.left <= t.x /\ t.x <= t.right
  /\ (t.x - t.left) % CHAR_WIDTH = 0 /\ (t.right - t.x) % CHAR_WIDTH = 0

(* newLine and draw_char scroll before the cursor can stay below the       *)
(* screen (lines 92-94 and 164-166), whatever calls came before.           *)
TypeOK ==
  /\ tty.px \in [Pixels -> {BACKGROUND} \cup UNION {Range(s) : s \in Strings \cup {Message}}]
  /\ tty.x \in (- 2 * CHAR_WIDTH) .. (SCREEN_WIDTH + CHAR_WIDTH)
  /\ tty.y \in (- (MaxAbove + 1) * CHAR_HEIGHT) .. (SCREEN_HEIGHT - 1)
  /\ tty.left \in 0 .. SCREEN_WIDTH /\ tty.right \in 0 .. SCREEN_WIDTH
  /\ aux_x \in Int /\ aux_y \in Int /\ deleting \in BOOLEAN

(* A program that keeps its cursor between its margins draws nothing       *)
(* outside of them: not by wrapping, deleting or scrolling, nor when the   *)
(* keyboard handler writes in its middle.  Clearing blanks one column of   *)
(* pixels to its right and no more (lines 205-213); an exception alone may *)
(* blank anything.                                                         *)
KeepsColumn ==
  [][Inside(tty) /\ tty'.left = tty.left /\ tty'.right = tty.right =>
       \A i \in Pixels :
         LET x == i % SCREEN_WIDTH IN
         \/ tty.left <= x /\ x < tty.right
         \/ tty'.px[i] = tty.px[i]
         \/ /\ tty'.px[i] = BACKGROUND
            /\ printException \/ (sys_clear_screen /\ x = tty.right % SCREEN_WIDTH)]_vars

(* Writing and deleting, in any order, leave the cursor on a column, also  *)
(* from a line to the one above and back (lines 87-98 and 169-178).  For   *)
(* that very reason delete_line, started with the cursor on a column,      *)
(* never returns: its test is for a cursor left of the margin (line 181),  *)
(* and delete_char goes up a line instead.                                 *)
StaysOnColumn ==
  [][(\E s \in Strings : sys_write(s)) \/ sys_newline \/ deleteChar \/ deleteNext
       \/ overflowMessage => (Inside(tty) => Inside(tty') /\ (deleting => deleting'))]_vars
=============================================================================
