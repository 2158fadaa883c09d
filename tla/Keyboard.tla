------------------------------ MODULE Keyboard ------------------------------
(***************************************************************************)
(* The keyboard driver, Kernel/drivers/keyboard_driver.c.  Two actors      *)
(* share the buffer: the handler of IRQ 1, which runs to its end with      *)
(* interrupts off (an interrupt gate), and getLastInput, which sys_read    *)
(* calls with interrupts on (int_80 begins with sti).  The build has no    *)
(* optimisation, so getLastInput reloads each static from memory, and      *)
(* `size--' is a load and a store; it takes one step per memory access     *)
(* and the handler may run between any two of them.                        *)
(***************************************************************************)
EXTENDS Integers, Sequences

CONSTANTS
  BUFFER_SIZE,
  Bytes,        \* the values of a byte
  Codes,        \* the keys the keyboard has
  Unmapped,     \* those of them whose make code is beyond asciiMap
  asciiMap,     \* [Codes \ Unmapped -> <<plain, shifted>>]
  Letters,      \* the keys whose two characters are one letter's cases
  MaxTyped      \* bound: characters accepted in one behaviour

(* The byte 0.                                                             *)
NUL == "NUL"

Special == {"CTRL", "LSHIFT", "RSHIFT", "CAPS"}

ASSUME KeyboardAssumption ==
  /\ BUFFER_SIZE \in Nat \ {0}
  /\ NUL \in Bytes
  /\ Unmapped \subseteq Codes \ Special
  /\ Letters \subseteq Codes \ Unmapped
  /\ \A k \in Codes \ Unmapped, n \in 1 .. 2 : asciiMap[k][n] \in Bytes
  /\ \A k \in Letters, j \in Codes \ Unmapped, n \in 1 .. 2 :
       asciiMap[k][n] # NUL /\ (asciiMap[j][n] = asciiMap[k][n] => j = k)
  /\ MaxTyped \in Nat

(* What the handler types: any byte but 0.                                 *)
Chars == Bytes \ {NUL}

(* The macros toLowerCase and toUpperCase: a letter's two columns are its  *)
(* two cases, other bytes stay.                                            *)
toLowerCase(c) ==
  IF \E k \in Letters : c = asciiMap[k][2]
  THEN asciiMap[CHOOSE k \in Letters : c = asciiMap[k][2]][1] ELSE c
toUpperCase(c) ==
  IF \E k \in Letters : c = asciiMap[k][1]
  THEN asciiMap[CHOOSE k \in Letters : c = asciiMap[k][1]][2] ELSE c

VARIABLES
  buffer,
  endPosition, size,
  LCKD,         \* the four flags LSHIFT_LCKD, RSHIFT_LCKD, CAPS_LCKD, CTRL_LCKD
  pc,           \* the next memory access of getLastInput, or idle
  eax,          \* the value it loaded last
  result,       \* the value the last call returned
  unread,       \* ghost: the characters accepted and not yet returned
  accepted, taken,  \* ghost: characters accepted; calls that took one
  lost,         \* ghost: characters accepted inside a `size--'
  raced,        \* ghost: the handler has accepted a character during a call
  spilled,      \* ghost: a character was accepted by a full buffer
  expected,     \* ghost: what the call in progress may rightly return
  strayed,      \* ghost: a key took endPosition to 0 after the test for 0
  held,         \* ghost: the modifier keys down, by the codes that came
  toggled       \* ghost: CAPS has been pressed an odd number of times

driver == <<buffer, endPosition, size>>
reader == <<pc, eax, result>>
ghosts == <<unread, accepted, taken, lost, raced, spilled, expected, strayed>>
keys == <<held, toggled>>
vars == <<driver, LCKD, reader, ghosts, keys>>

Last(s) == IF s = <<>> THEN NUL ELSE s[Len(s)]

Init ==
  /\ buffer = [i \in 0 .. (BUFFER_SIZE - 1) |-> NUL]
  /\ endPosition = 0 /\ size = 0
  /\ LCKD = [k \in Special |-> FALSE]
  /\ pc = "idle" /\ eax = 0 /\ result = NUL
  /\ unread = <<>> /\ accepted = 0 /\ taken = 0 /\ lost = 0
  /\ raced = FALSE /\ spilled = FALSE /\ expected = {} /\ strayed = FALSE
  /\ held = {} /\ toggled = FALSE
-----------------------------------------------------------------------------
(* keyboard_handler *)

advance_NoWrap(i) == IF i = BUFFER_SIZE - 1 THEN i ELSE i + 1

(* The remainder of C: of a negative number it is negative.                *)
advance(i) == IF i + 1 < 0 THEN - ((- (i + 1)) % BUFFER_SIZE) ELSE (i + 1) % BUFFER_SIZE

(* The flags after a key is pressed.                                       *)
lock(code) ==
  [k \in Special |-> IF k # code THEN LCKD[k]
                     ELSE IF k = "CAPS" THEN ~ LCKD[k] ELSE TRUE]

unlock_Shifts(code) ==
  [k \in Special |-> LCKD[k] /\ k # code /\ ~ {k, code} \subseteq {"LSHIFT", "RSHIFT"}]

(* The flags after a key is released.                                      *)
unlock(code) == [LCKD EXCEPT ![code] = FALSE]

(* Reading a row asciiMap does not have gives the byte that lies there,    *)
(* which may be any.                                                       *)
column(code, i) == IF code \in Unmapped THEN Bytes ELSE {asciiMap[code][i]}

(* The bytes a key may stand for under the flags f; NUL for none.     *)
translate(code, f) ==
  LET shift == f["LSHIFT"] \/ f["RSHIFT"] IN
  CASE shift /\ f["CAPS"] -> {toLowerCase(c) : c \in column(code, 2)}
    [] shift /\ ~ f["CAPS"] -> column(code, 2)
    [] ~ shift /\ f["CAPS"] -> {toUpperCase(c) : c \in column(code, 1)}
    [] ~ shift /\ ~ f["CAPS"] /\ f["CTRL"] -> {NUL}      \* saveRegs
    [] OTHER -> column(code, 1)

(* A negative endPosition stores into some other static, not modelled.     *)
addToBuffer(c) ==
  /\ accepted < MaxTyped
  /\ buffer' = [i \in DOMAIN buffer |-> IF i = endPosition THEN c ELSE buffer[i]]
  /\ endPosition' = advance(endPosition)
  /\ size' = size + 1
  /\ unread' = Append(unread, c)
  /\ accepted' = accepted + 1
  /\ lost' = IF pc = "storeSize" THEN lost + 1 ELSE lost
  /\ raced' = (raced \/ pc # "idle")
  /\ spilled' = (spilled \/ size >= BUFFER_SIZE)
  /\ expected' = IF pc = "idle" THEN expected ELSE expected \cup {c}
  /\ strayed' = (strayed \/ (pc = "loadEnd" /\ endPosition' = 0))
  /\ UNCHANGED taken

(* A full buffer only gets a message on the screen: the character is       *)
(* stored all the same.                                                    *)
press(code) ==
  /\ LCKD' = lock(code)
  /\ held' = held \cup ({code} \cap {"CTRL", "LSHIFT", "RSHIFT"})
  /\ toggled' = (toggled # (code = "CAPS"))
  /\ \E c \in translate(code, LCKD') :
       \/ c # NUL /\ addToBuffer(c)
       \/ c = NUL /\ UNCHANGED <<driver, ghosts>>
  /\ UNCHANGED reader

release(code) ==
  /\ code \in Special \ {"CAPS"}
  /\ LCKD' = unlock(code)
  /\ held' = held \ {code}
  /\ UNCHANGED <<driver, reader, ghosts, toggled>>
-----------------------------------------------------------------------------
(* getLastInput, one memory access at a time.                              *)

call ==
  /\ pc = "idle"
  /\ pc' = "testSize"
  /\ expected' = {Last(unread)}
  /\ UNCHANGED <<driver, LCKD, eax, result, keys>>
  /\ UNCHANGED <<unread, accepted, taken, lost, raced, spilled, strayed>>

Empty_Below == size < 0

Empty == size <= 0

testSize ==
  /\ pc = "testSize"
  /\ \/ Empty /\ result' = NUL /\ pc' = "idle"
     \/ ~ Empty /\ pc' = "testEnd" /\ UNCHANGED result
  /\ UNCHANGED <<driver, LCKD, eax, ghosts, keys>>

AtStart_Never == FALSE

AtStart == endPosition = 0

testEnd ==
  /\ pc = "testEnd"
  /\ pc' = IF AtStart THEN "wrapEnd" ELSE "loadEnd"
  /\ UNCHANGED <<driver, LCKD, eax, result, ghosts, keys>>

wrapEnd ==
  /\ pc = "wrapEnd"
  /\ endPosition' = BUFFER_SIZE - 1
  /\ pc' = "loadSize"
  /\ UNCHANGED <<buffer, size, LCKD, eax, result, ghosts, keys>>

loadEnd ==
  /\ pc = "loadEnd"
  /\ eax' = endPosition
  /\ pc' = "storeEnd"
  /\ UNCHANGED <<driver, LCKD, result, ghosts, keys>>

storeEnd ==
  /\ pc = "storeEnd"
  /\ endPosition' = eax - 1
  /\ pc' = "loadSize"
  /\ UNCHANGED <<buffer, size, LCKD, eax, result, ghosts, keys>>

loadSize ==
  /\ pc = "loadSize"
  /\ eax' = size
  /\ pc' = "storeSize"
  /\ UNCHANGED <<driver, LCKD, result, ghosts, keys>>

less_Not(n) == n

less(n) == n - 1

storeSize ==
  /\ pc = "storeSize"
  /\ size' = less(eax)
  /\ taken' = taken + 1
  /\ pc' = "loadIndex"
  /\ UNCHANGED <<buffer, endPosition, LCKD, eax, result, keys>>
  /\ UNCHANGED <<unread, accepted, lost, raced, spilled, expected, strayed>>

loadIndex ==
  /\ pc = "loadIndex"
  /\ eax' = endPosition
  /\ pc' = "readBuffer"
  /\ UNCHANGED <<driver, LCKD, result, ghosts, keys>>

(* What a negative index reads is some other static's.                     *)
readBuffer ==
  /\ pc = "readBuffer"
  /\ result' \in IF eax \in DOMAIN buffer THEN {buffer[eax]} ELSE Bytes
  /\ unread' = IF unread = <<>> THEN unread ELSE SubSeq(unread, 1, Len(unread) - 1)
  /\ pc' = "idle"
  /\ UNCHANGED <<driver, LCKD, eax, keys>>
  /\ UNCHANGED <<accepted, taken, lost, raced, spilled, expected, strayed>>

Read == testSize \/ testEnd \/ wrapEnd \/ loadEnd \/ storeEnd \/ loadSize \/ storeSize
          \/ loadIndex \/ readBuffer

Next ==
  \/ \E code \in Codes : press(code) \/ release(code)
  \/ call
  \/ Read

Spec == Init /\ [][Next]_vars

(* The shell polls sys_read for ever, and a call is not held up by keys:   *)
(* the handler's interrupts are as rare as key strokes.                    *)
FairSpec == Spec /\ WF_vars(Read) /\ WF_vars(call)
-----------------------------------------------------------------------------
Pcs == {"idle", "testSize", "testEnd", "wrapEnd", "loadEnd", "storeEnd", "loadSize",
        "storeSize", "loadIndex", "readBuffer"}

(* Whatever bytes the keys type, and however the handler and getLastInput  *)
(* interleave, endPosition is inside the buffer, so that no key is stored  *)
(* and no answer read beside it, unless one thing has happened: a key took *)
(* it round to 0 between getLastInput's test for 0 and its decrement       *)
(* (lines 144, 171 and 179).                                               *)
TypeOK ==
  /\ buffer \in [0 .. (BUFFER_SIZE - 1) -> Bytes]
  /\ endPosition \in (IF strayed THEN - MaxTyped ELSE 0) .. (BUFFER_SIZE - 1)
  /\ size \in Int
  /\ LCKD \in [Special -> BOOLEAN]
  /\ pc \in Pcs /\ eax \in Int /\ result \in Bytes
  /\ unread \in Seq(Chars)
  /\ accepted \in 0 .. MaxTyped /\ taken \in Nat /\ lost \in 0 .. MaxTyped
  /\ raced \in BOOLEAN /\ spilled \in BOOLEAN /\ expected \subseteq Bytes
  /\ strayed \in BOOLEAN /\ held \subseteq Special \ {"CAPS"} /\ toggled \in BOOLEAN

(* While no key has arrived inside a call and the buffer has not been      *)
(* overrun, the cells below endPosition hold exactly the unread            *)
(* characters, newest on top, across any number of wrap-arounds in either  *)
(* direction (lines 143-144 and 171-180).                                  *)
QuietStack ==
  pc = "idle" /\ ~ raced /\ ~ spilled =>
    /\ size = Len(unread)
    /\ \A i \in 1 .. Len(unread) :
         buffer[(endPosition - 1 - (Len(unread) - i)) % BUFFER_SIZE] = unread[i]

(* What a mapped key adds, by the modifier keys that are down.             *)
Types(k) ==
  LET shifted == \E shift \in held' : shift \in {"LSHIFT", "RSHIFT"}
      upper == IF k \in Letters THEN shifted # toggled' ELSE shifted
      c == asciiMap[k][IF upper THEN 2 ELSE 1]
      silent == c = NUL \/ ("CTRL" \in held' /\ ~ shifted /\ ~ toggled')
  IN  unread' = IF silent THEN unread ELSE Append(unread, c)

(* What a key types follows from the modifier keys that are down, pressed  *)
(* and released in any order, repeats included: a letter comes out in      *)
(* upper case exactly when a shift key is down or CAPS is on, but not      *)
(* both; CAPS leaves other keys alone; CTRL without shift and CAPS types   *)
(* nothing (lines 66-137 and the macros at 13-14).                         *)
CaseOfKeys == [][\A k \in Codes \ Unmapped : press(k) => Types(k)]_vars

(* The keys that arrive between the load and the store of `size--' (lines  *)
(* 174 and 180) are the only ones the count forgets, and no interleaving   *)
(* ever takes it below zero or makes it count a character twice.           *)
CountKept ==
  /\ size >= 0
  /\ pc = "idle" => size = accepted - taken - lost

(* However keys and calls interleave, and however far the buffer was       *)
(* overrun, the driver reports itself empty once the keys stop.            *)
Drains == <>[](size = 0)
-----------------------------------------------------------------------------
(* What the comments say.                                                  *)

(* Line 164: `Return the last input read from the keyboard and consumes    *)
(* it. Returns 0 if buffer empty'.  An answer is right if at some moment   *)
(* of the call it was the newest unread character, or 0 and there was none.*)
ReturnsLastInput ==
  [][pc # "idle" /\ pc' = "idle" /\ taken <= accepted => result' \in expected]_vars
=============================================================================
