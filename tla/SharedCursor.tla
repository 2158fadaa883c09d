---------------------------- MODULE SharedCursor ----------------------------
(***************************************************************************)
(* sys_write with interrupts on (int_80 begins with sti), against the      *)
(* message the keyboard handler writes, with the same cursor, when its     *)
(* buffer is full.  The handler runs to its end; sys_write takes one step  *)
(* for each access to cursor_x or cursor_y, in the order of the compiled   *)
(* code, and one to draw a character or to move the lines up.              *)
(***************************************************************************)
EXTENDS Writing

(* No string is empty, and the lines of characters fill the screen: 768 is *)
(* 48 times 16.                                                            *)
ASSUME SharedCursorAssumption ==
  /\ <<>> \notin Strings /\ Len(Message) \in Nat
  /\ SCREEN_HEIGHT % CHAR_HEIGHT = 0

VARIABLES
  pc, eax,
  text                 \* what is left of the string, from the current character

writer == <<tty, pc, eax, text>>

WriterInit ==
  /\ tty = Blank /\ pc = "idle" /\ eax = 0 /\ text = <<>>
-----------------------------------------------------------------------------
int_80(s) ==
  /\ pc = "idle"
  /\ pc' = "test" /\ text' = s
  /\ UNCHANGED <<tty, eax>>

Goto(from, to) == pc = from /\ pc' = to

Load(from, v, to) ==
  Goto(from, to) /\ eax' = v /\ UNCHANGED <<tty, text>>

Store(from, t, to) ==
  Goto(from, to) /\ tty' = t /\ UNCHANGED <<eax, text>>

X(v) == [tty EXCEPT !.x = v]
Y(v) == [tty EXCEPT !.y = v]

(* draw_char, up to where the character goes.                              *)
test ==
  /\ Goto("test", IF Overflows(tty, tty.x) THEN "wrapX" ELSE "loadRow")
  /\ UNCHANGED <<tty, eax, text>>

wrapX     == Store("wrapX", X(tty.left), "loadDown")
loadDown  == Load("loadDown", tty.y, "storeDown")
storeDown == Store("storeDown", Y(eax + CHAR_HEIGHT), "testDown")

AtBottom_Past == tty.y > SCREEN_HEIGHT

AtBottom == tty.y >= SCREEN_HEIGHT

testDown ==
  /\ Goto("testDown", IF AtBottom THEN "scroll" ELSE "loadRow")
  /\ UNCHANGED <<tty, eax, text>>

(* scroll *)
scrollUp ==
  /\ Goto("scroll", "loadUp")
  /\ tty' = [tty EXCEPT !.px = scroll(tty).px]
  /\ UNCHANGED <<eax, text>>

loadUp  == Load("loadUp", tty.y, "storeUp")
storeUp == Store("storeUp", Y(eax - CHAR_HEIGHT), "scrollX")
scrollX == Store("scrollX", X(tty.left), "loadRow")

(* The arguments of draw_char_personalized: first the line, then, with the *)
(* character drawn, the column.                                            *)
loadRow == Load("loadRow", tty.y, "draw")

draw ==
  /\ Goto("draw", "loadX")
  /\ tty' = draw_char_personalized(tty, tty.x, eax, Head(text))
  /\ UNCHANGED <<eax, text>>

loadX == Load("loadX", tty.x, "storeX")

storeX ==
  /\ Goto("storeX", IF Len(text) = 1 THEN "idle" ELSE "test")
  /\ tty' = X(eax + CHAR_WIDTH)
  /\ text' = Tail(text)
  /\ UNCHANGED eax

(* The message of a full buffer.                                           *)
keyboard_handler ==
  /\ tty' = draw_string(tty, Message)
  /\ UNCHANGED <<pc, eax, text>>

Write == test \/ wrapX \/ loadDown \/ storeDown \/ testDown \/ scrollUp \/ loadUp \/ storeUp
           \/ scrollX \/ loadRow \/ draw \/ loadX \/ storeX

WriterNext == (\E s \in Strings : int_80(s)) \/ Write \/ keyboard_handler

WriterSpec == WriterInit /\ [][WriterNext]_writer
-----------------------------------------------------------------------------
(* However a write and the messages interleave, the cursor is back on the  *)
(* screen when the write is done, and the next character finds it at most  *)
(* one too far right: the lost updates never add up.                       *)
CursorComesBack ==
  /\ 0 <= tty.y /\ tty.y <= SCREEN_HEIGHT
  /\ tty.left <= tty.x /\ tty.x <= tty.right + CHAR_WIDTH
  /\ pc = "idle" => tty.y < SCREEN_HEIGHT
=============================================================================
