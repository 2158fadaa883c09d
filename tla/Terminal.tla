------------------------------ MODULE Terminal ------------------------------
(***************************************************************************)
(* The operations of the video driver, Kernel/drivers/video_driver.c, as   *)
(* functions of its state: modules Console and Shell make steps of them.   *)
(* Positions are pixels, FONT_SIZE is 1.  A pixel holds the character it   *)
(* belongs to, not a colour; BACKGROUND is the pixel of no character.  The *)
(* pixels lie in a row, as in the frame buffer: one past the end of a line *)
(* is the first of the next, and those outside the frame buffer are not in *)
(* the model.                                                              *)
(***************************************************************************)
EXTENDS Integers, Sequences, SequencesExt

CONSTANTS
  SCREEN_WIDTH, SCREEN_HEIGHT, CHAR_WIDTH, CHAR_HEIGHT,
  BACKGROUND    \* also the character ' '

ASSUME TerminalAssumption ==
  /\ CHAR_WIDTH \in Nat \ {0} /\ CHAR_HEIGHT \in Nat \ {0}
  /\ SCREEN_WIDTH \in Nat /\ SCREEN_HEIGHT \in Nat
  /\ CHAR_WIDTH <= SCREEN_WIDTH /\ 2 * CHAR_HEIGHT <= SCREEN_HEIGHT

Pixels == 0 .. (SCREEN_WIDTH * SCREEN_HEIGHT - 1)
get_pixel(x, y) == y * SCREEN_WIDTH + x

(* The pixels of a rectangle.                                              *)
Area(x, y, b, h) ==
  {get_pixel(x + i, y + j) : i \in 0 .. (b - 1), j \in 0 .. (h - 1)}

(* The driver's state: the cursor, the margins and the frame buffer.       *)
Blank == [x |-> 0, y |-> 0, left |-> 0, right |-> SCREEN_WIDTH,
          px |-> [i \in Pixels |-> BACKGROUND]]

paint(t, area, c) == [t EXCEPT !.px = [i \in Pixels |-> IF i \in area THEN c ELSE @[i]]]
-----------------------------------------------------------------------------
(* Each line of pixels between the margins takes those a character below;  *)
(* the last ones are left blank.                                           *)
Shift(t, from, to, last) ==
  LET moved(x, y) == IF y < SCREEN_HEIGHT - CHAR_HEIGHT
                     THEN t.px[get_pixel(x, y + CHAR_HEIGHT)] ELSE last[get_pixel(x, y)] IN
  [t EXCEPT !.px = [i \in Pixels |-> LET x == i % SCREEN_WIDTH IN
                      IF from <= x /\ x < to THEN moved(x, i \div SCREEN_WIDTH) ELSE @[i]],
            !.y = @ - CHAR_HEIGHT, !.x = t.left]

scroll_KeepsLast(t) == Shift(t, t.left, t.right, t.px)

scroll_WholeScreen(t) == Shift(t, 0, SCREEN_WIDTH, Blank.px)

scroll(t) == Shift(t, t.left, t.right, Blank.px)

newLine_NoScroll(t) == [t EXCEPT !.x = t.left, !.y = @ + CHAR_HEIGHT]

newLine(t) ==
  LET down == [t EXCEPT !.x = t.left, !.y = @ + CHAR_HEIGHT] IN
  IF down.y >= SCREEN_HEIGHT THEN scroll(down) ELSE down

Overflows(t, x) == x + CHAR_WIDTH > t.right

(* Drawing does not move the cursor.                                       *)
draw_char_personalized(t, x, y, c) ==
  IF ~ Overflows(t, x) THEN paint(t, Area(x, y, CHAR_WIDTH, CHAR_HEIGHT), c)
  ELSE IF y + CHAR_HEIGHT >= SCREEN_HEIGHT THEN t
  ELSE paint(t, Area(t.left, y + CHAR_HEIGHT, CHAR_WIDTH, CHAR_HEIGHT), c)

draw_char(t, c) ==
  LET at == IF Overflows(t, t.x) THEN newLine(t) ELSE t IN
  [draw_char_personalized(at, at.x, at.y, c) EXCEPT !.x = @ + CHAR_WIDTH]

draw_string(t, s) ==
  LET drawn[n \in 0 .. Len(s)] == IF n = 0 THEN t ELSE draw_char(drawn[n - 1], s[n])
  IN drawn[Len(s)]

delete_char_NoWrap(t) ==
  LET drawn == draw_char([t EXCEPT !.x = @ - CHAR_WIDTH], BACKGROUND)
  IN [drawn EXCEPT !.x = @ - CHAR_WIDTH]

(* The character before the cursor, on the line above if need be, becomes  *)
(* a blank.                                                                *)
delete_char(t) ==
  LET back  == IF t.x = t.left THEN [t EXCEPT !.x = t.right, !.y = @ - CHAR_HEIGHT] ELSE t
      drawn == draw_char([back EXCEPT !.x = @ - CHAR_WIDTH], BACKGROUND)
  IN [drawn EXCEPT !.x = @ - CHAR_WIDTH]

(* Both clear one column and one line more than there are.                 *)
clean(t) ==
  [paint(t, Area(t.left, 0, t.right - t.left + 1, SCREEN_HEIGHT + 1), BACKGROUND)
     EXCEPT !.x = t.left, !.y = 0]

clean_all(t) ==
  [paint(t, Area(0, 0, SCREEN_WIDTH + 1, SCREEN_HEIGHT + 1), BACKGROUND)
     EXCEPT !.x = 0, !.y = 0]
=============================================================================
