---------------------------- MODULE ShellProofs ----------------------------
(* The line editor on the terminal, proved for screens, lines, commands    *)
(* and what commands write of all sizes; and after it get_time, the        *)
(* command that reads the clock, proved for every time of day.             *)
EXTENDS Shell, Clock, SequenceTheorems, WellFoundedInduction, TLAPS

Cells == COLS * ROWS

(* The cells and the cursor of a screen that need not be tty.              *)
Cell(t, q) == t.px[get_pixel((q % COLS) * CHAR_WIDTH, (q \div COLS) * CHAR_HEIGHT)]
At(t) == (t.y \div CHAR_HEIGHT) * COLS + t.x \div CHAR_WIDTH

(* The cursor is on column c of row r, or at the end of the row.           *)
Placed(t, r, c) ==
  /\ DOMAIN t = {"x", "y", "left", "right", "px"} /\ DOMAIN t.px = Pixels
  /\ t.left = 0 /\ t.right = SCREEN_WIDTH
  /\ t.x = c * CHAR_WIDTH /\ t.y = r * CHAR_HEIGHT

(* The cursor is on a cell and nothing is behind it.                       *)
Neat(t) ==
  /\ \E r \in 0 .. (ROWS - 1), c \in 0 .. COLS : Placed(t, r, c)
  /\ \A q \in At(t) .. (Cells - 1) : Cell(t, q) = BACKGROUND

(* The prompt and the line, which ends at the cursor.                      *)
Inv ==
  /\ Neat(tty)
  /\ buffersize \in 0 .. (BUFFER_SIZE + 1) /\ buffersize < At(tty)
  /\ terminalBuffer \in [0 .. BUFFER_SIZE -> Letters \cup {NUL}]
  /\ \A k \in 0 .. (buffersize - 1) : terminalBuffer[k] \in Letters
  /\ Cell(tty, At(tty) - buffersize - 1) = PROMPT
  /\ \A k \in 0 .. (buffersize - 1) : Cell(tty, At(tty) - buffersize + k) = terminalBuffer[k]
  /\ commandList = Commands
-----------------------------------------------------------------------------
(* Division by the size of a cell, of a line or of a row.                  *)
LEMMA Divided ==
  ASSUME NEW n \in Nat \ {0}, NEW q \in Int, NEW r \in 0 .. (n - 1)
  PROVE  (q * n + r) \div n = q /\ (q * n + r) % n = r
<1>1. PICK i \in Int : i = q * n + r
  OBVIOUS
<1>2. PICK k \in Int, c \in 0 .. (n - 1) : k = i \div n /\ c = i % n /\ i = n * k + c
  BY <1>1
<1>3. n * (q - k) = c - r
  BY <1>1, <1>2
<1>4. CASE q - k >= 1
  <2>1. n * (q - k) >= n
    BY <1>4
  <2> QED
    BY <1>3, <2>1
<1>5. CASE q - k <= -1
  <2>1. n * (q - k) <= - n
    BY <1>5
  <2> QED
    BY <1>3, <2>1
<1>6. CASE q = k
  BY <1>1, <1>2, <1>6
<1> QED
  BY <1>4, <1>5, <1>6

LEMMA Sizes ==
  \E w, h, C \in Nat \ {0}, R, W, H, N \in Nat :
    /\ w = CHAR_WIDTH /\ h = CHAR_HEIGHT /\ C = COLS /\ R = ROWS /\ N = Cells
    /\ W = SCREEN_WIDTH /\ H = SCREEN_HEIGHT
    /\ W = C * w /\ H = R * h /\ N = C * R /\ R >= 2 /\ W > 0
<1>1. PICK w, h \in Nat \ {0}, W, H \in Nat :
        /\ w = CHAR_WIDTH /\ h = CHAR_HEIGHT /\ W = SCREEN_WIDTH /\ H = SCREEN_HEIGHT
        /\ w <= W /\ 2 * h <= H /\ W % w = 0 /\ H % h = 0
  BY TerminalAssumption, ShellAssumption
<1>2. PICK C, R \in Nat : C = W \div w /\ R = H \div h /\ W = w * C /\ H = h * R
  <2>1. W = w * (W \div w) + (W % w) /\ W \div w \in Nat
    BY <1>1
  <2>2. H = h * (H \div h) + (H % h) /\ H \div h \in Nat
    BY <1>1
  <2>3. PICK C, R \in Nat : C = W \div w /\ R = H \div h
    BY <2>1, <2>2
  <2> QED
    BY <1>1, <2>1, <2>2, <2>3
<1>3. W = C * w /\ H = R * h
  BY <1>1, <1>2
<1>4. C # 0 /\ R # 0 /\ R # 1
  BY <1>1, <1>3
<1>5. C \in Nat \ {0} /\ R >= 2 /\ W > 0 /\ C * R \in Nat
  BY <1>1, <1>2, <1>4
<1>6. PICK N \in Nat : N = C * R
  BY <1>5
<1>7. C = COLS /\ R = ROWS /\ N = Cells
  BY <1>1, <1>2, <1>6 DEF COLS, ROWS, Cells
<1> QED
  BY <1>1, <1>3, <1>5, <1>6, <1>7

(* The first pixel of a cell.                                              *)
Corner(q) == get_pixel((q % COLS) * CHAR_WIDTH, (q \div COLS) * CHAR_HEIGHT)

LEMMA CellFacts ==
  ASSUME NEW q \in 0 .. (Cells - 1)
  PROVE  \E r \in 0 .. (ROWS - 1), c \in 0 .. (COLS - 1) :
           /\ q = r * COLS + c /\ r = q \div COLS /\ c = q % COLS
           /\ Corner(q) = r * CHAR_HEIGHT * SCREEN_WIDTH + c * CHAR_WIDTH
           /\ Corner(q) \in Pixels
           /\ Corner(q) % SCREEN_WIDTH = c * CHAR_WIDTH
           /\ Corner(q) \div SCREEN_WIDTH = r * CHAR_HEIGHT
<1>1. PICK w, h, C \in Nat \ {0}, R, W, H, N \in Nat :
        /\ w = CHAR_WIDTH /\ h = CHAR_HEIGHT /\ C = COLS /\ R = ROWS /\ N = Cells
        /\ W = SCREEN_WIDTH /\ H = SCREEN_HEIGHT
        /\ W = C * w /\ H = R * h /\ N = C * R /\ R >= 2 /\ W > 0
  BY Sizes
<1>2. q \in Nat /\ q < C * R
  BY <1>1
<1>3. PICK r \in Nat, c \in 0 .. (C - 1) : r = q \div C /\ c = q % C /\ q = r * C + c
  BY <1>1, <1>2
<1>4. r <= R - 1
  <2>1. CASE r >= R
    <3>1. r * C >= R * C
      BY <2>1
    <3> QED
      BY <1>2, <1>3, <3>1
  <2> QED
    BY <2>1
<1>5. PICK x \in 0 .. (W - 1), y \in Nat : x = c * w /\ y = r * h /\ y + h <= H
  <2>1. c * w <= (C - 1) * w /\ (C - 1) * w = W - w
    BY <1>1
  <2>2. (r + 1) * h <= R * h /\ (r + 1) * h = r * h + h
    BY <1>1, <1>4
  <2>3. c * w \in Nat /\ r * h \in Nat
    BY <1>1
  <2> QED
    BY <1>1, <2>1, <2>2, <2>3
<1>6. PICK i \in Int : i = y * W + x
  OBVIOUS
<1>7. i \div W = y /\ i % W = x
  BY <1>1, <1>5, <1>6, Divided
<1>8. i \in 0 .. (W * H - 1)
  <2>1. (y + 1) * W <= H * W
    BY <1>1, <1>5
  <2>2. (y + 1) * W = y * W + W /\ y * W \in Nat /\ H * W = W * H /\ W * H \in Nat
    BY <1>5
  <2> QED
    BY <1>6, <2>1, <2>2
<1>9. Corner(q) = i
  BY <1>1, <1>3, <1>5, <1>6 DEF Corner, get_pixel
<1>10. /\ r \in 0 .. (R - 1) /\ Corner(q) = r * h * W + c * w /\ Corner(q) % W = c * w
       /\ Corner(q) \div W = r * h
  BY <1>1, <1>4, <1>5, <1>6, <1>7, <1>9
<1>11. Corner(q) \in Pixels
  BY <1>1, <1>8, <1>9 DEF Pixels
<1> QED
  BY <1>1, <1>3, <1>10, <1>11
(* The cursor's place, from its row and column.                            *)
LEMMA PlaceFacts ==
  ASSUME NEW t, NEW r \in 0 .. (ROWS - 1), NEW c \in 0 .. COLS, Placed(t, r, c)
  PROVE  /\ At(t) = r * COLS + c /\ At(t) \in 0 .. Cells
         /\ At(t) = Cells <=> r = ROWS - 1 /\ c = COLS
         /\ (r + 1) * COLS \in Nat /\ (r + 1) * COLS <= Cells /\ At(t) <= (r + 1) * COLS
<1>1. PICK w, h, C \in Nat \ {0}, R, W, H, N \in Nat :
        /\ w = CHAR_WIDTH /\ h = CHAR_HEIGHT /\ C = COLS /\ R = ROWS /\ N = Cells
        /\ W = SCREEN_WIDTH /\ H = SCREEN_HEIGHT
        /\ W = C * w /\ H = R * h /\ N = C * R /\ R >= 2 /\ W > 0
  BY Sizes
<1>2. (c * w) \div w = c /\ (r * h) \div h = r
  <2>1. (c * w + 0) \div w = c /\ (r * h + 0) \div h = r
    BY <1>1, Divided
  <2>2. c * w + 0 = c * w /\ r * h + 0 = r * h
    BY <1>1
  <2> QED
    BY <2>1, <2>2
<1>3. PICK a, b \in Int : a = c * w /\ b = r * h /\ a \div w = c /\ b \div h = r
  BY <1>1, <1>2
<1>4. t.x \div CHAR_WIDTH = c /\ t.y \div CHAR_HEIGHT = r
  BY <1>1, <1>3 DEF Placed
<1>5. At(t) = r * C + c
  BY <1>1, <1>4 DEF At
<1>6. (r + 1) * C = r * C + C /\ (r + 1) * C <= R * C /\ r * C \in Nat /\ R * C = C * R
  BY <1>1
<1>7. r # R - 1 => r * C + C + C <= N
  <2> SUFFICES ASSUME r # R - 1 PROVE r * C + C + C <= N
    OBVIOUS
  <2>1. r + 2 <= R
    BY <1>1
  <2>2. (r + 2) * C <= R * C /\ (r + 2) * C = r * C + C + C
    BY <1>1, <2>1
  <2> QED
    BY <1>1, <1>6, <2>2
<1>8. r = R - 1 => r * C + C = N
  BY <1>1, <1>6
<1>9. PICK k \in Nat : k = r * C /\ k + C <= N /\ (r + 1) * C = k + C
  BY <1>1, <1>6
<1>10. At(t) = k + c /\ k + c \in 0 .. N /\ (k + c = N <=> r = R - 1 /\ c = C)
  BY <1>1, <1>5, <1>7, <1>8, <1>9
<1> QED
  BY <1>1, <1>5, <1>9, <1>10

(* A rectangle of the size of a character on a cell has the corner of that *)
(* cell and of no other.                                                   *)
LEMMA CornerIn ==
  ASSUME NEW q \in 0 .. (Cells - 1), NEW r \in 0 .. (ROWS - 1), NEW c \in 0 .. (COLS - 1)
  PROVE  Corner(q) \in Area(c * CHAR_WIDTH, r * CHAR_HEIGHT, CHAR_WIDTH, CHAR_HEIGHT)
           <=> q = r * COLS + c
<1>1. PICK w, h, C \in Nat \ {0}, R, W, H, N \in Nat :
        /\ w = CHAR_WIDTH /\ h = CHAR_HEIGHT /\ C = COLS /\ R = ROWS /\ N = Cells
        /\ W = SCREEN_WIDTH /\ H = SCREEN_HEIGHT
        /\ W = C * w /\ H = R * h /\ N = C * R /\ R >= 2 /\ W > 0
  BY Sizes
<1>2. PICK r1 \in 0 .. (R - 1), c1 \in 0 .. (C - 1) :
        /\ q = r1 * C + c1 /\ Corner(q) = r1 * h * W + c1 * w
        /\ Corner(q) % W = c1 * w /\ Corner(q) \div W = r1 * h
  BY <1>1, CellFacts
<1>3. ASSUME q = r * C + c PROVE Corner(q) \in Area(c * w, r * h, w, h)
  <2>1. r1 = r /\ c1 = c
    <3>1. (r1 * C + c1) \div C = r1 /\ (r1 * C + c1) % C = c1
      BY <1>1, Divided
    <3>2. (r * C + c) \div C = r /\ (r * C + c) % C = c
      BY <1>1, Divided
    <3> QED
      BY <1>2, <1>3, <3>1, <3>2
  <2>2. Corner(q) = get_pixel(c * w + 0, r * h + 0)
    <3>1. c * w + 0 = c * w /\ r * h + 0 = r * h
      BY <1>1
    <3> QED
      BY <1>1, <1>2, <2>1, <3>1 DEF get_pixel
  <2>3. 0 \in 0 .. (w - 1) /\ 0 \in 0 .. (h - 1)
    OBVIOUS
  <2> QED
    BY <2>2, <2>3 DEF Area
<1>4. ASSUME Corner(q) \in Area(c * w, r * h, w, h) PROVE q = r * C + c
  <2>1. PICK i \in 0 .. (w - 1), j \in 0 .. (h - 1) : Corner(q) = (r * h + j) * W + (c * w + i)
    BY <1>1, <1>4 DEF Area, get_pixel
  <2>2. c * w + i \in 0 .. (W - 1)
    <3>1. c * w <= (C - 1) * w /\ (C - 1) * w = W - w /\ c * w \in Nat
      BY <1>1
    <3> QED
      BY <1>1, <3>1
  <2>3. r * h + j \in Int
    BY <1>1
  <2>4. PICK x, y \in Int : /\ x = c * w + i /\ y = r * h + j /\ x \in 0 .. (W - 1)
                           /\ Corner(q) = y * W + x
    BY <2>1, <2>2, <2>3
  <2>5. Corner(q) \div W = y /\ Corner(q) % W = x
    BY <1>1, <2>4, Divided
  <2>6. c1 * w + 0 = c * w + i /\ r1 * h + 0 = r * h + j
    BY <1>1, <1>2, <2>4, <2>5
  <2>7. c1 = c /\ r1 = r
    <3>1. (c1 * w + 0) \div w = c1 /\ (r1 * h + 0) \div h = r1
      BY Divided
    <3>2. (c * w + i) \div w = c /\ (r * h + j) \div h = r
      BY <1>1, Divided
    <3> QED
      BY <2>6, <3>1, <3>2
  <2> QED
    BY <1>2, <2>7
<1> QED
  BY <1>1, <1>3, <1>4

(* Painting a cell.                                                        *)
LEMMA PaintCell ==
  ASSUME NEW t, NEW u, NEW v, NEW r \in 0 .. (ROWS - 1), NEW c \in 0 .. (COLS - 1),
         Placed(t, r, c),
         u = paint(t, Area(c * CHAR_WIDTH, r * CHAR_HEIGHT, CHAR_WIDTH, CHAR_HEIGHT), v)
  PROVE  /\ Placed(u, r, c)
         /\ \A q \in 0 .. (Cells - 1) : Cell(u, q) = IF q = r * COLS + c THEN v ELSE Cell(t, q)
<1>1. PICK area : area = Area(c * CHAR_WIDTH, r * CHAR_HEIGHT, CHAR_WIDTH, CHAR_HEIGHT)
  OBVIOUS
<1>2. u = [t EXCEPT !.px = [i \in Pixels |-> IF i \in area THEN v ELSE @[i]]]
  BY <1>1 DEF paint
<1>3. /\ DOMAIN u = DOMAIN t /\ u.x = t.x /\ u.y = t.y /\ u.left = t.left /\ u.right = t.right
      /\ u.px = [i \in Pixels |-> IF i \in area THEN v ELSE t.px[i]]
  BY <1>2 DEF Placed
<1>4. ASSUME NEW q \in 0 .. (Cells - 1)
      PROVE  Cell(u, q) = IF q = r * COLS + c THEN v ELSE Cell(t, q)
  <2>1. Corner(q) \in Pixels /\ (Corner(q) \in area <=> q = r * COLS + c)
    BY <1>1, CellFacts, CornerIn
  <2>2. u.px[Corner(q)] = IF q = r * COLS + c THEN v ELSE t.px[Corner(q)]
    BY <1>3, <2>1
  <2> QED
    BY <2>2 DEF Cell, Corner
<1> QED
  BY <1>3, <1>4 DEF Placed

LEMMA ScrollParts ==
  ASSUME NEW t, DOMAIN t = {"x", "y", "left", "right", "px"}
  PROVE  LET u == scroll(t) IN
         /\ DOMAIN u = DOMAIN t /\ u.x = t.left /\ u.y = t.y - CHAR_HEIGHT
         /\ u.left = t.left /\ u.right = t.right
         /\ u.px = [i \in Pixels |->
              LET x == i % SCREEN_WIDTH
                  y == i \div SCREEN_WIDTH
              IN IF t.left <= x /\ x < t.right
                 THEN IF y < SCREEN_HEIGHT - CHAR_HEIGHT THEN t.px[get_pixel(x, y + CHAR_HEIGHT)]
                      ELSE Blank.px[get_pixel(x, y)]
                 ELSE t.px[i]]
<1> HIDE DEF Blank, get_pixel
<1> QED
  BY DEF scroll, Shift

(* A new line, on the last row by moving the others up.                    *)
LEMMA NewLine ==
  ASSUME NEW t, NEW u, NEW r \in 0 .. (ROWS - 1), NEW c \in 0 .. COLS, Placed(t, r, c),
         u = newLine(t)
  PROVE  /\ r # ROWS - 1 =>
              Placed(u, r + 1, 0) /\ \A q \in 0 .. (Cells - 1) : Cell(u, q) = Cell(t, q)
         /\ r = ROWS - 1 =>
              /\ Placed(u, r, 0)
              /\ \A q \in 0 .. (Cells - 1) :
                   Cell(u, q) = IF q < Cells - COLS THEN Cell(t, q + COLS) ELSE BACKGROUND
<1>1. PICK w, h, C \in Nat \ {0}, R, W, H, N \in Nat :
        /\ w = CHAR_WIDTH /\ h = CHAR_HEIGHT /\ C = COLS /\ R = ROWS /\ N = Cells
        /\ W = SCREEN_WIDTH /\ H = SCREEN_HEIGHT
        /\ W = C * w /\ H = R * h /\ N = C * R /\ R >= 2 /\ W > 0
  BY Sizes
<1>2. PICK down : down = [t EXCEPT !.x = t.left, !.y = @ + CHAR_HEIGHT]
  OBVIOUS
<1>3. PICK y \in Nat : /\ y = r * h /\ (r + 1) * h = y + h
                       /\ (r = R - 1 <=> y + h >= H) /\ y + h - h = y
  <2>1. r * h \in Nat /\ (r + 1) * h = r * h + h
    BY <1>1
  <2>2. r = R - 1 => (r + 1) * h = H
    BY <1>1
  <2>3. r # R - 1 => (r + 1) * h < H
    <3> SUFFICES ASSUME r # R - 1 PROVE (r + 1) * h < R * h
      BY <1>1
    <3>1. r + 2 <= R
      BY <1>1
    <3>2. (r + 2) * h <= R * h /\ (r + 2) * h = (r + 1) * h + h /\ (r + 1) * h \in Nat
      BY <1>1, <3>1
    <3> QED
      BY <3>2
  <2>4. PICK y \in Nat : y = r * h
    BY <2>1
  <2> QED
    BY <1>1, <2>1, <2>2, <2>3, <2>4
<1>4. 0 * w = 0
  BY <1>1
<1>5. /\ DOMAIN down = {"x", "y", "left", "right", "px"} /\ down.px = t.px
      /\ down.left = 0 /\ down.right = W /\ down.x = 0 /\ down.y = y + h
  BY <1>1, <1>2, <1>3 DEF Placed
<1>6. u = IF y + h >= H THEN scroll(down) ELSE down
  BY <1>1, <1>2, <1>5 DEF newLine
<1>7. CASE r # R - 1
  <2>1. u = down
    BY <1>3, <1>6, <1>7
  <2>2. Placed(u, r + 1, 0)
    BY <1>1, <1>3, <1>4, <1>5, <2>1 DEF Placed
  <2>3. \A q \in 0 .. (Cells - 1) : Cell(u, q) = Cell(t, q)
    BY <1>5, <2>1 DEF Cell
  <2> QED
    BY <1>1, <1>7, <2>2, <2>3
<1>8. CASE r = R - 1
  <2>1. u = scroll(down)
    BY <1>3, <1>6, <1>8
  <2>2. /\ DOMAIN u = DOMAIN down /\ u.x = down.left /\ u.y = down.y - CHAR_HEIGHT
        /\ u.left = down.left /\ u.right = down.right
        /\ u.px = [i \in Pixels |->
             LET x == i % SCREEN_WIDTH
                 y1 == i \div SCREEN_WIDTH
             IN IF down.left <= x /\ x < down.right
                THEN IF y1 < SCREEN_HEIGHT - CHAR_HEIGHT
                     THEN down.px[get_pixel(x, y1 + CHAR_HEIGHT)]
                     ELSE Blank.px[get_pixel(x, y1)]
                ELSE down.px[i]]
    <3> HIDE DEF Blank, get_pixel
    <3> QED
      BY <1>5, <2>1, ScrollParts
  <2>3. u.left = 0 /\ u.right = W /\ u.x = 0 /\ u.y = y /\ DOMAIN u.px = Pixels
    BY <1>1, <1>3, <1>5, <2>2
  <2>4. Placed(u, r, 0)
    BY <1>1, <1>3, <1>4, <1>5, <2>2, <2>3 DEF Placed
  <2>5. ASSUME NEW q \in 0 .. (Cells - 1)
        PROVE  Cell(u, q) = IF q < Cells - COLS THEN Cell(t, q + COLS) ELSE BACKGROUND
    <3>1. PICK r1 \in 0 .. (R - 1), c1 \in 0 .. (C - 1) :
            /\ q = r1 * C + c1 /\ r1 = q \div C /\ c1 = q % C
            /\ Corner(q) \in Pixels
            /\ Corner(q) % W = c1 * w /\ Corner(q) \div W = r1 * h
      BY <1>1, CellFacts
    <3>2. c1 * w \in 0 .. (W - 1)
      <4>1. c1 * w <= (C - 1) * w /\ (C - 1) * w = W - w /\ c1 * w \in Nat
        BY <1>1
      <4> QED
        BY <1>1, <4>1
    <3>3. Cell(u, q) = IF r1 * h < H - h THEN t.px[get_pixel(c1 * w, r1 * h + h)]
                       ELSE Blank.px[get_pixel(c1 * w, r1 * h)]
      <4> HIDE DEF Blank, get_pixel
      <4>1. u.px[Corner(q)] =
              LET x == c1 * w IN
              IF 0 <= x /\ x < W
              THEN IF r1 * h < H - h THEN t.px[get_pixel(x, r1 * h + h)]
                   ELSE Blank.px[get_pixel(x, r1 * h)]
              ELSE t.px[Corner(q)]
        <5>1. PICK i \in Pixels : i = Corner(q) /\ i % W = c1 * w /\ i \div W = r1 * h
          BY <3>1
        <5>2. u.px[i] =
                LET x == i % W IN
                IF 0 <= x /\ x < W
                THEN IF i \div W < H - h THEN t.px[get_pixel(x, i \div W + h)]
                     ELSE Blank.px[get_pixel(x, i \div W)]
                ELSE t.px[i]
          <6>1. u.px[i] =
                  LET x == i % SCREEN_WIDTH
                      y1 == i \div SCREEN_WIDTH
                  IN IF down.left <= x /\ x < down.right
                     THEN IF y1 < SCREEN_HEIGHT - CHAR_HEIGHT
                          THEN down.px[get_pixel(x, y1 + CHAR_HEIGHT)]
                          ELSE Blank.px[get_pixel(x, y1)]
                     ELSE down.px[i]
            BY <5>1, <2>2
          <6>2. /\ SCREEN_WIDTH = W /\ SCREEN_HEIGHT = H /\ CHAR_HEIGHT = h
                /\ down.px = t.px /\ down.left = 0 /\ down.right = W
            BY <1>1, <1>5
          <6> QED
            BY <6>1, <6>2
        <5> QED
          BY <5>1, <5>2
      <4>2. PICK x \in Int : x = c1 * w /\ 0 <= x /\ x < W
        BY <3>2
      <4>3. Cell(u, q) = u.px[Corner(q)]
        BY DEF Cell, Corner
      <4> QED
        BY <4>1, <4>2, <4>3
    <3>4. (r1 * h < H - h <=> r1 # R - 1) /\ (r1 # R - 1 <=> q < N - C)
      <4>1. r1 # R - 1 => (r1 + 1) * h <= (R - 1) * h /\ (r1 + 1) * C <= (R - 1) * C
        <5> SUFFICES ASSUME r1 # R - 1
                     PROVE  (r1 + 1) * h <= (R - 1) * h /\ (r1 + 1) * C <= (R - 1) * C
          OBVIOUS
        <5>1. r1 + 1 <= R - 1
          BY <1>1
        <5> QED
          BY <1>1, <5>1
      <4>2. (R - 1) * h = H - h /\ (r1 + 1) * h = r1 * h + h
        BY <1>1
      <4>3. (R - 1) * C = N - C /\ (r1 + 1) * C = r1 * C + C
        BY <1>1
      <4>4. r1 = R - 1 => r1 * h = H - h /\ r1 * C = N - C
        BY <1>1, <4>2, <4>3
      <4>5. PICK a, b \in Nat : a = r1 * h /\ b = r1 * C
        BY <1>1
      <4> QED
        BY <1>1, <3>1, <4>1, <4>2, <4>3, <4>4, <4>5
    <3>5. CASE r1 = R - 1
      <4>1. Cell(u, q) = Blank.px[Corner(q)]
        BY <1>1, <3>1, <3>3, <3>4, <3>5 DEF Corner
      <4>2. Cell(u, q) = BACKGROUND
        BY <3>1, <4>1 DEF Blank
      <4> QED
        BY <1>1, <3>4, <3>5, <4>2
    <3>6. CASE r1 # R - 1
      <4>1. PICK p1 \in 0 .. (N - 1) : p1 = q + C
        BY <1>1, <3>4, <3>6
      <4>2. (q + C) \div C = r1 + 1 /\ (q + C) % C = c1
        <5>1. PICK k \in Int : k = r1 + 1
          BY <1>1
        <5>2. (k * C + c1) \div C = k /\ (k * C + c1) % C = c1
          BY <1>1, Divided
        <5>3. (r1 + 1) * C = r1 * C + C
          BY <1>1
        <5>4. q + C = k * C + c1
          <6>1. PICK a, b \in Int : a = r1 * C /\ b = k * C /\ b = a + C
            BY <1>1, <5>1, <5>3
          <6>2. q = a + c1
            BY <3>1, <6>1
          <6>3. q \in Int
            BY <1>1
          <6> QED
            BY <6>1, <6>2, <6>3
        <5> QED
          BY <5>1, <5>2, <5>4
      <4>3. Cell(t, q + C) = t.px[get_pixel(c1 * w, (r1 + 1) * h)]
        BY <1>1, <4>2 DEF Cell
      <4>4. (r1 + 1) * h = r1 * h + h
        BY <1>1
      <4> QED
        BY <1>1, <3>3, <3>4, <3>6, <4>3, <4>4
    <3> QED
      BY <3>5, <3>6
  <2> QED
    BY <1>1, <1>8, <2>4, <2>5
<1> QED
  BY <1>7, <1>8
-----------------------------------------------------------------------------
(* One cell has been written.                                              *)
Wrote(t, u, p, v) ==
  \A q \in 0 .. (Cells - 1) : Cell(u, q) = IF q = p THEN v ELSE Cell(t, q)

(* A character on a cell of its own.                                       *)
LEMMA DrawHere ==
  ASSUME NEW t, NEW u, NEW v, NEW r \in 0 .. (ROWS - 1), NEW c \in 0 .. (COLS - 1),
         Placed(t, r, c), u = draw_char(t, v)
  PROVE  ~ Overflows(t, t.x) /\ Placed(u, r, c + 1) /\ Wrote(t, u, r * COLS + c, v)
<1>1. PICK w, h, C \in Nat \ {0}, R, W, H, N \in Nat :
        /\ w = CHAR_WIDTH /\ h = CHAR_HEIGHT /\ C = COLS /\ R = ROWS /\ N = Cells
        /\ W = SCREEN_WIDTH /\ H = SCREEN_HEIGHT
        /\ W = C * w /\ H = R * h /\ N = C * R /\ R >= 2 /\ W > 0
  BY Sizes
<1>2. PICK x \in Nat : x = c * w /\ (c + 1) * w = x + w /\ x + w <= W
  <2>1. c * w \in Nat /\ (c + 1) * w = c * w + w /\ (c + 1) * w <= C * w
    BY <1>1
  <2>2. PICK x \in Nat : x = c * w
    BY <2>1
  <2> QED
    BY <1>1, <2>1, <2>2
<1>3. ~ Overflows(t, t.x)
  BY <1>1, <1>2 DEF Overflows, Placed
<1>4. PICK d : d = paint(t, Area(c * CHAR_WIDTH, r * CHAR_HEIGHT, CHAR_WIDTH, CHAR_HEIGHT), v)
  OBVIOUS
<1>5. u = [d EXCEPT !.x = @ + CHAR_WIDTH]
  BY <1>3, <1>4 DEF draw_char, draw_char_personalized, Placed
<1>6. /\ Placed(d, r, c)
      /\ \A q \in 0 .. (Cells - 1) : Cell(d, q) = IF q = r * COLS + c THEN v ELSE Cell(t, q)
  BY <1>4, PaintCell
<1>7. Placed(u, r, c + 1) /\ u.px = d.px
  BY <1>1, <1>2, <1>5, <1>6 DEF Placed
<1> QED
  BY <1>3, <1>6, <1>7 DEF Cell, Wrote

(* What was on the screen has moved up by d cells, and v has been written. *)
Written(t, u, v, d) ==
  /\ At(u) = At(t) - d + 1 /\ At(u) \in 1 .. Cells
  /\ Cell(u, At(u) - 1) = v
  /\ \A q \in 0 .. (At(u) - 2) : Cell(u, q) = Cell(t, q + d)

LEMMA DrawChar ==
  ASSUME NEW t, NEW u, NEW v, Neat(t), u = draw_char(t, v)
  PROVE  /\ Neat(u)
         /\ At(t) # Cells => Written(t, u, v, 0)
         /\ At(t) = Cells => Written(t, u, v, COLS)
<1>1. PICK w, h, C \in Nat \ {0}, R, W, H, N \in Nat :
        /\ w = CHAR_WIDTH /\ h = CHAR_HEIGHT /\ C = COLS /\ R = ROWS /\ N = Cells
        /\ W = SCREEN_WIDTH /\ H = SCREEN_HEIGHT
        /\ W = C * w /\ H = R * h /\ N = C * R /\ R >= 2 /\ W > 0
  BY Sizes
<1>2. PICK r \in 0 .. (ROWS - 1), c \in 0 .. COLS : Placed(t, r, c)
  BY DEF Neat
<1>3. PICK a \in 0 .. N : a = At(t) /\ a = r * C + c /\ (a = N <=> r = R - 1 /\ c = C)
  BY <1>1, <1>2, PlaceFacts
<1>4. ASSUME NEW q \in a .. (N - 1) PROVE Cell(t, q) = BACKGROUND
  BY <1>1, <1>3 DEF Neat
<1>5. CASE c # C
  <2>1. c \in 0 .. (COLS - 1) /\ c + 1 \in 0 .. COLS /\ a # N
    BY <1>1, <1>3, <1>5
  <2>2. Placed(u, r, c + 1)
        /\ \A q \in 0 .. (N - 1) : Cell(u, q) = IF q = a THEN v ELSE Cell(t, q)
    BY <1>1, <1>2, <1>3, <2>1, DrawHere DEF Wrote
  <2>3. At(u) = a + 1
    <3>1. At(u) = r * COLS + (c + 1)
      BY <2>1, <2>2, PlaceFacts
    <3>2. PICK k \in Nat : k = r * C
      BY <1>1
    <3> QED
      BY <1>1, <1>3, <3>1, <3>2
  <2>4. Neat(u)
    <3>1. \A q \in (a + 1) .. (N - 1) : Cell(u, q) = BACKGROUND
      BY <1>4, <2>2
    <3> QED
      BY <1>1, <2>1, <2>2, <2>3, <3>1 DEF Neat
  <2>5. Written(t, u, v, 0)
    <3>1. a + 1 \in 1 .. N /\ a + 1 = a - 0 + 1 /\ a + 1 - 1 = a /\ a + 1 - 2 = a - 1
          /\ a \in 0 .. (N - 1)
      BY <2>1
    <3>2. Cell(u, a) = v
      BY <2>2, <3>1
    <3>3. ASSUME NEW q \in 0 .. (a - 1) PROVE Cell(u, q) = Cell(t, q + 0)
      <4>1. q \in 0 .. (N - 1) /\ q # a /\ q + 0 = q
        BY <3>1
      <4> QED
        BY <2>2, <4>1
    <3> QED
      BY <1>1, <1>3, <2>3, <3>1, <3>2, <3>3 DEF Written
  <2> QED
    BY <1>1, <1>3, <2>1, <2>4, <2>5
<1>6. CASE c = C
  <2>1. PICK n : n = newLine(t)
    OBVIOUS
  <2>2. 0 \in 0 .. (COLS - 1) /\ 0 + 1 \in 0 .. COLS /\ 0 + 1 = 1
    BY <1>1
  <2>3. Overflows(t, t.x)
    <3>1. t.x = W /\ t.right = W
      BY <1>1, <1>2, <1>6 DEF Placed
    <3> QED
      BY <1>1, <3>1 DEF Overflows
  <2>4. ASSUME NEW r1 \in 0 .. (ROWS - 1), Placed(n, r1, 0)
        PROVE  /\ Placed(u, r1, 1) /\ At(u) = r1 * C + 1
               /\ \A q \in 0 .. (N - 1) : Cell(u, q) = IF q = r1 * C THEN v ELSE Cell(n, q)
    <3>1. PICK z : z = draw_char(n, v)
      OBVIOUS
    <3>2. ~ Overflows(n, n.x) /\ Placed(z, r1, 0 + 1) /\ Wrote(n, z, r1 * COLS + 0, v)
      BY <2>2, <2>4, <3>1, DrawHere
    <3>3. u = z
      BY <2>1, <2>3, <3>1, <3>2 DEF draw_char
    <3>4. r1 * COLS + 0 = r1 * C
      BY <1>1
    <3>5. At(u) = r1 * COLS + (0 + 1)
      BY <2>2, <3>2, <3>3, PlaceFacts
    <3> QED
      BY <1>1, <2>2, <3>2, <3>3, <3>4, <3>5 DEF Wrote
  <2>5. CASE r # R - 1
    <3>1. r + 1 \in 0 .. (ROWS - 1)
      BY <1>1, <2>5
    <3>2. Placed(n, r + 1, 0) /\ \A q \in 0 .. (N - 1) : Cell(n, q) = Cell(t, q)
      BY <1>1, <1>2, <2>1, <2>5, NewLine
    <3>3. (r + 1) * C = a
      BY <1>1, <1>3, <1>6
    <3>4. /\ Placed(u, r + 1, 1) /\ At(u) = a + 1 /\ a # N
          /\ \A q \in 0 .. (N - 1) : Cell(u, q) = IF q = a THEN v ELSE Cell(t, q)
      BY <1>3, <2>4, <2>5, <3>1, <3>2, <3>3
    <3>5. Neat(u)
      <4>1. \A q \in (a + 1) .. (N - 1) : Cell(u, q) = BACKGROUND
        BY <1>4, <3>4
      <4>2. 1 \in 0 .. COLS
        BY <1>1
      <4> QED
        BY <1>1, <3>1, <3>4, <4>1, <4>2 DEF Neat
    <3>6. Written(t, u, v, 0)
      <4>1. a + 1 \in 1 .. N /\ a + 1 = a - 0 + 1 /\ a + 1 - 1 = a /\ a + 1 - 2 = a - 1
            /\ a \in 0 .. (N - 1)
        BY <3>4
      <4>2. Cell(u, a) = v
        BY <3>4, <4>1
      <4>3. ASSUME NEW q \in 0 .. (a - 1) PROVE Cell(u, q) = Cell(t, q + 0)
        <5>1. q \in 0 .. (N - 1) /\ q # a /\ q + 0 = q
          BY <4>1
        <5> QED
          BY <3>4, <5>1
      <4> QED
        BY <1>1, <1>3, <3>4, <4>1, <4>2, <4>3 DEF Written
    <3> QED
      BY <1>1, <1>3, <3>4, <3>5, <3>6
  <2>6. CASE r = R - 1
    <3>1. /\ Placed(n, r, 0)
          /\ \A q \in 0 .. (N - 1) :
               Cell(n, q) = IF q < N - C THEN Cell(t, q + C) ELSE BACKGROUND
      BY <1>1, <1>2, <2>1, <2>6, NewLine
    <3>2. PICK b \in Nat : b = r * C /\ b = N - C /\ b <= N - 1 /\ a = N /\ a - C + 1 = b + 1
      <4>1. (R - 1) * C = C * R - C /\ a = N
        BY <1>1, <1>3, <1>6, <2>6
      <4>2. r * C \in Nat
        BY <1>1
      <4> QED
        BY <1>1, <2>6, <4>1, <4>2
    <3>3. /\ Placed(u, r, 1) /\ At(u) = b + 1
          /\ \A q \in 0 .. (N - 1) : Cell(u, q) = IF q = b THEN v ELSE Cell(n, q)
      BY <2>4, <3>1, <3>2
    <3>4. Neat(u)
      <4>1. \A q \in (b + 1) .. (N - 1) : Cell(u, q) = BACKGROUND
        BY <3>1, <3>2, <3>3
      <4>2. 1 \in 0 .. COLS
        BY <1>1
      <4> QED
        BY <1>1, <3>2, <3>3, <4>1, <4>2 DEF Neat
    <3>5. Written(t, u, v, C)
      <4>1. b + 1 \in 1 .. N /\ b + 1 - 1 = b /\ b + 1 - 2 = b - 1 /\ b \in 0 .. (N - 1)
        BY <3>2
      <4>2. Cell(u, b) = v
        BY <3>3, <4>1
      <4>3. ASSUME NEW q \in 0 .. (b - 1) PROVE Cell(u, q) = Cell(t, q + C)
        <5>1. q \in 0 .. (N - 1) /\ q # b /\ q < N - C
          BY <3>2
        <5> QED
          BY <3>1, <3>3, <5>1
      <4> QED
        BY <1>1, <1>3, <3>2, <3>3, <4>1, <4>2, <4>3 DEF Written
    <3> QED
      BY <1>1, <1>3, <3>2, <3>4, <3>5
  <2> QED
    BY <2>5, <2>6
<1> QED
  BY <1>5, <1>6

(* The cell before the cursor becomes blank.                               *)
LEMMA DeleteChar ==
  ASSUME NEW t, NEW u, Neat(t), At(t) > 0, u = delete_char(t)
  PROVE  /\ Neat(u) /\ At(u) = At(t) - 1
         /\ \A q \in 0 .. (At(u) - 1) : Cell(u, q) = Cell(t, q)
<1>1. PICK w, h, C \in Nat \ {0}, R, W, H, N \in Nat :
        /\ w = CHAR_WIDTH /\ h = CHAR_HEIGHT /\ C = COLS /\ R = ROWS /\ N = Cells
        /\ W = SCREEN_WIDTH /\ H = SCREEN_HEIGHT
        /\ W = C * w /\ H = R * h /\ N = C * R /\ R >= 2 /\ W > 0
  BY Sizes
<1>2. PICK r \in 0 .. (ROWS - 1), c \in 0 .. COLS : Placed(t, r, c)
  BY DEF Neat
<1>3. PICK a \in 1 .. N : a = At(t) /\ a = r * C + c
  BY <1>1, <1>2, PlaceFacts
<1>4. ASSUME NEW q \in a .. (N - 1) PROVE Cell(t, q) = BACKGROUND
  BY <1>1, <1>3 DEF Neat
<1>5. PICK back : back = IF t.x = t.left THEN [t EXCEPT !.x = t.right, !.y = @ - CHAR_HEIGHT] ELSE t
  OBVIOUS
<1>6. PICK p : p = [back EXCEPT !.x = @ - CHAR_WIDTH]
  OBVIOUS
<1>7. PICK r1 \in 0 .. (ROWS - 1), c1 \in 0 .. (COLS - 1) :
        Placed(p, r1, c1) /\ p.px = t.px /\ a - 1 = r1 * C + c1
  <2>1. PICK x, y \in Nat : x = c * w /\ y = r * h
    BY <1>1
  <2>2. CASE c = 0
    <3>1. x = 0 /\ r # 0
      BY <1>1, <1>3, <2>1, <2>2
    <3>2. r - 1 \in 0 .. (R - 1) /\ C - 1 \in 0 .. (C - 1)
      BY <1>1, <3>1
    <3>3. (r - 1) * h = y - h /\ (C - 1) * w = W - w /\ (r - 1) * C = r * C - C
      BY <1>1, <2>1
    <3>4. Placed(p, r - 1, C - 1) /\ p.px = t.px
      BY <1>1, <1>2, <1>5, <1>6, <2>1, <3>1, <3>3 DEF Placed
    <3>5. a - 1 = (r - 1) * C + (C - 1)
      <4>1. PICK k \in Nat : k = r * C
        BY <1>1
      <4> QED
        BY <1>1, <1>3, <2>2, <3>3, <4>1
    <3> QED
      BY <1>1, <3>2, <3>4, <3>5
  <2>3. CASE c # 0
    <3>1. c - 1 \in 0 .. (C - 1)
      BY <1>1, <2>3
    <3>2. (c - 1) * w = x - w /\ x # 0
      BY <1>1, <2>1, <2>3
    <3>3. Placed(p, r, c - 1) /\ p.px = t.px
      BY <1>1, <1>2, <1>5, <1>6, <2>1, <3>2 DEF Placed
    <3>4. a - 1 = r * C + (c - 1)
      <4>1. PICK k \in Nat : k = r * C
        BY <1>1
      <4> QED
        BY <1>1, <1>3, <4>1
    <3> QED
      BY <1>1, <3>1, <3>3, <3>4
  <2> QED
    BY <2>2, <2>3
<1>8. PICK d : d = draw_char(p, BACKGROUND)
  OBVIOUS
<1>9. /\ Placed(d, r1, c1 + 1)
      /\ \A q \in 0 .. (N - 1) : Cell(d, q) = IF q = a - 1 THEN BACKGROUND ELSE Cell(p, q)
  <2>1. /\ Placed(d, r1, c1 + 1)
        /\ \A q \in 0 .. (Cells - 1) :
             Cell(d, q) = IF q = r1 * COLS + c1 THEN BACKGROUND ELSE Cell(p, q)
    BY <1>7, <1>8, DrawHere DEF Wrote
  <2> QED
    BY <1>1, <1>7, <2>1
<1>10. u = [d EXCEPT !.x = @ - CHAR_WIDTH]
  BY <1>5, <1>6, <1>8 DEF delete_char
<1>11. Placed(u, r1, c1) /\ u.px = d.px
  <2>1. PICK x \in Nat : x = c1 * w /\ (c1 + 1) * w = x + w /\ x + w - w = x
    <3>1. (c1 + 1) * w = c1 * w + w /\ c1 * w \in Nat
      BY <1>1
    <3>2. PICK x \in Nat : x = c1 * w
      BY <3>1
    <3> QED
      BY <1>1, <3>1, <3>2
  <2> QED
    BY <1>1, <1>9, <1>10, <2>1 DEF Placed
<1>12. At(u) = a - 1
  BY <1>1, <1>7, <1>11, PlaceFacts
<1>13. ASSUME NEW q \in 0 .. (N - 1)
       PROVE  Cell(u, q) = IF q = a - 1 THEN BACKGROUND ELSE Cell(t, q)
  BY <1>7, <1>9, <1>11 DEF Cell
<1>14. ASSUME NEW q \in (a - 1) .. (N - 1) PROVE Cell(u, q) = BACKGROUND
  BY <1>4, <1>13
<1>15. ASSUME NEW q \in 0 .. (a - 1 - 1) PROVE Cell(u, q) = Cell(t, q)
  BY <1>13
<1>16. c1 \in 0 .. COLS
  BY <1>1
<1> QED
  BY <1>1, <1>3, <1>11, <1>12, <1>14, <1>15, <1>16 DEF Neat

(* Clearing.                                                               *)
LEMMA Cleared ==
  ASSUME NEW t, NEW u, Neat(t), u = clean(t) \/ u = clean_all(t)
  PROVE  Neat(u)
<1>1. PICK w, h, C \in Nat \ {0}, R, W, H, N \in Nat :
        /\ w = CHAR_WIDTH /\ h = CHAR_HEIGHT /\ C = COLS /\ R = ROWS /\ N = Cells
        /\ W = SCREEN_WIDTH /\ H = SCREEN_HEIGHT
        /\ W = C * w /\ H = R * h /\ N = C * R /\ R >= 2 /\ W > 0
  BY Sizes
<1>2. PICK r \in 0 .. (ROWS - 1), c \in 0 .. COLS : Placed(t, r, c)
  BY DEF Neat
<1>3. PICK area : area = Area(0, 0, W + 1, H + 1)
  OBVIOUS
<1>4. PICK d : d = paint(t, area, BACKGROUND)
  OBVIOUS
<1>5. u = [d EXCEPT !.x = 0, !.y = 0]
  <2>1. W - 0 + 1 = W + 1
    BY <1>1
  <2>2. CASE u = clean(t)
    BY <1>1, <1>2, <1>3, <1>4, <2>1, <2>2 DEF clean, Placed
  <2>3. CASE u = clean_all(t)
    BY <1>1, <1>3, <1>4, <2>3 DEF clean_all
  <2> QED
    BY <2>2, <2>3
<1>6. /\ DOMAIN d = {"x", "y", "left", "right", "px"} /\ d.left = 0 /\ d.right = SCREEN_WIDTH
      /\ d.px = [i \in Pixels |-> IF i \in area THEN BACKGROUND ELSE t.px[i]]
  BY <1>2, <1>4 DEF paint, Placed
<1>7. /\ DOMAIN u = {"x", "y", "left", "right", "px"} /\ u.left = 0 /\ u.right = SCREEN_WIDTH
      /\ u.px = d.px /\ u.x = 0 /\ u.y = 0
  BY <1>5, <1>6
<1>8. 0 * w = 0 /\ 0 * h = 0 /\ 0 \in 0 .. (R - 1) /\ 0 \in 0 .. C
  BY <1>1
<1>9. Placed(u, 0, 0)
  BY <1>1, <1>6, <1>7, <1>8 DEF Placed
<1>10. ASSUME NEW q \in 0 .. (Cells - 1) PROVE Cell(u, q) = BACKGROUND
  <2>1. Corner(q) \in Pixels
    BY CellFacts
  <2>2. Corner(q) \in area
    <3>1. PICK i \in Nat : i = Corner(q) /\ i < W * H
      BY <1>1, <2>1 DEF Pixels
    <3>2. PICK x \in 0 .. (W - 1), y \in Nat : x = i % W /\ y = i \div W /\ i = W * y + x
      BY <1>1, <3>1
    <3>3. y < H
      <4>1. CASE y >= H
        <5>1. W * y >= W * H
          BY <4>1
        <5> QED
          BY <3>1, <3>2, <5>1
      <4> QED
        BY <1>1, <4>1
    <3>4. x \in 0 .. (W + 1 - 1) /\ y \in 0 .. (H + 1 - 1) /\ 0 + x = x /\ 0 + y = y
      BY <1>1, <3>2, <3>3
    <3>5. i = get_pixel(0 + x, 0 + y)
      <4>1. W * y = y * W
        BY <1>1
      <4> QED
        BY <1>1, <3>2, <3>4, <4>1 DEF get_pixel
    <3> QED
      BY <1>3, <3>1, <3>4, <3>5 DEF Area
  <2>3. u.px[Corner(q)] = BACKGROUND
    BY <1>6, <1>7, <2>1, <2>2
  <2> QED
    BY <2>3 DEF Cell, Corner
<1>11. At(u) \in 0 .. Cells
  BY <1>1, <1>8, <1>9, PlaceFacts
<1>12. \A q \in At(u) .. (Cells - 1) : q \in 0 .. (Cells - 1)
  BY <1>1, <1>11
<1> QED
  BY <1>1, <1>8, <1>9, <1>10, <1>12 DEF Neat
-----------------------------------------------------------------------------
(* The least of a set of numbers.                                          *)
LEMMA Least ==
  ASSUME NEW T, T \subseteq Nat, T # {}
  PROVE  \E m \in T : \A n \in T : m <= n
<1> DEFINE R == OpToRel(<, Nat)
<1>1. PICK m \in T : \A n \in T : <<n, m>> \notin R
  BY NatLessThanWellFounded, WFMin
<1>2. \A n \in T : ~ (n < m)
  BY <1>1 DEF OpToRel
<1> QED
  BY <1>2

(* A new line, wherever the cursor is, leaves the screen in order.         *)
LEMMA NewLineNeat ==
  ASSUME NEW t, NEW u, Neat(t), u = newLine(t)
  PROVE  Neat(u)
<1>1. PICK w, h, C \in Nat \ {0}, R, W, H, N \in Nat :
        /\ w = CHAR_WIDTH /\ h = CHAR_HEIGHT /\ C = COLS /\ R = ROWS /\ N = Cells
        /\ W = SCREEN_WIDTH /\ H = SCREEN_HEIGHT
        /\ W = C * w /\ H = R * h /\ N = C * R /\ R >= 2 /\ W > 0
  BY Sizes
<1>2. PICK r \in 0 .. (ROWS - 1), c \in 0 .. COLS : Placed(t, r, c)
  BY DEF Neat
<1>3. PICK a \in 0 .. N : a = At(t) /\ a <= (r + 1) * C
  BY <1>1, <1>2, PlaceFacts
<1>4. ASSUME NEW q \in a .. (N - 1) PROVE Cell(t, q) = BACKGROUND
  BY <1>1, <1>3 DEF Neat
<1>5. 0 \in 0 .. COLS
  BY <1>1
<1>6. CASE r # R - 1
  <2>1. PICK r1 \in 0 .. (ROWS - 1) : r1 = r + 1
    BY <1>1, <1>6
  <2>2. Placed(u, r1, 0) /\ \A q \in 0 .. (N - 1) : Cell(u, q) = Cell(t, q)
    BY <1>1, <1>2, <1>6, <2>1, NewLine
  <2>3. PICK b \in 0 .. N : b = At(u) /\ b = r1 * COLS + 0
    BY <1>1, <1>5, <2>2, PlaceFacts
  <2>4. a <= b
    BY <1>1, <1>3, <2>1, <2>3
  <2>5. \A q \in b .. (N - 1) : Cell(u, q) = BACKGROUND
    BY <1>4, <2>2, <2>4
  <2> QED
    BY <1>1, <1>5, <2>2, <2>3, <2>5 DEF Neat
<1>7. CASE r = R - 1
  <2>1. /\ Placed(u, r, 0)
        /\ \A q \in 0 .. (N - 1) :
             Cell(u, q) = IF q < N - C THEN Cell(t, q + C) ELSE BACKGROUND
    BY <1>1, <1>2, <1>7, NewLine
  <2>2. PICK b \in 0 .. N : b = At(u) /\ b = r * COLS + 0
    BY <1>1, <1>5, <2>1, PlaceFacts
  <2>3. b = N - C
    <3>1. (R - 1) * C = C * R - C
      BY <1>1
    <3> QED
      BY <1>1, <1>7, <2>2, <3>1
  <2>4. \A q \in b .. (N - 1) : Cell(u, q) = BACKGROUND
    BY <1>1, <2>1, <2>3
  <2> QED
    BY <1>1, <1>5, <2>1, <2>2, <2>4 DEF Neat
<1> QED
  BY <1>6, <1>7

LEMMA Put ==
  ASSUME NEW t, NEW u, NEW c, Neat(t), u = put(t, c)
  PROVE  Neat(u)
<1>1. CASE u = newLine(t)
  BY <1>1, NewLineNeat
<1>2. CASE u = clean(t)
  BY <1>2, Cleared
<1>3. CASE u = draw_char(t, c)
  BY <1>3, DrawChar
<1> QED
  BY <1>1, <1>2, <1>3 DEF put

(* What the first m characters of a string make of the screen.             *)
IsPrinted(d, t, s, m) ==
  d = [n \in 0 .. m |-> IF n = 0 THEN t ELSE put(d[n - 1], s[n])]

LEMMA PrintedExists ==
  ASSUME NEW t, NEW s, NEW l \in Nat
  PROVE  \E d : IsPrinted(d, t, s, l)
<1> DEFINE Missing == {m \in 0 .. l : ~ \E d : IsPrinted(d, t, s, m)}
<1> SUFFICES ASSUME l \in Missing PROVE FALSE
  OBVIOUS
<1>1. PICK m \in Missing : \A n \in Missing : m <= n
  <2>1. Missing \subseteq Nat /\ Missing # {}
    OBVIOUS
  <2> QED
    BY <2>1, Least
<1>2. CASE m = 0
  <2>1. PICK d : d = [n \in 0 .. 0 |-> t]
    OBVIOUS
  <2>2. IsPrinted(d, t, s, 0)
    BY <2>1 DEF IsPrinted
  <2> QED
    BY <1>1, <1>2, <2>2
<1>3. CASE m # 0
  <2>1. m - 1 \in 0 .. l /\ m \in 0 .. l /\ ~ (m <= m - 1)
    BY <1>1, <1>3
  <2>2. PICK d : IsPrinted(d, t, s, m - 1)
    BY <1>1, <2>1
  <2>3. PICK e : e = [n \in 0 .. m |-> IF n = m THEN put(d[m - 1], s[m]) ELSE d[n]]
    OBVIOUS
  <2>4. ASSUME NEW n \in 0 .. m
        PROVE  e[n] = IF n = 0 THEN t ELSE put(e[n - 1], s[n])
    <3>1. CASE n = m
      BY <1>3, <2>1, <2>3, <3>1
    <3>2. CASE n # m
      <4>1. n \in 0 .. (m - 1) /\ (n # 0 => n - 1 \in 0 .. (m - 1) /\ n - 1 \in 0 .. m /\ n - 1 # m)
        BY <2>1, <3>2
      <4>2. d[n] = IF n = 0 THEN t ELSE put(d[n - 1], s[n])
        BY <2>2, <4>1 DEF IsPrinted
      <4>3. e[n] = d[n] /\ (n # 0 => e[n - 1] = d[n - 1])
        BY <2>3, <3>2, <4>1
      <4> QED
        BY <4>2, <4>3
    <3> QED
      BY <3>1, <3>2
  <2>5. IsPrinted(e, t, s, m)
    <3>1. e = [n \in 0 .. m |-> e[n]]
      BY <2>3
    <3> QED
      BY <2>4, <3>1 DEF IsPrinted
  <2> QED
    BY <1>1, <2>5
<1> QED
  BY <1>2, <1>3

(* Printing keeps the screen in order.                                     *)
LEMMA Printed ==
  ASSUME NEW t, NEW s, NEW u, Neat(t), Len(s) \in Nat,
         u = print(t, s)
  PROVE  Neat(u)
<1>1. PICK l \in Nat : l = Len(s)
  OBVIOUS
<1>2. PICK d : IsPrinted(d, t, s, l) /\ u = d[l]
  <2> DEFINE D == CHOOSE d : IsPrinted(d, t, s, l)
  <2>1. IsPrinted(D, t, s, l)
    BY PrintedExists
  <2>2. u = D[l]
    BY <1>1 DEF print, IsPrinted
  <2> QED
    BY <2>1, <2>2
<1> DEFINE Lost == {m \in 0 .. l : ~ Neat(d[m])}
<1>3. ASSUME Lost # {} PROVE FALSE
  <2>1. PICK m \in Lost : \A n \in Lost : m <= n
    <3>1. Lost \subseteq Nat
      OBVIOUS
    <3> QED
      BY <1>3, <3>1, Least
  <2>2. m \in 0 .. l /\ ~ Neat(d[m])
    BY <2>1
  <2>3. CASE m = 0
    BY <1>2, <2>2, <2>3 DEF IsPrinted
  <2>4. CASE m # 0
    <3>1. m - 1 \in 0 .. l /\ ~ (m <= m - 1)
      BY <2>2, <2>4
    <3>2. Neat(d[m - 1])
      BY <2>1, <3>1
    <3>3. d[m] = put(d[m - 1], s[m])
      BY <1>2, <2>2, <2>4 DEF IsPrinted
    <3>4. Neat(d[m])
      BY <3>2, <3>3, Put
    <3> QED
      BY <2>2, <3>4
  <2> QED
    BY <2>3, <2>4
<1>4. Neat(d[l])
  BY <1>3
<1> QED
  BY <1>2, <1>4

(* What the first m entries of the table make of it.                       *)
IsListed(d, t, s, m) ==
  d = [n \in 0 .. m |-> IF n = 0 THEN print(t, Listing)
                        ELSE newLine(print(print(d[n - 1], s[n].name), s[n].desc))]

LEMMA ListedExists ==
  ASSUME NEW t, NEW s, NEW l \in Nat
  PROVE  \E d : IsListed(d, t, s, l)
<1> DEFINE Missing == {m \in 0 .. l : ~ \E d : IsListed(d, t, s, m)}
<1> SUFFICES ASSUME l \in Missing PROVE FALSE
  OBVIOUS
<1>1. PICK m \in Missing : \A n \in Missing : m <= n
  <2>1. Missing \subseteq Nat /\ Missing # {}
    OBVIOUS
  <2> QED
    BY <2>1, Least
<1>2. CASE m = 0
  <2>1. PICK d : d = [n \in 0 .. 0 |-> print(t, Listing)]
    OBVIOUS
  <2>2. IsListed(d, t, s, 0)
    BY <2>1 DEF IsListed
  <2> QED
    BY <1>1, <1>2, <2>2
<1>3. CASE m # 0
  <2>1. m - 1 \in 0 .. l /\ m \in 0 .. l /\ ~ (m <= m - 1)
    BY <1>1, <1>3
  <2>2. PICK d : IsListed(d, t, s, m - 1)
    BY <1>1, <2>1
  <2>3. PICK e : e = [n \in 0 .. m |->
                        IF n = m THEN newLine(print(print(d[m - 1], s[m].name), s[m].desc))
                        ELSE d[n]]
    OBVIOUS
  <2>4. ASSUME NEW n \in 0 .. m
        PROVE  e[n] = IF n = 0 THEN print(t, Listing)
                      ELSE newLine(print(print(e[n - 1], s[n].name), s[n].desc))
    <3>1. CASE n = m
      BY <1>3, <2>1, <2>3, <3>1
    <3>2. CASE n # m
      <4>1. n \in 0 .. (m - 1) /\ (n # 0 => n - 1 \in 0 .. (m - 1) /\ n - 1 \in 0 .. m /\ n - 1 # m)
        BY <2>1, <3>2
      <4>2. d[n] = IF n = 0 THEN print(t, Listing)
                   ELSE newLine(print(print(d[n - 1], s[n].name), s[n].desc))
        BY <2>2, <4>1 DEF IsListed
      <4>3. e[n] = d[n] /\ (n # 0 => e[n - 1] = d[n - 1])
        BY <2>3, <3>2, <4>1
      <4> QED
        BY <4>2, <4>3
    <3> QED
      BY <3>1, <3>2
  <2>5. IsListed(e, t, s, m)
    <3>1. e = [n \in 0 .. m |-> e[n]]
      BY <2>3
    <3> QED
      BY <2>4, <3>1 DEF IsListed
  <2> QED
    BY <1>1, <2>5
<1> QED
  BY <1>2, <1>3

(* And so does the list of commands.                                       *)
LEMMA Help ==
  ASSUME NEW t, NEW s, NEW u, Neat(t), Len(s) \in Nat,
         \A k \in 1 .. Len(s) : Len(s[k].name) \in Nat /\ Len(s[k].desc) \in Nat,
         u = help(t, s)
  PROVE  Neat(u)
<1>1. PICK l \in Nat : l = Len(s)
  OBVIOUS
<1>2. PICK d : IsListed(d, t, s, l) /\ u = d[l]
  <2> DEFINE D == CHOOSE d : IsListed(d, t, s, l)
  <2>1. IsListed(D, t, s, l)
    BY ListedExists
  <2>2. u = D[l]
    BY <1>1 DEF help, IsListed
  <2> QED
    BY <2>1, <2>2
<1> DEFINE Lost == {m \in 0 .. l : ~ Neat(d[m])}
<1>3. ASSUME Lost # {} PROVE FALSE
  <2>1. PICK m \in Lost : \A n \in Lost : m <= n
    <3>1. Lost \subseteq Nat
      OBVIOUS
    <3> QED
      BY <1>3, <3>1, Least
  <2>2. m \in 0 .. l /\ ~ Neat(d[m])
    BY <2>1
  <2>3. CASE m = 0
    BY <1>2, <2>2, <2>3, Printed, ShellAssumption DEF IsListed
  <2>4. CASE m # 0
    <3>1. m - 1 \in 0 .. l /\ ~ (m <= m - 1)
      BY <2>2, <2>4
    <3>2. Neat(d[m - 1])
      BY <2>1, <3>1
    <3>3. d[m] = newLine(print(print(d[m - 1], s[m].name), s[m].desc))
      BY <1>2, <2>2, <2>4 DEF IsListed
    <3>4. Neat(d[m])
      <4>1. PICK v1 : v1 = print(d[m - 1], s[m].name)
        OBVIOUS
      <4>2. PICK v2 : v2 = print(v1, s[m].desc)
        OBVIOUS
      <4>3. m \in 1 .. Len(s)
        BY <1>1, <2>2, <2>4
      <4>4. Neat(v1)
        BY <3>2, <4>1, <4>3, Printed
      <4>5. Neat(v2)
        BY <4>2, <4>3, <4>4, Printed
      <4> QED
        BY <3>3, <4>1, <4>2, <4>5, NewLineNeat
    <3> QED
      BY <2>2, <3>4
  <2> QED
    BY <2>3, <2>4
<1>4. Neat(d[l])
  BY <1>3
<1> QED
  BY <1>2, <1>4

-----------------------------------------------------------------------------
(* What a name is looked up as: nothing, or the function of a command.     *)
LEMMA Found ==
  ASSUME NEW line, NEW cmd, cmd = find(Commands, line), cmd # "none"
  PROVE  \E i \in 1 .. Len(Commands) : cmd = Commands[i].cmdptr
<1> DEFINE I == {i \in 1 .. Len(Commands) : Commands[i].name = line}
<1>1. cmd = LET i == IF I # {} THEN Min(I) ELSE 0 IN IF i = 0 THEN "none" ELSE Commands[i].cmdptr
  BY DEF find, SelectInSeq
<1>2. CASE I = {}
  BY <1>1, <1>2
<1>3. CASE I # {}
  <2>1. \E m \in I : \A n \in I : m <= n
    <3>1. I \subseteq Nat
      OBVIOUS
    <3> QED
      BY <1>3, <3>1, Least
  <2>2. Min(I) \in I
    BY <2>1 DEF Min
  <2>3. PICK i \in 1 .. Len(Commands) : i = Min(I)
    BY <2>2
  <2>4. i # 0
    OBVIOUS
  <2> QED
    BY <1>1, <1>3, <2>3, <2>4
<1> QED
  BY <1>2, <1>3

LEMMA TableFacts ==
  /\ Len(Commands) \in Nat /\ <<>> \o Commands = Commands
  /\ \A i \in 1 .. Len(Commands) :
       /\ Len(Commands[i].name) \in Nat /\ Len(Commands[i].desc) \in Nat
       /\ Commands[i].cmdptr \notin {"help", "fault"} => Len(Output[Commands[i].cmdptr]) \in Nat
<1>1. PICK S : S = Range(Commands) /\ Commands \in Seq(S)
  BY ShellAssumption
<1>2. \A i \in 1 .. Len(Commands) : Commands[i] \in Range(Commands)
  BY <1>1 DEF Range
<1>3. Len(Commands) \in Nat /\ <<>> \o Commands = Commands
  BY <1>1
<1> QED
  BY <1>2, <1>3, ShellAssumption

(* The prompt.                                                             *)
LEMMA Prompt ==
  ASSUME NEW t, NEW u, Neat(t), u = put(t, PROMPT)
  PROVE  Neat(u) /\ At(u) \in 1 .. Cells /\ Cell(u, At(u) - 1) = PROMPT
<1>1. u = draw_char(t, PROMPT)
  BY ShellAssumption DEF put
<1> QED
  BY <1>1, DrawChar DEF Written

LEMMA Started ==
  ASSUME NEW t, NEW u, Neat(t), u = initializeOS(t)
  PROVE  Neat(u) /\ At(u) \in 1 .. Cells /\ Cell(u, At(u) - 1) = PROMPT
<1>1. PICK v : v = print(t, Welcome)
  OBVIOUS
<1>2. Neat(v)
  BY <1>1, Printed, ShellAssumption
<1> QED
  BY <1>1, <1>2, Prompt DEF initializeOS

LEMMA BlankNeat == Neat(Blank)
<1>1. PICK w, h, C \in Nat \ {0}, R, W, H, N \in Nat :
        /\ w = CHAR_WIDTH /\ h = CHAR_HEIGHT /\ C = COLS /\ R = ROWS /\ N = Cells
        /\ W = SCREEN_WIDTH /\ H = SCREEN_HEIGHT
        /\ W = C * w /\ H = R * h /\ N = C * R /\ R >= 2 /\ W > 0
  BY Sizes
<1>2. 0 * w = 0 /\ 0 * h = 0 /\ 0 \in 0 .. (R - 1) /\ 0 \in 0 .. C
  BY <1>1
<1>3. Placed(Blank, 0, 0)
  BY <1>1, <1>2 DEF Placed, Blank
<1>4. At(Blank) \in 0 .. Cells
  BY <1>1, <1>2, <1>3, PlaceFacts
<1>5. ASSUME NEW q \in 0 .. (Cells - 1) PROVE Cell(Blank, q) = BACKGROUND
  <2>1. Corner(q) \in Pixels
    BY CellFacts
  <2> QED
    BY <2>1 DEF Cell, Corner, Blank
<1>6. \A q \in At(Blank) .. (Cells - 1) : q \in 0 .. (Cells - 1)
  BY <1>1, <1>4
<1> QED
  BY <1>1, <1>2, <1>3, <1>5, <1>6 DEF Neat

LEMMA InitInv == Init => Inv
<1> SUFFICES ASSUME Init PROVE Inv
  OBVIOUS
<1>1. PICK u : u = initializeOS(Blank)
  OBVIOUS
<1>2. Neat(u) /\ At(u) \in 1 .. Cells /\ Cell(u, At(u) - 1) = PROMPT
  BY <1>1, BlankNeat, Started
<1>3. PICK a \in Nat \ {0} : a = At(u) /\ a - 0 - 1 = At(u) - 1 /\ 0 < a
  <2>1. Cells \in Nat
    BY Sizes
  <2> QED
    BY <1>2, <2>1
<1>4. NoLine \in [0 .. BUFFER_SIZE -> Letters \cup {NUL}]
  BY DEF NoLine
<1>5. 0 \in 0 .. (BUFFER_SIZE + 1) /\ 0 .. (0 - 1) = {}
  BY ShellAssumption
<1>6. commandList = Commands
  BY TableFacts DEF Init, fillCommandList
<1> QED
  BY <1>1, <1>2, <1>3, <1>4, <1>5, <1>6 DEF Init, Inv

(* A prompt after which nothing has been typed.                            *)
LEMMA Prompted ==
  ASSUME buffersize' = 0, terminalBuffer' \in [0 .. BUFFER_SIZE -> Letters \cup {NUL}],
         commandList' = Commands, Neat(tty'), At(tty') \in 1 .. Cells,
         Cell(tty', At(tty') - 1) = PROMPT
  PROVE  Inv'
<1>1. PICK a \in Nat \ {0} : a = At(tty') /\ a - 0 - 1 = a - 1 /\ 0 < a
  <2>1. Cells \in Nat
    BY Sizes
  <2> QED
    BY <2>1
<1>2. 0 \in 0 .. (BUFFER_SIZE + 1) /\ 0 .. (0 - 1) = {}
  BY ShellAssumption
<1>3. Neat(tty)' /\ At(tty)' = a /\ Cell(tty', a - 0 - 1) = PROMPT
  BY <1>1 DEF Neat, At
<1>4. (buffersize < At(tty))' /\ (buffersize \in 0 .. (BUFFER_SIZE + 1))'
  BY <1>1, <1>2, <1>3
<1>5. Cell(tty, At(tty) - buffersize - 1)' = PROMPT
  BY <1>1, <1>3 DEF Cell
<1> QED
  BY <1>2, <1>3, <1>4, <1>5 DEF Inv

LEMMA EnterStep ==
  ASSUME Inv, enter
  PROVE  Inv'
<1>1. PICK line : line = potentialCommand /\ Len(line) \in Nat /\ CommandHandler(line)
  <2>1. PICK n \in Nat : n = buffersize
    <3>1. BUFFER_SIZE + 1 \in Nat
      BY ShellAssumption
    <3> QED
      BY <3>1 DEF Inv
  <2>2. PICK f : f = potentialCommand
    OBVIOUS
  <2>3. Len(f) \in Nat
    <3>1. f = [i \in 1 .. n |-> terminalBuffer[i - 1]]
      BY <2>1, <2>2 DEF potentialCommand
    <3> QED
      BY <2>1, <3>1
  <2> QED
    BY <2>2, <2>3 DEF enter
<1>2. PICK n : n = newLine(tty) /\ Neat(n)
  BY NewLineNeat DEF Inv
<1>3. PICK v : Neat(v) /\ tty' = put(v, PROMPT)
  <2>1. CASE command(line)
    <3>1. PICK cmd : cmd = find(Commands, line) /\ cmd \notin {"none", "fault"}
      BY <2>1 DEF command, Inv
    <3>2. PICK done : /\ done = IF cmd = "help" THEN help(n, Commands) ELSE print(n, Output[cmd])
                      /\ tty' = put(newLine(done), PROMPT)
      BY <1>2, <2>1, <3>1 DEF command, Inv
    <3>3. CASE cmd = "help"
      <4>1. Neat(done)
        BY <1>2, <3>2, <3>3, TableFacts, Help
      <4> QED
        BY <3>2, <4>1, NewLineNeat
    <3>4. CASE cmd # "help"
      <4>1. Len(Output[cmd]) \in Nat
        BY <3>1, <3>4, Found, TableFacts
      <4>2. Neat(done)
        BY <1>2, <3>2, <3>4, <4>1, Printed
      <4> QED
        BY <3>2, <4>2, NewLineNeat
    <3> QED
      BY <3>3, <3>4
  <2>2. CASE dump(line)
    <3>1. PICK d : d = print(n, Dump)
      OBVIOUS
    <3>2. Neat(d)
      BY <1>2, <3>1, Printed, ShellAssumption
    <3> QED
      BY <1>2, <2>2, <3>1, <3>2 DEF dump
  <2>3. CASE unknown(line)
    <3>1. PICK d : d = print(n, Complaint)
      OBVIOUS
    <3>2. PICK e : e = print(d, line)
      OBVIOUS
    <3>3. Neat(d)
      BY <1>2, <3>1, Printed, ShellAssumption
    <3>4. Neat(e)
      BY <1>1, <3>2, <3>3, Printed
    <3> QED
      BY <1>2, <2>3, <3>1, <3>2, <3>4, NewLineNeat DEF unknown
  <2> QED
    BY <1>1, <2>1, <2>2, <2>3 DEF CommandHandler
<1>4. PICK u : u = tty' /\ Neat(u) /\ At(u) \in 1 .. Cells /\ Cell(u, At(u) - 1) = PROMPT
  BY <1>3, Prompt
<1>5. /\ buffersize' = 0 /\ commandList' = Commands
      /\ terminalBuffer' \in [0 .. BUFFER_SIZE -> Letters \cup {NUL}]
  BY DEF enter, cleanBuffer, Inv, NoLine
<1> QED
  BY <1>4, <1>5, Prompted

LEMMA RestartStep ==
  ASSUME Inv, restart
  PROVE  Inv'
<1>1. PICK n : n = newLine(tty) /\ Neat(n)
  BY NewLineNeat DEF Inv
<1>2. PICK c : c = clean_all(n) /\ Neat(c)
  BY <1>1, Cleared
<1>3. PICK u : u = tty' /\ Neat(u) /\ At(u) \in 1 .. Cells /\ Cell(u, At(u) - 1) = PROMPT
  BY <1>1, <1>2, Started DEF restart
<1>4. /\ buffersize' = 0 /\ commandList' = Commands
      /\ terminalBuffer' \in [0 .. BUFFER_SIZE -> Letters \cup {NUL}]
  BY TableFacts DEF restart, NoLine, fillCommandList, _start
<1> QED
  BY <1>3, <1>4, Prompted

(* A letter, with which the line may move up the screen.                   *)
LEMMA LetterStep ==
  ASSUME Inv, NEW c \in Letters, letter(c)
  PROVE  Inv'
<1>1. PICK w, h, C \in Nat \ {0}, R, W, H, N \in Nat :
        /\ w = CHAR_WIDTH /\ h = CHAR_HEIGHT /\ C = COLS /\ R = ROWS /\ N = Cells
        /\ W = SCREEN_WIDTH /\ H = SCREEN_HEIGHT
        /\ W = C * w /\ H = R * h /\ N = C * R /\ R >= 2 /\ W > 0
  BY Sizes
<1>2. PICK B, b, a \in Nat : B = BUFFER_SIZE /\ b = buffersize /\ a = At(tty)
                            /\ b <= B /\ b < a /\ a <= N /\ B + 1 <= N - C
  <2>1. PICK B \in Nat : B = BUFFER_SIZE
    BY ShellAssumption
  <2>2. B + 1 <= N - C
    <3>1. C * (R - 1) = C * R - C
      BY <1>1
    <3> QED
      BY <1>1, <2>1, <3>1, ShellAssumption
  <2>3. PICK r \in 0 .. (ROWS - 1), c0 \in 0 .. COLS : Placed(tty, r, c0)
    BY DEF Inv, Neat
  <2>4. PICK a \in 0 .. N : a = At(tty)
    BY <1>1, <2>3, PlaceFacts
  <2>5. PICK b \in Nat : b = buffersize /\ b <= B
    BY <2>1 DEF letter, HasRoom, Inv
  <2>6. b < a /\ a \in Nat /\ a <= N
    BY <1>1, <2>4, <2>5 DEF Inv
  <2> QED
    BY <2>1, <2>2, <2>4, <2>5, <2>6
<1>3. PICK u : u = tty' /\ u = draw_char(tty, c)
  BY DEF letter
<1>4. PICK d \in {0, C} : Neat(u) /\ Written(tty, u, c, d) /\ (d # 0 => a = N)
  <2>1. /\ Neat(u) /\ (At(tty) # Cells => Written(tty, u, c, 0))
        /\ (At(tty) = Cells => Written(tty, u, c, COLS))
    BY <1>3, DrawChar DEF Inv
  <2> QED
    BY <1>1, <1>2, <2>1
<1>5. PICK a1 \in Nat : /\ a1 = At(u) /\ a1 = a - d + 1 /\ b + 1 < a1
                       /\ Cell(u, a1 - 1) = c
                       /\ \A q \in 0 .. (a1 - 2) : Cell(u, q) = Cell(tty, q + d)
  <2>1. /\ At(u) = a - d + 1 /\ At(u) \in 1 .. N /\ Cell(u, At(u) - 1) = c
        /\ \A q \in 0 .. (At(u) - 2) : Cell(u, q) = Cell(tty, q + d)
    BY <1>1, <1>2, <1>4 DEF Written
  <2>2. b + 1 < a - d + 1
    BY <1>1, <1>2, <1>4
  <2>3. PICK a1 \in Nat : a1 = At(u)
    BY <1>1, <2>1
  <2> QED
    BY <2>1, <2>2, <2>3
<1>6. buffersize' = b + 1 /\ commandList' = Commands
  BY <1>2 DEF letter, Inv
<1>7. /\ terminalBuffer' \in [0 .. B -> Letters \cup {NUL}]
      /\ terminalBuffer'[b] = c
      /\ \A k \in 0 .. (b - 1) : terminalBuffer'[k] = terminalBuffer[k]
  <2>1. b \in 0 .. B /\ 0 .. B \cup {b} = 0 .. B
    BY <1>2
  <2>2. terminalBuffer' = [i \in 0 .. B |-> IF i = b THEN c ELSE terminalBuffer[i]]
    BY <1>2, <2>1 DEF letter, Inv
  <2>3. \A i \in 0 .. B : terminalBuffer[i] \in Letters \cup {NUL}
    BY <1>2 DEF Inv
  <2>4. \A k \in 0 .. (b - 1) : k \in 0 .. B /\ k # b
    BY <1>2
  <2> QED
    BY <2>1, <2>2, <2>3, <2>4
<1>8. ASSUME NEW k \in 0 .. (b + 1 - 1)
      PROVE  terminalBuffer'[k] \in Letters /\ Cell(u, a1 - (b + 1) + k) = terminalBuffer'[k]
  <2>1. CASE k = b
    <3>1. a1 - (b + 1) + k = a1 - 1
      BY <1>5, <2>1
    <3> QED
      BY <1>5, <1>7, <2>1, <3>1
  <2>2. CASE k # b
    <3>1. k \in 0 .. (b - 1)
      BY <1>2, <2>2
    <3>2. PICK e \in Nat : e = d
      BY <1>1, <1>4
    <3>3. a1 = a - e + 1 /\ b + 1 < a1
      BY <1>5, <3>2
    <3>4. PICK q \in 0 .. (a1 - 2) : q = a1 - (b + 1) + k /\ q + e = a - b + k
      BY <1>2, <3>1, <3>3
    <3>5. Cell(tty, a - b + k) = terminalBuffer[k] /\ terminalBuffer[k] \in Letters
      BY <1>2, <3>1 DEF Inv
    <3> QED
      BY <1>5, <1>7, <3>1, <3>2, <3>4, <3>5
  <2> QED
    BY <2>1, <2>2
<1>9. Cell(u, a1 - (b + 1) - 1) = PROMPT
  <2>1. PICK e \in Nat : e = d
    BY <1>1, <1>4
  <2>2. a1 = a - e + 1 /\ b + 1 < a1
    BY <1>5, <2>1
  <2>3. PICK q \in Nat : q = a1 - (b + 1) - 1
    BY <2>2
  <2>4. q \in 0 .. (a1 - 2) /\ q + e = a - b - 1
    BY <1>2, <2>2, <2>3
  <2>5. Cell(u, q) = Cell(tty, a - b - 1)
    BY <1>5, <2>1, <2>4
  <2> QED
    BY <1>2, <2>3, <2>5 DEF Inv
<1>10. b + 1 \in 0 .. (BUFFER_SIZE + 1)
  BY <1>2
<1>11. Neat(tty)' /\ At(tty)' = a1
  BY <1>3, <1>4, <1>5 DEF Neat, At, Cell, Placed
<1>12. \A p : Cell(tty, p)' = Cell(u, p)
  BY <1>3 DEF Cell
<1>13. /\ (buffersize \in 0 .. (BUFFER_SIZE + 1))' /\ (buffersize < At(tty))'
       /\ Cell(tty, At(tty) - buffersize - 1)' = PROMPT
  BY <1>5, <1>6, <1>9, <1>10, <1>11, <1>12
<1>14. (\A k \in 0 .. (buffersize - 1) : Cell(tty, At(tty) - buffersize + k) = terminalBuffer[k])'
  <2>1. \A k \in 0 .. (b + 1 - 1) : Cell(u, a1 - (b + 1) + k) = terminalBuffer'[k]
    BY <1>8
  <2>2. \A k \in 0 .. (buffersize' - 1) : Cell(u, At(tty)' - buffersize' + k) = terminalBuffer'[k]
    BY <1>6, <1>11, <2>1
  <2>3. \A k \in 0 .. (buffersize' - 1) :
          Cell(tty, At(tty) - buffersize + k)' = Cell(u, At(tty)' - buffersize' + k)
    BY <1>3 DEF Cell, At
  <2> QED
    BY <2>2, <2>3
<1> QED
  BY <1>2, <1>6, <1>7, <1>8, <1>11, <1>13, <1>14 DEF Inv

LEMMA BackspaceStep ==
  ASSUME Inv, backspace
  PROVE  Inv'
<1>1. PICK B, b, a \in Nat : B = BUFFER_SIZE /\ b = buffersize /\ a = At(tty)
                            /\ b <= B + 1 /\ b < a /\ b > 0
  <2>1. PICK B \in Nat : B = BUFFER_SIZE
    BY ShellAssumption
  <2>2. PICK b \in Nat : b = buffersize /\ b <= B + 1 /\ b > 0
    BY <2>1 DEF backspace, Inv
  <2>3. PICK r \in 0 .. (ROWS - 1), c0 \in 0 .. COLS : Placed(tty, r, c0)
    BY DEF Inv, Neat
  <2>4. At(tty) \in Nat
    BY <2>3, PlaceFacts, Sizes
  <2>5. PICK a \in Nat : a = At(tty)
    BY <2>4
  <2>6. b < a
    BY <2>2, <2>5 DEF Inv
  <2> QED
    BY <2>1, <2>2, <2>5, <2>6
<1>2. PICK u : u = tty' /\ u = delete_char(tty)
  BY DEF backspace
<1>3. /\ Neat(u) /\ At(u) = a - 1
      /\ \A q \in 0 .. (a - 1 - 1) : Cell(u, q) = Cell(tty, q)
  BY <1>1, <1>2, DeleteChar DEF Inv
<1>4. buffersize' = b - 1 /\ commandList' = Commands
  BY <1>1 DEF backspace, Inv
<1>5. /\ terminalBuffer' \in [0 .. BUFFER_SIZE -> Letters \cup {NUL}]
      /\ \A k \in 0 .. (b - 1 - 1) : terminalBuffer'[k] = terminalBuffer[k]
  <2>1. terminalBuffer' = [terminalBuffer EXCEPT ![b - 1] = NUL]
    BY <1>4 DEF backspace
  <2>2. \A k \in 0 .. (b - 1 - 1) : k \in 0 .. BUFFER_SIZE /\ k # b - 1
    BY <1>1
  <2> QED
    BY <2>1, <2>2 DEF Inv
<1>6. ASSUME NEW k \in 0 .. (b - 1 - 1)
      PROVE  terminalBuffer'[k] \in Letters /\ Cell(u, a - 1 - (b - 1) + k) = terminalBuffer'[k]
  <2>1. k \in 0 .. (b - 1)
    BY <1>1
  <2>2. PICK q \in 0 .. (a - 1 - 1) : q = a - 1 - (b - 1) + k /\ q = a - b + k
    BY <1>1
  <2> QED
    BY <1>1, <1>3, <1>5, <2>1, <2>2 DEF Inv
<1>7. Cell(u, a - 1 - (b - 1) - 1) = PROMPT
  <2>1. PICK q \in 0 .. (a - 1 - 1) : q = a - 1 - (b - 1) - 1 /\ q = a - b - 1
    BY <1>1
  <2> QED
    BY <1>1, <1>3, <2>1 DEF Inv
<1>8. b - 1 \in 0 .. (BUFFER_SIZE + 1) /\ b - 1 < a - 1
  BY <1>1
<1> QED
  BY <1>2, <1>3, <1>4, <1>5, <1>6, <1>7, <1>8 DEF Inv, Neat, At, Cell

LEMMA StepInv == Inv /\ [Next]_vars => Inv'
<1> SUFFICES ASSUME Inv, [Next]_vars PROVE Inv'
  OBVIOUS
<1>1. CASE UNCHANGED vars
  BY <1>1 DEF vars, Inv, Neat, Placed, At, Cell
<1> QED
  BY <1>1, LetterStep, BackspaceStep, EnterStep, RestartStep DEF Next

-----------------------------------------------------------------------------
(* What strToNumHex makes of the first m characters.                        *)
IsNumber(d, s, m) ==
  d = [n \in 0 .. m |-> IF n = 0 THEN 0 ELSE (d[n - 1] * 16 + digit(s[n])) % WORD]

LEMMA NumberExists ==
  ASSUME NEW s, NEW l \in Nat
  PROVE  \E d : IsNumber(d, s, l)
<1> DEFINE Missing == {m \in 0 .. l : ~ \E d : IsNumber(d, s, m)}
<1> SUFFICES ASSUME l \in Missing PROVE FALSE
  OBVIOUS
<1>1. PICK m \in Missing : \A n \in Missing : m <= n
  <2>1. Missing \subseteq Nat /\ Missing # {}
    OBVIOUS
  <2> QED
    BY <2>1, Least
<1>2. CASE m = 0
  <2>1. PICK d : d = [n \in 0 .. 0 |-> 0]
    OBVIOUS
  <2>2. IsNumber(d, s, 0)
    BY <2>1 DEF IsNumber
  <2> QED
    BY <1>1, <1>2, <2>2
<1>3. CASE m # 0
  <2>1. m - 1 \in 0 .. l /\ m \in 0 .. l /\ ~ (m <= m - 1)
    BY <1>1, <1>3
  <2>2. PICK d : IsNumber(d, s, m - 1)
    BY <1>1, <2>1
  <2>3. PICK e : e = [n \in 0 .. m |-> IF n = m THEN (d[m - 1] * 16 + digit(s[m])) % WORD ELSE d[n]]
    OBVIOUS
  <2>4. ASSUME NEW n \in 0 .. m
        PROVE  e[n] = IF n = 0 THEN 0 ELSE (e[n - 1] * 16 + digit(s[n])) % WORD
    <3>1. CASE n = m
      BY <1>3, <2>1, <2>3, <3>1
    <3>2. CASE n # m
      <4>1. n \in 0 .. (m - 1) /\ (n # 0 => n - 1 \in 0 .. (m - 1) /\ n - 1 \in 0 .. m /\ n - 1 # m)
        BY <2>1, <3>2
      <4>2. d[n] = IF n = 0 THEN 0 ELSE (d[n - 1] * 16 + digit(s[n])) % WORD
        BY <2>2, <4>1 DEF IsNumber
      <4>3. e[n] = d[n] /\ (n # 0 => e[n - 1] = d[n - 1])
        BY <2>3, <3>2, <4>1
      <4> QED
        BY <4>2, <4>3
    <3> QED
      BY <3>1, <3>2
  <2>5. IsNumber(e, s, m)
    <3>1. e = [n \in 0 .. m |-> e[n]]
      BY <2>3
    <3> QED
      BY <2>4, <3>1 DEF IsNumber
  <2> QED
    BY <1>1, <2>5
<1> QED
  BY <1>2, <1>3

(* What the first m of them say.                                            *)
IsValue(d, s, m) ==
  d = [n \in 0 .. m |-> IF n = 0 THEN 0 ELSE 16 * d[n - 1] + Code[s[n]] - 48]

LEMMA ValueExists ==
  ASSUME NEW s, NEW l \in Nat
  PROVE  \E d : IsValue(d, s, l)
<1> DEFINE Missing == {m \in 0 .. l : ~ \E d : IsValue(d, s, m)}
<1> SUFFICES ASSUME l \in Missing PROVE FALSE
  OBVIOUS
<1>1. PICK m \in Missing : \A n \in Missing : m <= n
  <2>1. Missing \subseteq Nat /\ Missing # {}
    OBVIOUS
  <2> QED
    BY <2>1, Least
<1>2. CASE m = 0
  <2>1. PICK d : d = [n \in 0 .. 0 |-> 0]
    OBVIOUS
  <2>2. IsValue(d, s, 0)
    BY <2>1 DEF IsValue
  <2> QED
    BY <1>1, <1>2, <2>2
<1>3. CASE m # 0
  <2>1. m - 1 \in 0 .. l /\ m \in 0 .. l /\ ~ (m <= m - 1)
    BY <1>1, <1>3
  <2>2. PICK d : IsValue(d, s, m - 1)
    BY <1>1, <2>1
  <2>3. PICK e : e = [n \in 0 .. m |-> IF n = m THEN 16 * d[m - 1] + Code[s[m]] - 48 ELSE d[n]]
    OBVIOUS
  <2>4. ASSUME NEW n \in 0 .. m
        PROVE  e[n] = IF n = 0 THEN 0 ELSE 16 * e[n - 1] + Code[s[n]] - 48
    <3>1. CASE n = m
      BY <1>3, <2>1, <2>3, <3>1
    <3>2. CASE n # m
      <4>1. n \in 0 .. (m - 1) /\ (n # 0 => n - 1 \in 0 .. (m - 1) /\ n - 1 \in 0 .. m /\ n - 1 # m)
        BY <2>1, <3>2
      <4>2. d[n] = IF n = 0 THEN 0 ELSE 16 * d[n - 1] + Code[s[n]] - 48
        BY <2>2, <4>1 DEF IsValue
      <4>3. e[n] = d[n] /\ (n # 0 => e[n - 1] = d[n - 1])
        BY <2>3, <3>2, <4>1
      <4> QED
        BY <4>2, <4>3
    <3> QED
      BY <3>1, <3>2
  <2>5. IsValue(e, s, m)
    <3>1. e = [n \in 0 .. m |-> e[n]]
      BY <2>3
    <3> QED
      BY <2>4, <3>1 DEF IsValue
  <2> QED
    BY <1>1, <2>5
<1> QED
  BY <1>2, <1>3

(* Cutting every step down to a word, or only the last, is the same.       *)
LEMMA CutDown ==
  ASSUME NEW x \in Nat, NEW c \in Nat, NEW W \in Nat \ {0}
  PROVE  ((x % W) * 16 + c) % W = (16 * x + c) % W
<1>1. PICK q \in Nat, r \in 0 .. (W - 1) : q = x \div W /\ r = x % W /\ x = W * q + r
  OBVIOUS
<1>2. PICK y \in Nat : y = r * 16 + c
  OBVIOUS
<1>3. PICK p \in Nat, s \in 0 .. (W - 1) : p = y \div W /\ s = y % W /\ y = W * p + s
  BY <1>2
<1>4. 16 * x + c = (16 * q + p) * W + s
  <2>1. (16 * q + p) * W = 16 * (W * q) + W * p
    OBVIOUS
  <2>2. PICK wq, wp \in Nat : wq = W * q /\ wp = W * p
    BY <1>1, <1>3
  <2>3. x = wq + r /\ r * 16 + c = wp + s
    BY <1>1, <1>2, <1>3, <2>2
  <2>4. 16 * x + c = 16 * wq + wp + s
    BY <2>3
  <2> QED
    BY <2>1, <2>2, <2>4
<1>5. PICK k \in Int : k = 16 * q + p
  OBVIOUS
<1>6. (k * W + s) % W = s
  BY Divided
<1>7. (16 * x + c) % W = s
  BY <1>4, <1>5, <1>6
<1>8. ((x % W) * 16 + c) % W = s
  BY <1>1, <1>2, <1>3
<1> QED
  BY <1>7, <1>8

(* On decimal digits the two agree but for that.                           *)
LEMMA SameNumber ==
  ASSUME NEW l \in Nat, NEW s, NEW t, NEW d, NEW e, IsNumber(d, s, l), IsValue(e, t, l),
         \A k \in 1 .. l : s[k] = t[k] /\ Code[t[k]] \in 48 .. 57
  PROVE  d[l] = e[l] % WORD
<1>1. PICK W \in Nat \ {0} : W = WORD
  BY ShellAssumption
<1> DEFINE Good(m) == e[m] \in Nat /\ d[m] = e[m] % WORD
           Lost == {m \in 0 .. l : ~ Good(m)}
<1>2. ASSUME Lost # {} PROVE FALSE
  <2>1. PICK m \in Lost : \A n \in Lost : m <= n
    <3>1. Lost \subseteq Nat
      OBVIOUS
    <3> QED
      BY <1>2, <3>1, Least
  <2>2. m \in 0 .. l /\ ~ Good(m)
    BY <2>1
  <2>3. CASE m = 0
    <3>1. d[m] = 0 /\ e[m] = 0
      BY <2>2, <2>3 DEF IsNumber, IsValue
    <3>2. 0 % W = 0
      OBVIOUS
    <3> QED
      BY <1>1, <2>2, <3>1, <3>2
  <2>4. CASE m # 0
    <3>1. m - 1 \in 0 .. l /\ ~ (m <= m - 1) /\ m \in 1 .. l
      BY <2>2, <2>4
    <3>2. Good(m - 1)
      BY <2>1, <3>1
    <3>3. PICK x \in Nat : x = e[m - 1] /\ d[m - 1] = x % W
      BY <1>1, <3>2
    <3>4. PICK a \in 48 .. 57 : a = Code[s[m]] /\ a = Code[t[m]]
      BY <3>1
    <3>5. PICK c \in Nat : c = a - 48 /\ digit(s[m]) = c
      BY <3>4 DEF digit
    <3>6. d[m] = (d[m - 1] * 16 + digit(s[m])) % WORD /\ e[m] = 16 * e[m - 1] + Code[t[m]] - 48
      BY <2>2, <2>4 DEF IsNumber, IsValue
    <3>7. d[m] = ((x % W) * 16 + c) % W
      BY <1>1, <3>3, <3>5, <3>6
    <3>8. e[m] = 16 * x + c /\ e[m] \in Nat
      BY <3>3, <3>4, <3>5, <3>6
    <3>9. ((x % W) * 16 + c) % W = (16 * x + c) % W
      BY CutDown
    <3>10. Good(m)
      BY <1>1, <3>7, <3>8, <3>9
    <3> QED
      BY <2>2, <3>10
  <2> QED
    BY <2>3, <2>4
<1>3. Good(l)
  BY <1>2
<1> QED
  BY <1>3

(* Where the digits end, strToNumHex stops.                                *)
LEMMA StopsAt ==
  ASSUME NEW n \in Nat, NEW s \in Seq(Letters), n <= Len(s),
         \A k \in 1 .. n : s[k] # SPACE, n = Len(s) \/ s[n + 1] = SPACE
  PROVE  LET I == {i \in 1 .. Len(s \o <<SPACE>>) : (s \o <<SPACE>>)[i] = SPACE}
         IN (IF I # {} THEN Min(I) ELSE 0) = n + 1
<1>1. PICK L \in Nat : L = Len(s) /\ n <= L
  OBVIOUS
<1>2. PICK a : /\ a = s \o <<SPACE>> /\ Len(a) = L + 1
              /\ a[L + 1] = SPACE /\ \A k \in 1 .. L : a[k] = s[k]
  <2>1. s \in Seq(Letters \cup {SPACE}) /\ <<SPACE>> \in Seq(Letters \cup {SPACE})
    OBVIOUS
  <2>2. /\ Len(s \o <<SPACE>>) = Len(s) + Len(<<SPACE>>)
        /\ \A i \in 1 .. Len(s) + Len(<<SPACE>>) :
             (s \o <<SPACE>>)[i] = IF i <= Len(s) THEN s[i] ELSE <<SPACE>>[i - Len(s)]
    BY <2>1, ConcatProperties
  <2>3. Len(<<SPACE>>) = 1 /\ <<SPACE>>[1] = SPACE /\ L + 1 - L = 1
    BY <1>1
  <2>4. Len(s \o <<SPACE>>) = L + 1
    BY <1>1, <2>2, <2>3
  <2>5. (s \o <<SPACE>>)[L + 1] = SPACE
    <3>1. L + 1 \in 1 .. L + 1 /\ ~ (L + 1 <= L)
      BY <1>1
    <3>2. (s \o <<SPACE>>)[L + 1] = <<SPACE>>[L + 1 - L]
      BY <1>1, <2>2, <2>3, <3>1
    <3> QED
      BY <2>3, <3>2
  <2>6. \A k \in 1 .. L : (s \o <<SPACE>>)[k] = s[k]
    BY <1>1, <2>2, <2>3
  <2> QED
    BY <2>4, <2>5, <2>6
<1>3. a[L + 1] = SPACE /\ \A k \in 1 .. L : a[k] = s[k]
  BY <1>2
<1> DEFINE I == {i \in 1 .. Len(a) : a[i] = SPACE}
<1>4. n + 1 \in I
  BY <1>1, <1>2, <1>3
<1>5. \A i \in I : n + 1 <= i
  <2> SUFFICES ASSUME NEW i \in I, i < n + 1 PROVE FALSE
    BY <1>1, <1>2
  <2>1. i \in 1 .. n /\ i \in 1 .. L
    BY <1>1, <1>2
  <2> QED
    BY <1>3, <2>1
<1>6. Min(I) = n + 1
  <2>1. I \subseteq Nat
    BY <1>1, <1>2
  <2>2. Min(I) \in I /\ \A i \in I : Min(I) <= i
    BY <1>4, <1>5 DEF Min
  <2>3. Min(I) <= n + 1 /\ n + 1 <= Min(I) /\ Min(I) \in Nat
    BY <1>4, <1>5, <2>1, <2>2
  <2> QED
    BY <2>3
<1> QED
  BY <1>2, <1>4, <1>5, <1>6

(* It reads the digits before a space or the end.                          *)
LEMMA Reads ==
  ASSUME NEW n \in Nat, NEW s \in Seq(Letters), NEW t, n <= Len(s), Len(t) = n,
         \A k \in 1 .. n : s[k] = t[k] /\ Code[t[k]] \in 48 .. 57,
         n = Len(s) \/ s[n + 1] = SPACE
  PROVE  strToNumHex(s) = AddressOf(t) % WORD
<1>1. \A k \in 1 .. n : s[k] # SPACE
  <2> SUFFICES ASSUME NEW k \in 1 .. n, s[k] = SPACE PROVE FALSE
    OBVIOUS
  <2>1. k \in 1 .. Len(s)
    OBVIOUS
  <2>2. SPACE \in Letters /\ Code[SPACE] \in 48 .. 57
    BY <2>1
  <2> QED
    BY <2>2, ShellAssumption
<1>2. LET I == {i \in 1 .. Len(s \o <<SPACE>>) : (s \o <<SPACE>>)[i] = SPACE}
      IN (IF I # {} THEN Min(I) ELSE 0) = n + 1
  BY <1>1, StopsAt
<1>3. PICK d : IsNumber(d, s, n) /\ strToNumHex(s) = d[n]
  <2> DEFINE end == SelectInSeq(s \o <<SPACE>>, LAMBDA c : c = SPACE)
             D == CHOOSE d : IsNumber(d, s, end - 1)
  <2>1. strToNumHex(s) = D[end - 1]
    BY DEF strToNumHex, IsNumber
  <2>2. end = n + 1
    BY <1>2 DEF SelectInSeq
  <2> HIDE DEF end
  <2>3. end - 1 = n
    BY <2>2
  <2>4. IsNumber(D, s, n)
    BY <2>3, NumberExists
  <2> QED
    BY <2>1, <2>3, <2>4
<1>4. PICK e : IsValue(e, t, n) /\ AddressOf(t) = e[n]
  <2> DEFINE E == CHOOSE e : IsValue(e, t, n)
  <2>1. IsValue(E, t, n)
    BY ValueExists
  <2>2. AddressOf(t) = E[n]
    BY DEF AddressOf, IsValue
  <2> QED
    BY <2>1, <2>2
<1>5. d[n] = e[n] % WORD
  BY <1>3, <1>4, SameNumber
<1> QED
  BY <1>3, <1>4, <1>5

(* The invariant: the screen, the line on it and the table, under the      *)
(* editor, the handler and the restarts of shell.c.                        *)
THEOREM Invariant == Spec => []Inv
<1> QED
  BY InitInv, StepInv, PTL DEF Spec

(* The line editor stays within its buffer and the cursor on the screen    *)
(* (shell.c 79-98).                                                        *)
THEOREM TypeCorrect == Spec => []TypeOK
<1>1. Inv => TypeOK
  <2> SUFFICES ASSUME Inv PROVE TypeOK
    OBVIOUS
  <2>1. PICK w, h, C \in Nat \ {0}, R, W, H, N \in Nat :
          /\ w = CHAR_WIDTH /\ h = CHAR_HEIGHT /\ C = COLS /\ R = ROWS /\ N = Cells
          /\ W = SCREEN_WIDTH /\ H = SCREEN_HEIGHT
          /\ W = C * w /\ H = R * h /\ N = C * R /\ R >= 2 /\ W > 0
    BY Sizes
  <2>2. PICK r \in 0 .. (R - 1), c \in 0 .. C : Placed(tty, r, c)
    BY <2>1 DEF Inv, Neat
  <2>3. c * w \in 0 .. W /\ r * h \in 0 .. (H - 1)
    <3>1. c * w <= C * w /\ c * w \in Nat /\ r * h \in Nat
      BY <2>1
    <3>2. r * h <= (R - 1) * h /\ (R - 1) * h = H - h
      BY <2>1
    <3> QED
      BY <2>1, <3>1, <3>2
  <2> QED
    BY <2>1, <2>2, <2>3 DEF Placed, Inv, TypeOK
<1> QED
  BY <1>1, Invariant, PTL

(* What stands between the prompt and the cursor is the line that will     *)
(* run, and nothing stands behind it (shell.c 79-98, video_driver.c 87-98  *)
(* and 169-203).                                                           *)
THEOREM LineOnScreen == Spec => []LineShown
<1>1. Inv => LineShown
  BY DEF Inv, LineShown, Shown, Cursor, Cell, At, Neat, Cells
<1> QED
  BY <1>1, Invariant, PTL

(* No restart adds to the table (shell.c 22-23 and 149).                   *)
THEOREM TableKept == Spec => []CommandsKept
<1>1. Inv => CommandsKept
  BY ShellAssumption DEF Inv, CommandsKept
<1> QED
  BY <1>1, Invariant, PTL

(* How long what follows is, and where it goes on after n digits.          *)
LEMMA Lengths ==
  ASSUME NEW b \in Nat, NEW P \in Nat, NEW n \in Nat, P + 2 + n <= b
  PROVE  \E L \in Nat : /\ L = b - P - 2 /\ n <= L
                        /\ n # L => \E m \in Nat : m = P + 3 + n /\ m <= b
OBVIOUS

(* Of what follows the name, printMem takes the digits up to a space.      *)
LEMMA AddressStep ==
  ASSUME Inv, Next, asked' # None,
         NEW n \in 0 .. (Len(potentialCommand) - Len(printMem) - 2),
         NEW number, number = SubSeq(potentialCommand, Len(printMem) + 3, Len(printMem) + 2 + n),
         NEW rest,
         rest = SubSeq(potentialCommand, Len(printMem) + 3 + n, Len(potentialCommand)),
         IsNumeral(number), rest = <<>> \/ Head(rest) = SPACE
  PROVE  asked' = AddressOf(number) % WORD
<1>1. PICK typed \in Seq(Letters), b \in Nat : typed = potentialCommand /\ b = Len(typed)
  <2>1. PICK b \in Nat : b = buffersize
    BY ShellAssumption DEF Inv
  <2>2. \A k \in 1 .. b : terminalBuffer[k - 1] \in Letters
    <3> SUFFICES ASSUME NEW k \in 1 .. b PROVE terminalBuffer[k - 1] \in Letters
      OBVIOUS
    <3>1. k - 1 \in 0 .. (b - 1)
      OBVIOUS
    <3> QED
      BY <2>1, <3>1 DEF Inv
  <2>3. potentialCommand = [i \in 1 .. b |-> terminalBuffer[i - 1]]
    BY <2>1 DEF potentialCommand
  <2>4. potentialCommand \in [1 .. b -> Letters]
    BY <2>2, <2>3
  <2>5. potentialCommand \in Seq(Letters)
    BY <2>4
  <2>6. Len(potentialCommand) = b
    BY <2>4, <2>5
  <2> QED
    BY <2>5, <2>6
<1>2. PICK P \in Nat : P = Len(printMem)
  BY ShellAssumption
<1>3. asked' = strToNumHex(argument(typed))
  <2>1. CASE enter
    <3>1. CommandHandler(typed)
      BY <1>1, <2>1 DEF enter
    <3> QED
      BY <3>1 DEF CommandHandler, command, dump, unknown
  <2>2. CASE ~ enter
    BY <2>2 DEF Next, letter, backspace, restart
  <2> QED
    BY <2>1, <2>2
<1>4. n \in Nat /\ P + 2 + n <= b
  <2>1. Len(potentialCommand) - Len(printMem) - 2 = b - P - 2
    BY <1>1, <1>2
  <2>2. n \in 0 .. (b - P - 2)
    BY <2>1
  <2> QED
    BY <1>1, <1>2, <2>2
<1>5. PICK L \in Nat : /\ L = b - P - 2 /\ n <= L
                       /\ n # L => \E m \in Nat : m = P + 3 + n /\ m <= b
  BY <1>4, Lengths
<1>6. \A i \in 1 .. b : typed[i] \in Letters
  BY <1>1
<1>7. PICK s : /\ s = argument(typed) /\ s \in Seq(Letters) /\ Len(s) = L
              /\ \A k \in 1 .. L : s[k] = typed[P + 2 + k]
  <2>1. PICK m \in Nat : m = P + 3
    BY <1>2
  <2>2. \A i \in m .. b : typed[i] \in Letters
    BY <1>6, <2>1
  <2>3. /\ SubSeq(typed, m, b) \in Seq(Letters)
        /\ Len(SubSeq(typed, m, b)) = IF m <= b THEN b - m + 1 ELSE 0
        /\ \A i \in 1 .. b - m + 1 : SubSeq(typed, m, b)[i] = typed[m + i - 1]
    BY <2>2, SubSeqProperties
  <2>4. argument(typed) = SubSeq(typed, m, b)
    BY <1>1, <1>2, <2>1 DEF argument
  <2>5. b - m + 1 = b - P - 2 /\ \A k \in 1 .. (b - P - 2) : m + k - 1 = P + 2 + k
    BY <1>2, <2>1
  <2>6. Len(SubSeq(typed, m, b)) = L
    BY <1>2, <1>4, <1>5, <2>1, <2>3
  <2>7. \A k \in 1 .. L : SubSeq(typed, m, b)[k] = typed[P + 2 + k]
    BY <1>5, <2>3, <2>5
  <2> QED
    BY <2>3, <2>4, <2>6, <2>7
<1>8. /\ number \in Seq(Letters) /\ Len(number) = n
      /\ \A k \in 1 .. n : number[k] = typed[P + 2 + k]
  <2>1. PICK m, l \in Nat : m = P + 3 /\ l = P + 2 + n
    BY <1>2, <1>4
  <2>2. \A i \in m .. l : typed[i] \in Letters
    BY <1>4, <1>6, <2>1
  <2>3. /\ SubSeq(typed, m, l) \in Seq(Letters)
        /\ Len(SubSeq(typed, m, l)) = IF m <= l THEN l - m + 1 ELSE 0
        /\ \A i \in 1 .. l - m + 1 : SubSeq(typed, m, l)[i] = typed[m + i - 1]
    BY <2>2, SubSeqProperties
  <2>4. number = SubSeq(typed, m, l)
    BY <1>1, <1>2, <2>1
  <2>5. l - m + 1 = n /\ \A k \in 1 .. n : m + k - 1 = P + 2 + k
    BY <1>2, <1>4, <2>1
  <2>6. Len(SubSeq(typed, m, l)) = n
    BY <1>4, <2>1, <2>3
  <2> QED
    BY <2>3, <2>4, <2>5, <2>6
<1>9. \A k \in 1 .. n : s[k] = number[k] /\ Code[number[k]] \in 48 .. 57
  <2> SUFFICES ASSUME NEW k \in 1 .. n PROVE s[k] = number[k] /\ Code[number[k]] \in 48 .. 57
    OBVIOUS
  <2>1. k \in 1 .. L
    BY <1>5
  <2>2. DOMAIN number = 1 .. n
    BY <1>8, LenProperties
  <2> QED
    BY <1>7, <1>8, <2>1, <2>2 DEF IsNumeral
<1>10. n = Len(s) \/ s[n + 1] = SPACE
  <2> SUFFICES ASSUME n # Len(s) PROVE s[n + 1] = SPACE
    OBVIOUS
  <2>1. PICK m \in Nat : m = P + 3 + n /\ m <= b
    BY <1>5, <1>7
  <2>2. \A i \in m .. b : typed[i] \in Letters
    BY <1>6, <2>1
  <2>3. /\ rest \in Seq(Letters) /\ Len(rest) = b - m + 1
        /\ \A i \in 1 .. b - m + 1 : rest[i] = typed[m + i - 1]
    BY <1>1, <1>2, <2>1, <2>2, SubSeqProperties
  <2>4. Len(rest) >= 1 /\ 1 \in 1 .. b - m + 1
    BY <2>1, <2>3
  <2>5. rest # <<>>
    <3>1. Len(rest) # 0
      BY <2>3, <2>4
    <3> QED
      BY <3>1, EmptySeq
  <2>6. Head(rest) = typed[m]
    BY <1>1, <1>2, <2>1, <2>2, HeadTailOfSubSeq
  <2>7. n + 1 \in 1 .. L /\ P + 2 + (n + 1) = m
    BY <1>2, <1>4, <1>5, <2>1
  <2> QED
    BY <1>7, <2>5, <2>6, <2>7
<1>11. n <= Len(s)
  BY <1>5, <1>7
<1>12. s \in Seq(Letters) /\ Len(number) = n /\ n \in Nat
  BY <1>4, <1>7, <1>8
<1>13. strToNumHex(s) = AddressOf(number) % WORD
  BY <1>9, <1>10, <1>11, <1>12, Reads, ZenonT(60)
<1> QED
  BY <1>3, <1>7, <1>13

(* The address printMem asks for is the one that was typed (shell.c        *)
(* 177-185, Lib.c 92-121).                                                 *)
THEOREM AddressTyped == Spec => AddressRead
<1>1. Inv /\ [Next]_vars =>
        [LET typed == potentialCommand IN
         \A n \in 0 .. (Len(typed) - Len(printMem) - 2) :
           LET number == SubSeq(typed, Len(printMem) + 3, Len(printMem) + 2 + n)
               rest   == SubSeq(typed, Len(printMem) + 3 + n, Len(typed)) IN
           /\ asked' # None /\ IsNumeral(number) /\ (rest = <<>> \/ Head(rest) = SPACE)
           => asked' = AddressOf(number) % WORD]_vars
  BY AddressStep
<1> QED
  BY <1>1, Invariant, PTL DEF Spec, AddressRead
-----------------------------------------------------------------------------
(* The clock chip, and the command that prints what it shows.              *)

(* Division by a base.                                                     *)
LEMMA DivFacts ==
  ASSUME NEW base \in Nat, base >= 2, NEW v \in Nat
  PROVE  \E q \in Nat, c \in 0 .. (base - 1) :
           /\ q = v \div base /\ c = v % base /\ v = base * q + c
           /\ q <= v /\ (v # 0 => q < v) /\ (v = 0 => q = 0)
<1>1. PICK q \in Nat, c \in 0 .. (base - 1) : q = v \div base /\ c = v % base /\ v = base * q + c
  OBVIOUS
<1>2. base * q >= 2 * q
  BY <1>1
<1>3. PICK p \in Nat : p = base * q
  BY <1>1
<1>4. q <= v /\ (v # 0 => q < v) /\ (v = 0 => q = 0)
  BY <1>1, <1>2, <1>3
<1> QED
  BY <1>1, <1>4

(* The digits of every number up to m.                                     *)
IsDigits(d, base, m) ==
  d = [v \in 0 .. m |->
         <<v % base>> \o (IF More(v, base) THEN d[v \div base] ELSE <<>>)]

LEMMA DigitsExist ==
  ASSUME NEW base \in Nat, base >= 2, NEW l \in Nat
  PROVE  \E d : IsDigits(d, base, l)
<1> DEFINE Missing == {m \in 0 .. l : ~ \E d : IsDigits(d, base, m)}
<1> SUFFICES ASSUME l \in Missing PROVE FALSE
  OBVIOUS
<1>1. PICK m \in Missing : \A n \in Missing : m <= n
  <2>1. Missing \subseteq Nat /\ Missing # {}
    OBVIOUS
  <2> QED
    BY <2>1, Least
<1>2. m \in 0 .. l /\ m \in Nat
  BY <1>1
<1>3. PICK d : m # 0 => IsDigits(d, base, m - 1)
  <2>1. m # 0 => m - 1 \in 0 .. l /\ ~ (m <= m - 1)
    BY <1>2
  <2> QED
    BY <1>1, <2>1
<1>4. PICK e : e = [v \in 0 .. m |->
                      IF v = m THEN <<m % base>> \o
                                    (IF More(m, base) THEN d[m \div base] ELSE <<>>)
                      ELSE d[v]]
  OBVIOUS
<1>5. ASSUME NEW v \in 0 .. m
      PROVE  e[v] = <<v % base>> \o (IF More(v, base) THEN e[v \div base] ELSE <<>>)
  <2>1. PICK q \in Nat : q = v \div base /\ q <= v /\ (v # 0 => q < v) /\ (v = 0 => q = 0)
    <3>1. v \in Nat
      BY <1>2
    <3> QED
      BY <3>1, DivFacts
  <2>2. More(v, base) => q # 0
    BY <2>1 DEF More
  <2>3. CASE v = m
    <3>1. More(v, base) => e[q] = d[q]
      BY <1>2, <1>4, <2>1, <2>2, <2>3
    <3> QED
      BY <1>4, <2>1, <2>3, <3>1
  <2>4. CASE v # m
    <3>1. v \in 0 .. (m - 1) /\ m # 0 /\ q \in 0 .. m /\ q # m
      BY <1>2, <2>1, <2>4
    <3>2. d[v] = <<v % base>> \o (IF More(v, base) THEN d[v \div base] ELSE <<>>)
      BY <1>3, <3>1 DEF IsDigits
    <3>3. e[v] = d[v] /\ e[q] = d[q]
      BY <1>4, <2>4, <3>1
    <3> QED
      BY <2>1, <3>2, <3>3
  <2> QED
    BY <2>3, <2>4
<1>6. IsDigits(e, base, m)
  <2>1. e = [v \in 0 .. m |-> e[v]]
    BY <1>4
  <2> QED
    BY <1>5, <2>1 DEF IsDigits
<1> QED
  BY <1>1, <1>6

(* Each value of e takes one more digit of r.                              *)
Counts(e, r, base, m) ==
  \A n \in 0 .. m : e[n] = IF n = 0 THEN 0 ELSE base * e[n - 1] + r[n]

(* The digits s of v, the lowest first.                                    *)
Spells(s, v, base) ==
  /\ s \in Seq(0 .. (base - 1)) /\ Len(s) > 0
  /\ v # 0 => s[Len(s)] # 0
  /\ v = 0 => Len(s) = 1
  /\ \A r, e : (\A i \in 1 .. Len(s) : r[i] = s[Len(s) + 1 - i]) /\ Counts(e, r, base, Len(s))
              => e[Len(s)] = v

LEMMA Mirror ==
  ASSUME NEW L \in Nat, NEW i \in 1 .. L
  PROVE  \E j \in 1 .. (L + 1) : j = L + 1 + 1 - i /\ j # 1 /\ j - 1 = L + 1 - i
OBVIOUS

(* A digit in front of the digits of the rest.                             *)
LEMMA Another ==
  ASSUME NEW base \in Nat, base >= 2, NEW q \in Nat, q # 0, NEW c \in 0 .. (base - 1),
         NEW t, Spells(t, q, base), NEW s, s = <<c>> \o t
  PROVE  Spells(s, base * q + c, base)
<1>1. PICK L \in Nat : L = Len(t) /\ L > 0 /\ t \in Seq(0 .. (base - 1))
  BY DEF Spells
<1>2. /\ s \in Seq(0 .. (base - 1)) /\ Len(s) = L + 1
      /\ \A i \in 1 .. (L + 1) : s[i] = IF i = 1 THEN c ELSE t[i - 1]
  <2>1. <<c>> \in Seq(0 .. (base - 1)) /\ Len(<<c>>) = 1 /\ <<c>>[1] = c
    OBVIOUS
  <2>2. /\ s \in Seq(0 .. (base - 1)) /\ Len(s) = 1 + L
        /\ \A i \in 1 .. (1 + L) : s[i] = IF i <= 1 THEN <<c>>[i] ELSE t[i - 1]
    BY <1>1, <2>1, ConcatProperties
  <2>3. 1 + L = L + 1 /\ \A i \in 1 .. (L + 1) : i <= 1 <=> i = 1
    BY <1>1
  <2> QED
    BY <2>1, <2>2, <2>3
<1>3. s[L + 1] # 0
  <2>1. L + 1 \in 1 .. (L + 1) /\ L + 1 # 1 /\ L + 1 - 1 = L
    BY <1>1
  <2> QED
    BY <1>1, <1>2, <2>1 DEF Spells
<1>4. base * q + c # 0 /\ base * q + c \in Nat
  <2>1. base * q >= 2 * q /\ base * q \in Nat
    OBVIOUS
  <2> QED
    BY <2>1
<1>5. ASSUME NEW r, NEW e, \A i \in 1 .. (L + 1) : r[i] = s[L + 1 + 1 - i],
             Counts(e, r, base, L + 1)
      PROVE  e[L + 1] = base * q + c
  <2>1. \A i \in 1 .. L : r[i] = t[L + 1 - i]
    <3> SUFFICES ASSUME NEW i \in 1 .. L PROVE r[i] = t[L + 1 - i]
      OBVIOUS
    <3>1. PICK j \in 1 .. (L + 1) : j = L + 1 + 1 - i /\ j # 1 /\ j - 1 = L + 1 - i
      BY Mirror
    <3>2. i \in 1 .. (L + 1)
      BY <1>1
    <3> QED
      BY <1>2, <1>5, <3>1, <3>2
  <2>2. Counts(e, r, base, L)
    <3>1. 0 .. L \subseteq 0 .. (L + 1)
      BY <1>1
    <3> QED
      BY <1>5, <3>1 DEF Counts
  <2>3. e[L] = q
    BY <1>1, <2>1, <2>2 DEF Spells
  <2>4. r[L + 1] = c
    <3>1. L + 1 \in 1 .. (L + 1) /\ L + 1 + 1 - (L + 1) = 1 /\ 1 \in 1 .. (L + 1)
      BY <1>1
    <3> QED
      BY <1>2, <1>5, <3>1
  <2>5. e[L + 1] = base * e[L] + r[L + 1]
    <3>1. L + 1 \in 0 .. (L + 1) /\ L + 1 # 0 /\ L + 1 - 1 = L
      BY <1>1
    <3> QED
      BY <1>5, <3>1 DEF Counts
  <2> QED
    BY <2>3, <2>4, <2>5
<1>6. PICK v : v = base * q + c
  OBVIOUS
<1>7. \A r, e : (\A i \in 1 .. Len(s) : r[i] = s[Len(s) + 1 - i]) /\ Counts(e, r, base, Len(s))
              => e[Len(s)] = v
  <2> SUFFICES ASSUME NEW r, NEW e, \A i \in 1 .. Len(s) : r[i] = s[Len(s) + 1 - i],
                      Counts(e, r, base, Len(s))
               PROVE  e[Len(s)] = v
    OBVIOUS
  <2>1. \A i \in 1 .. (L + 1) : r[i] = s[L + 1 + 1 - i]
    BY <1>2
  <2>2. Counts(e, r, base, L + 1)
    BY <1>2
  <2>3. e[L + 1] = base * q + c
    BY <1>5, <2>1, <2>2
  <2> QED
    BY <1>2, <1>6, <2>3
<1>8. s[Len(s)] # 0 /\ v # 0 /\ Len(s) > 0
  BY <1>1, <1>2, <1>3, <1>4, <1>6
<1>9. Spells(s, v, base)
  BY <1>2, <1>7, <1>8 DEF Spells
<1> QED
  BY <1>6, <1>9

(* A number below the base is its only digit.                              *)
LEMMA Single ==
  ASSUME NEW base \in Nat, base >= 2, NEW v \in 0 .. (base - 1), NEW s, s = <<v>>
  PROVE  Spells(s, v, base)
<1>1. s \in Seq(0 .. (base - 1)) /\ Len(s) = 1 /\ s[1] = v
  OBVIOUS
<1>2. ASSUME NEW r, NEW e, \A i \in 1 .. 1 : r[i] = s[1 + 1 - i], Counts(e, r, base, 1)
      PROVE  e[1] = v
  <2>1. r[1] = v
    BY <1>1, <1>2
  <2>2. e[0] = 0 /\ e[1] = base * e[0] + r[1]
    <3>1. 0 \in 0 .. 1 /\ 1 \in 0 .. 1 /\ 1 - 1 = 0
      OBVIOUS
    <3> QED
      BY <1>2, <3>1 DEF Counts
  <2> QED
    BY <2>1, <2>2
<1> QED
  BY <1>1, <1>2 DEF Spells

(* The first loop spells every number.                                     *)
LEMMA AllSpelt ==
  ASSUME NEW base \in Nat, base >= 2, NEW n \in Nat
  PROVE  Spells(Backwards(n, base), n, base)
<1>1. PICK d : IsDigits(d, base, n) /\ Backwards(n, base) = d[n]
  <2> DEFINE D == CHOOSE d : IsDigits(d, base, n)
  <2>1. IsDigits(D, base, n)
    BY DigitsExist
  <2>2. Backwards(n, base) = D[n]
    BY DEF Backwards, IsDigits
  <2> QED
    BY <2>1, <2>2
<1> DEFINE Lost == {m \in 0 .. n : ~ Spells(d[m], m, base)}
<1>2. ASSUME Lost # {} PROVE FALSE
  <2>1. PICK m \in Lost : \A k \in Lost : m <= k
    <3>1. Lost \subseteq Nat
      OBVIOUS
    <3> QED
      BY <1>2, <3>1, Least
  <2>2. m \in 0 .. n /\ m \in Nat /\ ~ Spells(d[m], m, base)
    BY <2>1
  <2>3. PICK q \in Nat, c \in 0 .. (base - 1) :
          /\ q = m \div base /\ c = m % base /\ m = base * q + c
          /\ q <= m /\ (m # 0 => q < m) /\ (m = 0 => q = 0)
    BY <2>2, DivFacts
  <2>4. d[m] = <<c>> \o (IF More(m, base) THEN d[q] ELSE <<>>)
    BY <1>1, <2>2, <2>3 DEF IsDigits
  <2>5. CASE q = 0
    <3>1. ~ More(m, base) /\ m = c
      BY <2>3, <2>5 DEF More
    <3>2. d[m] = <<c>> \o <<>>
      BY <2>4, <3>1
    <3>3. d[m] = <<c>>
      <4>1. <<c>> \in Seq(0 .. (base - 1))
        OBVIOUS
      <4> QED
        BY <3>2, <4>1, ConcatEmptySeq
    <3>4. Spells(d[m], c, base)
      BY <3>3, Single
    <3> QED
      BY <2>2, <3>1, <3>4
  <2>6. CASE q # 0
    <3>1. More(m, base)
      BY <2>3, <2>6 DEF More
    <3>2. q \in 0 .. n /\ ~ (m <= q)
      BY <2>2, <2>3, <2>6
    <3>3. Spells(d[q], q, base)
      BY <2>1, <3>2
    <3>4. d[m] = <<c>> \o d[q]
      BY <2>4, <3>1
    <3>5. Spells(d[m], base * q + c, base)
      BY <2>6, <3>3, <3>4, Another
    <3> QED
      BY <2>2, <2>3, <3>5
  <2> QED
    BY <2>5, <2>6
<1>3. Spells(d[n], n, base)
  BY <1>2
<1> QED
  BY <1>1, <1>3

(* One step exchanges a digit and its opposite.                            *)
Exchange(t, p, k) == [t EXCEPT ![k] = p[Len(p) + 1 - k], ![Len(p) + 1 - k] = p[k]]

(* What the second loop makes of p in m steps.                              *)
IsSwapped(d, p, m) ==
  d = [n \in 0 .. m |-> IF n = 0 THEN p ELSE Exchange(d[n - 1], p, n)]

LEMMA SwappedExists ==
  ASSUME NEW p, NEW l \in Nat
  PROVE  \E d : IsSwapped(d, p, l)
<1> DEFINE Missing == {m \in 0 .. l : ~ \E d : IsSwapped(d, p, m)}
<1> SUFFICES ASSUME l \in Missing PROVE FALSE
  OBVIOUS
<1>1. PICK m \in Missing : \A n \in Missing : m <= n
  <2>1. Missing \subseteq Nat /\ Missing # {}
    OBVIOUS
  <2> QED
    BY <2>1, Least
<1>2. CASE m = 0
  <2>1. PICK d : d = [n \in 0 .. 0 |-> p]
    OBVIOUS
  <2>2. IsSwapped(d, p, 0)
    BY <2>1 DEF IsSwapped
  <2> QED
    BY <1>1, <1>2, <2>2
<1>3. CASE m # 0
  <2>1. m - 1 \in 0 .. l /\ m \in 0 .. l /\ ~ (m <= m - 1)
    BY <1>1, <1>3
  <2>2. PICK d : IsSwapped(d, p, m - 1)
    BY <1>1, <2>1
  <2>3. PICK e : e = [n \in 0 .. m |-> IF n = m THEN Exchange(d[m - 1], p, m) ELSE d[n]]
    OBVIOUS
  <2>4. ASSUME NEW n \in 0 .. m
        PROVE  e[n] = IF n = 0 THEN p ELSE Exchange(e[n - 1], p, n)
    <3>1. CASE n = m
      BY <1>3, <2>1, <2>3, <3>1
    <3>2. CASE n # m
      <4>1. /\ n \in 0 .. (m - 1)
            /\ n # 0 => n - 1 \in 0 .. (m - 1) /\ n - 1 \in 0 .. m /\ n - 1 # m
        BY <2>1, <3>2
      <4>2. d[n] = IF n = 0 THEN p ELSE Exchange(d[n - 1], p, n)
        BY <2>2, <4>1 DEF IsSwapped
      <4>3. e[n] = d[n] /\ (n # 0 => e[n - 1] = d[n - 1])
        BY <2>3, <3>2, <4>1
      <4> QED
        BY <4>2, <4>3
    <3> QED
      BY <3>1, <3>2
  <2>5. IsSwapped(e, p, m)
    <3>1. e = [n \in 0 .. m |-> e[n]]
      BY <2>3
    <3> QED
      BY <2>4, <3>1 DEF IsSwapped
  <2> QED
    BY <1>1, <2>5
<1> QED
  BY <1>2, <1>3

(* After m steps the ends are in each other's places.                      *)
Half(u, p, S, m) ==
  LET L == Len(p) IN
  /\ u \in [1 .. L -> S]
  /\ \A i \in 1 .. L : u[i] = IF i <= m \/ i >= L + 1 - m THEN p[L + 1 - i] ELSE p[i]

LEMMA Opposite ==
  ASSUME NEW L \in Nat, NEW k \in Nat, k >= 1, 2 * k <= L
  PROVE  \E j \in 1 .. L : j = L + 1 - k /\ j # k /\ k \in 1 .. L /\ L + 1 - j = k
OBVIOUS

LEMMA Swap ==
  ASSUME NEW S, NEW p \in Seq(S), NEW k \in Nat, k >= 1, 2 * k <= Len(p),
         NEW t, Half(t, p, S, k - 1), NEW u, u = Exchange(t, p, k)
  PROVE  Half(u, p, S, k)
<1>1. PICK L \in Nat : L = Len(p) /\ p \in [1 .. L -> S] /\ 2 * k <= L
  OBVIOUS
<1>2. PICK j \in 1 .. L : j = L + 1 - k /\ j # k /\ k \in 1 .. L /\ L + 1 - j = k
  BY <1>1, Opposite
<1>3. /\ t \in [1 .. L -> S]
      /\ \A i \in 1 .. L :
           t[i] = IF i <= k - 1 \/ i >= L + 1 - (k - 1) THEN p[L + 1 - i] ELSE p[i]
  BY <1>1 DEF Half
<1>4. /\ u \in [1 .. L -> S]
      /\ \A i \in 1 .. L : u[i] = IF i = j THEN p[k] ELSE IF i = k THEN p[j] ELSE t[i]
  <2>1. u = [t EXCEPT ![k] = p[j], ![j] = p[k]]
    BY <1>1, <1>2 DEF Exchange
  <2> QED
    BY <1>1, <1>2, <1>3, <2>1
<1>5. ASSUME NEW i \in 1 .. L
      PROVE  u[i] = IF i <= k \/ i >= L + 1 - k THEN p[L + 1 - i] ELSE p[i]
  <2>1. CASE i = j
    <3>1. u[i] = p[k]
      BY <1>4, <2>1
    <3>2. L + 1 - i = k /\ i >= L + 1 - k
      BY <1>2, <2>1
    <3> QED
      BY <3>1, <3>2
  <2>2. CASE i = k
    BY <1>2, <1>4, <2>2
  <2>3. CASE i # j /\ i # k
    <3>1. (i <= k \/ i >= L + 1 - k) <=> (i <= k - 1 \/ i >= L + 1 - (k - 1))
      BY <1>1, <1>2, <2>3
    <3>2. u[i] = t[i]
      BY <1>4, <2>3
    <3> QED
      BY <1>3, <3>1, <3>2
  <2> QED
    BY <2>1, <2>2, <2>3
<1> QED
  BY <1>1, <1>4, <1>5 DEF Half

(* The second loop turns the digits round.                                 *)
LEMMA Turned ==
  ASSUME NEW S, NEW p \in Seq(S), NEW L \in Nat, L = Len(p)
  PROVE  /\ Reversed(p) \in Seq(S) /\ Len(Reversed(p)) = L
         /\ \A i \in 1 .. L : Reversed(p)[i] = p[L + 1 - i]
<1>1. PICK h \in Nat : h = L \div 2 /\ 2 * h <= L /\ L <= 2 * h + 1
  OBVIOUS
<1>2. PICK d : IsSwapped(d, p, h) /\ Reversed(p) = d[h]
  <2> DEFINE D == CHOOSE d : IsSwapped(d, p, h)
  <2>1. IsSwapped(D, p, h)
    BY SwappedExists
  <2>2. Reversed(p) = D[h]
    BY <1>1 DEF Reversed, IsSwapped, Exchange
  <2> QED
    BY <2>1, <2>2
<1>3. p \in [1 .. L -> S]
  OBVIOUS
<1> DEFINE Lost == {m \in 0 .. h : ~ Half(d[m], p, S, m)}
<1>4. ASSUME Lost # {} PROVE FALSE
  <2>1. PICK m \in Lost : \A n \in Lost : m <= n
    <3>1. Lost \subseteq Nat
      OBVIOUS
    <3> QED
      BY <1>4, <3>1, Least
  <2>2. m \in 0 .. h /\ m \in Nat /\ ~ Half(d[m], p, S, m)
    BY <2>1
  <2>3. CASE m = 0
    <3>1. d[0] = p
      BY <1>2, <2>2, <2>3 DEF IsSwapped
    <3>2. \A i \in 1 .. L : ~ (i <= 0 \/ i >= L + 1 - 0)
      OBVIOUS
    <3>3. \A i \in 1 .. L : d[0][i] = IF i <= 0 \/ i >= L + 1 - 0 THEN p[L + 1 - i] ELSE p[i]
      BY <3>1, <3>2
    <3>4. Half(d[0], p, S, 0)
      BY <1>3, <3>1, <3>3 DEF Half
    <3> QED
      BY <2>2, <2>3, <3>4
  <2>4. CASE m # 0
    <3>1. m - 1 \in 0 .. h /\ ~ (m <= m - 1) /\ m >= 1 /\ 2 * m <= L
      BY <1>1, <2>2, <2>4
    <3>2. Half(d[m - 1], p, S, m - 1)
      BY <2>1, <3>1
    <3>3. d[m] = Exchange(d[m - 1], p, m)
      BY <1>2, <2>2, <2>4 DEF IsSwapped
    <3>4. Half(d[m], p, S, m)
      BY <2>2, <3>1, <3>2, <3>3, Swap
    <3> QED
      BY <2>2, <3>4
  <2> QED
    BY <2>3, <2>4
<1>5. Half(d[h], p, S, h)
  BY <1>4
<1>6. PICK r : r = Reversed(p) /\ r = d[h]
  BY <1>2
<1>7. r \in [1 .. L -> S] /\ r \in Seq(S) /\ Len(r) = L
  <2>1. r \in [1 .. L -> S]
    BY <1>5, <1>6 DEF Half
  <2>2. r \in Seq(S)
    BY <2>1
  <2> QED
    BY <2>1, <2>2
<1>8. ASSUME NEW i \in 1 .. L PROVE r[i] = p[L + 1 - i]
  <2>1. r[i] = IF i <= h \/ i >= L + 1 - h THEN p[L + 1 - i] ELSE p[i]
    BY <1>5, <1>6 DEF Half
  <2>2. i <= h \/ i >= L + 1 - h \/ L + 1 - i = i
    BY <1>1
  <2> QED
    BY <2>1, <2>2
<1> QED
  BY <1>6, <1>7, <1>8

(* What the first m digits say.                                             *)
Totals(d, r, base, m) ==
  d = [n \in 0 .. m |-> IF n = 0 THEN 0 ELSE base * d[n - 1] + r[n]]

LEMMA TotalsExist ==
  ASSUME NEW r, NEW base, NEW l \in Nat
  PROVE  \E d : Totals(d, r, base, l)
<1> DEFINE Missing == {m \in 0 .. l : ~ \E d : Totals(d, r, base, m)}
<1> SUFFICES ASSUME l \in Missing PROVE FALSE
  OBVIOUS
<1>1. PICK m \in Missing : \A n \in Missing : m <= n
  <2>1. Missing \subseteq Nat /\ Missing # {}
    OBVIOUS
  <2> QED
    BY <2>1, Least
<1>2. CASE m = 0
  <2>1. PICK d : d = [n \in 0 .. 0 |-> 0]
    OBVIOUS
  <2>2. Totals(d, r, base, 0)
    BY <2>1 DEF Totals
  <2> QED
    BY <1>1, <1>2, <2>2
<1>3. CASE m # 0
  <2>1. m - 1 \in 0 .. l /\ m \in 0 .. l /\ ~ (m <= m - 1)
    BY <1>1, <1>3
  <2>2. PICK d : Totals(d, r, base, m - 1)
    BY <1>1, <2>1
  <2>3. PICK e : e = [n \in 0 .. m |-> IF n = m THEN base * d[m - 1] + r[m] ELSE d[n]]
    OBVIOUS
  <2>4. ASSUME NEW n \in 0 .. m
        PROVE  e[n] = IF n = 0 THEN 0 ELSE base * e[n - 1] + r[n]
    <3>1. CASE n = m
      BY <1>3, <2>1, <2>3, <3>1
    <3>2. CASE n # m
      <4>1. /\ n \in 0 .. (m - 1)
            /\ n # 0 => n - 1 \in 0 .. (m - 1) /\ n - 1 \in 0 .. m /\ n - 1 # m
        BY <2>1, <3>2
      <4>2. d[n] = IF n = 0 THEN 0 ELSE base * d[n - 1] + r[n]
        BY <2>2, <4>1 DEF Totals
      <4>3. e[n] = d[n] /\ (n # 0 => e[n - 1] = d[n - 1])
        BY <2>3, <3>2, <4>1
      <4> QED
        BY <4>2, <4>3
    <3> QED
      BY <3>1, <3>2
  <2>5. Totals(e, r, base, m)
    <3>1. e = [n \in 0 .. m |-> e[n]]
      BY <2>3
    <3> QED
      BY <2>4, <3>1 DEF Totals
  <2> QED
    BY <1>1, <2>5
<1> QED
  BY <1>2, <1>3

(* Whatever the number and the base, what the driver writes is the number, *)
(* in the digits it takes and no more (video_driver.c 230-261).            *)
THEOREM NumberWritten ==
  ASSUME NEW base \in Nat, base >= 2, NEW n \in Nat
  PROVE  /\ draw_number(n, base) \in Seq(0 .. (base - 1))
         /\ Numeral(draw_number(n, base), base)
         /\ Value(draw_number(n, base), base) = n
<1>1. PICK s : s = Backwards(n, base) /\ Spells(s, n, base)
  BY AllSpelt
<1>2. PICK L \in Nat : L = Len(s) /\ L > 0 /\ s \in Seq(0 .. (base - 1))
                      /\ (n # 0 => s[L] # 0) /\ (n = 0 => L = 1)
  <2>1. s \in Seq(0 .. (base - 1)) /\ Len(s) > 0 /\ (n # 0 => s[Len(s)] # 0)
        /\ (n = 0 => Len(s) = 1)
    BY <1>1, ZenonT(20) DEF Spells
  <2>2. Len(s) \in Nat
    BY <2>1, LenProperties
  <2> QED
    BY <2>1, <2>2
<1>3. PICK r : /\ r = draw_number(n, base) /\ r \in Seq(0 .. (base - 1)) /\ Len(r) = L
               /\ \A i \in 1 .. L : r[i] = s[L + 1 - i]
  <2>1. /\ Reversed(s) \in Seq(0 .. (base - 1)) /\ Len(Reversed(s)) = L
        /\ \A i \in 1 .. L : Reversed(s)[i] = s[L + 1 - i]
    BY <1>2, Turned
  <2>2. draw_number(n, base) = Reversed(s)
    BY <1>1 DEF draw_number, valueToBase
  <2> QED
    BY <2>1, <2>2
<1>4. Numeral(r, base)
  <2>1. ASSUME L > 1 PROVE r[1] # 0
    <3>1. 1 \in 1 .. L /\ L + 1 - 1 = L
      BY <1>2
    <3>2. s[L] # 0
      BY <1>2, <2>1
    <3>3. r[1] = s[L]
      BY <1>3, <3>1
    <3> QED
      BY <3>2, <3>3
  <2>2. \A i \in DOMAIN r : r[i] \in 0 .. (base - 1)
    BY <1>3
  <2> QED
    BY <1>2, <1>3, <2>1, <2>2 DEF Numeral
<1>5. PICK e : Totals(e, r, base, L) /\ Value(r, base) = e[L]
  <2> DEFINE E == CHOOSE e : Totals(e, r, base, L)
  <2>1. Totals(E, r, base, L)
    BY TotalsExist
  <2>2. Value(r, base) = E[L]
    BY <1>3 DEF Value, Totals
  <2> QED
    BY <2>1, <2>2
<1>6. Counts(e, r, base, L)
  BY <1>5 DEF Totals, Counts
<1>7. e[L] = n
  <2>1. \A i \in 1 .. Len(s) : r[i] = s[Len(s) + 1 - i]
    BY <1>2, <1>3
  <2>2. Counts(e, r, base, Len(s))
    BY <1>2, <1>6
  <2>3. e[Len(s)] = n
    BY <1>1, <2>1, <2>2, Zenon DEF Spells
  <2> QED
    BY <1>2, <2>3
<1> QED
  BY <1>3, <1>4, <1>5, <1>7

(* What initialized makes of the two mode bits.                            *)
Mode == (IF binary THEN 2 ELSE 0) + (IF hours24 THEN 1 ELSE 0) + 1

(* The chip, and what the driver knows of its mode.                        *)
Running ==
  /\ now \in 0 .. (Day - 1) /\ binary \in BOOLEAN /\ hours24 \in BOOLEAN
  /\ regBData \in {0, Mode}

(* What has been printed is no more than what has passed.                  *)
Behind ==
  /\ shown \in Seq(Seq(0 .. 9)) /\ Len(shown) <= 3
  /\ \A i \in 1 .. Len(shown) : Value(shown[i], 10) \in Nat
  /\ hours24 /\ ~ midnight =>
       /\ Len(shown) = 1 => 3600 * Value(shown[1], 10) <= now
       /\ Len(shown) = 2 => 3600 * Value(shown[1], 10) + 60 * Value(shown[2], 10) <= now
       /\ Len(shown) = 3 => 3600 * Value(shown[1], 10) + 60 * Value(shown[2], 10)
                              + Value(shown[3], 10) <= now

TimeInv == Running /\ Behind

(* The time of day in hours, minutes and seconds.                          *)
Clocked(t, h, m, s) ==
  /\ h \in 0 .. 23 /\ m \in 0 .. 59 /\ s \in 0 .. 59
  /\ h = Hours(t) /\ m = Minutes(t) /\ s = Seconds(t)
  /\ t = 3600 * h + 60 * m + s

LEMMA DayTyped == Day \in Nat /\ Day > 0
BY SMT DEF Day

LEMMA InDay ==
  ASSUME NEW t \in Nat, t < Day
  PROVE  t < 24 * 3600
BY SMT DEF Day

LEMMA TimeParts ==
  ASSUME NEW t \in 0 .. (Day - 1)
  PROVE  \E h, m, s : Clocked(t, h, m, s)
<1>0. t \in Nat /\ t < 24 * 3600
  <2>1. t \in Nat /\ t < Day
    BY SMT, DayTyped
  <2> QED
    BY SMT, <2>1, InDay
<1>1. PICK h, a \in Nat : h = t \div 3600 /\ a = t % 3600 /\ t = 3600 * h + a /\ a < 3600
  BY <1>0
<1>2. PICK m \in Nat, s \in 0 .. 59 : m = a \div 60 /\ s = a % 60 /\ a = 60 * m + s
  OBVIOUS
<1>3. h \in 0 .. 23 /\ m \in 0 .. 59
  BY <1>0, <1>1, <1>2
<1>4. PICK k \in Nat : k = 60 * h + m
  BY <1>1, <1>2
<1>5. t = 60 * k + s /\ t = 3600 * h + 60 * m + s
  BY <1>1, <1>2, <1>4
<1>6. t % 60 = s /\ t \div 60 = k /\ k % 60 = m
  <2>1. t % 60 = s /\ t \div 60 = k
    BY <1>5
  <2>2. k % 60 = m
    BY <1>3, <1>4
  <2> QED
    BY <2>1, <2>2
<1>7. h = Hours(t) /\ m = Minutes(t) /\ s = Seconds(t)
  BY <1>1, <1>6 DEF Hours, Minutes, Seconds
<1>8. Clocked(t, h, m, s)
  <2>1. h \in 0 .. 23 /\ m \in 0 .. 59 /\ s \in 0 .. 59
    BY <1>2, <1>3
  <2>2. t = 3600 * h + 60 * m + s
    BY <1>5
  <2> QED
    BY <1>7, <2>1, <2>2, SMT DEF Clocked
<1> QED
  BY <1>8

(* Two decimal digits in a byte, and back.                                 *)
LEMMA Decimal ==
  ASSUME NEW n \in 0 .. 99, NEW b, b = 16 * (n \div 10) + (n % 10)
  PROVE  /\ FromBCD(b) = n /\ b \in 0 .. 159
         /\ n < 20 => b < 128 /\ b % 128 = b
<1>1. PICK q, c \in 0 .. 9 : q = n \div 10 /\ c = n % 10 /\ n = 10 * q + c
  OBVIOUS
<1>2. b = 16 * q + c /\ b \div 16 = q /\ b % 16 = c
  BY <1>1
<1> QED
  BY <1>1, <1>2 DEF FromBCD

(* The mode the driver decodes by is the chip's.                           *)
LEMMA ModeRead ==
  ASSUME Running
  PROVE  /\ initialized = Mode
         /\ (InBinary(Mode) <=> binary) /\ (In24(Mode) <=> hours24)
<1>1. readCMOS(11) = (IF binary THEN 4 ELSE 0) + (IF hours24 THEN 2 ELSE 0)
  BY DEF readCMOS
<1>2. /\ (0 % 8) \div 2 = 0 /\ (2 % 8) \div 2 = 1 /\ (4 % 8) \div 2 = 2 /\ (6 % 8) \div 2 = 3
      /\ 0 \div 2 = 0 /\ 1 \div 2 = 0 /\ 2 \div 2 = 1 /\ 3 \div 2 = 1
      /\ 0 % 2 = 0 /\ 1 % 2 = 1 /\ 2 % 2 = 0 /\ 3 % 2 = 1
  OBVIOUS
<1>3. (readCMOS(11) % 8) \div 2 + 1 = Mode
  <2>1. CASE binary /\ hours24
    BY <1>1, <1>2, <2>1 DEF Mode
  <2>2. CASE binary /\ ~ hours24
    BY <1>1, <1>2, <2>2 DEF Mode
  <2>3. CASE ~ binary /\ hours24
    BY <1>1, <1>2, <2>3 DEF Mode
  <2>4. CASE ~ binary /\ ~ hours24
    BY <1>1, <1>2, <2>4 DEF Mode
  <2> QED
    BY <2>1, <2>2, <2>3, <2>4
<1>4. PICK b \in {0, 2}, h \in {0, 1} : /\ b = (IF binary THEN 2 ELSE 0)
                                        /\ h = (IF hours24 THEN 1 ELSE 0) /\ Mode = b + h + 1
  BY DEF Mode
<1>5. ((Mode - 1) \div 2 = 1 <=> b = 2) /\ ((Mode - 1) % 2 = 1 <=> h = 1) /\ Mode # 0
  BY <1>2, <1>4
<1>6. (InBinary(Mode) <=> binary) /\ (In24(Mode) <=> hours24)
  BY <1>4, <1>5 DEF InBinary, In24
<1>7. initialized = Mode
  BY <1>3, <1>5 DEF initialized, Running
<1> QED
  BY <1>6, <1>7

(* A byte the chip has encoded.                                            *)
LEMMA Decoded ==
  ASSUME Running, NEW n \in 0 .. 99
  PROVE  /\ decode(Mode, Encode(n)) = n
         /\ n < 20 => Encode(n) \in 0 .. 127
<1>1. CASE binary
  BY <1>1, ModeRead DEF decode, Encode
<1>2. CASE ~ binary
  BY <1>2, ModeRead, Decimal DEF decode, Encode
<1> QED
  BY <1>1, <1>2

(* The three readings.                                                     *)
LEMMA ClockRead ==
  ASSUME Running
  PROVE  /\ readSeconds(initialized) = Seconds(now)
         /\ readMinutes(initialized) = Minutes(now)
         /\ readHours(initialized) \in Nat
         /\ hours24 \/ Hours(now) < 12 =>
              readHours(initialized) = Hours(now)
<1>0. PICK h, m, s : Clocked(now, h, m, s)
  <2>1. now \in 0 .. (Day - 1)
    BY DEF Running
  <2> QED
    BY <2>1, TimeParts
<1>1. /\ h \in 0 .. 23 /\ m \in 0 .. 59 /\ s \in 0 .. 59
      /\ h = Hours(now) /\ m = Minutes(now) /\ s = Seconds(now)
  BY <1>0 DEF Clocked
<1>2. initialized = Mode /\ (In24(Mode) <=> hours24)
  BY ModeRead
<1>3. readSeconds(Mode) = s
  <2>1. readCMOS(0) = Encode(s)
    BY <1>1 DEF readCMOS
  <2> QED
    BY <1>1, <2>1, Decoded DEF readSeconds
<1>4. readMinutes(Mode) = m
  <2>1. readCMOS(2) = Encode(m)
    BY <1>1 DEF readCMOS
  <2> QED
    BY <1>1, <2>1, Decoded DEF readMinutes
<1>5. CASE hours24
  <2>1. readCMOS(4) = Encode(h)
    BY <1>1, <1>5 DEF readCMOS
  <2>2. decode(Mode, readCMOS(4)) = h
    BY <1>1, <2>1, Decoded
  <2>3. readHours(Mode) = h
    BY <1>2, <1>5, <2>2 DEF readHours
  <2>4. h \in Nat
    BY <1>1
  <2> QED
    BY <1>1, <1>2, <1>3, <1>4, <2>3, <2>4
<1>6. CASE ~ hours24
  <2>1. PICK k \in 1 .. 12 : k = ((h + 11) % 12) + 1 /\ (h < 12 => k % 12 = h)
    BY <1>1
  <2>2. PICK e \in 0 .. 127 : e = Encode(k) /\ decode(Mode, e) = k
    BY Decoded
  <2>3. PICK byte \in 0 .. 255 : /\ byte = readCMOS(4) /\ byte % 128 = e
                                 /\ (byte >= 128 <=> h >= 12)
    <3>1. readCMOS(4) = e + (IF h >= 12 THEN 128 ELSE 0)
      BY <1>1, <1>6, <2>1, <2>2 DEF readCMOS
    <3>2. (e + 128) % 128 = e /\ (e + 0) % 128 = e /\ e + 128 >= 128 /\ ~ (e + 0 >= 128)
      OBVIOUS
    <3> QED
      BY <3>1, <3>2
  <2>4. readHours(Mode) = IF h >= 12 /\ k # 12 THEN (k * 2) % 256 ELSE k % 12
    BY <1>2, <1>6, <2>2, <2>3 DEF readHours
  <2>5. readHours(Mode) \in Nat /\ (h < 12 => readHours(Mode) = h)
    BY <2>1, <2>4
  <2> QED
    BY <1>1, <1>2, <1>3, <1>4, <1>6, <2>5
<1> QED
  BY <1>5, <1>6

(* A reading is never ahead of the clock, so nor is what it adds.          *)
LEMMA Adds ==
  ASSUME NEW t \in 0 .. (Day - 1)
  PROVE  /\ 3600 * Hours(t) <= t
         /\ \A v \in Nat : 3600 * v <= t => 3600 * v + 60 * Minutes(t) <= t
<1>1. PICK h, m, s : Clocked(t, h, m, s)
  BY TimeParts
<1>2. /\ h \in 0 .. 23 /\ m \in 0 .. 59 /\ s \in 0 .. 59
      /\ h = Hours(t) /\ m = Minutes(t) /\ s = Seconds(t)
      /\ t = 3600 * h + 60 * m + s
  BY <1>1 DEF Clocked
<1>3. 3600 * h <= t
  BY <1>2
<1>4. \A v \in Nat : 3600 * v <= t => 3600 * v + 60 * m <= t
  BY <1>2
<1> QED
  BY <1>2, <1>3, <1>4

LEMMA TimeInit == ClockInit => TimeInv
<1> SUFFICES ASSUME ClockInit PROVE TimeInv
  OBVIOUS
<1>1. now \in 0 .. (Day - 1)
  BY ClockAssumption DEF ClockInit
<1>2. binary \in BOOLEAN /\ hours24 \in BOOLEAN /\ regBData = 0
  BY ClockAssumption DEF ClockInit
<1>3. shown = <<>> /\ shown \in Seq(Seq(0 .. 9)) /\ Len(shown) = 0
  <2>1. shown = <<>>
    BY DEF ClockInit
  <2> QED
    BY <2>1
<1>4. Behind
  BY <1>3 DEF Behind
<1> QED
  BY <1>1, <1>2, <1>4 DEF TimeInv, Running

LEMMA TickStep ==
  ASSUME TimeInv, tick
  PROVE  TimeInv'
<1>1. PICK D, t \in Nat : D = Day /\ t = now /\ D > 0 /\ t < D
  <2>1. now \in 0 .. (Day - 1)
    BY Zenon DEF TimeInv, Running
  <2> QED
    BY <2>1, SMT, DayTyped
<1>2. now' = (t + 1) % D /\ midnight' = (midnight \/ now' = 0)
  BY <1>1 DEF tick
<1>3. /\ binary' = binary /\ hours24' = hours24 /\ regBData' = regBData /\ shown' = shown
  BY DEF tick, mode
<1>4. PICK u \in 0 .. (D - 1) : u = now' /\ (u = t + 1 \/ u = 0)
  <2>1. CASE t = D - 1
    <3>1. D % D = 0 /\ t + 1 = D
      BY <1>1, <2>1
    <3>2. now' = 0
      BY <1>2, <3>1
    <3> QED
      BY <1>1, <3>2
  <2>2. CASE t # D - 1
    <3>1. t + 1 \in 0 .. (D - 1) /\ (t + 1) % D = t + 1
      BY <1>1, <2>2
    <3>2. now' = t + 1
      BY <1>2, <3>1
    <3> QED
      BY <3>1, <3>2
  <2> QED
    BY <2>1, <2>2
<1>5. Running'
  <2>1. (now \in 0 .. (Day - 1))'
    <3>1. (Day)' = Day
      BY DEF Day
    <3> QED
      BY <1>1, <1>4, <3>1
  <2>2. (binary \in BOOLEAN /\ hours24 \in BOOLEAN /\ regBData \in {0, Mode})'
    BY <1>3 DEF TimeInv, Running, Mode
  <2> QED
    BY <2>1, <2>2 DEF Running
<1>6. ~ midnight' => ~ midnight /\ u = t + 1
  BY <1>2, <1>4
<1>7. ASSUME NEW x \in Int, x <= t, ~ midnight' PROVE x <= u
  BY <1>6, <1>7
<1>8. Behind'
  <2>1. /\ shown' \in Seq(Seq(0 .. 9)) /\ Len(shown') <= 3
        /\ \A i \in 1 .. Len(shown') : Value(shown'[i], 10) \in Nat
    BY <1>3 DEF TimeInv, Behind
  <2>2. ASSUME hours24, ~ midnight'
        PROVE  /\ Len(shown) = 1 => 3600 * Value(shown[1], 10) <= u
               /\ Len(shown) = 2 =>
                    3600 * Value(shown[1], 10) + 60 * Value(shown[2], 10) <= u
               /\ Len(shown) = 3 =>
                    3600 * Value(shown[1], 10) + 60 * Value(shown[2], 10)
                      + Value(shown[3], 10) <= u
    <3>1. ASSUME Len(shown) = 1 PROVE 3600 * Value(shown[1], 10) <= u
      <4>1. PICK a \in Nat : a = Value(shown[1], 10)
        BY <3>1 DEF TimeInv, Behind
      <4>2. 3600 * a <= t
        BY <1>1, <1>6, <2>2, <3>1, <4>1 DEF TimeInv, Behind
      <4> QED
        BY <1>7, <2>2, <4>1, <4>2
    <3>2. ASSUME Len(shown) = 2
          PROVE  3600 * Value(shown[1], 10) + 60 * Value(shown[2], 10) <= u
      <4>1. PICK a, b \in Nat : a = Value(shown[1], 10) /\ b = Value(shown[2], 10)
        BY <3>2 DEF TimeInv, Behind
      <4>2. 3600 * a + 60 * b <= t
        BY <1>1, <1>6, <2>2, <3>2, <4>1 DEF TimeInv, Behind
      <4> QED
        BY <1>7, <2>2, <4>1, <4>2
    <3>3. ASSUME Len(shown) = 3
          PROVE  3600 * Value(shown[1], 10) + 60 * Value(shown[2], 10)
                   + Value(shown[3], 10) <= u
      <4>1. PICK a, b, c \in Nat : /\ a = Value(shown[1], 10)
                                   /\ b = Value(shown[2], 10)
                                   /\ c = Value(shown[3], 10)
        BY <3>3 DEF TimeInv, Behind
      <4>2. 3600 * a + 60 * b + c <= t
        BY <1>1, <1>6, <2>2, <3>3, <4>1 DEF TimeInv, Behind
      <4>3. PICK x \in Int : x = 3600 * a + 60 * b + c
        BY <4>1
      <4>4. x <= u
        BY <1>7, <2>2, <4>2, <4>3
      <4> QED
        BY <4>1, <4>3, <4>4
    <3> QED
      BY <3>1, <3>2, <3>3
  <2> QED
    BY <1>3, <1>4, <2>1, <2>2 DEF Behind
<1> QED
  BY <1>5, <1>8 DEF TimeInv

(* A system call prints n, the part of the time that is next.              *)
Prints(l, n, x) ==
  /\ l \in 0 .. 2 /\ l = Len(shown) /\ n \in Nat
  /\ x = draw_number(n, 10) /\ Value(x, 10) = n /\ Numeral(x, 10)
  /\ shown' \in Seq(Seq(0 .. 9)) /\ Len(shown') = l + 1 /\ shown'[l + 1] = x
  /\ \A i \in 1 .. l : shown'[i] = shown[i]
  /\ l = 0 /\ (hours24 \/ Hours(now) < 12) => n = Hours(now)
  /\ l = 1 => n = Minutes(now)
  /\ l = 2 => n = Seconds(now)

LEMMA OneRead ==
  ASSUME TimeInv, read
  PROVE  \E l, n, x : Prints(l, n, x)
<1>1. PICK l \in 0 .. 2 : l = Len(shown) /\ shown \in Seq(Seq(0 .. 9))
  <2>1. shown \in Seq(Seq(0 .. 9))
    <3>1. Behind
      BY Zenon DEF TimeInv
    <3> QED
      BY <3>1 DEF Behind
  <2>2. Len(shown) < 3
    BY Zenon DEF read
  <2>3. Len(shown) \in Nat
    BY <2>1, LenProperties, Zenon
  <2>4. PICK k \in Nat : k = Len(shown)
    BY <2>3, Zenon
  <2>5. k < 3
    BY <2>2, <2>4, Zenon
  <2>6. k \in 0 .. 2
    BY <2>5
  <2> QED
    BY <2>1, <2>4, <2>6, Zenon
<1>2. PICK H, M, S \in Nat :
        /\ H = readHours(initialized) /\ M = readMinutes(initialized)
        /\ S = readSeconds(initialized)
        /\ hours24 \/ Hours(now) < 12 => H = Hours(now)
        /\ M = Minutes(now) /\ S = Seconds(now)
  <2>1. Running
    BY DEF TimeInv
  <2>2. Minutes(now) \in Nat /\ Seconds(now) \in Nat
    <3>1. PICK h, m, s : Clocked(now, h, m, s)
      BY <2>1, TimeParts DEF Running
    <3> QED
      BY <3>1 DEF Clocked
  <2> QED
    BY <2>1, <2>2, ClockRead
<1>3. PICK n \in Nat : /\ n = Order[l + 1]
                       /\ l = 0 /\ (hours24 \/ Hours(now) < 12) => n = Hours(now)
                       /\ l = 1 => n = Minutes(now)
                       /\ l = 2 => n = Seconds(now)
  <2>1. Order = <<H, M, S>>
    BY <1>2 DEF Order
  <2>2. CASE l = 0
    BY <1>2, <2>1, <2>2
  <2>3. CASE l = 1
    BY <1>2, <2>1, <2>3
  <2>4. CASE l = 2
    BY <1>2, <2>1, <2>4
  <2> QED
    BY <2>2, <2>3, <2>4
<1>4. PICK x : /\ x = draw_number(n, 10) /\ x \in Seq(0 .. 9)
               /\ Value(x, 10) = n /\ Numeral(x, 10)
  <2>1. 10 - 1 = 9 /\ 10 \in Nat /\ 10 >= 2
    OBVIOUS
  <2>2. PICK y : y = draw_number(n, 10)
    OBVIOUS
  <2>3. y \in Seq(0 .. 9) /\ Value(y, 10) = n /\ Numeral(y, 10)
    BY <1>3, <2>1, <2>2, NumberWritten
  <2> QED
    BY <2>2, <2>3
<1>5. shown' = Append(shown, x)
  <2>1. shown' = Append(shown, draw_number(Order[Len(shown) + 1], 10))
    BY Zenon DEF read
  <2>2. Len(shown) + 1 = l + 1
    BY <1>1, Zenon
  <2>3. Order[Len(shown) + 1] = n
    BY <1>3, <2>2, Zenon
  <2>4. draw_number(Order[Len(shown) + 1], 10) = x
    BY <1>4, <2>3, Zenon
  <2> QED
    BY <2>1, <2>4, Zenon
<1>6. /\ shown' \in Seq(Seq(0 .. 9)) /\ Len(shown') = l + 1 /\ shown'[l + 1] = x
      /\ \A i \in 1 .. l : shown'[i] = shown[i]
  <2>1. /\ Append(shown, x) \in Seq(Seq(0 .. 9)) /\ Len(Append(shown, x)) = Len(shown) + 1
        /\ \A i \in 1 .. Len(shown) : Append(shown, x)[i] = shown[i]
        /\ Append(shown, x)[Len(shown) + 1] = x
    BY <1>1, <1>4, AppendProperties
  <2> QED
    BY <1>1, <1>5, <2>1
<1>7. Prints(l, n, x)
  <2>1. l \in 0 .. 2 /\ l = Len(shown) /\ n \in Nat
    BY <1>1, Zenon
  <2>2. x = draw_number(n, 10) /\ Value(x, 10) = n /\ Numeral(x, 10)
    BY <1>4, Zenon
  <2>3. /\ l = 0 /\ (hours24 \/ Hours(now) < 12) => n = Hours(now)
        /\ l = 1 => n = Minutes(now)
        /\ l = 2 => n = Seconds(now)
    BY <1>3, Zenon
  <2> QED
    BY <1>6, <2>1, <2>2, <2>3, Zenon DEF Prints
<1> QED
  BY <1>7

LEMMA SameTime ==
  ASSUME Running, now' = now, binary' = binary, hours24' = hours24, regBData' \in {regBData, Mode}
  PROVE  Running'
<1>1. Mode' = Mode /\ (Day)' = Day
  BY DEF Mode, Day
<1>2. (regBData \in {0, Mode})'
  BY <1>1 DEF Running
<1>3. (now \in 0 .. (Day - 1))'
  BY <1>1, Zenon DEF Running
<1>4. (binary \in BOOLEAN /\ hours24 \in BOOLEAN)'
  BY Zenon DEF Running
<1> QED
  BY <1>2, <1>3, <1>4, Zenon DEF Running

LEMMA ReadStep ==
  ASSUME TimeInv, read
  PROVE  TimeInv'
<1>1. PICK l, n, x : Prints(l, n, x)
  BY OneRead
<1>2. /\ now' = now /\ binary' = binary /\ hours24' = hours24
      /\ regBData' = initialized /\ midnight' = (shown # <<>> /\ midnight)
  BY DEF read, mode
<1>3. Running'
  BY <1>2, ModeRead, SameTime DEF TimeInv
<1>4. /\ l \in 0 .. 2 /\ l = Len(shown) /\ n \in Nat
      /\ Value(shown'[l + 1], 10) = n
      /\ shown' \in Seq(Seq(0 .. 9)) /\ Len(shown') = l + 1
      /\ \A i \in 1 .. l : shown'[i] = shown[i]
  BY <1>1 DEF Prints
<1>5. PICK t \in Nat : t = now /\ t \in 0 .. (Day - 1)
  <2>1. now \in 0 .. (Day - 1)
    BY Zenon DEF TimeInv, Running
  <2>2. now \in Nat
    BY <2>1, SMT, DayTyped
  <2> QED
    BY <2>1, <2>2, Zenon
<1>6. Behind'
  <2>1. ASSUME NEW i \in 1 .. (l + 1) PROVE Value(shown'[i], 10) \in Nat
    <3>1. CASE i = l + 1
      BY <1>4, <3>1
    <3>2. CASE i # l + 1
      <4>1. i \in 1 .. l
        BY <1>4, <3>2
      <4> QED
        BY <1>4, <4>1 DEF TimeInv, Behind
    <3> QED
      BY <3>1, <3>2
  <2>2. ASSUME l # 0, ~ midnight' PROVE ~ midnight
    <3>1. shown # <<>>
      <4>1. Len(<<>>) = 0
        BY EmptySeq
      <4> QED
        BY <1>4, <2>2, <4>1, Zenon
    <3> QED
      BY <1>2, <2>2, <3>1, Zenon
  <2>3. ASSUME hours24, ~ midnight'
        PROVE  /\ l = 0 => 3600 * Value(shown'[1], 10) <= t
               /\ l = 1 => 3600 * Value(shown'[1], 10) + 60 * Value(shown'[2], 10) <= t
               /\ l = 2 => 3600 * Value(shown'[1], 10) + 60 * Value(shown'[2], 10)
                             + Value(shown'[3], 10) <= t
    <3>1. ASSUME l = 0 PROVE 3600 * Value(shown'[1], 10) <= t
      <4>1. n = Hours(t)
        BY <1>1, <1>5, <2>3, <3>1, Zenon DEF Prints
      <4>2. Value(shown'[1], 10) = n
        BY <1>4, <3>1
      <4>3. 3600 * Hours(t) <= t
        BY <1>5, Adds
      <4> QED
        BY <4>1, <4>2, <4>3
    <3>2. ASSUME l = 1
          PROVE  3600 * Value(shown'[1], 10) + 60 * Value(shown'[2], 10) <= t
      <4>1. n = Minutes(t)
        BY <1>1, <1>5, <3>2, Zenon DEF Prints
      <4>2. n = Value(shown'[2], 10) /\ shown'[1] = shown[1] /\ Len(shown) = 1
        BY <1>4, <3>2
      <4>3. 3600 * Value(shown[1], 10) <= t /\ Value(shown[1], 10) \in Nat
        BY <1>5, <2>2, <2>3, <3>2, <4>2 DEF TimeInv, Behind
      <4>4. PICK a \in Nat : a = Value(shown[1], 10)
        BY <4>3
      <4>5. 3600 * a + 60 * Minutes(t) <= t
        <5>1. \A v \in Nat : 3600 * v <= t => 3600 * v + 60 * Minutes(t) <= t
          BY <1>5, Adds
        <5> QED
          BY <4>3, <4>4, <5>1
      <4> QED
        BY <4>1, <4>2, <4>4, <4>5
    <3>3. ASSUME l = 2
          PROVE  3600 * Value(shown'[1], 10) + 60 * Value(shown'[2], 10)
                   + Value(shown'[3], 10) <= t
      <4>1. n = Seconds(t)
        BY <1>1, <1>5, <3>3, Zenon DEF Prints
      <4>2. /\ n = Value(shown'[3], 10) /\ Len(shown) = 2
            /\ shown'[1] = shown[1] /\ shown'[2] = shown[2]
        BY <1>4, <3>3
      <4>3. /\ 3600 * Value(shown[1], 10) + 60 * Value(shown[2], 10) <= t
            /\ Value(shown[1], 10) \in Nat /\ Value(shown[2], 10) \in Nat
        BY <1>5, <2>2, <2>3, <3>3, <4>2 DEF TimeInv, Behind
      <4>4. PICK a, b \in Nat : a = Value(shown[1], 10) /\ b = Value(shown[2], 10)
        BY <4>3
      <4>5. 3600 * a + 60 * b <= t
        BY <4>3, <4>4
      <4>6. 3600 * a + 60 * b + Seconds(t) <= t
        <5>1. PICK h, m, c : Clocked(t, h, m, c)
          BY <1>5, TimeParts
        <5>2. /\ h \in 0 .. 23 /\ m \in 0 .. 59 /\ c \in 0 .. 59
              /\ t = 3600 * h + 60 * m + c /\ c = Seconds(t)
          BY <5>1 DEF Clocked
        <5>3. 3600 * a + 60 * b + c <= t
          BY <4>4, <4>5, <5>2
        <5> QED
          BY <5>2, <5>3
      <4> QED
        BY <4>1, <4>2, <4>4, <4>6
    <3> QED
      BY <3>1, <3>2, <3>3
  <2>4. PICK k \in 1 .. 3 : k = Len(shown') /\ k = l + 1
    <3>1. l \in 0 .. 2 /\ Len(shown') = l + 1
      BY <1>4, Zenon
    <3>2. l + 1 \in 1 .. 3
      BY <3>1
    <3> QED
      BY <3>1, <3>2, Zenon
  <2>5. k <= 3 /\ (k = 1 <=> l = 0) /\ (k = 2 <=> l = 1) /\ (k = 3 <=> l = 2)
    <3>1. l \in 0 .. 2 /\ k = l + 1
      BY <1>4, <2>4, Zenon
    <3> QED
      BY <3>1
  <2>6. hours24' = hours24 /\ now' = t
    BY <1>2, <1>5
  <2>7. \A i \in 1 .. Len(shown') : Value(shown'[i], 10) \in Nat
    BY <2>1, <2>4, Zenon
  <2>8. shown' \in Seq(Seq(0 .. 9)) /\ Len(shown') <= 3
    BY <1>4, <2>4, <2>5, Zenon
  <2>9. ASSUME hours24', ~ midnight'
        PROVE  /\ Len(shown') = 1 => 3600 * Value(shown'[1], 10) <= now'
               /\ Len(shown') = 2 =>
                    3600 * Value(shown'[1], 10) + 60 * Value(shown'[2], 10) <= now'
               /\ Len(shown') = 3 =>
                    3600 * Value(shown'[1], 10) + 60 * Value(shown'[2], 10)
                      + Value(shown'[3], 10) <= now'
    <3>1. hours24
      BY <2>6, <2>9, Zenon
    <3> QED
      BY <2>3, <2>4, <2>5, <2>6, <2>9, <3>1
  <2> QED
    BY <2>7, <2>8, <2>9 DEF Behind
<1> QED
  BY <1>3, <1>6 DEF TimeInv

LEMMA AgainStep ==
  ASSUME TimeInv, again
  PROVE  TimeInv'
<1>1. /\ now' = now /\ binary' = binary /\ hours24' = hours24 /\ regBData' = regBData
      /\ shown' = <<>>
  BY DEF again, mode
<1>2. Running'
  BY <1>1, SameTime DEF TimeInv
<1>3. shown' \in Seq(Seq(0 .. 9)) /\ Len(shown') = 0
  BY <1>1
<1>4. Behind'
  BY <1>3 DEF Behind
<1> QED
  BY <1>2, <1>4 DEF TimeInv

LEMMA TimeStep == TimeInv /\ [ClockNext]_clock => TimeInv'
<1> SUFFICES ASSUME TimeInv, [ClockNext]_clock PROVE TimeInv'
  OBVIOUS
<1>1. CASE UNCHANGED clock
  <2>1. /\ now' = now /\ binary' = binary /\ hours24' = hours24 /\ regBData' = regBData
        /\ shown' = shown /\ midnight' = midnight
    BY <1>1 DEF clock, mode
  <2>2. Running'
    BY <2>1, SameTime DEF TimeInv
  <2>3. Behind'
    BY <2>1 DEF TimeInv, Behind
  <2> QED
    BY <2>2, <2>3 DEF TimeInv
<1> QED
  BY <1>1, TickStep, ReadStep, AgainStep DEF ClockNext

(* The invariant of the clock and of what get_time has printed, a part of  *)
(* the time in each system call (shell.c 115-122, lib.c 52-136).           *)
THEOREM TimeInvariant == ClockSpec => []TimeInv
<1> QED
  BY TimeInit, TimeStep, PTL DEF ClockSpec

(* The time get_time prints is never ahead of the clock (shell.c 117-121). *)
THEOREM TimeNotAhead == ClockSpec => []NeverAhead
<1>1. TimeInv => NeverAhead
  BY DEF TimeInv, Behind, NeverAhead
<1> QED
  BY <1>1, TimeInvariant, PTL

(* And what each call prints is what the clock shows (lib.c 65-136).       *)
THEOREM ClockShown == ClockSpec => ReadsClock
<1>1. TimeInv /\ [ClockNext]_clock =>
        [Len(shown') = Len(shown) + 1 /\ (hours24 \/ Hours(now) < 12 \/ Len(shown) > 0) =>
           /\ Numeral(shown'[Len(shown')], 10)
           /\ Value(shown'[Len(shown')], 10) = Time(now)[Len(shown')]]_clock
  <2> SUFFICES ASSUME TimeInv, ClockNext, Len(shown') = Len(shown) + 1,
                      hours24 \/ Hours(now) < 12 \/ Len(shown) > 0
               PROVE  /\ Numeral(shown'[Len(shown')], 10)
                      /\ Value(shown'[Len(shown')], 10) = Time(now)[Len(shown')]
    OBVIOUS
  <2>1. read
    <3>1. Len(shown) \in Nat
      BY DEF TimeInv, Behind
    <3>2. ~ tick
      BY <3>1 DEF tick
    <3>3. ~ again
      <4>1. again => Len(shown) = 3 /\ Len(shown') = 0
        BY DEF again
      <4> QED
        BY <4>1
    <3> QED
      BY <3>2, <3>3 DEF ClockNext
  <2>2. PICK l, n, x : Prints(l, n, x)
    BY <2>1, OneRead
  <2>3. Len(shown') = l + 1 /\ shown'[l + 1] = x /\ Numeral(x, 10) /\ Value(x, 10) = n
    BY <2>2 DEF Prints
  <2>4. n = Time(now)[l + 1]
    <3>1. l \in 0 .. 2 /\ l = Len(shown)
      BY <2>2 DEF Prints
    <3>2. CASE l = 0
      BY <2>2, <3>1, <3>2 DEF Prints, Time
    <3>3. CASE l = 1
      BY <2>2, <3>3 DEF Prints, Time
    <3>4. CASE l = 2
      BY <2>2, <3>4 DEF Prints, Time
    <3> QED
      BY <3>1, <3>2, <3>3, <3>4
  <2> QED
    BY <2>3, <2>4
<1> QED
  BY <1>1, TimeInvariant, PTL DEF ClockSpec, ReadsClock
=============================================================================
