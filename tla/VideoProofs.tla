---------------------------- MODULE VideoProofs ----------------------------
(* The terminal as programs see it, proved for screens, characters,        *)
(* margins and strings of all sizes.                                       *)
EXTENDS Console, SharedCursor, WellFoundedInduction, TLAPS

Chars == {BACKGROUND} \cup UNION {Range(s) : s \in Strings \cup {Message}}

Low == - (MaxAbove + 1) * CHAR_HEIGHT

(* The margins leave room for a character.                                 *)
Screen(t) ==
  /\ DOMAIN t = {"x", "y", "left", "right", "px"}
  /\ t.x \in (- 2 * CHAR_WIDTH) .. (SCREEN_WIDTH + CHAR_WIDTH)
  /\ t.y \in Low .. (SCREEN_HEIGHT - 1)
  /\ t.left \in 0 .. SCREEN_WIDTH /\ t.right \in 0 .. SCREEN_WIDTH
  /\ t.left + CHAR_WIDTH <= t.right
  /\ t.px \in [Pixels -> Chars]

(* The cursor that was put aside was on the screen too.                    *)
Inv ==
  /\ Screen(tty) /\ deleting \in BOOLEAN
  /\ aux_x \in (- 2 * CHAR_WIDTH) .. (SCREEN_WIDTH + CHAR_WIDTH)
  /\ aux_y \in Low .. (SCREEN_HEIGHT - 1)

(* What has been drawn between t and u is between the margins.             *)
Between(t, u) ==
  \A i \in Pixels :
    (t.left <= i % SCREEN_WIDTH /\ i % SCREEN_WIDTH < t.right) \/ u.px[i] = t.px[i]

(* From t to u the cursor has stayed on a column and within the margins.   *)
Keeps(t, u) ==
  /\ u.left = t.left /\ u.right = t.right
  /\ Inside(t) => Inside(u) /\ Between(t, u)
-----------------------------------------------------------------------------
LEMMA Sizes ==
  /\ CHAR_WIDTH \in Nat \ {0} /\ CHAR_HEIGHT \in Nat \ {0}
  /\ SCREEN_WIDTH \in Nat \ {0} /\ SCREEN_HEIGHT \in Nat
  /\ CHAR_WIDTH <= SCREEN_WIDTH /\ 2 * CHAR_HEIGHT <= SCREEN_HEIGHT
BY TerminalAssumption

LEMMA LowFacts ==
  /\ Low \in Int /\ Low <= 0 /\ - MaxAbove * CHAR_HEIGHT - CHAR_HEIGHT = Low
  /\ - MaxAbove * CHAR_HEIGHT \in Int
<1>1. PICK m \in Nat, h \in Nat : m = MaxAbove /\ h = CHAR_HEIGHT
  BY Sizes, ConsoleAssumption
<1>2. m * h \in Nat /\ (m + 1) * h \in Nat /\ (m + 1) * h = m * h + h
  BY <1>1
<1>3. /\ - (m + 1) * h = - (m * h) - h
      /\ - (m + 1) * h \in Int /\ - (m + 1) * h <= 0
      /\ - m * h \in Int /\ - m * h = - (m * h)
  BY <1>1, <1>2
<1> QED
  BY <1>1, <1>3 DEF Low

(* Multiples of a number.                                                  *)
LEMMA Multiples ==
  ASSUME NEW w \in Nat \ {0}, NEW a \in Int, NEW b \in Int, a % w = 0, b % w = 0
  PROVE  /\ (a + b) % w = 0 /\ (a - b) % w = 0 /\ 0 % w = 0 /\ w % w = 0
         /\ a > 0 => a >= w
<1>1. ASSUME NEW k \in Int PROVE (w * k) % w = 0
  BY <1>1
<1>2. PICK k \in Int, l \in Int : a = w * k /\ b = w * l
  <2>1. a = w * (a \div w) + (a % w) /\ b = w * (b \div w) + (b % w)
    OBVIOUS
  <2>2. a \div w \in Int /\ b \div w \in Int
    OBVIOUS
  <2> QED
    BY <2>1, <2>2
<1>3. a + b = w * (k + l) /\ a - b = w * (k - l) /\ 0 = w * 0 /\ w = w * 1
  BY <1>2
<1>4. a > 0 => a >= w
  <2> SUFFICES ASSUME a > 0 PROVE a >= w
    OBVIOUS
  <2>1. k >= 1
    BY <1>2
  <2> QED
    BY <1>2, <2>1
<1> QED
  BY <1>1, <1>3, <1>4

(* The column of a pixel.                                                  *)
LEMMA ColumnOf ==
  ASSUME NEW n \in Nat \ {0}, NEW q \in Int, NEW r \in 0 .. (n - 1)
  PROVE  (q * n + r) % n = r
<1>1. PICK i \in Int : i = q * n + r
  OBVIOUS
<1>2. PICK k \in Int, c \in 0 .. (n - 1) : k = i \div n /\ c = i % n /\ i = n * k + c
  BY <1>1
<1>3. n * (q - k) = c - r
  BY <1>1, <1>2
<1>4. CASE q - k >= 1
  <2>1. n * (q - k) >= n
    BY <1>4
  <2> QED
    BY <1>3, <2>1
<1>5. CASE q - k <= -1
  <2>1. n * (q - k) <= - n
    BY <1>5
  <2> QED
    BY <1>3, <2>1
<1>6. CASE q = k
  BY <1>1, <1>2, <1>6
<1> QED
  BY <1>4, <1>5, <1>6

LEMMA PixelFacts ==
  ASSUME NEW i \in Pixels
  PROVE  LET x == i % SCREEN_WIDTH
             y == i \div SCREEN_WIDTH
         IN /\ x \in 0 .. (SCREEN_WIDTH - 1) /\ y \in Nat /\ get_pixel(x, y) = i
            /\ y < SCREEN_HEIGHT - CHAR_HEIGHT => get_pixel(x, y + CHAR_HEIGHT) \in Pixels
<1>1. PICK h \in Nat, W \in Nat \ {0}, H \in Nat :
        h = CHAR_HEIGHT /\ W = SCREEN_WIDTH /\ H = SCREEN_HEIGHT
  BY Sizes
<1>2. i \in Nat
  BY <1>1 DEF Pixels
<1>3. PICK x \in 0 .. (W - 1), y \in Nat : x = i % W /\ y = i \div W /\ y * W + x = i
  BY <1>1, <1>2
<1>4. ASSUME y < H - h PROVE (y + h) * W + x \in 0 .. (W * H - 1)
  <2>1. PICK r \in Nat : r = y + h /\ r <= H - 1
    BY <1>4
  <2>2. r * W <= (H - 1) * W
    BY <1>4, <2>1
  <2>3. (H - 1) * W = W * H - W /\ r * W \in Nat /\ W * H \in Nat
    BY <1>4, <2>1
  <2> QED
    BY <2>1, <2>2, <2>3
<1> QED
  BY <1>1, <1>3, <1>4 DEF get_pixel, Pixels

LEMMA AreaColumn ==
  ASSUME NEW x \in Nat, NEW y \in Int, x + CHAR_WIDTH <= SCREEN_WIDTH,
         NEW i \in Area(x, y, CHAR_WIDTH, CHAR_HEIGHT)
  PROVE  x <= i % SCREEN_WIDTH /\ i % SCREEN_WIDTH < x + CHAR_WIDTH
<1>1. PICK w \in Nat \ {0}, h \in Nat \ {0}, W \in Nat \ {0} :
        w = CHAR_WIDTH /\ h = CHAR_HEIGHT /\ W = SCREEN_WIDTH
  BY Sizes
<1>2. PICK a \in 0 .. (w - 1), b \in 0 .. (h - 1) : i = (y + b) * W + (x + a)
  <2>1. PICK a \in 0 .. (w - 1), b \in 0 .. (h - 1) : i = get_pixel(x + a, y + b)
    BY <1>1 DEF Area
  <2> QED
    BY <1>1, <2>1 DEF get_pixel
<1>3. PICK q \in Int, r \in 0 .. (W - 1) : q = y + b /\ r = x + a
  BY <1>1, <1>2
<1>4. i % W = r
  BY <1>1, <1>2, <1>3, ColumnOf
<1> QED
  BY <1>1, <1>3, <1>4
-----------------------------------------------------------------------------
(* The numbers of a screen.                                                *)
LEMMA ScreenFacts ==
  ASSUME NEW t, Screen(t)
  PROVE  \E w, h, W \in Nat \ {0}, H \in Nat, low, x, y \in Int, l, r \in Nat :
           /\ w = CHAR_WIDTH /\ h = CHAR_HEIGHT /\ W = SCREEN_WIDTH /\ H = SCREEN_HEIGHT
           /\ low = Low /\ x = t.x /\ y = t.y /\ l = t.left /\ r = t.right
           /\ 2 * h <= H /\ low <= 0 /\ l + w <= r /\ r <= W
           /\ - 2 * w <= x /\ x <= W + w /\ low <= y /\ y <= H - 1
<1>1. PICK w, h, W \in Nat \ {0}, H \in Nat :
        /\ w = CHAR_WIDTH /\ h = CHAR_HEIGHT /\ W = SCREEN_WIDTH /\ H = SCREEN_HEIGHT
        /\ 2 * h <= H
  BY Sizes
<1>2. PICK low \in Int : low = Low /\ low <= 0
  BY LowFacts
<1>3. /\ t.x \in (- 2 * w) .. (W + w) /\ t.y \in low .. (H - 1)
      /\ t.left \in 0 .. W /\ t.right \in 0 .. W /\ t.left + w <= t.right
  BY <1>1, <1>2 DEF Screen
<1>4. PICK x \in (- 2 * w) .. (W + w), y \in low .. (H - 1), l \in 0 .. W, r \in 0 .. W :
        x = t.x /\ y = t.y /\ l = t.left /\ r = t.right /\ l + w <= r
  BY <1>3
<1>5. /\ x \in Int /\ y \in Int /\ l \in Nat /\ r \in Nat /\ r <= W
      /\ - 2 * w <= x /\ x <= W + w /\ low <= y /\ y <= H - 1
  BY <1>1, <1>2, <1>4
<1> QED
  BY <1>1, <1>2, <1>4, <1>5

(* What the operations do to the parts of a screen.                        *)
LEMMA PaintParts ==
  ASSUME NEW t, NEW area, NEW c, Screen(t)
  PROVE  LET u == paint(t, area, c) IN
         /\ DOMAIN u = DOMAIN t /\ u.x = t.x /\ u.y = t.y /\ u.left = t.left /\ u.right = t.right
         /\ u.px = [i \in Pixels |-> IF i \in area THEN c ELSE t.px[i]]
BY DEF paint, Screen

LEMMA ScrollParts ==
  ASSUME NEW t, DOMAIN t = {"x", "y", "left", "right", "px"}
  PROVE  LET u == scroll(t) IN
         /\ DOMAIN u = DOMAIN t /\ u.x = t.left /\ u.y = t.y - CHAR_HEIGHT
         /\ u.left = t.left /\ u.right = t.right
         /\ u.px = [i \in Pixels |->
              LET x == i % SCREEN_WIDTH
                  y == i \div SCREEN_WIDTH
              IN IF t.left <= x /\ x < t.right
                 THEN IF y < SCREEN_HEIGHT - CHAR_HEIGHT THEN t.px[get_pixel(x, y + CHAR_HEIGHT)]
                      ELSE Blank.px[get_pixel(x, y)]
                 ELSE t.px[i]]
<1> HIDE DEF Blank, get_pixel
<1> QED
  BY DEF scroll, Shift

(* A new line, with or without moving the others up.                       *)
LEMMA NewLine ==
  ASSUME NEW t, NEW u, Screen(t), u = newLine(t)
  PROVE  /\ Screen(u) /\ Keeps(t, u) /\ u.x = t.left
<1>1. PICK w, h, W \in Nat \ {0}, H \in Nat, low, x, y \in Int, l, r \in Nat :
        /\ w = CHAR_WIDTH /\ h = CHAR_HEIGHT /\ W = SCREEN_WIDTH /\ H = SCREEN_HEIGHT
        /\ low = Low /\ x = t.x /\ y = t.y /\ l = t.left /\ r = t.right
        /\ 2 * h <= H /\ low <= 0 /\ l + w <= r /\ r <= W
        /\ - 2 * w <= x /\ x <= W + w /\ low <= y /\ y <= H - 1
  BY ScreenFacts
<1>2. PICK down : down = [t EXCEPT !.x = t.left, !.y = @ + CHAR_HEIGHT]
  OBVIOUS
<1>3. /\ DOMAIN down = {"x", "y", "left", "right", "px"} /\ down.px = t.px
      /\ down.left = l /\ down.right = r /\ down.x = l /\ down.y = y + h
  BY <1>1, <1>2 DEF Screen
<1>4. u = IF y + h >= H THEN scroll(down) ELSE down
  BY <1>1, <1>2, <1>3 DEF newLine
<1>5. /\ DOMAIN u = {"x", "y", "left", "right", "px"}
      /\ u.left = l /\ u.right = r /\ u.x = l
      /\ u.y = IF y + h >= H THEN y ELSE y + h
  <2>1. y + h - h = y
    BY <1>1
  <2>2. CASE y + h >= H
    <3>1. u = scroll(down)
      BY <1>4, <2>2
    <3>2. /\ DOMAIN u = DOMAIN down /\ u.x = down.left /\ u.y = down.y - CHAR_HEIGHT
          /\ u.left = down.left /\ u.right = down.right
      BY <1>3, <3>1, ScrollParts
    <3> QED
      BY <1>1, <1>3, <2>1, <2>2, <3>2
  <2>3. CASE ~ (y + h >= H)
    BY <1>3, <1>4, <2>3
  <2> QED
    BY <2>2, <2>3
<1>6. u.px \in [Pixels -> Chars] /\ Between(t, u)
  <2>0. t.px \in [Pixels -> Chars]
    BY DEF Screen
  <2>1. CASE ~ (y + h >= H)
    BY <1>3, <1>4, <2>0, <2>1 DEF Between
  <2>2. CASE y + h >= H
    <3>1. u.px = [i \in Pixels |->
            LET c == i % SCREEN_WIDTH
                d == i \div SCREEN_WIDTH
            IN IF l <= c /\ c < r
               THEN IF d < SCREEN_HEIGHT - CHAR_HEIGHT THEN t.px[get_pixel(c, d + CHAR_HEIGHT)]
                    ELSE Blank.px[get_pixel(c, d)]
               ELSE t.px[i]]
      BY <1>3, <1>4, <2>2, ScrollParts
    <3>2. ASSUME NEW i \in Pixels
          PROVE  /\ u.px[i] \in Chars
                 /\ (l <= i % SCREEN_WIDTH /\ i % SCREEN_WIDTH < r) \/ u.px[i] = t.px[i]
      <4> HIDE DEF Pixels, get_pixel
      <4>1. PICK c, d : c = i % SCREEN_WIDTH /\ d = i \div SCREEN_WIDTH
        OBVIOUS
      <4>2. /\ get_pixel(c, d) = i
            /\ d < SCREEN_HEIGHT - CHAR_HEIGHT => get_pixel(c, d + CHAR_HEIGHT) \in Pixels
        BY <4>1, PixelFacts
      <4>3. u.px[i] = IF l <= c /\ c < r
                      THEN IF d < SCREEN_HEIGHT - CHAR_HEIGHT
                           THEN t.px[get_pixel(c, d + CHAR_HEIGHT)]
                           ELSE Blank.px[i]
                      ELSE t.px[i]
        BY <3>1, <4>1, <4>2
      <4>4. Blank.px[i] \in Chars
        BY DEF Blank, Chars
      <4> QED
        BY <2>0, <4>1, <4>2, <4>3, <4>4
    <3>3. u.px = [i \in Pixels |-> u.px[i]]
      BY <3>1
    <3> QED
      BY <1>1, <3>2, <3>3 DEF Between
  <2> QED
    BY <2>1, <2>2
<1>7. Screen(u)
  <2>1. /\ l \in (- 2 * w) .. (W + w) /\ l \in 0 .. W /\ r \in 0 .. W
        /\ (IF y + h >= H THEN y ELSE y + h) \in low .. (H - 1)
    BY <1>1
  <2> QED
    BY <1>1, <1>5, <1>6, <2>1 DEF Screen
<1>8. Inside(t) => Inside(u)
  <2> SUFFICES ASSUME Inside(t) PROVE Inside(u)
    OBVIOUS
  <2>1. (x - l) % w = 0 /\ (r - x) % w = 0 /\ x - l \in Int /\ r - x \in Int
    BY <1>1 DEF Inside
  <2>2. PICK a \in Int, b \in Int : a = x - l /\ b = r - x /\ a % w = 0 /\ b % w = 0
    BY <2>1
  <2>3. (a + b) % w = 0 /\ 0 % w = 0
    BY <2>2, Multiples
  <2>4. r - l = a + b /\ l - l = 0 /\ l <= r
    BY <1>1, <2>2
  <2> QED
    BY <1>1, <1>5, <2>3, <2>4 DEF Inside
<1> QED
  BY <1>1, <1>5, <1>6, <1>7, <1>8 DEF Keeps

(* A character, on this line or the next.                                  *)
LEMMA DrawChar ==
  ASSUME NEW t, NEW c \in Chars, NEW u, Screen(t), u = draw_char(t, c)
  PROVE  /\ Screen(u) /\ Keeps(t, u)
         /\ u.x = (IF Overflows(t, t.x) THEN t.left ELSE t.x) + CHAR_WIDTH
<1>0. PICK at : at = IF Overflows(t, t.x) THEN newLine(t) ELSE t
  OBVIOUS
<1>1. /\ Screen(at) /\ Keeps(t, at) /\ at.left = t.left /\ at.right = t.right
      /\ at.x = IF Overflows(t, t.x) THEN t.left ELSE t.x
  BY <1>0, NewLine DEF Keeps, Between
<1>2. PICK w, h, W \in Nat \ {0}, H \in Nat, low, x, y \in Int, l, r \in Nat :
        /\ w = CHAR_WIDTH /\ h = CHAR_HEIGHT /\ W = SCREEN_WIDTH /\ H = SCREEN_HEIGHT
        /\ low = Low /\ x = at.x /\ y = at.y /\ l = at.left /\ r = at.right
        /\ 2 * h <= H /\ low <= 0 /\ l + w <= r /\ r <= W
        /\ - 2 * w <= x /\ x <= W + w /\ low <= y /\ y <= H - 1
  BY <1>1, ScreenFacts
<1>3. x + w <= r
  <2>1. PICK z \in Int : z = t.x
    BY ScreenFacts
  <2> QED
    BY <1>1, <1>2, <2>1 DEF Overflows
<1>4. PICK d : d = paint(at, Area(at.x, at.y, CHAR_WIDTH, CHAR_HEIGHT), c)
  OBVIOUS
<1>5. u = [d EXCEPT !.x = @ + CHAR_WIDTH]
  <2>1. ~ Overflows(at, at.x)
    BY <1>2, <1>3 DEF Overflows
  <2> QED
    BY <1>0, <1>4, <2>1 DEF draw_char, draw_char_personalized
<1>6. /\ DOMAIN d = {"x", "y", "left", "right", "px"}
      /\ d.x = x /\ d.y = y /\ d.left = l /\ d.right = r
      /\ d.px = [i \in Pixels |->
                   IF i \in Area(at.x, at.y, CHAR_WIDTH, CHAR_HEIGHT) THEN c ELSE at.px[i]]
  BY <1>1, <1>2, <1>4, PaintParts DEF Screen
<1>7. /\ DOMAIN u = {"x", "y", "left", "right", "px"}
      /\ u.x = x + w /\ u.y = y /\ u.left = l /\ u.right = r /\ u.px = d.px
  BY <1>2, <1>5, <1>6
<1>8. u.px \in [Pixels -> Chars]
  BY <1>1, <1>6, <1>7 DEF Screen
<1>9. Screen(u)
  <2>1. /\ x + w \in (- 2 * w) .. (W + w) /\ l \in 0 .. W /\ r \in 0 .. W
        /\ y \in low .. (H - 1)
    BY <1>2, <1>3
  <2> QED
    BY <1>2, <1>7, <1>8, <2>1 DEF Screen
<1>10. ASSUME Inside(t) PROVE Inside(u) /\ Between(t, u)
  <2>1. Inside(at) /\ Between(t, at)
    BY <1>1, <1>10 DEF Keeps
  <2>2. l <= x /\ (x - l) % w = 0 /\ (r - x) % w = 0
    BY <1>2, <2>1 DEF Inside
  <2>3. PICK a \in Int, b \in Int : a = x - l /\ b = r - x /\ a % w = 0 /\ b % w = 0
    BY <2>2
  <2>4. w % w = 0
    BY <2>3, Multiples
  <2>5. (a + w) % w = 0 /\ (b - w) % w = 0
    <3>1. w \in Int
      OBVIOUS
    <3>2. (a + w) % w = 0
      BY <2>3, <2>4, <3>1, Multiples
    <3>3. (b - w) % w = 0
      BY <2>3, <2>4, <3>1, Multiples
    <3> QED
      BY <3>2, <3>3
  <2>6. x + w - l = a + w /\ r - (x + w) = b - w /\ l <= x + w
    BY <2>2, <2>3
  <2>7. Inside(u)
    BY <1>2, <1>3, <1>7, <2>5, <2>6 DEF Inside
  <2>8. ASSUME NEW i \in Pixels, ~ (l <= i % W /\ i % W < r) PROVE u.px[i] = t.px[i]
    <3>1. i \notin Area(at.x, at.y, CHAR_WIDTH, CHAR_HEIGHT)
      <4> SUFFICES ASSUME i \in Area(x, y, CHAR_WIDTH, CHAR_HEIGHT) PROVE FALSE
        BY <1>2
      <4>1. x \in Nat /\ x + w <= W
        BY <1>2, <1>3, <2>2
      <4>2. x <= i % W /\ i % W < x + w
        BY <1>2, <4>1, AreaColumn
      <4>3. PICK k \in Int : k = i % W
        BY <1>2, PixelFacts
      <4> QED
        BY <1>3, <2>2, <2>8, <4>2, <4>3
    <3>2. u.px[i] = at.px[i]
      BY <1>6, <1>7, <3>1
    <3>3. at.px[i] = t.px[i]
      BY <1>1, <1>2, <2>1, <2>8 DEF Between
    <3> QED
      BY <3>2, <3>3
  <2>9. Between(t, u)
    BY <1>1, <1>2, <2>8 DEF Between
  <2> QED
    BY <2>7, <2>9
<1>11. u.left = t.left /\ u.right = t.right
  BY <1>1, <1>2, <1>7
<1> QED
  BY <1>1, <1>2, <1>7, <1>9, <1>10, <1>11 DEF Keeps
-----------------------------------------------------------------------------
(* The least of a set of numbers.                                          *)
LEMMA Least ==
  ASSUME NEW T, T \subseteq Nat, T # {}
  PROVE  \E m \in T : \A n \in T : m <= n
<1> DEFINE R == OpToRel(<, Nat)
<1>1. PICK m \in T : \A n \in T : <<n, m>> \notin R
  BY NatLessThanWellFounded, WFMin
<1>2. \A n \in T : ~ (n < m)
  BY <1>1 DEF OpToRel
<1> QED
  BY <1>2

(* What the first m characters of a string make of the screen.             *)
IsDrawn(d, t, s, m) ==
  d = [n \in 0 .. m |-> IF n = 0 THEN t ELSE draw_char(d[n - 1], s[n])]

LEMMA DrawnExists ==
  ASSUME NEW t, NEW s, NEW l \in Nat
  PROVE  \E d : IsDrawn(d, t, s, l)
<1> DEFINE None == {m \in 0 .. l : ~ \E d : IsDrawn(d, t, s, m)}
<1> SUFFICES ASSUME l \in None PROVE FALSE
  OBVIOUS
<1>1. PICK m \in None : \A n \in None : m <= n
  <2>1. None \subseteq Nat /\ None # {}
    OBVIOUS
  <2> QED
    BY <2>1, Least
<1>2. CASE m = 0
  <2>1. PICK d : d = [n \in 0 .. 0 |-> t]
    OBVIOUS
  <2>2. IsDrawn(d, t, s, 0)
    BY <2>1 DEF IsDrawn
  <2> QED
    BY <1>1, <1>2, <2>2
<1>3. CASE m # 0
  <2>1. m - 1 \in 0 .. l /\ m \in 0 .. l /\ ~ (m <= m - 1)
    BY <1>1, <1>3
  <2>2. PICK d : IsDrawn(d, t, s, m - 1)
    BY <1>1, <2>1
  <2>3. PICK e : e = [n \in 0 .. m |-> IF n = m THEN draw_char(d[m - 1], s[m]) ELSE d[n]]
    OBVIOUS
  <2>4. ASSUME NEW n \in 0 .. m
        PROVE  e[n] = IF n = 0 THEN t ELSE draw_char(e[n - 1], s[n])
    <3>1. CASE n = m
      BY <1>3, <2>1, <2>3, <3>1
    <3>2. CASE n # m
      <4>1. n \in 0 .. (m - 1) /\ (n # 0 => n - 1 \in 0 .. (m - 1) /\ n - 1 \in 0 .. m /\ n - 1 # m)
        BY <2>1, <3>2
      <4>2. d[n] = IF n = 0 THEN t ELSE draw_char(d[n - 1], s[n])
        BY <2>2, <4>1 DEF IsDrawn
      <4>3. e[n] = d[n] /\ (n # 0 => e[n - 1] = d[n - 1])
        BY <2>3, <3>2, <4>1
      <4> QED
        BY <4>2, <4>3
    <3> QED
      BY <3>1, <3>2
  <2>5. IsDrawn(e, t, s, m)
    <3>1. e = [n \in 0 .. m |-> e[n]]
      BY <2>3
    <3> QED
      BY <2>4, <3>1 DEF IsDrawn
  <2> QED
    BY <1>1, <2>5
<1> QED
  BY <1>2, <1>3

LEMMA KeepsOn ==
  ASSUME NEW t, NEW d, NEW u, Keeps(t, d), Keeps(d, u)
  PROVE  Keeps(t, u)
BY DEF Keeps, Between

LEMMA KeepsItself == \A t : Keeps(t, t)
BY DEF Keeps, Between

LEMMA DrawString ==
  ASSUME NEW t, NEW s \in Strings \cup {Message}, NEW u, Screen(t), u = draw_string(t, s)
  PROVE  Screen(u) /\ Keeps(t, u)
<1>1. PICK l \in Nat : l = Len(s) /\ \A n \in 1 .. l : s[n] \in Chars
  <2>1. s \in Seq(Range(s))
    BY ConsoleAssumption
  <2>2. PICK R : R = Range(s) /\ R \subseteq Chars
    BY DEF Chars
  <2>3. Len(s) \in Nat /\ \A n \in 1 .. Len(s) : s[n] \in R
    BY <2>1, <2>2
  <2> QED
    BY <2>2, <2>3
<1>2. PICK d : IsDrawn(d, t, s, l) /\ u = d[l]
  <2> DEFINE D == CHOOSE d : IsDrawn(d, t, s, l)
  <2>1. IsDrawn(D, t, s, l)
    BY DrawnExists
  <2>2. u = D[l]
    BY <1>1 DEF draw_string, IsDrawn
  <2> QED
    BY <2>1, <2>2
<1> DEFINE Lost == {m \in 0 .. l : ~ (Screen(d[m]) /\ Keeps(t, d[m]))}
<1>3. ASSUME Lost # {} PROVE FALSE
  <2>1. PICK m \in Lost : \A n \in Lost : m <= n
    <3>1. Lost \subseteq Nat
      OBVIOUS
    <3> QED
      BY <1>3, <3>1, Least
  <2>2. m \in 0 .. l /\ ~ (Screen(d[m]) /\ Keeps(t, d[m]))
    BY <2>1
  <2>3. CASE m = 0
    <3>1. d[0] = t
      BY <1>2, <2>2, <2>3 DEF IsDrawn
    <3> QED
      BY <2>2, <2>3, <3>1, KeepsItself
  <2>4. CASE m # 0
    <3>1. m - 1 \in 0 .. l /\ ~ (m <= m - 1) /\ m \in 1 .. l
      BY <2>2, <2>4
    <3>2. Screen(d[m - 1]) /\ Keeps(t, d[m - 1])
      BY <2>1, <3>1
    <3>3. d[m] = draw_char(d[m - 1], s[m]) /\ s[m] \in Chars
      BY <1>1, <1>2, <2>2, <2>4, <3>1 DEF IsDrawn
    <3>4. Screen(d[m]) /\ Keeps(d[m - 1], d[m])
      BY <3>2, <3>3, DrawChar
    <3>5. Keeps(t, d[m])
      BY <3>2, <3>4, KeepsOn
    <3> QED
      BY <2>2, <3>4, <3>5
  <2> QED
    BY <2>3, <2>4
<1> QED
  BY <1>2, <1>3
-----------------------------------------------------------------------------
(* A character less, as long as there are lines to go up to.               *)
LEMMA DeleteChar ==
  ASSUME NEW t, NEW u, Screen(t), t.x >= 0, t.y >= - MaxAbove * CHAR_HEIGHT, u = delete_char(t)
  PROVE  Screen(u) /\ Keeps(t, u)
<1>1. PICK w, h, W \in Nat \ {0}, H \in Nat, low, x, y \in Int, l, r \in Nat :
        /\ w = CHAR_WIDTH /\ h = CHAR_HEIGHT /\ W = SCREEN_WIDTH /\ H = SCREEN_HEIGHT
        /\ low = Low /\ x = t.x /\ y = t.y /\ l = t.left /\ r = t.right
        /\ 2 * h <= H /\ low <= 0 /\ l + w <= r /\ r <= W
        /\ - 2 * w <= x /\ x <= W + w /\ low <= y /\ y <= H - 1
  BY ScreenFacts
<1>2. y - h >= low /\ x >= 0
  <2>1. PICK m \in Int : m = - MaxAbove * CHAR_HEIGHT /\ m - h = low
    BY <1>1, LowFacts
  <2>2. y >= m
    BY <1>1, <2>1
  <2> QED
    BY <1>1, <2>1, <2>2
<1>3. PICK back : back = IF t.x = t.left THEN [t EXCEPT !.x = t.right, !.y = @ - CHAR_HEIGHT] ELSE t
  OBVIOUS
<1>4. PICK p : p = [back EXCEPT !.x = @ - CHAR_WIDTH]
  OBVIOUS
<1>5. PICK v \in Int, z \in Int :
        /\ v = (IF x = l THEN r ELSE x) - w /\ z = IF x = l THEN y - h ELSE y
  BY <1>1
<1>6. /\ DOMAIN p = {"x", "y", "left", "right", "px"} /\ p.px = t.px
      /\ p.x = v /\ p.y = z /\ p.left = l /\ p.right = r
  <2>1. CASE x = l
    BY <1>1, <1>3, <1>4, <1>5, <2>1 DEF Screen
  <2>2. CASE x # l
    BY <1>1, <1>3, <1>4, <1>5, <2>2 DEF Screen
  <2> QED
    BY <2>1, <2>2
<1>7. Screen(p)
  <2>1. v \in (- 2 * w) .. (W + w) /\ z \in low .. (H - 1) /\ l \in 0 .. W /\ r \in 0 .. W
    BY <1>1, <1>2, <1>5
  <2> QED
    BY <1>1, <1>6, <2>1 DEF Screen
<1>8. PICK d : d = draw_char(p, BACKGROUND)
  OBVIOUS
<1>9. /\ Screen(d) /\ Keeps(p, d)
      /\ d.x = (IF Overflows(p, p.x) THEN l ELSE v) + w
  <2>1. BACKGROUND \in Chars
    BY DEF Chars
  <2> QED
    BY <1>1, <1>6, <1>7, <1>8, <2>1, DrawChar
<1>10. u = [d EXCEPT !.x = @ - CHAR_WIDTH]
  BY <1>3, <1>4, <1>8 DEF delete_char
<1>11. PICK e \in Int : e = (IF Overflows(p, p.x) THEN l ELSE v) /\ e = d.x - w
  BY <1>1, <1>9
<1>12. /\ DOMAIN u = {"x", "y", "left", "right", "px"} /\ u.px = d.px
       /\ u.x = e /\ u.y = d.y /\ u.left = l /\ u.right = r
  BY <1>1, <1>6, <1>9, <1>10, <1>11 DEF Screen, Keeps
<1>13. Screen(u)
  <2>1. e \in (- 2 * w) .. (W + w)
    BY <1>1, <1>2, <1>5, <1>11
  <2> QED
    BY <1>1, <1>9, <1>12, <2>1 DEF Screen
<1>14. ASSUME Inside(t) PROVE Inside(u) /\ Between(t, u)
  <2>1. l <= x /\ x <= r /\ (x - l) % w = 0 /\ (r - x) % w = 0
    BY <1>1, <1>14 DEF Inside
  <2>2. PICK a \in Int, b \in Int : a = x - l /\ b = r - x /\ a % w = 0 /\ b % w = 0
    BY <2>1
  <2>3. l <= v /\ v + w <= r /\ (v - l) % w = 0 /\ (r - v) % w = 0
    <3>0. \A c \in Int : c % w = 0 => (c - w) % w = 0 /\ (c + w) % w = 0
      <4>1. w \in Int /\ w % w = 0
        BY <2>2, Multiples
      <4>2. ASSUME NEW c \in Int, c % w = 0 PROVE (c - w) % w = 0 /\ (c + w) % w = 0
        <5>1. (c - w) % w = 0
          BY <4>1, <4>2, Multiples
        <5>2. (c + w) % w = 0
          BY <4>1, <4>2, Multiples
        <5> QED
          BY <5>1, <5>2
      <4> QED
        BY <4>2
    <3>1. CASE x = l
      <4>1. v - l = b - w /\ r - v = w /\ l <= v /\ v + w <= r
        BY <1>1, <1>5, <2>2, <3>1
      <4>2. (b - w) % w = 0
        BY <2>2, <3>0
      <4>3. w % w = 0
        BY <2>2, Multiples
      <4> QED
        BY <4>1, <4>2, <4>3
    <3>2. CASE x # l
      <4>1. a > 0 => a >= w
        BY <2>2, Multiples
      <4>2. v - l = a - w /\ r - v = b + w /\ l <= v /\ v + w <= r
        <5>1. v = x - w /\ a = x - l /\ b = r - x
          BY <1>5, <2>2, <3>2
        <5>2. a >= w
          BY <2>1, <2>2, <3>2, <4>1
        <5>3. x <= r
          BY <2>1
        <5> QED
          BY <5>1, <5>2, <5>3
      <4>3. (a - w) % w = 0
        BY <2>2, <3>0
      <4>4. (b + w) % w = 0
        BY <2>2, <3>0
      <4> QED
        BY <4>2, <4>3, <4>4
    <3> QED
      BY <3>1, <3>2
  <2>4. Inside(p)
    BY <1>1, <1>6, <2>3 DEF Inside
  <2>5. Between(p, d)
    BY <1>9, <2>4 DEF Keeps
  <2>6. e = v
    BY <1>1, <1>6, <1>11, <2>3 DEF Overflows
  <2>7. Inside(u)
    BY <1>1, <1>12, <2>3, <2>6 DEF Inside
  <2>8. Between(t, u)
    BY <1>1, <1>6, <1>12, <2>5 DEF Between
  <2> QED
    BY <2>7, <2>8
<1>15. u.left = t.left /\ u.right = t.right
  BY <1>1, <1>12
<1> QED
  BY <1>13, <1>14, <1>15 DEF Keeps
-----------------------------------------------------------------------------
(* Clearing leaves the cursor at the top.                                  *)
LEMMA Cleared ==
  ASSUME NEW t, NEW u, Screen(t), u = clean(t) \/ u = clean_all(t)
  PROVE  /\ Screen(u) /\ u.x \in {0, t.left} /\ u.y = 0
         /\ \A i \in Pixels : u.px[i] = t.px[i] \/ u.px[i] = BACKGROUND
<1>1. PICK w, h, W \in Nat \ {0}, H \in Nat, low, x0, y \in Int, l, r \in Nat :
        /\ w = CHAR_WIDTH /\ h = CHAR_HEIGHT /\ W = SCREEN_WIDTH /\ H = SCREEN_HEIGHT
        /\ low = Low /\ x0 = t.x /\ y = t.y /\ l = t.left /\ r = t.right
        /\ 2 * h <= H /\ low <= 0 /\ l + w <= r /\ r <= W
        /\ - 2 * w <= x0 /\ x0 <= W + w /\ low <= y /\ y <= H - 1
  BY ScreenFacts
<1>2. PICK area, x, d : /\ d = paint(t, area, BACKGROUND) /\ x \in {0, l}
                       /\ u = [d EXCEPT !.x = x, !.y = 0]
  <2>1. CASE u = clean(t)
    BY <1>1, <2>1 DEF clean
  <2>2. CASE u = clean_all(t)
    BY <2>2 DEF clean_all
  <2> QED
    BY <2>1, <2>2
<1>3. /\ DOMAIN d = {"x", "y", "left", "right", "px"} /\ d.left = l /\ d.right = r
      /\ d.px = [i \in Pixels |-> IF i \in area THEN BACKGROUND ELSE t.px[i]]
  BY <1>1, <1>2, PaintParts DEF Screen
<1>4. /\ DOMAIN u = {"x", "y", "left", "right", "px"} /\ u.left = l /\ u.right = r
      /\ u.x = x /\ u.y = 0 /\ u.px = d.px
  BY <1>2, <1>3
<1>5. d.px \in [Pixels -> Chars] /\ \A i \in Pixels : d.px[i] = t.px[i] \/ d.px[i] = BACKGROUND
  BY <1>3 DEF Screen, Chars
<1>6. /\ x \in (- 2 * w) .. (W + w) /\ 0 \in low .. (H - 1)
      /\ l \in 0 .. W /\ r \in 0 .. W
  BY <1>1, <1>2
<1> QED
  BY <1>1, <1>2, <1>4, <1>5, <1>6 DEF Screen

(* What a step of the terminal does to the screen.                         *)
Drawing == tty' = tty \/ Keeps(tty, tty')

Clearing ==
  /\ tty'.x \in {0, tty.left} /\ tty'.y = 0
  /\ \A i \in Pixels : tty'.px[i] = tty.px[i] \/ tty'.px[i] = BACKGROUND

LEMMA WriteStep ==
  ASSUME Inv, NEW s \in Strings \cup {Message}, tty' = draw_string(tty, s)
  PROVE  Screen(tty)' /\ Drawing
<1>1. PICK u : u = draw_string(tty, s)
  OBVIOUS
<1> QED
  BY <1>1, DrawString DEF Inv, Drawing

LEMMA DeleteStep ==
  ASSUME Inv, Bounded, tty' = delete_char(tty)
  PROVE  Screen(tty)' /\ Drawing
<1>1. PICK u : u = delete_char(tty)
  OBVIOUS
<1> QED
  BY <1>1, DeleteChar DEF Inv, Drawing, Bounded

LEMMA InitInv == Init => Inv
<1> SUFFICES ASSUME Init PROVE Inv
  OBVIOUS
<1>1. PICK w, h, W \in Nat \ {0}, H \in Nat, low \in Int :
        /\ w = CHAR_WIDTH /\ h = CHAR_HEIGHT /\ W = SCREEN_WIDTH /\ H = SCREEN_HEIGHT
        /\ low = Low /\ low <= 0 /\ 2 * h <= H /\ w <= W
  BY Sizes, LowFacts
<1>2. /\ 0 \in (- 2 * w) .. (W + w) /\ 0 \in low .. (H - 1)
      /\ 0 \in 0 .. W /\ W \in 0 .. W /\ 0 + w <= W
  BY <1>1
<1>3. /\ DOMAIN Blank = {"x", "y", "left", "right", "px"} /\ Blank.x = 0 /\ Blank.y = 0
      /\ Blank.left = 0 /\ Blank.right = SCREEN_WIDTH /\ Blank.px \in [Pixels -> Chars]
  BY DEF Blank, Chars
<1>4. Screen(Blank)
  BY <1>1, <1>2, <1>3 DEF Screen
<1> QED
  BY <1>1, <1>2, <1>4 DEF Init, Inv

LEMMA StepInv ==
  ASSUME Inv, [Next]_vars
  PROVE  /\ Inv'
         /\ Drawing \/ (Clearing /\ (sys_clear_screen \/ printException)) \/ tty'.px = tty.px
         /\ (\E s \in Strings : sys_write(s)) \/ sys_newline \/ deleteChar \/ deleteNext
                \/ overflowMessage => Drawing
<1>1. PICK w, h, W \in Nat \ {0}, H \in Nat, low, x, y \in Int, l, r \in Nat :
        /\ w = CHAR_WIDTH /\ h = CHAR_HEIGHT /\ W = SCREEN_WIDTH /\ H = SCREEN_HEIGHT
        /\ low = Low /\ x = tty.x /\ y = tty.y /\ l = tty.left /\ r = tty.right
        /\ 2 * h <= H /\ low <= 0 /\ l + w <= r /\ r <= W
        /\ - 2 * w <= x /\ x <= W + w /\ low <= y /\ y <= H - 1
  BY ScreenFacts DEF Inv
<1>2. ASSUME NEW s \in Strings, sys_write(s) PROVE Inv' /\ Drawing
  BY <1>2, WriteStep DEF sys_write, Call, aux, Inv
<1>3. ASSUME sys_newline PROVE Inv' /\ Drawing
  <2>1. PICK u : u = newLine(tty)
    OBVIOUS
  <2> QED
    BY <1>3, <2>1, NewLine DEF sys_newline, Call, aux, Inv, Drawing
<1>4. ASSUME sys_clear_screen PROVE Inv' /\ Clearing
  <2>1. PICK u : u = clean(tty)
    OBVIOUS
  <2> QED
    BY <1>4, <2>1, Cleared DEF sys_clear_screen, Call, aux, Inv, Clearing
<1>5. ASSUME deleteChar PROVE Inv' /\ Drawing
  BY <1>5, DeleteStep DEF deleteChar, Call, aux, Inv
<1>6. ASSUME deleteLine PROVE Inv' /\ Drawing
  BY <1>6 DEF deleteLine, aux, Inv, Drawing
<1>7. ASSUME deleteNext PROVE Inv' /\ Drawing
  <2>1. CASE InLine
    BY <1>7, <2>1, DeleteStep DEF deleteNext, aux, Inv
  <2>2. CASE ~ InLine
    BY <1>7, <2>2 DEF deleteNext, aux, Inv, Drawing
  <2> QED
    BY <2>1, <2>2
<1>8. ASSUME NEW c \in Cursors, sys_cursor(c[1], c[2]) PROVE Inv' /\ tty'.px = tty.px
  <2>1. PICK a, b : tty' = [tty EXCEPT !.x = a, !.y = b]
                    /\ a \in (- 2 * w) .. (W + w) /\ b \in low .. (H - 1)
    <3>1. PICK a \in Int, b \in Int : a = c[1] /\ b = c[2]
      <4>1. c \in Int \X Int
        BY ConsoleAssumption
      <4> QED
        BY <4>1
    <3>2. CASE a > 0 /\ b > 0 /\ a < W /\ b < H /\ tty' = [tty EXCEPT !.x = a, !.y = b]
      <4>1. a \in (- 2 * w) .. (W + w) /\ b \in low .. (H - 1)
        BY <1>1, <3>2
      <4> QED
        BY <3>2, <4>1
    <3>3. CASE tty' = [tty EXCEPT !.x = aux_x, !.y = aux_y]
      BY <1>1, <3>3 DEF Inv
    <3> QED
      BY <1>1, <1>8, <3>1, <3>2, <3>3 DEF sys_cursor
  <2>2. Screen(tty)' /\ tty'.px = tty.px
    BY <1>1, <2>1 DEF Inv, Screen
  <2>3. aux_x' \in {aux_x, tty.x} /\ aux_y' \in {aux_y, tty.y} /\ deleting' = deleting
    BY <1>8 DEF sys_cursor, aux
  <2> QED
    BY <2>2, <2>3 DEF Inv, Screen
<1>9. ASSUME NEW m \in Margins, sys_setMargins(m[1], m[2]) PROVE Inv' /\ tty'.px = tty.px
  <2>1. PICK a \in Nat, b \in Nat : a = m[1] /\ b = m[2] /\ a + w <= b /\ b <= W
    BY <1>1, ConsoleAssumption
  <2>2. a \in 0 .. W /\ b \in 0 .. W
    BY <2>1
  <2>3. tty' = [tty EXCEPT !.left = a, !.right = b] /\ UNCHANGED <<aux_x, aux_y, deleting>>
    BY <1>9, <2>1 DEF sys_setMargins, Call, aux
  <2> QED
    BY <1>1, <2>1, <2>2, <2>3 DEF Inv, Screen
<1>10. ASSUME printException PROVE Inv' /\ Clearing
  <2>1. PICK u : u = clean_all(tty)
    OBVIOUS
  <2> QED
    BY <1>10, <2>1, Cleared DEF printException, Call, aux, Inv, Clearing
<1>11. ASSUME overflowMessage PROVE Inv' /\ Drawing
  BY <1>11, WriteStep DEF overflowMessage, aux, Inv
<1>12. ASSUME UNCHANGED vars PROVE Inv' /\ Drawing
  BY <1>12 DEF vars, aux, Inv, Drawing
<1> QED
  BY <1>2, <1>3, <1>4, <1>5, <1>6, <1>7, <1>8, <1>9, <1>10, <1>11, <1>12 DEF Next

(* The invariant: the screen, its cursor and the one put aside.            *)
THEOREM Invariant == Spec => []Inv
<1>1. Inv /\ [Next]_vars => Inv'
  BY StepInv
<1> QED
  BY InitInv, <1>1, PTL DEF Spec

(* Neither scrolling nor deleting nor what has been put aside takes the    *)
(* cursor off the screen for good, and no pixel is ever undefined.         *)
THEOREM TypeCorrect == Spec => []TypeOK
<1>1. Inv => TypeOK
  <2> SUFFICES ASSUME Inv PROVE TypeOK
    OBVIOUS
  <2>1. aux_x \in Int /\ aux_y \in Int
    BY Sizes, LowFacts DEF Inv
  <2> QED
    BY <2>1 DEF Inv, Screen, TypeOK, Chars, Low
<1> QED
  BY <1>1, Invariant, PTL

(* What clean reaches outside the margins is the column to their right,    *)
(* or, when there is none, the first one.                                  *)
LEMMA Column ==
  ASSUME NEW W \in Nat \ {0}, NEW y \in Nat, NEW c \in 0 .. W
  PROVE  (y * W + c) % W = c % W /\ (c < W => c % W = c)
<1> DEFINE a == y * W + c
           q == a \div W
           r == a % W
<1>1. a = W * q + r /\ q \in Int /\ r \in 0 .. (W - 1)
  OBVIOUS
<1>2. (c < W => c % W = c) /\ (c = W => c % W = 0)
  <2>1. \A k \in Int : (W * k) % W = 0
    OBVIOUS
  <2>2. W * 1 = W
    OBVIOUS
  <2>3. W % W = 0
    BY <2>1, <2>2
  <2> QED
    BY <2>3
<1> HIDE DEF q, r
<1>3. PICK d \in Int : d = y - q
  BY <1>1
<1>4. W * d = r - c
  <2>1. y = q + d
    BY <1>1, <1>3
  <2>2. y * W = W * q + W * d
    BY <1>1, <1>3, <2>1
  <2> QED
    BY <1>1, <2>2
<1>5. d >= 1 => W * d >= W
  OBVIOUS
<1>6. d <= -2 => W * d <= - (2 * W)
  OBVIOUS
<1>7. d = -1 => W * d = - W
  OBVIOUS
<1>8. d = 0 => W * d = 0
  OBVIOUS
<1>9. (c < W => r = c) /\ (c = W => r = 0)
  BY <1>1, <1>3, <1>4, <1>5, <1>6, <1>7, <1>8
<1> QED
  BY <1>2, <1>9 DEF r

LEMMA CleanColumn ==
  ASSUME NEW t, NEW u, Screen(t), u = clean(t), NEW i \in Pixels
  PROVE  LET x == i % SCREEN_WIDTH IN
         \/ t.left <= x /\ x < t.right
         \/ u.px[i] = t.px[i]
         \/ u.px[i] = BACKGROUND /\ x = t.right % SCREEN_WIDTH
<1>1. PICK W \in Nat \ {0}, H \in Nat, l, r \in Nat :
        /\ W = SCREEN_WIDTH /\ H = SCREEN_HEIGHT /\ l = t.left /\ r = t.right
        /\ l < r /\ r <= W
  BY ScreenFacts
<1>2. PICK area : area = Area(l, 0, r - l + 1, H + 1)
  OBVIOUS
<1>3. PICK d : d = paint(t, area, BACKGROUND) /\ u = [d EXCEPT !.x = l, !.y = 0]
  BY <1>1, <1>2 DEF clean
<1>4. /\ DOMAIN d = {"x", "y", "left", "right", "px"}
      /\ d.px = [k \in Pixels |-> IF k \in area THEN BACKGROUND ELSE t.px[k]]
  BY <1>3, PaintParts DEF Screen
<1>5. u.px[i] = IF i \in area THEN BACKGROUND ELSE t.px[i]
  BY <1>3, <1>4
<1>6. CASE i \in area
  <2>1. PICK b \in 0 .. (r - l + 1 - 1), y \in 0 .. (H + 1 - 1) : i = get_pixel(l + b, 0 + y)
    BY <1>2, <1>6 DEF Area
  <2>2. PICK c \in 0 .. W : c = l + b /\ l <= c /\ c <= r
    BY <1>1, <2>1
  <2>3. PICK z \in Nat : z = y /\ i = z * W + c
    BY <1>1, <2>1, <2>2 DEF get_pixel
  <2>4. i % W = c % W /\ (c < W => c % W = c)
    BY <2>3, Column
  <2>5. c < r \/ c = r
    BY <2>2
  <2>6. CASE c < r
    BY <1>1, <2>2, <2>4, <2>6
  <2>7. CASE c = r
    BY <1>1, <1>5, <1>6, <2>4, <2>7
  <2> QED
    BY <2>5, <2>6, <2>7
<1>7. CASE i \notin area
  BY <1>5, <1>7
<1> QED
  BY <1>6, <1>7

(* Programs that divide the screen with margins do not disturb each other, *)
(* but for the column of pixels that clearing blanks too many.             *)
THEOREM ColumnsKept == Spec => KeepsColumn
<1>1. ASSUME Inv, [Next]_vars, Inside(tty), tty'.left = tty.left, tty'.right = tty.right,
             NEW i \in Pixels
      PROVE  LET x == i % SCREEN_WIDTH IN
             \/ tty.left <= x /\ x < tty.right
             \/ tty'.px[i] = tty.px[i]
             \/ /\ tty'.px[i] = BACKGROUND
                /\ printException \/ (sys_clear_screen /\ x = tty.right % SCREEN_WIDTH)
  <2>1. Drawing \/ (Clearing /\ (sys_clear_screen \/ printException)) \/ tty'.px = tty.px
    BY <1>1, StepInv
  <2>2. CASE Drawing \/ tty'.px = tty.px
    BY <1>1, <2>2 DEF Drawing, Keeps, Between
  <2>3. CASE Clearing /\ printException
    BY <2>3 DEF Clearing
  <2>4. CASE sys_clear_screen
    <3>1. PICK t, u : t = tty /\ u = tty' /\ Screen(t) /\ u = clean(t)
      BY <1>1, <2>4 DEF Inv, sys_clear_screen, Call
    <3> QED
      BY <2>4, <3>1, CleanColumn
  <2> QED
    BY <2>1, <2>2, <2>3, <2>4
<1>2. Inv /\ [Next]_vars =>
        [Inside(tty) /\ tty'.left = tty.left /\ tty'.right = tty.right =>
           \A i \in Pixels :
             LET x == i % SCREEN_WIDTH IN
             \/ tty.left <= x /\ x < tty.right
             \/ tty'.px[i] = tty.px[i]
             \/ /\ tty'.px[i] = BACKGROUND
                /\ printException \/ (sys_clear_screen /\ x = tty.right % SCREEN_WIDTH)]_vars
  BY <1>1
<1> QED
  BY <1>2, Invariant, PTL DEF Spec, KeepsColumn

(* A cursor on a column stays there, and delete_line never returns.        *)
THEOREM ColumnStays == Spec => StaysOnColumn
<1>1. ASSUME Inv, [Next]_vars, Inside(tty),
             (\E s \in Strings : sys_write(s)) \/ sys_newline \/ deleteChar \/ deleteNext
               \/ overflowMessage
      PROVE  Inside(tty') /\ (deleting => deleting')
  <2>1. Drawing
    BY <1>1, StepInv
  <2>2. Inside(tty')
    BY <1>1, <2>1 DEF Drawing, Keeps
  <2>3. deleting => deleting'
    <3>1. InLine
      BY <1>1 DEF Inside, InLine, Inv, Screen
    <3> QED
      BY <1>1, <3>1 DEF sys_write, sys_newline, deleteChar, deleteNext, overflowMessage, Call
  <2> QED
    BY <2>2, <2>3
<1>2. Inv /\ [Next]_vars =>
        [(\E s \in Strings : sys_write(s)) \/ sys_newline \/ deleteChar \/ deleteNext
           \/ overflowMessage => (Inside(tty) => Inside(tty') /\ (deleting => deleting'))]_vars
  BY <1>1
<1> QED
  BY <1>2, Invariant, PTL DEF Spec, StaysOnColumn
-----------------------------------------------------------------------------
(***************************************************************************)
(* A write and the messages in its middle, for any number of messages.     *)
(***************************************************************************)
Lines == {CHAR_HEIGHT * r : r \in 0 .. (SCREEN_HEIGHT \div CHAR_HEIGHT)}

(* The cursor is on a line of the screen or on the one below, and one      *)
(* character too far right at most.                                        *)
WithinOne(t) ==
  /\ DOMAIN t = {"x", "y", "left", "right", "px"}
  /\ t.left = 0 /\ t.right = SCREEN_WIDTH
  /\ t.y \in Lines /\ t.x \in 0 .. (SCREEN_WIDTH + CHAR_WIDTH)

Below == {"testDown", "scroll", "loadUp", "storeUp"}

WriterTypes ==
  /\ WithinOne(tty)
  /\ pc \in {"idle", "test", "wrapX", "loadDown", "storeDown", "scrollX", "loadRow", "draw",
             "loadX", "storeX"} \cup Below

(* The cursor stays below the screen until it is moved up, whatever has    *)
(* been drawn meanwhile, and what has been loaded is on the screen.        *)
RowComesBack ==
  /\ pc \notin Below => tty.y < SCREEN_HEIGHT
  /\ pc \in Below \ {"testDown"} => tty.y = SCREEN_HEIGHT
  /\ pc = "storeDown" => eax \in Lines /\ eax < SCREEN_HEIGHT
  /\ pc = "storeUp" => eax = SCREEN_HEIGHT

(* A message leaves the cursor within the margins, and what has been       *)
(* loaded is there too.                                                    *)
ColumnComesBack ==
  /\ pc \notin {"idle", "test", "wrapX"} => tty.x <= SCREEN_WIDTH
  /\ pc = "storeX" => eax \in 0 .. SCREEN_WIDTH

WriterInv == WriterTypes /\ RowComesBack /\ ColumnComesBack
-----------------------------------------------------------------------------
(* The lines of the screen.                                                *)
LEMMA LineFacts ==
  /\ Lines \subseteq 0 .. SCREEN_HEIGHT /\ 0 \in Lines /\ SCREEN_HEIGHT \in Lines
  /\ SCREEN_HEIGHT - CHAR_HEIGHT \in Lines /\ SCREEN_HEIGHT - CHAR_HEIGHT < SCREEN_HEIGHT
  /\ SCREEN_HEIGHT + CHAR_HEIGHT - CHAR_HEIGHT = SCREEN_HEIGHT
  /\ \A y \in Lines : /\ y < SCREEN_HEIGHT => y + CHAR_HEIGHT \in Lines
                     /\ y + CHAR_HEIGHT - CHAR_HEIGHT = y
<1>1. PICK h \in Nat \ {0}, H \in Nat : h = CHAR_HEIGHT /\ H = SCREEN_HEIGHT /\ 2 * h <= H
  BY Sizes
<1>2. PICK n \in Nat : n = H \div h /\ H = h * n
  <2>1. H = (h * (H \div h)) + (H % h) /\ H \div h \in Nat
    BY <1>1
  <2>2. H % h = 0
    BY <1>1, SharedCursorAssumption
  <2>3. PICK n \in Nat : n = H \div h
    BY <2>1
  <2> QED
    BY <2>1, <2>2, <2>3
<1>3. Lines = {h * r : r \in 0 .. n}
  BY <1>1, <1>2 DEF Lines
<1>4. n \in 1 .. n
  <2>1. n # 0
    BY <1>1, <1>2
  <2> QED
    BY <2>1
<1>5. ASSUME NEW r \in 0 .. n PROVE h * r \in 0 .. H
  BY <1>1, <1>2
<1>6. ASSUME NEW r \in 0 .. n, h * r < H PROVE h * r + h = h * (r + 1) /\ r + 1 \in 0 .. n
  <2>1. r # n
    BY <1>2, <1>6
  <2>2. h * r + h = h * (r + 1)
    BY <1>1
  <2> QED
    BY <2>1, <2>2
<1>7. H - h = h * (n - 1) /\ n - 1 \in 0 .. n /\ 0 = h * 0 /\ n \in 0 .. n /\ 0 \in 0 .. n
  BY <1>1, <1>2, <1>4
<1>8. H - h < H /\ H + h - h = H
  BY <1>1
<1>9. ASSUME NEW y \in Lines PROVE (y < H => y + h \in Lines) /\ y + h - h = y /\ y \in 0 .. H
  <2>1. PICK r \in 0 .. n : y = h * r
    BY <1>3
  <2>2. y \in 0 .. H
    BY <1>5, <2>1
  <2>3. y + h - h = y
    BY <2>2
  <2>4. y < H => y + h \in Lines
    BY <1>3, <1>6, <2>1
  <2> QED
    BY <2>2, <2>3, <2>4
<1>10. 0 \in Lines /\ H \in Lines /\ H - h \in Lines
  BY <1>2, <1>3, <1>7
<1> QED
  BY <1>1, <1>8, <1>9, <1>10
-----------------------------------------------------------------------------
(* Drawing at the cursor, also below the screen.                           *)
LEMMA DrawCharWithinOne ==
  ASSUME NEW t, NEW c, NEW u, WithinOne(t), u = draw_char(t, c)
  PROVE  WithinOne(u) /\ u.x <= SCREEN_WIDTH /\ (u.y = SCREEN_HEIGHT <=> t.y = SCREEN_HEIGHT)
<1> DEFINE at == IF Overflows(t, t.x) THEN newLine(t) ELSE t
<1>1. PICK w \in Nat \ {0}, h \in Nat \ {0}, W \in Nat, H \in Nat :
        w = CHAR_WIDTH /\ h = CHAR_HEIGHT /\ W = SCREEN_WIDTH /\ H = SCREEN_HEIGHT /\ w <= W
  BY Sizes
<1>2. PICK x \in 0 .. (W + w), y \in Lines : x = t.x /\ y = t.y /\ y \in 0 .. H
  BY <1>1, LineFacts DEF WithinOne
<1>3. /\ WithinOne(at) /\ at.x + w <= W
      /\ (at.y = SCREEN_HEIGHT <=> t.y = SCREEN_HEIGHT)
  <2>1. CASE ~ Overflows(t, t.x)
    BY <1>1, <1>2, <2>1 DEF Overflows, WithinOne
  <2>2. CASE Overflows(t, t.x)
    <3>1. PICK down : down = [t EXCEPT !.x = t.left, !.y = @ + CHAR_HEIGHT]
      OBVIOUS
    <3>2. /\ DOMAIN down = {"x", "y", "left", "right", "px"}
          /\ down.left = 0 /\ down.right = SCREEN_WIDTH /\ down.x = 0 /\ down.y = y + h
      BY <1>1, <1>2, <3>1 DEF WithinOne
    <3>3. at = IF down.y >= SCREEN_HEIGHT THEN scroll(down) ELSE down
      BY <2>2, <3>1 DEF newLine
    <3>4. CASE y + h >= H
      <4>1. /\ DOMAIN scroll(down) = {"x", "y", "left", "right", "px"}
            /\ scroll(down).left = 0 /\ scroll(down).right = SCREEN_WIDTH
            /\ scroll(down).x = 0 /\ scroll(down).y = y + h - h
        <5>1. PICK q : scroll(down) = [down EXCEPT !.px = q, !.y = @ - CHAR_HEIGHT, !.x = down.left]
          BY DEF scroll, Shift
        <5>2. DOMAIN scroll(down) = {"x", "y", "left", "right", "px"}
          BY <3>2, <5>1
        <5>3. scroll(down).left = down.left /\ scroll(down).right = down.right
          BY <3>2, <5>1
        <5>4. scroll(down).x = down.left /\ scroll(down).y = down.y - CHAR_HEIGHT
          BY <3>2, <5>1
        <5> QED
          BY <1>1, <1>2, <3>2, <5>2, <5>3, <5>4
      <4> QED
        BY <1>1, <1>2, <3>2, <3>3, <3>4, <4>1, LineFacts DEF WithinOne
    <3>5. CASE ~ (y + h >= H)
      <4>1. y < H /\ y + h # H
        BY <1>2, <3>5
      <4> QED
        BY <1>1, <1>2, <3>2, <3>3, <3>5, <4>1, LineFacts DEF WithinOne
    <3> QED
      BY <3>4, <3>5
  <2> QED
    BY <2>1, <2>2
<1>4. PICK d : d = draw_char_personalized(at, at.x, at.y, c)
  OBVIOUS
<1>5. DOMAIN d = DOMAIN at /\ d.x = at.x /\ d.y = at.y /\ d.left = at.left /\ d.right = at.right
  BY <1>3, <1>4 DEF draw_char_personalized, paint, WithinOne
<1>6. u = [d EXCEPT !.x = @ + CHAR_WIDTH]
  BY <1>4 DEF draw_char
<1>7. PICK z \in 0 .. (W + w) : z = at.x /\ z + w \in 0 .. W
  BY <1>1, <1>3 DEF WithinOne
<1> QED
  BY <1>1, <1>3, <1>5, <1>6, <1>7 DEF WithinOne
-----------------------------------------------------------------------------
LEMMA DrawStringWithinOne ==
  ASSUME NEW t, NEW s, NEW u,
         WithinOne(t), Len(s) \in Nat, u = draw_string(t, s)
  PROVE  /\ WithinOne(u) /\ (u.y = SCREEN_HEIGHT <=> t.y = SCREEN_HEIGHT)
         /\ t.x <= SCREEN_WIDTH => u.x <= SCREEN_WIDTH
<1>1. PICK l \in Nat : l = Len(s)
  OBVIOUS
<1>2. PICK d : IsDrawn(d, t, s, l) /\ u = d[l]
  <2> DEFINE D == CHOOSE d : IsDrawn(d, t, s, l)
  <2>1. IsDrawn(D, t, s, l)
    BY DrawnExists
  <2>2. u = D[l]
    BY <1>1 DEF draw_string, IsDrawn
  <2> QED
    BY <2>1, <2>2
<1> DEFINE Kept(v) == /\ WithinOne(v) /\ (v.y = SCREEN_HEIGHT <=> t.y = SCREEN_HEIGHT)
                      /\ t.x <= SCREEN_WIDTH => v.x <= SCREEN_WIDTH
           Lost == {m \in 0 .. l : ~ Kept(d[m])}
<1>3. ASSUME Lost # {} PROVE FALSE
  <2>1. PICK m \in Lost : \A n \in Lost : m <= n
    <3>1. Lost \subseteq Nat
      OBVIOUS
    <3> QED
      BY <1>3, <3>1, Least
  <2>2. m \in 0 .. l /\ ~ Kept(d[m])
    BY <2>1
  <2>3. CASE m = 0
    <3>1. d[0] = t
      BY <1>2, <2>2, <2>3 DEF IsDrawn
    <3> QED
      BY <2>2, <2>3, <3>1
  <2>4. CASE m # 0
    <3>1. m - 1 \in 0 .. l /\ ~ (m <= m - 1)
      BY <2>2, <2>4
    <3>2. Kept(d[m - 1])
      BY <2>1, <3>1
    <3>3. d[m] = draw_char(d[m - 1], s[m])
      BY <1>2, <2>2, <2>4 DEF IsDrawn
    <3>4. Kept(d[m])
      BY <3>2, <3>3, DrawCharWithinOne
    <3> QED
      BY <2>2, <3>4
  <2> QED
    BY <2>3, <2>4
<1>4. Kept(d[l])
  BY <1>3
<1> QED
  BY <1>2, <1>4
-----------------------------------------------------------------------------
LEMMA WriterInitInv ==
  ASSUME WriterInit
  PROVE  WriterInv
<1>1. PICK w \in Nat \ {0}, h \in Nat \ {0}, W \in Nat, H \in Nat :
        /\ w = CHAR_WIDTH /\ h = CHAR_HEIGHT /\ W = SCREEN_WIDTH /\ H = SCREEN_HEIGHT
        /\ 2 * h <= H
  BY Sizes
<1>2. 0 \in Lines /\ 0 < H /\ 0 \in 0 .. (W + w)
  BY <1>1, LineFacts
<1> QED
  BY <1>1, <1>2
  DEF WriterInit, Blank, WriterInv, WriterTypes, WithinOne, Below, RowComesBack,
      ColumnComesBack

(* The cursor in a state of the invariant.                                 *)
LEMMA CursorFacts ==
  ASSUME WriterInv
  PROVE  \E w \in Nat \ {0}, h \in Nat \ {0}, W \in Nat, H \in Nat, x \in Nat, y \in Nat :
           /\ w = CHAR_WIDTH /\ h = CHAR_HEIGHT /\ W = SCREEN_WIDTH /\ H = SCREEN_HEIGHT
           /\ x = tty.x /\ y = tty.y /\ x <= W + w /\ y <= H /\ w <= W
<1>1. PICK w \in Nat \ {0}, h \in Nat \ {0}, W \in Nat, H \in Nat :
        w = CHAR_WIDTH /\ h = CHAR_HEIGHT /\ W = SCREEN_WIDTH /\ H = SCREEN_HEIGHT /\ w <= W
  BY Sizes
<1>2. tty.x \in 0 .. (W + w) /\ tty.y \in 0 .. H
  BY <1>1, LineFacts DEF WriterInv, WriterTypes, WithinOne
<1>3. PICK x \in 0 .. (W + w), y \in 0 .. H : x = tty.x /\ y = tty.y
  BY <1>2
<1>4. x \in Nat /\ y \in Nat /\ x <= W + w /\ y <= H
  BY <1>1, <1>3
<1> QED
  BY <1>1, <1>3, <1>4

(* A move of the cursor to a line and a column of the screen.              *)
LEMMA CursorMoved ==
  ASSUME WithinOne(tty)
  PROVE  /\ \A v \in 0 .. (SCREEN_WIDTH + CHAR_WIDTH) :
              WithinOne(X(v)) /\ X(v).x = v /\ X(v).y = tty.y
         /\ \A v \in Lines : WithinOne(Y(v)) /\ Y(v).y = v /\ Y(v).x = tty.x
BY DEF WithinOne, X, Y

LEMMA WriteKeepsInv ==
  ASSUME WriterInv, Write
  PROVE  WriterInv'
<1> USE DEF Below
<1>1. PICK w \in Nat \ {0}, h \in Nat \ {0}, W \in Nat, H \in Nat, x \in Nat, y \in Nat :
        /\ w = CHAR_WIDTH /\ h = CHAR_HEIGHT /\ W = SCREEN_WIDTH /\ H = SCREEN_HEIGHT
        /\ x = tty.x /\ y = tty.y /\ x <= W + w /\ y <= H /\ w <= W
  BY CursorFacts
<1>2. /\ WithinOne(tty) /\ y \in Lines /\ tty.left = 0 /\ tty.right = W
      /\ RowComesBack /\ ColumnComesBack
  BY <1>1 DEF WriterInv, WriterTypes, WithinOne
<1>3. CASE test
  <2>1. pc' = "loadRow" => x <= W
    BY <1>1, <1>2, <1>3 DEF test, Goto, Overflows
  <2> QED
    BY <1>1, <1>2, <1>3, <2>1
    DEF test, Goto, WriterInv, WriterTypes, WithinOne, RowComesBack, ColumnComesBack
<1>4. CASE wrapX
  <2>1. tty' = X(0) /\ pc = "wrapX" /\ pc' = "loadDown" /\ eax' = eax
    BY <1>2, <1>4 DEF wrapX, Store, Goto
  <2>2. WithinOne(tty') /\ tty'.x = 0 /\ tty'.y = tty.y
    <3>1. 0 \in 0 .. (SCREEN_WIDTH + CHAR_WIDTH)
      BY <1>1
    <3> QED
      BY <1>2, <2>1, <3>1, CursorMoved
  <2> QED
    BY <1>1, <1>2, <2>1, <2>2 DEF WriterInv, WriterTypes, WithinOne, RowComesBack, ColumnComesBack
<1>5. CASE loadDown
  BY <1>1, <1>2, <1>5
  DEF loadDown, Load, Goto, WriterInv, WriterTypes, WithinOne, RowComesBack,
      ColumnComesBack
<1>6. CASE storeDown
  <2>1. tty' = Y(eax + CHAR_HEIGHT) /\ pc = "storeDown" /\ pc' = "testDown" /\ eax' = eax
    BY <1>6 DEF storeDown, Store, Goto
  <2>2. eax + CHAR_HEIGHT \in Lines
    BY <1>2, <2>1, LineFacts DEF RowComesBack
  <2>3. WithinOne(tty') /\ tty'.x = tty.x
    BY <1>2, <2>1, <2>2, CursorMoved
  <2> QED
    BY <1>1, <1>2, <2>1, <2>3 DEF WriterInv, WriterTypes, WithinOne, RowComesBack, ColumnComesBack
<1>7. CASE testDown
  <2>1. pc' = IF AtBottom THEN "scroll" ELSE "loadRow"
    BY <1>7 DEF testDown, Goto
  <2>2. (AtBottom => y = H) /\ (~ AtBottom => y < H)
    BY <1>1 DEF AtBottom
  <2> QED
    BY <1>1, <1>2, <1>7, <2>1, <2>2
    DEF testDown, Goto, WriterInv, WriterTypes, WithinOne, RowComesBack,
        ColumnComesBack
<1>8. CASE scrollUp
  <2>1. PICK q : tty' = [tty EXCEPT !.px = q]
    BY <1>8 DEF scrollUp
  <2>2. WithinOne(tty') /\ tty'.x = tty.x /\ tty'.y = tty.y
    BY <1>2, <2>1 DEF WithinOne
  <2> QED
    BY <1>1, <1>2, <1>8, <2>2
    DEF scrollUp, Goto, WriterInv, WriterTypes, RowComesBack, ColumnComesBack
<1>9. CASE loadUp
  BY <1>1, <1>2, <1>9
  DEF loadUp, Load, Goto, WriterInv, WriterTypes, WithinOne, RowComesBack,
      ColumnComesBack
<1>10. CASE storeUp
  <2>1. tty' = Y(eax - CHAR_HEIGHT) /\ pc = "storeUp" /\ pc' = "scrollX" /\ eax' = eax
    BY <1>10 DEF storeUp, Store, Goto
  <2>2. eax - CHAR_HEIGHT \in Lines /\ eax - CHAR_HEIGHT < SCREEN_HEIGHT
    BY <1>2, <2>1, LineFacts DEF RowComesBack
  <2>3. WithinOne(tty') /\ tty'.x = tty.x /\ tty'.y < SCREEN_HEIGHT
    BY <1>2, <2>1, <2>2, CursorMoved
  <2> QED
    BY <1>1, <1>2, <2>1, <2>3 DEF WriterInv, WriterTypes, WithinOne, RowComesBack, ColumnComesBack
<1>11. CASE scrollX
  <2>1. tty' = X(0) /\ pc = "scrollX" /\ pc' = "loadRow" /\ eax' = eax
    BY <1>2, <1>11 DEF scrollX, Store, Goto
  <2>2. WithinOne(tty') /\ tty'.x = 0 /\ tty'.y = tty.y
    <3>1. 0 \in 0 .. (SCREEN_WIDTH + CHAR_WIDTH)
      BY <1>1
    <3> QED
      BY <1>2, <2>1, <3>1, CursorMoved
  <2> QED
    BY <1>1, <1>2, <2>1, <2>2 DEF WriterInv, WriterTypes, WithinOne, RowComesBack, ColumnComesBack
<1>12. CASE loadRow
  BY <1>1, <1>2, <1>12
  DEF loadRow, Load, Goto, WriterInv, WriterTypes, WithinOne, RowComesBack,
      ColumnComesBack
<1>13. CASE draw
  <2>1. /\ tty' = draw_char_personalized(tty, tty.x, eax, Head(text))
        /\ pc = "draw" /\ pc' = "loadX" /\ eax' = eax
    BY <1>13 DEF draw, Goto
  <2>2. WithinOne(tty') /\ tty'.x = tty.x /\ tty'.y = tty.y
    BY <1>2, <2>1 DEF draw_char_personalized, paint, WithinOne
  <2> QED
    BY <1>1, <1>2, <2>1, <2>2 DEF WriterInv, WriterTypes, RowComesBack, ColumnComesBack
<1>14. CASE loadX
  <2>1. pc = "loadX" /\ x <= W
    BY <1>1, <1>2, <1>14 DEF loadX, Load, Goto, ColumnComesBack
  <2>2. eax' \in 0 .. SCREEN_WIDTH
    BY <1>1, <1>14, <2>1 DEF loadX, Load
  <2> QED
    BY <1>1, <1>2, <1>14, <2>1, <2>2
    DEF loadX, Load, Goto, WriterInv, WriterTypes, WithinOne, RowComesBack,
        ColumnComesBack
<1>15. CASE storeX
  <2>1. tty' = X(eax + CHAR_WIDTH) /\ pc = "storeX" /\ pc' \in {"idle", "test"} /\ eax' = eax
    BY <1>15 DEF storeX, Goto
  <2>2. eax + CHAR_WIDTH \in 0 .. (SCREEN_WIDTH + CHAR_WIDTH)
    <3>1. PICK e \in 0 .. W : e = eax
      BY <1>1, <1>2, <2>1 DEF ColumnComesBack
    <3>2. e + w \in 0 .. (W + w)
      BY <1>1
    <3> QED
      BY <1>1, <3>1, <3>2
  <2>3. WithinOne(tty') /\ tty'.y = tty.y
    BY <1>2, <2>1, <2>2, CursorMoved
  <2> QED
    BY <1>1, <1>2, <2>1, <2>3 DEF WriterInv, WriterTypes, RowComesBack, ColumnComesBack
<1> QED
  BY <1>3, <1>4, <1>5, <1>6, <1>7, <1>8, <1>9, <1>10, <1>11, <1>12, <1>13, <1>14, <1>15
  DEF Write

LEMMA WriterStepInv ==
  ASSUME WriterInv, [WriterNext]_writer
  PROVE  WriterInv'
<1> USE DEF Below
<1>1. ASSUME NEW s \in Strings, int_80(s) PROVE WriterInv'
  BY <1>1, CursorFacts
  DEF int_80, WriterInv, WriterTypes, WithinOne, RowComesBack, ColumnComesBack
<1>2. CASE Write
  BY <1>2, WriteKeepsInv
<1>3. CASE keyboard_handler
  <2>1. PICK u : u = draw_string(tty, Message)
    OBVIOUS
  <2>2. /\ WithinOne(u) /\ (u.y = SCREEN_HEIGHT <=> tty.y = SCREEN_HEIGHT)
        /\ tty.x <= SCREEN_WIDTH => u.x <= SCREEN_WIDTH
    BY <2>1, DrawStringWithinOne, SharedCursorAssumption DEF WriterInv, WriterTypes
  <2>3. tty' = u /\ pc' = pc /\ eax' = eax
    BY <1>3, <2>1 DEF keyboard_handler
  <2>4. PICK H \in Nat : H = SCREEN_HEIGHT
    BY Sizes
  <2>5. PICK y \in 0 .. H, v \in 0 .. H : y = u.y /\ v = tty.y
    BY <2>2, <2>4, LineFacts DEF WriterInv, WriterTypes, WithinOne
  <2>6. tty.y < SCREEN_HEIGHT => u.y < SCREEN_HEIGHT
    BY <2>2, <2>4, <2>5
  <2>7. WriterTypes'
    BY <2>2, <2>3 DEF WriterInv, WriterTypes, WithinOne
  <2>8. RowComesBack'
    BY <2>2, <2>3, <2>6 DEF WriterInv, RowComesBack
  <2>9. ColumnComesBack'
    BY <2>2, <2>3 DEF WriterInv, ColumnComesBack
  <2> QED
    BY <2>7, <2>8, <2>9 DEF WriterInv
<1>4. CASE UNCHANGED writer
  BY <1>4 DEF writer, WriterInv, WriterTypes, WithinOne, RowComesBack, ColumnComesBack
<1> QED
  BY <1>1, <1>2, <1>3, <1>4 DEF WriterNext

(* The invariant: the states between the accesses to the cursor.           *)
THEOREM WriterInvariant == WriterSpec => []WriterInv
<1>1. WriterInit => WriterInv
  BY WriterInitInv
<1>2. WriterInv /\ [WriterNext]_writer => WriterInv'
  BY WriterStepInv
<1> QED
  BY <1>1, <1>2, PTL DEF WriterSpec

(* Whatever messages the keyboard handler draws in the middle of a write,  *)
(* the cursor is back on the screen when sys_write returns.                         *)
THEOREM WritesComeBack == WriterSpec => []CursorComesBack
<1>1. WriterInv => CursorComesBack
  <2> SUFFICES ASSUME WriterInv PROVE CursorComesBack
    OBVIOUS
  <2>1. PICK w \in Nat \ {0}, h \in Nat \ {0}, W \in Nat, H \in Nat, x \in Nat, y \in Nat :
          /\ w = CHAR_WIDTH /\ h = CHAR_HEIGHT /\ W = SCREEN_WIDTH /\ H = SCREEN_HEIGHT
          /\ x = tty.x /\ y = tty.y /\ x <= W + w /\ y <= H /\ w <= W
    BY CursorFacts
  <2>2. tty.left = 0 /\ tty.right = W /\ (pc = "idle" => y < H)
    BY <2>1 DEF WriterInv, WriterTypes, WithinOne, RowComesBack, Below
  <2> QED
    BY <2>1, <2>2 DEF CursorComesBack
<1> QED
  BY <1>1, WriterInvariant, PTL
=============================================================================
