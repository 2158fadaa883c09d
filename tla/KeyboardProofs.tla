--------------------------- MODULE KeyboardProofs ---------------------------
(* The keyboard driver's properties, proved for every size of the buffer,  *)
(* every set of keys and every interleaving of the handler with the memory *)
(* accesses of getLastInput.                                               *)
EXTENDS Keyboard, SequenceTheorems, TLAPS

(* What the count is at each access: while `size--' is halfway, the value  *)
(* loaded is the one that counts.                                          *)
CountInv ==
  /\ size >= 0 /\ lost <= accepted
  /\ pc # "storeSize" => size = accepted - taken - lost
  /\ pc = "storeSize" => eax = accepted - taken - lost /\ 1 <= eax /\ eax <= size
  /\ pc \in {"testEnd", "wrapEnd", "loadEnd", "storeEnd", "loadSize"} => size >= 1

(* Every call takes endPosition down by one at most, and the handler never *)
(* does.  After the test for 0 there is a cell to go down to, unless a key *)
(* has taken endPosition round to 0 since.                                 *)
Decremented == pc \in {"loadSize", "storeSize"}
EndInv ==
  /\ endPosition <= BUFFER_SIZE - 1
  /\ endPosition >= - taken - (IF Decremented THEN 1 ELSE 0)
  /\ pc = "storeEnd" => eax >= - taken /\ eax <= BUFFER_SIZE - 1
  /\ ~ strayed => endPosition >= 0
  /\ ~ strayed /\ pc = "loadEnd" => endPosition >= 1
  /\ ~ strayed /\ pc = "storeEnd" => eax >= 1

(* The cells below e hold the unread characters, newest on top.            *)
Cells(e) ==
  \A i \in 1 .. Len(unread) :
    buffer[(e - 1 - (Len(unread) - i)) % BUFFER_SIZE] = unread[i]

(* The stack, as far as the call in progress has come.                     *)
QuietInv ==
  ~ raced /\ ~ spilled =>
    /\ endPosition >= 0 /\ Len(unread) <= BUFFER_SIZE
    /\ pc \in {"idle", "testSize", "testEnd", "wrapEnd", "loadEnd", "storeEnd"} =>
         size = Len(unread) /\ Cells(endPosition)
    /\ pc = "wrapEnd" => endPosition = 0
    /\ pc \in {"loadEnd", "storeEnd"} => endPosition # 0
    /\ pc = "storeEnd" => eax = endPosition
    /\ Decremented => size = Len(unread) /\ Cells(endPosition + 1)
    /\ pc = "storeSize" => eax = size
    /\ pc \in {"loadIndex", "readBuffer"} =>
         Len(unread) >= 1 /\ size = Len(unread) - 1 /\ Cells(endPosition + 1)
    /\ pc = "readBuffer" => eax = endPosition

Inv == TypeOK /\ CountInv /\ EndInv /\ QuietInv

(* Each flag says what its key does, whatever the others do.               *)
FlagsInv ==
  /\ LCKD["CAPS"] <=> toggled
  /\ \A k \in Special \ {"CAPS"} : LCKD[k] <=> k \in held
-----------------------------------------------------------------------------
(* Remainders.                                                             *)
LEMMA Remainder ==
  ASSUME NEW a \in Int, NEW B \in Nat \ {0}
  PROVE  /\ a % B \in 0 .. (B - 1)
         /\ 0 <= a /\ a < B => a % B = a
         /\ - B <= a /\ a < 0 => a % B = a + B
         /\ a = B => a % B = 0
         /\ 0 <= a => a % B <= a
<1> DEFINE q == a \div B
           r == a % B
<1>1. a = B * q + r /\ q \in Int /\ r \in 0 .. (B - 1)
  OBVIOUS
<1> HIDE DEF q, r
<1>2. \A d \in Int : d >= 1 => B * d >= B
  OBVIOUS
<1>3. \A d \in Int : d <= -1 => B * d <= - B
  OBVIOUS
<1>4. \A d \in Int : d >= 2 => B * d >= 2 * B
  OBVIOUS
<1>5. \A d \in Int : d <= -2 => B * d <= - (2 * B)
  OBVIOUS
<1>6. q = 0 => r = a
  BY <1>1
<1>7. q = -1 => r = a + B
  <2>1. q = -1 => B * q = - B
    OBVIOUS
  <2> QED
    BY <1>1, <2>1
<1>8. q = 1 => r = a - B
  <2>1. q = 1 => B * q = B
    OBVIOUS
  <2> QED
    BY <1>1, <2>1
<1>9. 0 <= a /\ a < B => q = 0
  BY <1>1, <1>2, <1>3
<1>10. - B <= a /\ a < 0 => q = -1
  <2>1. - B <= a /\ a < 0 => q <= -1
    <3>1. q >= 0 => B * q >= 0
      <4>1. q = 0 => B * q = 0
        OBVIOUS
      <4> QED
        BY <1>1, <1>2, <4>1
    <3> QED
      BY <1>1, <3>1
  <2>2. - B <= a /\ a < 0 => ~ q <= -2
    BY <1>1, <1>5
  <2> QED
    BY <1>1, <2>1, <2>2
<1>11. a = B => q = 1
  <2>1. a = B => ~ q >= 2
    BY <1>1, <1>4
  <2>2. a = B => q >= 1
    <3>1. q = 0 => B * q = 0
      OBVIOUS
    <3> QED
      BY <1>1, <1>3, <3>1
  <2> QED
    BY <1>1, <2>1, <2>2
<1>12. 0 <= a => r <= a
  <2>1. q >= 0 => B * q >= 0
    <3>1. q = 0 => B * q = 0
      OBVIOUS
    <3> QED
      BY <1>1, <1>2, <3>1
  <2>2. 0 <= a => q >= 0
    BY <1>1, <1>3
  <2> QED
    BY <1>1, <2>1, <2>2
<1> QED
  BY <1>1, <1>6, <1>7, <1>8, <1>9, <1>10, <1>11, <1>12 DEF r

(* The iterator one cell further: within the buffer it wraps; below it, it *)
(* only rises.                                                             *)
LEMMA Advance ==
  ASSUME NEW i \in Int, i <= BUFFER_SIZE - 1
  PROVE  /\ advance(i) \in Int /\ advance(i) <= BUFFER_SIZE - 1
         /\ i >= 0 => advance(i) = IF i + 1 = BUFFER_SIZE THEN 0 ELSE i + 1
         /\ advance(i) >= i \/ advance(i) >= 0
<1>1. BUFFER_SIZE \in Nat \ {0}
  BY KeyboardAssumption
<1>2. CASE i + 1 < 0
  <2>1. PICK j \in Nat : j = - (i + 1)
    BY <1>2
  <2>2. j % BUFFER_SIZE \in 0 .. (BUFFER_SIZE - 1) /\ j % BUFFER_SIZE <= j
    <3>1. j \in Int /\ 0 <= j
      OBVIOUS
    <3> QED
      BY <1>1, <3>1, Remainder, Zenon
  <2>3. advance(i) = - (j % BUFFER_SIZE)
    BY <1>2, <2>1 DEF advance
  <2> QED
    BY <1>1, <1>2, <2>1, <2>2, <2>3
<1>3. CASE i + 1 >= 0
  <2>1. PICK j \in Nat : j = i + 1
    BY <1>3
  <2>2. advance(i) = j % BUFFER_SIZE
    BY <1>3, <2>1 DEF advance
  <2>3. /\ j % BUFFER_SIZE \in 0 .. (BUFFER_SIZE - 1)
        /\ j < BUFFER_SIZE => j % BUFFER_SIZE = j
        /\ j = BUFFER_SIZE => j % BUFFER_SIZE = 0
    <3>1. j \in Int /\ 0 <= j
      OBVIOUS
    <3> QED
      BY <1>1, <3>1, Remainder, Zenon
  <2> QED
    BY <1>1, <1>3, <2>1, <2>2, <2>3
<1> QED
  BY <1>2, <1>3

(* What a key types is a byte, wherever asciiMap is read.                  *)
LEMMA Translated ==
  ASSUME NEW code \in Codes, NEW f \in [Special -> BOOLEAN]
  PROVE  translate(code, f) \subseteq Bytes
<1>1. NUL \in Bytes /\ \A n \in 1 .. 2, k \in Codes \ Unmapped : asciiMap[k][n] \in Bytes
  BY KeyboardAssumption
<1>2. \A n \in 1 .. 2 : column(code, n) \subseteq Bytes
  BY <1>1 DEF column
<1>3. ASSUME NEW c \in Bytes
      PROVE  toLowerCase(c) \in Bytes /\ toUpperCase(c) \in Bytes
  <2>1. \A k \in Letters : asciiMap[k][1] \in Bytes /\ asciiMap[k][2] \in Bytes
    BY <1>1, KeyboardAssumption
  <2>2. \A n \in 1 .. 2 : (\E k \in Letters : c = asciiMap[k][n])
          => (CHOOSE k \in Letters : c = asciiMap[k][n]) \in Letters
    OBVIOUS
  <2>3. toLowerCase(c) \in Bytes
    BY <2>1, <2>2 DEF toLowerCase
  <2>4. toUpperCase(c) \in Bytes
    BY <2>1, <2>2 DEF toUpperCase
  <2> QED
    BY <2>3, <2>4
<1>4. /\ {toLowerCase(c) : c \in column(code, 2)} \subseteq Bytes
      /\ {toUpperCase(c) : c \in column(code, 1)} \subseteq Bytes
  BY <1>2, <1>3
<1> QED
  BY <1>1, <1>2, <1>4 DEF translate
-----------------------------------------------------------------------------
(* The handler adds a character between two accesses of getLastInput.      *)
LEMMA HandlerCount ==
  ASSUME Inv, NEW c \in Chars, addToBuffer(c), UNCHANGED reader
  PROVE  CountInv' /\ EndInv'
<1>1. TypeOK /\ CountInv /\ EndInv
  BY DEF Inv
<1>2. /\ endPosition' = advance(endPosition) /\ size' = size + 1 /\ accepted' = accepted + 1
      /\ UNCHANGED <<pc, eax, taken>>
      /\ strayed' = (strayed \/ (pc = "loadEnd" /\ endPosition' = 0))
      /\ pc = "storeSize" => lost' = lost + 1
      /\ pc # "storeSize" => lost' = lost
  BY DEF addToBuffer, reader
<1>3. /\ size \in Int /\ eax \in Int /\ endPosition \in Int
      /\ accepted \in Nat /\ lost \in Nat /\ taken \in Nat
  BY <1>1, KeyboardAssumption DEF TypeOK
<1>4. CountInv'
  <2>1. size' >= 0 /\ lost' <= accepted' /\ lost' \in Nat
    BY <1>1, <1>2, <1>3 DEF CountInv
  <2>2. pc # "storeSize" => size' = accepted' - taken' - lost'
    BY <1>1, <1>2, <1>3 DEF CountInv
  <2>3. pc = "storeSize" => eax' = accepted' - taken' - lost' /\ 1 <= eax' /\ eax' <= size'
    BY <1>1, <1>2, <1>3 DEF CountInv
  <2>4. pc \in {"testEnd", "wrapEnd", "loadEnd", "storeEnd", "loadSize"} => size' >= 1
    BY <1>1, <1>2, <1>3 DEF CountInv
  <2> QED
    BY <1>2, <2>1, <2>2, <2>3, <2>4 DEF CountInv
<1>5. EndInv'
  <2>1. endPosition <= BUFFER_SIZE - 1
    BY <1>1 DEF EndInv
  <2>2. /\ endPosition' \in Int /\ endPosition' <= BUFFER_SIZE - 1
        /\ endPosition' >= endPosition \/ endPosition' >= 0
    BY <1>2, <1>3, <2>1, Advance
  <2>6. /\ ~ strayed' => endPosition' >= 0
        /\ ~ strayed' /\ pc' = "loadEnd" => endPosition' >= 1
        /\ ~ strayed' /\ pc' = "storeEnd" => eax' >= 1
    <3>1. ~ strayed' => ~ strayed /\ endPosition >= 0
      BY <1>1, <1>2 DEF EndInv
    <3>2. ~ strayed' => endPosition' >= 0
      BY <1>3, <2>2, <3>1
    <3>3. ~ strayed' /\ pc' = "loadEnd" => endPosition' # 0
      BY <1>2
    <3>4. ~ strayed' /\ pc' = "storeEnd" => eax' >= 1
      BY <1>1, <1>2, <3>1 DEF EndInv
    <3> QED
      BY <2>2, <3>2, <3>3, <3>4
  <2>3. PICK d \in 0 .. 1 : d = (IF Decremented THEN 1 ELSE 0)
    OBVIOUS
  <2>4. endPosition' >= - taken - d
    BY <1>1, <1>3, <2>2, <2>3 DEF EndInv
  <2>5. Decremented' <=> Decremented
    BY <1>2 DEF Decremented
  <2> QED
    BY <1>1, <1>2, <2>2, <2>3, <2>4, <2>5, <2>6 DEF EndInv
<1> QED
  BY <1>4, <1>5

LEMMA HandlerType ==
  ASSUME Inv, NEW c \in Chars, addToBuffer(c), UNCHANGED reader, LCKD' \in [Special -> BOOLEAN],
         held' \subseteq Special \ {"CAPS"}, toggled' \in BOOLEAN
  PROVE  TypeOK'
<1>1. TypeOK /\ CountInv' /\ EndInv'
  BY HandlerCount DEF Inv
<1>2. /\ buffer' = [i \in DOMAIN buffer |-> IF i = endPosition THEN c ELSE buffer[i]]
      /\ endPosition' = advance(endPosition) /\ size' = size + 1
      /\ unread' = Append(unread, c)
      /\ accepted < MaxTyped /\ accepted' = accepted + 1
      /\ lost' = (IF pc = "storeSize" THEN lost + 1 ELSE lost)
      /\ UNCHANGED <<pc, eax, result, taken>>
  BY DEF addToBuffer, reader
<1>3. raced' \in BOOLEAN /\ spilled' \in BOOLEAN /\ strayed' \in BOOLEAN
  BY DEF addToBuffer
<1>a. c \in Bytes
  BY DEF Chars
<1>4. expected' \in {expected, expected \cup {c}}
  BY DEF addToBuffer
<1>5. buffer' \in [0 .. (BUFFER_SIZE - 1) -> Bytes] /\ unread' \in Seq(Chars)
  BY <1>1, <1>2, <1>a DEF TypeOK
<1>6. endPosition' \in Int
  <2>1. endPosition \in Int /\ endPosition <= BUFFER_SIZE - 1
    BY <1>1, KeyboardAssumption DEF TypeOK
  <2> QED
    BY <1>2, <2>1, Advance
<1>7. accepted' \in 0 .. MaxTyped /\ lost' \in Nat /\ lost' <= accepted' /\ size' \in Int
  BY <1>1, <1>2, KeyboardAssumption DEF TypeOK, CountInv
<1>8. lost' \in 0 .. MaxTyped
  BY <1>7, KeyboardAssumption
<1>9. endPosition' \in (IF strayed' THEN - MaxTyped ELSE 0) .. (BUFFER_SIZE - 1)
  <2>1. PICK d \in 0 .. 1 : d = (IF Decremented THEN 1 ELSE 0)'
    OBVIOUS
  <2>2. /\ endPosition' >= - taken - d /\ endPosition' <= BUFFER_SIZE - 1 /\ taken \in Nat
        /\ eax \in Int
    BY <1>1, <1>2, <2>1 DEF EndInv, TypeOK
  <2>3. taken + d <= accepted'
    <3>1. CASE pc = "storeSize"
      BY <1>1, <1>2, <1>7, <2>1, <2>2, <3>1 DEF CountInv, Decremented
    <3>2. CASE pc = "loadSize"
      BY <1>1, <1>2, <1>7, <2>1, <2>2, <3>2 DEF CountInv, Decremented
    <3>3. CASE ~ Decremented
      <4>1. d = 0 /\ size' >= 0 /\ size' = accepted' - taken - lost'
        BY <1>1, <1>2, <2>1, <3>3 DEF CountInv, Decremented
      <4>2. PICK a, b, f, g \in Int : a = accepted' /\ b = taken /\ f = lost' /\ g = size'
        BY <1>7, <2>2
      <4>3. f >= 0
        BY <1>7, <4>2
      <4>4. g >= 0
        BY <4>1, <4>2
      <4>5. g = a - b - f
        BY <4>1, <4>2
      <4>6. b <= a
        BY <4>3, <4>4, <4>5
      <4> QED
        BY <4>1, <4>2, <4>6
    <3> QED
      BY <3>1, <3>2, <3>3 DEF Decremented
  <2> QED
    BY <1>1, <1>6, <1>7, <2>2, <2>3, KeyboardAssumption DEF EndInv
<1> QED
  BY <1>1, <1>2, <1>3, <1>4, <1>5, <1>7, <1>8, <1>9, <1>a DEF TypeOK

(* A key in a quiet moment goes on top of the stack.                       *)
LEMMA HandlerStack ==
  ASSUME Inv, NEW c \in Chars, addToBuffer(c), UNCHANGED reader
  PROVE  QuietInv'
<1> SUFFICES ASSUME ~ raced', ~ spilled'
             PROVE  /\ pc' = "idle" /\ endPosition' >= 0 /\ Len(unread') <= BUFFER_SIZE
                    /\ size' = Len(unread') /\ Cells(endPosition)'
  BY DEF QuietInv, Decremented
<1>1. TypeOK /\ EndInv /\ QuietInv
  BY DEF Inv
<1>2. /\ ~ raced /\ ~ spilled /\ pc = "idle" /\ ~ size >= BUFFER_SIZE
      /\ endPosition' = advance(endPosition) /\ size' = size + 1 /\ pc' = pc
      /\ unread' = Append(unread, c)
      /\ buffer' = [i \in DOMAIN buffer |-> IF i = endPosition THEN c ELSE buffer[i]]
  BY <1>1 DEF addToBuffer, TypeOK, reader
<1>a. PICK e2 : e2 = endPosition'
  OBVIOUS
<1> DEFINE e == endPosition
           n == Len(unread)
           B == BUFFER_SIZE
           row(k) == (e - 1 - (n - k)) % B
           row2(k) == (e2 - 1 - ((n + 1) - k)) % B
<1>3. /\ B \in Nat \ {0} /\ n \in Nat /\ size = n /\ n < B /\ e \in 0 .. (B - 1)
      /\ unread \in Seq(Chars) /\ DOMAIN buffer = 0 .. (B - 1)
      /\ \A k \in 1 .. n : buffer[row(k)] = unread[k]
  <2>1. unread \in Seq(Chars) /\ n \in Nat /\ B \in Nat \ {0} /\ DOMAIN buffer = 0 .. (B - 1)
    BY <1>1, KeyboardAssumption DEF TypeOK
  <2>2. size = n /\ e >= 0 /\ e \in Int /\ e <= B - 1 /\ Cells(e)
    BY <1>1, <1>2, KeyboardAssumption DEF QuietInv, TypeOK
  <2>3. \A k \in 1 .. n : buffer[row(k)] = unread[k]
    BY <2>2 DEF Cells
  <2>4. PICK s \in Nat, b \in Nat, p \in Int : s = n /\ b = B /\ p = e
    BY <2>1, <2>2
  <2>5. s < b /\ p \in 0 .. (b - 1)
    BY <1>2, <2>1, <2>2, <2>4
  <2> QED
    BY <2>1, <2>2, <2>3, <2>4, <2>5
<1>4. /\ Len(unread') = n + 1 /\ unread'[n + 1] = c /\ \A k \in 1 .. n : unread'[k] = unread[k]
  BY <1>2, <1>3
<1>5. e2 = IF e + 1 = B THEN 0 ELSE e + 1
  <2>1. e \in Int /\ e <= B - 1 /\ e >= 0
    BY <1>3
  <2> QED
    BY <1>2, <1>a, <2>1, Advance
<1> HIDE DEF e, n, B, row, row2
<1>6. ASSUME NEW k \in 1 .. (n + 1)
      PROVE  /\ k = n + 1 => row2(k) = e
             /\ k # n + 1 => row2(k) = row(k) /\ row(k) \in 0 .. (B - 1) /\ row(k) # e
  <2>1. PICK a \in Int : a = e - 1 - (n - k)
    BY <1>3
  <2>2. PICK b \in Int : b = e2 - 1 - ((n + 1) - k)
    BY <1>3, <1>5
  <2>3. /\ a % B \in 0 .. (B - 1) /\ b % B \in 0 .. (B - 1)
        /\ 0 <= a /\ a < B => a % B = a
        /\ 0 <= b /\ b < B => b % B = b
        /\ - B <= a /\ a < 0 => a % B = a + B
        /\ - B <= b /\ b < 0 => b % B = b + B
    BY <1>3, Remainder, Zenon
  <2>4. k = n + 1 => b % B = e
    <3>1. k = n + 1 => b = e2 - 1
      BY <1>3, <1>5, <2>2
    <3> QED
      BY <1>3, <1>5, <2>3, <3>1
  <2>5. k # n + 1 => a % B = b % B /\ a % B # e
    <3> SUFFICES ASSUME k # n + 1 PROVE a % B = b % B /\ a % B # e
      OBVIOUS
    <3>1. - B <= a /\ a < e /\ a < B - 1 /\ e - B < a
      BY <1>3, <2>1
    <3>2. a % B = (IF a < 0 THEN a + B ELSE a)
      BY <1>3, <2>3, <3>1
    <3>3. a % B # e
      BY <1>3, <3>1, <3>2
    <3>4. b = a \/ b = a - B
      BY <1>3, <1>5, <2>1, <2>2
    <3>5. b = a - B => a >= 0
      BY <1>3, <1>5, <2>1, <2>2
    <3>6. a % B = b % B
      BY <1>3, <2>3, <3>1, <3>2, <3>4, <3>5
    <3> QED
      BY <3>3, <3>6
  <2>6. row(k) = a % B /\ row2(k) = b % B
    BY <2>1, <2>2 DEF row, row2
  <2> QED
    BY <2>3, <2>4, <2>5, <2>6
<1>7. ASSUME NEW k \in 1 .. (n + 1)
      PROVE  buffer'[row2(k)] = unread'[k]
  <2>1. CASE k = n + 1
    <3>1. row2(k) = e /\ e \in DOMAIN buffer
      BY <1>3, <1>6, <2>1
    <3> QED
      BY <1>2, <1>4, <2>1, <3>1 DEF e
  <2>2. CASE k # n + 1
    <3>1. k \in 1 .. n
      BY <1>3, <2>2
    <3>2. row2(k) = row(k) /\ row(k) \in DOMAIN buffer /\ row(k) # e
      BY <1>3, <1>6, <2>2
    <3>3. buffer'[row(k)] = buffer[row(k)]
      BY <1>2, <3>2 DEF e
    <3> QED
      BY <1>3, <1>4, <3>1, <3>2, <3>3
  <2> QED
    BY <2>1, <2>2
<1>8. Cells(endPosition)'
  <2> SUFFICES ASSUME NEW k \in 1 .. Len(unread')
               PROVE  buffer'[(e2 - 1 - (Len(unread') - k)) % B] = unread'[k]
    BY <1>a DEF Cells, B
  <2>1. Len(unread') = n + 1
    BY <1>4
  <2>2. k \in 1 .. (n + 1)
    BY <2>1
  <2>3. (e2 - 1 - (Len(unread') - k)) % B = row2(k)
    BY <2>1, Zenon DEF row2
  <2> QED
    BY <1>7, <2>2, <2>3
<1> QED
  BY <1>2, <1>3, <1>4, <1>5, <1>8, <1>a DEF e, B, n

LEMMA PressInv ==
  ASSUME Inv, NEW code \in Codes, press(code)
  PROVE  Inv'
<1>1. TypeOK /\ CountInv /\ EndInv /\ QuietInv
  BY DEF Inv
<1>2. /\ LCKD' \in [Special -> BOOLEAN] /\ UNCHANGED reader
      /\ held' \subseteq Special \ {"CAPS"} /\ toggled' \in BOOLEAN
  BY <1>1 DEF press, lock, TypeOK, Special
<1>3. PICK c \in translate(code, LCKD') :
        \/ c # NUL /\ addToBuffer(c)
        \/ c = NUL /\ UNCHANGED <<driver, ghosts>>
  BY DEF press
<1>4. CASE c # NUL /\ addToBuffer(c)
  <2>1. c \in Chars
    BY <1>2, <1>3, <1>4, Translated DEF Chars
  <2> QED
    BY <1>2, <1>4, <2>1, HandlerCount, HandlerType, HandlerStack DEF Inv
<1>5. CASE UNCHANGED <<driver, ghosts>>
  BY <1>1, <1>2, <1>5
     DEF Inv, TypeOK, CountInv, EndInv, QuietInv, Decremented, Cells, driver, reader, ghosts
<1> QED
  BY <1>3, <1>4, <1>5

LEMMA ReleaseInv ==
  ASSUME Inv, NEW code \in Codes, release(code)
  PROVE  Inv'
<1>1. /\ LCKD' \in [Special -> BOOLEAN] /\ UNCHANGED <<driver, reader, ghosts>>
      /\ held' \subseteq Special \ {"CAPS"} /\ toggled' \in BOOLEAN
  BY DEF Inv, TypeOK, release, unlock
<1> QED
  BY <1>1
     DEF Inv, TypeOK, CountInv, EndInv, QuietInv, Decremented, Cells, driver, reader, ghosts

LEMMA CallInv ==
  ASSUME Inv, call
  PROVE  Inv'
<1>1. TypeOK /\ CountInv /\ EndInv /\ QuietInv
  BY DEF Inv
<1>2. /\ pc = "idle" /\ pc' = "testSize"
      /\ UNCHANGED <<buffer, endPosition, size, LCKD, eax, result>>
      /\ UNCHANGED <<unread, accepted, taken, lost, raced, spilled, strayed, held, toggled>>
  BY DEF call, driver, keys
<1>3. expected' \subseteq Bytes
  <2>1. Last(unread) \in Bytes
    <3>1. CASE unread = <<>>
      BY <3>1, KeyboardAssumption DEF Last
    <3>2. CASE unread # <<>>
      <4>1. unread \in Seq(Chars) /\ Len(unread) \in 1 .. Len(unread)
        BY <1>1, <3>2 DEF TypeOK
      <4> QED
        BY <3>2, <4>1 DEF Last, Chars
    <3> QED
      BY <3>1, <3>2
  <2> QED
    BY <2>1 DEF call
<1>4. TypeOK'
  BY <1>1, <1>2, <1>3 DEF TypeOK, Pcs
<1>5. CountInv' /\ EndInv'
  BY <1>1, <1>2 DEF CountInv, EndInv, Decremented
<1>6. QuietInv'
  BY <1>1, <1>2 DEF QuietInv, Decremented, Cells
<1> QED
  BY <1>4, <1>5, <1>6 DEF Inv

(* Two ways to reach the same cells: from the wrap, and from above it.     *)
LEMMA CellsBelow ==
  ASSUME TypeOK, Cells(0), Len(unread) <= BUFFER_SIZE
  PROVE  Cells(BUFFER_SIZE)
<1> DEFINE n == Len(unread)
           B == BUFFER_SIZE
<1>1. B \in Nat \ {0} /\ n \in Nat /\ n <= B
  BY KeyboardAssumption DEF TypeOK
<1> HIDE DEF n, B
<1> SUFFICES ASSUME NEW i \in 1 .. n
             PROVE  buffer[(B - 1 - (n - i)) % B] = unread[i]
  BY DEF Cells, n, B
<1>2. PICK a \in Int : a = 0 - 1 - (n - i)
  BY <1>1
<1>3. PICK b \in Int : b = B - 1 - (n - i)
  BY <1>1
<1>4. /\ - B <= a /\ a < 0 => a % B = a + B
      /\ 0 <= b /\ b < B => b % B = b
  BY <1>1, Remainder, Zenon
<1>5. a % B = b % B
  BY <1>1, <1>2, <1>3, <1>4
<1>6. buffer[a % B] = unread[i]
  BY <1>2 DEF Cells, n, B
<1> QED
  BY <1>3, <1>5, <1>6

LEMMA TestInv ==
  ASSUME Inv, testSize \/ testEnd
  PROVE  Inv'
<1>1. /\ TypeOK /\ CountInv /\ EndInv /\ QuietInv /\ BUFFER_SIZE \in Nat \ {0} /\ size \in Int
      /\ endPosition \in Int /\ eax \in Int /\ taken \in Nat
  BY KeyboardAssumption DEF Inv, TypeOK
<1>2. /\ UNCHANGED <<buffer, endPosition, size, LCKD, eax>>
      /\ UNCHANGED <<unread, accepted, taken, lost, raced, spilled, expected, strayed, held, toggled>>
  BY DEF testSize, testEnd, driver, ghosts, keys
<1>3. \/ pc = "testSize" /\ size <= 0 /\ result' = NUL /\ pc' = "idle"
      \/ pc = "testSize" /\ ~ size <= 0 /\ pc' = "testEnd" /\ result' = result
      \/ pc = "testEnd" /\ endPosition = 0 /\ pc' = "wrapEnd" /\ result' = result
      \/ pc = "testEnd" /\ endPosition # 0 /\ pc' = "loadEnd" /\ result' = result
  BY DEF testSize, testEnd, Empty, AtStart
<1>4. TypeOK'
  BY <1>1, <1>2, <1>3, KeyboardAssumption DEF TypeOK, Pcs
<1>5. CountInv'
  BY <1>1, <1>2, <1>3 DEF CountInv
<1>a. EndInv'
  BY <1>1, <1>2, <1>3 DEF EndInv, Decremented
<1>6. QuietInv'
  BY <1>1, <1>2, <1>3 DEF QuietInv, Decremented, Cells
<1> QED
  BY <1>4, <1>5, <1>6, <1>a DEF Inv

LEMMA EndDownInv ==
  ASSUME Inv, wrapEnd \/ loadEnd \/ storeEnd
  PROVE  Inv'
<1>1. /\ TypeOK /\ CountInv /\ EndInv /\ QuietInv
      /\ BUFFER_SIZE \in Nat \ {0} /\ MaxTyped \in Nat
      /\ size \in Int /\ endPosition \in Int /\ eax \in Int
      /\ accepted \in Nat /\ taken \in Nat /\ lost \in Nat /\ accepted <= MaxTyped
  BY KeyboardAssumption DEF Inv, TypeOK
<1>2. /\ UNCHANGED <<buffer, size, LCKD, result>>
      /\ UNCHANGED <<unread, accepted, taken, lost, raced, spilled, expected, strayed, held, toggled>>
  BY DEF wrapEnd, loadEnd, storeEnd, driver, ghosts, keys
<1>3. \/ pc = "wrapEnd" /\ pc' = "loadSize" /\ endPosition' = BUFFER_SIZE - 1 /\ eax' = eax
      \/ pc = "loadEnd" /\ pc' = "storeEnd" /\ endPosition' = endPosition /\ eax' = endPosition
      \/ pc = "storeEnd" /\ pc' = "loadSize" /\ endPosition' = eax - 1 /\ eax' = eax
  BY DEF wrapEnd, loadEnd, storeEnd, driver
<1>4. CountInv'
  BY <1>1, <1>2, <1>3 DEF CountInv
<1>5. EndInv'
  BY <1>1, <1>2, <1>3 DEF EndInv, Decremented
<1>6. TypeOK'
  <2>1. taken + 1 <= accepted
    <3>1. size >= 1 /\ size = accepted - taken - lost
      BY <1>1, <1>3 DEF CountInv
    <3> QED
      BY <1>1, <3>1
  <2>2. endPosition' \in (IF strayed' THEN - MaxTyped ELSE 0) .. (BUFFER_SIZE - 1) /\ eax' \in Int
    BY <1>1, <1>2, <1>3, <2>1 DEF EndInv, Decremented
  <2>3. pc' \in Pcs
    BY <1>3 DEF Pcs
  <2> QED
    BY <1>1, <1>2, <2>2, <2>3 DEF TypeOK
<1>7. QuietInv'
  <2> SUFFICES ASSUME ~ raced, ~ spilled PROVE QuietInv'
    BY <1>2 DEF QuietInv
  <2>1. /\ endPosition >= 0 /\ Len(unread) <= BUFFER_SIZE
        /\ size = Len(unread) /\ Cells(endPosition)
        /\ pc = "wrapEnd" => endPosition = 0
        /\ pc \in {"loadEnd", "storeEnd"} => endPosition # 0
        /\ pc = "storeEnd" => eax = endPosition
    BY <1>1, <1>3 DEF QuietInv
  <2>2. \A e : Cells(e)' <=> Cells(e)
    BY <1>2 DEF Cells
  <2>3. CASE pc = "wrapEnd"
    <3>1. Cells(BUFFER_SIZE) /\ (BUFFER_SIZE - 1) + 1 = BUFFER_SIZE
      BY <1>1, <2>1, <2>3, CellsBelow
    <3>2. endPosition' >= 0 /\ pc' = "loadSize" /\ endPosition' + 1 = BUFFER_SIZE
      BY <1>1, <1>3, <2>3
    <3>3. Cells(endPosition + 1)'
      BY <1>2, <3>1, <3>2 DEF Cells
    <3> QED
      BY <1>2, <2>1, <3>2, <3>3 DEF QuietInv, Decremented
  <2>4. CASE pc = "loadEnd"
    <3>1. pc' = "storeEnd" /\ endPosition' = endPosition /\ eax' = endPosition
      BY <1>3, <2>4
    <3>2. Cells(endPosition)'
      BY <1>2, <2>1, <3>1 DEF Cells
    <3> QED
      BY <1>2, <2>1, <2>4, <3>1, <3>2 DEF QuietInv, Decremented
  <2>5. CASE pc = "storeEnd"
    <3>1. pc' = "loadSize" /\ endPosition' >= 0 /\ endPosition' + 1 = endPosition
      BY <1>1, <1>3, <2>1, <2>5
    <3>2. Cells(endPosition + 1)'
      BY <1>2, <2>1, <3>1 DEF Cells
    <3> QED
      BY <1>2, <2>1, <3>1, <3>2 DEF QuietInv, Decremented
  <2> QED
    BY <1>3, <2>3, <2>4, <2>5
<1> QED
  BY <1>4, <1>5, <1>6, <1>7 DEF Inv

LEMMA SizeDownInv ==
  ASSUME Inv, loadSize \/ storeSize
  PROVE  Inv'
<1>1. /\ TypeOK /\ CountInv /\ EndInv /\ QuietInv
      /\ size \in Int /\ endPosition \in Int /\ eax \in Int
      /\ accepted \in Nat /\ taken \in Nat /\ lost \in Nat
  BY KeyboardAssumption DEF Inv, TypeOK
<1>2. /\ UNCHANGED <<buffer, endPosition, LCKD, result>>
      /\ UNCHANGED <<unread, accepted, lost, raced, spilled, expected, strayed, held, toggled>>
  BY DEF loadSize, storeSize, driver, ghosts, keys
<1>3. CASE loadSize
  <2>1. pc = "loadSize" /\ pc' = "storeSize" /\ eax' = size /\ UNCHANGED <<size, taken>>
    BY <1>3 DEF loadSize, driver, ghosts, keys
  <2>2. TypeOK'
    BY <1>1, <1>2, <2>1 DEF TypeOK, Pcs
  <2>3. CountInv' /\ EndInv'
    BY <1>1, <1>2, <2>1 DEF CountInv, EndInv, Decremented
  <2>4. QuietInv'
    BY <1>1, <1>2, <2>1 DEF QuietInv, Decremented, Cells
  <2> QED
    BY <2>2, <2>3, <2>4 DEF Inv
<1>4. CASE storeSize
  <2>1. pc = "storeSize" /\ pc' = "loadIndex" /\ size' = eax - 1 /\ taken' = taken + 1 /\ eax' = eax
    BY <1>4 DEF storeSize, less
  <2>2. TypeOK'
    BY <1>1, <1>2, <2>1 DEF TypeOK, Pcs
  <2>3. CountInv'
    BY <1>1, <1>2, <2>1 DEF CountInv
  <2>4. EndInv'
    BY <1>1, <1>2, <2>1 DEF EndInv, Decremented
  <2>5. QuietInv'
    <3> SUFFICES ASSUME ~ raced, ~ spilled PROVE QuietInv'
      BY <1>2 DEF QuietInv
    <3>1. /\ endPosition >= 0 /\ Len(unread) <= BUFFER_SIZE /\ size = Len(unread)
          /\ Cells(endPosition + 1) /\ eax = size /\ 1 <= eax
      BY <1>1, <2>1 DEF QuietInv, Decremented, CountInv
    <3>2. Cells(endPosition + 1)'
      BY <1>2, <3>1 DEF Cells
    <3> QED
      BY <1>2, <2>1, <3>1, <3>2 DEF QuietInv, Decremented
  <2> QED
    BY <2>2, <2>3, <2>4, <2>5 DEF Inv
<1> QED
  BY <1>3, <1>4

LEMMA AnswerInv ==
  ASSUME Inv, loadIndex \/ readBuffer
  PROVE  Inv'
<1>1. /\ TypeOK /\ CountInv /\ EndInv /\ QuietInv
      /\ size \in Int /\ endPosition \in Int /\ eax \in Int /\ unread \in Seq(Chars)
  BY KeyboardAssumption DEF Inv, TypeOK
<1>2. /\ UNCHANGED <<buffer, endPosition, size, LCKD>>
      /\ UNCHANGED <<accepted, taken, lost, raced, spilled, expected, strayed, held, toggled>>
  BY DEF loadIndex, readBuffer, driver, ghosts, keys
<1>3. CASE loadIndex
  <2>1. pc = "loadIndex" /\ pc' = "readBuffer" /\ eax' = endPosition /\ UNCHANGED <<result, unread>>
    BY <1>3 DEF loadIndex, ghosts
  <2>2. TypeOK'
    BY <1>1, <1>2, <2>1 DEF TypeOK, Pcs
  <2>3. CountInv' /\ EndInv'
    BY <1>1, <1>2, <2>1 DEF CountInv, EndInv, Decremented
  <2>4. QuietInv'
    BY <1>1, <1>2, <2>1 DEF QuietInv, Decremented, Cells
  <2> QED
    BY <2>2, <2>3, <2>4 DEF Inv
<1>4. CASE readBuffer
  <2>1. /\ pc = "readBuffer" /\ pc' = "idle" /\ eax' = eax
        /\ unread' = IF unread = <<>> THEN unread ELSE SubSeq(unread, 1, Len(unread) - 1)
    BY <1>4 DEF readBuffer
  <2>2. result' \in Bytes
    <3>1. CASE eax \in DOMAIN buffer
      BY <1>1, <1>4, <3>1 DEF readBuffer, TypeOK
    <3>2. CASE eax \notin DOMAIN buffer
      BY <1>4, <3>2 DEF readBuffer
    <3> QED
      BY <3>1, <3>2
  <2>3. unread # <<>> => /\ unread' \in Seq(Chars) /\ Len(unread') = Len(unread) - 1
                         /\ \A k \in 1 .. Len(unread') : unread'[k] = unread[k]
    <3> SUFFICES ASSUME unread # <<>>
                 PROVE  /\ unread' \in Seq(Chars) /\ Len(unread') = Len(unread) - 1
                        /\ \A k \in 1 .. Len(unread') : unread'[k] = unread[k]
      OBVIOUS
    <3>1. unread' = SubSeq(unread, 1, Len(unread) - 1) /\ Len(unread) \in Nat \ {0}
      BY <1>1, <2>1
    <3>2. PICK m \in Int : m = Len(unread) - 1
      BY <3>1
    <3>3. \A i \in 1 .. m : unread[i] \in Chars
      BY <1>1, <3>2
    <3>4. /\ SubSeq(unread, 1, m) \in Seq(Chars)
          /\ Len(SubSeq(unread, 1, m)) = IF 1 <= m THEN m - 1 + 1 ELSE 0
          /\ \A i \in 1 .. (m - 1 + 1) : SubSeq(unread, 1, m)[i] = unread[1 + i - 1]
      BY <3>3, SubSeqProperties
    <3> QED
      BY <3>1, <3>2, <3>4
  <2>4. unread' \in Seq(Chars)
    BY <1>1, <2>1, <2>3
  <2>5. TypeOK'
    BY <1>1, <1>2, <2>1, <2>2, <2>4 DEF TypeOK, Pcs
  <2>6. CountInv' /\ EndInv'
    BY <1>1, <1>2, <2>1 DEF CountInv, EndInv, Decremented
  <2>7. QuietInv'
    <3> SUFFICES ASSUME ~ raced, ~ spilled PROVE QuietInv'
      BY <1>2 DEF QuietInv
    <3>1. /\ endPosition >= 0 /\ Len(unread) <= BUFFER_SIZE
          /\ Len(unread) >= 1 /\ size = Len(unread) - 1 /\ Cells(endPosition + 1)
      BY <1>1, <2>1 DEF QuietInv
    <3>2. unread # <<>>
      BY <3>1
    <3>3. Cells(endPosition)'
      <4> SUFFICES ASSUME NEW k \in 1 .. Len(unread')
                   PROVE  buffer[(endPosition - 1 - (Len(unread') - k)) % BUFFER_SIZE] = unread'[k]
        BY <1>2 DEF Cells
      <4>1. k \in 1 .. Len(unread) /\ Len(unread) \in Nat
        BY <1>1, <2>3, <3>2
      <4>2. endPosition - 1 - (Len(unread') - k) = (endPosition + 1) - 1 - (Len(unread) - k)
        BY <1>1, <2>3, <3>2, <4>1
      <4>3. buffer[((endPosition + 1) - 1 - (Len(unread) - k)) % BUFFER_SIZE] = unread[k]
        BY <3>1, <4>1 DEF Cells
      <4>4. unread'[k] = unread[k]
        BY <2>3, <3>2
      <4> QED
        BY <4>2, <4>3, <4>4, Zenon
    <3>4. size' = Len(unread') /\ Len(unread') <= BUFFER_SIZE
      <4>1. Len(unread') = Len(unread) - 1
        BY <2>3, <3>2
      <4> QED
        BY <1>1, <1>2, <3>1, <4>1, KeyboardAssumption
    <3> QED
      BY <1>2, <2>1, <3>1, <3>3, <3>4 DEF QuietInv, Decremented
  <2> QED
    BY <2>5, <2>6, <2>7 DEF Inv
<1> QED
  BY <1>3, <1>4
-----------------------------------------------------------------------------
LEMMA InitInv == Init => Inv
<1> SUFFICES ASSUME Init PROVE Inv
  OBVIOUS
<1>1. /\ buffer = [i \in 0 .. (BUFFER_SIZE - 1) |-> NUL] /\ endPosition = 0 /\ size = 0
      /\ LCKD = [k \in Special |-> FALSE] /\ pc = "idle" /\ eax = 0 /\ result = NUL
      /\ unread = <<>> /\ accepted = 0 /\ taken = 0 /\ lost = 0
      /\ raced = FALSE /\ spilled = FALSE /\ expected = {} /\ strayed = FALSE
      /\ held = {} /\ toggled = FALSE
  BY DEF Init
<1>2. TypeOK
  <2>1. unread \in Seq(Chars) /\ buffer \in [0 .. (BUFFER_SIZE - 1) -> Bytes]
    BY <1>1, KeyboardAssumption
  <2>2. /\ endPosition \in (IF strayed THEN - MaxTyped ELSE 0) .. (BUFFER_SIZE - 1)
        /\ accepted \in 0 .. MaxTyped
    BY <1>1, KeyboardAssumption
  <2>3. LCKD \in [Special -> BOOLEAN] /\ expected \subseteq Bytes /\ pc \in Pcs
    BY <1>1 DEF Pcs
  <2>4. lost \in 0 .. MaxTyped /\ taken \in Nat /\ size \in Int /\ eax \in Int
    BY <1>1, KeyboardAssumption
  <2> QED
    BY <1>1, <2>1, <2>2, <2>3, <2>4, KeyboardAssumption DEF TypeOK
<1>3. CountInv /\ EndInv
  BY <1>1, KeyboardAssumption DEF CountInv, EndInv, Decremented
<1>4. QuietInv
  <2>1. Len(unread) = 0 /\ Cells(endPosition)
    BY <1>1 DEF Cells
  <2> QED
    BY <1>1, <2>1, KeyboardAssumption DEF QuietInv, Decremented
<1> QED
  BY <1>2, <1>3, <1>4 DEF Inv

LEMMA NextInv == Inv /\ [Next]_vars => Inv'
<1> SUFFICES ASSUME Inv, [Next]_vars PROVE Inv'
  OBVIOUS
<1>1. CASE UNCHANGED vars
  BY <1>1 DEF vars, Inv, TypeOK, CountInv, EndInv, QuietInv, Decremented, Cells, driver, reader, ghosts,
               keys
<1> QED
  BY <1>1, PressInv, ReleaseInv, CallInv, TestInv, EndDownInv, SizeDownInv, AnswerInv
     DEF Next, Read

THEOREM Invariant == Spec => []Inv
BY InitInv, NextInv, PTL DEF Spec

(* The iterator is inside the buffer, whatever the keys type and however   *)
(* they fall between the accesses, unless a key took it round to 0 between *)
(* the test for 0 and the decrement.                                       *)
THEOREM TypeCorrect == Spec => []TypeOK
<1>1. Inv => TypeOK
  BY DEF Inv
<1> QED
  BY <1>1, Invariant, PTL

(* The count forgets the keys that fall inside `size--', and no others.    *)
THEOREM CountIsKept == Spec => []CountKept
<1>1. Inv => CountKept
  BY DEF Inv, CountInv, CountKept
<1> QED
  BY <1>1, Invariant, PTL

(* Undisturbed, the buffer is a stack, across every wrap-around.           *)
THEOREM QuietIsStack == Spec => []QuietStack
<1>1. Inv => QuietStack
  BY DEF Inv, QuietInv, Cells, QuietStack
<1> QED
  BY <1>1, Invariant, PTL

(* Each flag says what its key does, whatever the others do.               *)
LEMMA FlagsNext == Inv /\ FlagsInv /\ [Next]_vars => FlagsInv'
<1> SUFFICES ASSUME Inv, FlagsInv, [Next]_vars PROVE FlagsInv'
  OBVIOUS
<1>1. LCKD \in [Special -> BOOLEAN] /\ toggled \in BOOLEAN
  BY DEF Inv, TypeOK
<1>2. ASSUME NEW code \in Codes, press(code) PROVE FlagsInv'
  <2>1. /\ LCKD' = lock(code) /\ (toggled' <=> ~ (toggled <=> code = "CAPS"))
        /\ held' = held \cup ({code} \cap {"CTRL", "LSHIFT", "RSHIFT"})
    BY <1>1, <1>2 DEF press
  <2>2. LCKD'["CAPS"] <=> toggled'
    <3>1. CASE code = "CAPS"
      BY <1>1, <2>1, <3>1 DEF lock, FlagsInv, Special
    <3>2. CASE code # "CAPS"
      BY <1>1, <2>1, <3>2 DEF lock, FlagsInv, Special
    <3> QED
      BY <3>1, <3>2
  <2>3. ASSUME NEW k \in Special \ {"CAPS"} PROVE LCKD'[k] <=> k \in held'
    <3>1. CASE k = code
      BY <2>1, <3>1 DEF lock, Special
    <3>2. CASE k # code
      BY <2>1, <3>2 DEF lock, FlagsInv
    <3> QED
      BY <3>1, <3>2
  <2> QED
    BY <2>2, <2>3 DEF FlagsInv
<1>3. ASSUME NEW code \in Codes, release(code) PROVE FlagsInv'
  <2>1. /\ LCKD' = [LCKD EXCEPT ![code] = FALSE] /\ code \in Special \ {"CAPS"}
        /\ toggled' = toggled /\ held' = held \ {code}
    BY <1>3 DEF release, unlock
  <2>2. LCKD'["CAPS"] <=> toggled'
    BY <1>1, <2>1 DEF FlagsInv, Special
  <2>3. ASSUME NEW k \in Special \ {"CAPS"} PROVE LCKD'[k] <=> k \in held'
    BY <1>1, <2>1 DEF FlagsInv
  <2> QED
    BY <2>2, <2>3 DEF FlagsInv
<1>4. ASSUME UNCHANGED <<LCKD, held, toggled>> PROVE FlagsInv'
  BY <1>4 DEF FlagsInv
<1>5. call \/ Read \/ UNCHANGED vars => UNCHANGED <<LCKD, held, toggled>>
  BY DEF call, Read, testSize, testEnd, wrapEnd, loadEnd, storeEnd, loadSize, storeSize,
         loadIndex, readBuffer, vars, keys
<1> QED
  BY <1>2, <1>3, <1>4, <1>5 DEF Next

THEOREM FlagsFollowKeys == Spec => []FlagsInv
<1>1. Init => FlagsInv
  BY DEF Init, FlagsInv, Special
<1> QED
  BY <1>1, FlagsNext, Invariant, PTL DEF Spec

(* The modifier keys that are down decide what a key types.                *)
THEOREM CaseFollowsKeys == Spec => CaseOfKeys
<1> DEFINE shifted == \E shift \in held' : shift \in {"LSHIFT", "RSHIFT"}
           upper(k) == IF k \in Letters THEN shifted # toggled' ELSE shifted
           typed(k) == asciiMap[k][IF upper(k) THEN 2 ELSE 1]
           control == "CTRL" \in held' /\ ~ shifted /\ ~ toggled'
<1>1. ASSUME Inv', FlagsInv', NEW k \in Codes \ Unmapped, press(k)
      PROVE  unread' = IF typed(k) = NUL \/ control THEN unread ELSE Append(unread, typed(k))
  <2>1. PICK f : f = LCKD'
    OBVIOUS
  <2>2. /\ f["LSHIFT"] \/ f["RSHIFT"] <=> shifted
        /\ f["CAPS"] <=> toggled'
        /\ f["CTRL"] <=> "CTRL" \in held'
    BY <1>1, <2>1 DEF FlagsInv, Special
  <2>3. PICK c \in translate(k, f) : unread' = IF c = NUL THEN unread ELSE Append(unread, c)
    BY <1>1, <2>1 DEF press, addToBuffer, ghosts
  <2>4. \A n \in 1 .. 2 : column(k, n) = {asciiMap[k][n]}
    BY <1>1 DEF column
  <2>5. k \in Letters => /\ toLowerCase(asciiMap[k][2]) = asciiMap[k][1]
                         /\ toUpperCase(asciiMap[k][1]) = asciiMap[k][2]
    BY KeyboardAssumption DEF toLowerCase, toUpperCase
  <2>6. k \notin Letters => /\ toLowerCase(asciiMap[k][2]) = asciiMap[k][2]
                            /\ toUpperCase(asciiMap[k][1]) = asciiMap[k][1]
    BY <1>1, KeyboardAssumption DEF toLowerCase, toUpperCase
  <2>7. PICK sh \in BOOLEAN, cp \in BOOLEAN, ct \in BOOLEAN :
          /\ sh <=> f["LSHIFT"] \/ f["RSHIFT"]
          /\ cp <=> f["CAPS"]
          /\ ct <=> f["CTRL"]
    BY <1>1, <2>1 DEF Inv, TypeOK, Special
  <2>8. (sh <=> shifted) /\ (cp <=> toggled') /\ (control <=> ct /\ ~ sh /\ ~ cp)
    BY <2>2, <2>7
  <2>9. typed(k) = asciiMap[k][IF (IF k \in Letters THEN sh # cp ELSE sh) THEN 2 ELSE 1]
    <3>1. toggled' \in BOOLEAN
      BY <1>1 DEF Inv, TypeOK
    <3>2. upper(k) <=> (IF k \in Letters THEN sh # cp ELSE sh)
      BY <2>8, <3>1
    <3> QED
      BY <3>2
  <2> HIDE DEF shifted, control, typed
  <2>10. CASE control
    <3>1. translate(k, f) = {NUL}
      BY <2>7, <2>8, <2>10 DEF translate
    <3> QED
      BY <2>3, <2>10, <3>1
  <2>11. CASE ~ control
    <3>1. c = typed(k)
      <4>1. CASE sh /\ cp
        <5>1. translate(k, f) = {toLowerCase(asciiMap[k][2])}
          BY <2>4, <2>7, <4>1 DEF translate
        <5> QED
          BY <2>3, <2>5, <2>6, <2>9, <4>1, <5>1
      <4>2. CASE sh /\ ~ cp
        <5>1. translate(k, f) = {asciiMap[k][2]}
          BY <2>4, <2>7, <4>2 DEF translate
        <5> QED
          BY <2>3, <2>9, <4>2, <5>1
      <4>3. CASE ~ sh /\ cp
        <5>1. translate(k, f) = {toUpperCase(asciiMap[k][1])}
          BY <2>4, <2>7, <4>3 DEF translate
        <5> QED
          BY <2>3, <2>5, <2>6, <2>9, <4>3, <5>1
      <4>4. CASE ~ sh /\ ~ cp
        <5>1. translate(k, f) = {asciiMap[k][1]}
          BY <2>4, <2>7, <2>8, <2>11, <4>4 DEF translate
        <5> QED
          BY <2>3, <2>9, <4>4, <5>1
      <4> QED
        BY <4>1, <4>2, <4>3, <4>4
    <3> QED
      BY <2>3, <2>11, <3>1
  <2> QED
    BY <2>10, <2>11
<1>2. Inv' /\ FlagsInv' => \A k \in Codes \ Unmapped : press(k) => Types(k)
  BY <1>1 DEF Types
<1> QED
  BY <1>2, Invariant, FlagsFollowKeys, PTL DEF CaseOfKeys
=============================================================================
