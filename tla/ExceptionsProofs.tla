-------------------------- MODULE ExceptionsProofs --------------------------
(* The interrupt routines' properties, proved for every set of keys, every *)
(* number of saved registers and every interleaving of keyboard, timer,    *)
(* program and exceptions.                                                 *)
EXTENDS Exceptions, FiniteSetTheorems, FunctionTheorems, TLAPS

(* The presses of letters among the codes of a sequence.                   *)
IsPress(code) == code \in {make(k) : k \in Letters}
Presses(s) == {n \in 1 .. Len(s) : IsPress(s[n])}

(* Those the driver has still to see.                                      *)
Coming == Cardinality(Presses(fifo)) + (IF full /\ IsPress(port) THEN 1 ELSE 0)

(* The last code a key has sent.                                           *)
Latest(k) == IF k \in held THEN make(k) ELSE break(k)

Silent(k) == \A n \in 1 .. Len(fifo) : fifo[n][1] # k

Ghosts ==
  /\ v \in Seq(Nat) /\ Len(v) <= REGS /\ pressed \in BOOLEAN
  /\ sent \in 0 .. MaxCodes /\ pit \in Nat /\ presses \in Nat
  /\ fifo \in Seq(Codes)

(* Every code is handled, eaten or on its way, and counted once.           *)
CodesCounted == size + regs + eaten + Len(fifo) + (IF full THEN 1 ELSE 0) <= sent

TicksCounted ==
  /\ ticks + (IF 0 \in irr THEN 1 ELSE 0) <= pit
  /\ seconds = ticks \div TICKS

PressesCounted ==
  size + Coming <= presses - eaten /\ presses - eaten <= size + regs + Coming

(* What is newest of a modifier agrees with its key, wherever it is: in    *)
(* the keyboard, in the port, or in the flag.                              *)
FlagsComing ==
  \A k \in Modifiers :
    /\ \A n \in 1 .. Len(fifo) :
         fifo[n][1] = k /\ (\A m \in (n + 1) .. Len(fifo) : fifo[m][1] # k) => fifo[n] = Latest(k)
    /\ Silent(k) /\ full /\ port[1] = k => port = Latest(k)
    /\ Silent(k) /\ ~ (full /\ port[1] = k) /\ k \notin missed => LCKD[k] = (k \in held)

CopyFresh == ~ pressed => \A n \in 1 .. Len(v) : v[n] = regs

Inv ==
  TypeOK /\ Ghosts /\ CodesCounted /\ TicksCounted /\ PressesCounted /\ FlagsComing /\ CopyFresh
-----------------------------------------------------------------------------
(* What a code is made of.                                                 *)
LEMMA MakeBreak ==
  ASSUME NEW k
  PROVE  /\ make(k)[1] = k /\ make(k)[2] = TRUE
         /\ break(k)[1] = k /\ break(k)[2] = FALSE
         /\ make(k) # break(k)
         /\ k \in Keys => make(k) \in Codes /\ break(k) \in Codes
BY DEF make, break, Codes

LEMMA CodeFacts ==
  ASSUME NEW c \in Codes
  PROVE  /\ c[1] \in Keys /\ c[2] \in BOOLEAN
         /\ c = IF c[2] THEN make(c[1]) ELSE break(c[1])
         /\ IsPress(c) <=> c[1] \in Letters /\ c[2]
<1>1. CASE \E k \in Keys : c = make(k)
  <2>1. PICK k \in Keys : c = make(k)
    BY <1>1
  <2> QED
    BY <2>1 DEF make, IsPress
<1>2. CASE \E k \in Keys : c = break(k)
  <2>1. PICK k \in Keys : c = break(k)
    BY <1>2
  <2> QED
    BY <2>1 DEF make, break, IsPress
<1> QED
  BY <1>1, <1>2 DEF Codes

LEMMA NoCodeFacts ==
  /\ NoCode[1] \notin Keys /\ NoCode[2] = FALSE /\ ~ IsPress(NoCode)
BY ExceptionsAssumption DEF NoCode, IsPress, make

(* Whether a letter's press is among the codes to come.                    *)
LEMMA PressesFinite ==
  ASSUME NEW s \in Seq(Codes)
  PROVE  IsFiniteSet(Presses(s)) /\ Cardinality(Presses(s)) \in Nat
<1>1. Len(s) \in Nat /\ IsFiniteSet(1 .. Len(s))
  BY FS_Interval
<1>2. Presses(s) \in SUBSET (1 .. Len(s))
  BY DEF Presses
<1> QED
  BY <1>1, <1>2, FS_Subset, FS_CardinalityType

(* A code that is sent is counted at the end of the sequence.              *)
LEMMA PressesAppend ==
  ASSUME NEW s \in Seq(Codes), NEW c \in Codes
  PROVE  Cardinality(Presses(Append(s, c)))
           = Cardinality(Presses(s)) + (IF IsPress(c) THEN 1 ELSE 0)
<1>1. Presses(Append(s, c)) = IF IsPress(c) THEN Presses(s) \cup {Len(s) + 1} ELSE Presses(s)
  <2>1. \A n \in 1 .. Len(s) : Append(s, c)[n] = s[n]
    OBVIOUS
  <2>2. Len(Append(s, c)) = Len(s) + 1 /\ Append(s, c)[Len(s) + 1] = c /\ Len(s) \in Nat
    OBVIOUS
  <2> HIDE DEF IsPress
  <2> QED
    BY <2>1, <2>2 DEF Presses
<1>2. Len(s) + 1 \notin Presses(s) /\ IsFiniteSet(Presses(s)) /\ Cardinality(Presses(s)) \in Nat
  BY PressesFinite DEF Presses
<1>3. PICK x : x = Len(s) + 1
  OBVIOUS
<1>4. Cardinality(Presses(s) \cup {x}) = Cardinality(Presses(s)) + 1
  BY <1>2, <1>3, FS_AddElement
<1> QED
  BY <1>1, <1>2, <1>3, <1>4

(* And one that leaves it, at the beginning.                               *)
LEMMA PressesTail ==
  ASSUME NEW s \in Seq(Codes), s # <<>>
  PROVE  Cardinality(Presses(s))
           = Cardinality(Presses(Tail(s))) + (IF IsPress(Head(s)) THEN 1 ELSE 0)
<1> DEFINE T == Presses(Tail(s))
           S == Presses(s) \ {1}
           f == [n \in T |-> n + 1]
<1>1. /\ Tail(s) \in Seq(Codes) /\ Len(s) \in Nat /\ Len(s) > 0 /\ Len(Tail(s)) = Len(s) - 1
      /\ Head(s) = s[1] /\ \A n \in 1 .. Len(Tail(s)) : Tail(s)[n] = s[n + 1]
  OBVIOUS
<1>2. \A n \in T : n \in Nat /\ n + 1 \in S
  BY <1>1 DEF Presses
<1>3. \A m \in S : m - 1 \in T /\ (m - 1) + 1 = m
  BY <1>1 DEF Presses
<1>4. f \in Bijection(T, S)
  <2>1. f \in [T -> S] /\ \A a, b \in T : f[a] = f[b] => a = b
    BY <1>2
  <2>2. \A m \in S : \E n \in T : f[n] = m
    <3> TAKE m \in S
    <3>1. m - 1 \in T /\ f[m - 1] = m
      BY <1>3
    <3> QED
      BY <3>1
  <2> QED
    BY <2>1, <2>2 DEF Bijection, Injection, Surjection, IsInjective
<1>5. IsFiniteSet(T) /\ ExistsBijection(T, S)
  BY <1>1, <1>4, PressesFinite DEF ExistsBijection
<1>6. Cardinality(S) = Cardinality(T)
  BY <1>5, FS_Bijection
<1>7. /\ IsFiniteSet(Presses(s)) /\ Cardinality(Presses(s)) \in Nat
      /\ 1 \in Presses(s) <=> IsPress(Head(s))
  BY <1>1, PressesFinite DEF Presses
<1>8. Cardinality(S) = IF 1 \in Presses(s) THEN Cardinality(Presses(s)) - 1
                       ELSE Cardinality(Presses(s))
  BY <1>7, FS_RemoveElement
<1>9. Cardinality(T) \in Nat
  BY <1>1, PressesFinite
<1> HIDE DEF S
<1> QED
  BY <1>6, <1>7, <1>8, <1>9

(* Division by the ticks of a second, one tick further.                    *)
LEMMA DivisionStep ==
  ASSUME NEW t \in Nat, NEW T \in Nat \ {0}
  PROVE  /\ t \div T \in Nat
         /\ (t + 1) \div T = IF (t + 1) % T = 0 THEN (t \div T) + 1 ELSE t \div T
<1> DEFINE q == t \div T
           p == (t + 1) \div T
           r == t % T
           e == (t + 1) % T
<1>1. /\ t = T * q + r /\ q \in Nat /\ r \in 0 .. (T - 1)
      /\ t + 1 = T * p + e /\ p \in Nat /\ e \in 0 .. (T - 1)
  OBVIOUS
<1> HIDE DEF q, p, r, e
<1>2. T * (p - q) = r + 1 - e
  BY <1>1
<1>3. \A d \in Int : d >= 1 => T * d >= T
  OBVIOUS
<1>4. \A d \in Int : d <= -1 => T * d <= - T
  OBVIOUS
<1>5. \A d \in Int : d >= 2 => T * d >= 2 * T
  OBVIOUS
<1>6. p - q \in Int /\ p - q > -1 /\ p - q < 2
  BY <1>1, <1>2, <1>4, <1>5
<1>7. p = q \/ p = q + 1
  BY <1>1, <1>6
<1>8. p = q => e # 0
  BY <1>1, <1>2
<1>9. p = q + 1 => e = 0
  <2>1. p = q + 1 => T = r + 1 - e
    BY <1>1, <1>2
  <2> QED
    BY <1>1, <2>1
<1> QED
  BY <1>1, <1>7, <1>8, <1>9 DEF q, p, e
-----------------------------------------------------------------------------
(* A key that is pressed or released.                                      *)
LEMMA SendInv ==
  ASSUME Inv, NEW k \in Keys, NEW code \in {make(k), break(k)}, send(code),
         held' = IF code = make(k) THEN held \cup {k} ELSE held \ {k}
  PROVE  Inv'
<1>1. /\ TypeOK /\ Ghosts /\ CodesCounted /\ TicksCounted /\ PressesCounted
      /\ FlagsComing /\ CopyFresh
  BY DEF Inv
<1>2. /\ sent < MaxCodes /\ fifo' = Append(fifo, code) /\ sent' = sent + 1
      /\ presses' = IF IsPress(code) THEN presses + 1 ELSE presses
      /\ UNCHANGED <<port, full, irr, mode, LCKD, size, regs, ticks, seconds, pit, eaten, missed>>
      /\ UNCHANGED <<v, pressed>>
  <2>1. code \in Codes
    BY MakeBreak
  <2>2. IsPress(code) <=> code[2] /\ code[1] \in Letters
    BY <2>1, CodeFacts
  <2>3. presses' = IF IsPress(code) THEN presses + 1 ELSE presses
    BY <2>2 DEF send
  <2> QED
    BY <2>3 DEF send, controller, driver, timer, inforeg
<1>3. /\ code \in Codes /\ fifo \in Seq(Codes) /\ Len(fifo) \in Nat
      /\ fifo' \in Seq(Codes) /\ Len(fifo') = Len(fifo) + 1
      /\ fifo'[Len(fifo) + 1] = code /\ \A n \in 1 .. Len(fifo) : fifo'[n] = fifo[n]
  <2>1. code \in Codes /\ fifo \in Seq(Codes) /\ fifo' = Append(fifo, code)
    BY <1>1, <1>2, MakeBreak DEF TypeOK
  <2> QED
    BY <2>1
<1>4. TypeOK' /\ Ghosts'
  BY <1>1, <1>2, <1>3, ExceptionsAssumption DEF TypeOK, Ghosts
<1>5. CodesCounted' /\ TicksCounted' /\ CopyFresh'
  BY <1>1, <1>2, <1>3 DEF TypeOK, Ghosts, CodesCounted, TicksCounted, CopyFresh
<1>6. PressesCounted'
  <2>1. Coming' = Coming + (IF IsPress(code) THEN 1 ELSE 0) /\ Coming \in Nat
    <3>1. Cardinality(Presses(fifo))' = Cardinality(Presses(fifo)) + (IF IsPress(code) THEN 1 ELSE 0)
      BY <1>2, <1>3, PressesAppend DEF Presses
    <3>2. Cardinality(Presses(fifo)) \in Nat
      BY <1>3, PressesFinite
    <3> QED
      BY <1>2, <3>1, <3>2 DEF Coming
  <2> QED
    BY <1>1, <1>2, <2>1 DEF PressesCounted, TypeOK, Ghosts
<1>7. FlagsComing'
  <2> SUFFICES ASSUME NEW j \in Modifiers
               PROVE  /\ \A n \in 1 .. Len(fifo') :
                           fifo'[n][1] = j /\ (\A m \in (n + 1) .. Len(fifo') : fifo'[m][1] # j)
                             => fifo'[n] = Latest(j)'
                      /\ Silent(j)' /\ full' /\ port'[1] = j => port' = Latest(j)'
                      /\ Silent(j)' /\ ~ (full' /\ port'[1] = j) /\ j \notin missed'
                           => LCKD'[j] = (j \in held')
    BY DEF FlagsComing
  <2>1. CASE j = k
    <3>1. code[1] = j /\ code = Latest(j)'
      BY <2>1, MakeBreak DEF Latest
    <3>2. ~ Silent(j)'
      BY <1>3, <3>1 DEF Silent
    <3>3. ASSUME NEW n \in 1 .. Len(fifo'), \A m \in (n + 1) .. Len(fifo') : fifo'[m][1] # j
          PROVE  n = Len(fifo) + 1
      BY <1>3, <3>1, <3>3
    <3> QED
      BY <1>3, <3>1, <3>2, <3>3
  <2>2. CASE j # k
    <3>1. code[1] # j /\ Latest(j)' = Latest(j) /\ (j \in held' <=> j \in held)
      <4>1. code[1] = k
        BY MakeBreak
      <4>2. j \in held' <=> j \in held
        BY <2>2
      <4> QED
        BY <2>2, <4>1, <4>2 DEF Latest
    <3>2. Silent(j)' <=> Silent(j)
      BY <1>3, <3>1 DEF Silent
    <3>3. ASSUME NEW n \in 1 .. Len(fifo'), fifo'[n][1] = j,
                 \A m \in (n + 1) .. Len(fifo') : fifo'[m][1] # j
          PROVE  fifo'[n] = Latest(j)'
      <4>1. n \in 1 .. Len(fifo) /\ fifo[n][1] = j
        BY <1>3, <3>1, <3>3
      <4>2. \A m \in (n + 1) .. Len(fifo) : fifo[m][1] # j
        BY <1>3, <3>3, <4>1
      <4> QED
        BY <1>1, <1>3, <3>1, <4>1, <4>2 DEF FlagsComing
    <3> QED
      BY <1>1, <1>2, <3>1, <3>2, <3>3 DEF FlagsComing
  <2> QED
    BY <2>1, <2>2
<1> QED
  BY <1>4, <1>5, <1>6, <1>7 DEF Inv

(* The oldest code goes to the port.                                       *)
LEMMA LoadInv ==
  ASSUME Inv, load
  PROVE  Inv'
<1>1. /\ TypeOK /\ Ghosts /\ CodesCounted /\ TicksCounted /\ PressesCounted
      /\ FlagsComing /\ CopyFresh
  BY DEF Inv
<1>2. /\ full = FALSE /\ fifo # <<>> /\ port' = Head(fifo) /\ full' = TRUE /\ fifo' = Tail(fifo)
      /\ irr' = irr \cup {1}
      /\ UNCHANGED <<held, sent, presses, mode, LCKD, size, regs, ticks, seconds, pit, eaten, missed>>
      /\ UNCHANGED <<v, pressed>>
  BY <1>1 DEF load, driver, timer, inforeg, TypeOK
<1>3. /\ fifo \in Seq(Codes) /\ Len(fifo) \in Nat /\ Len(fifo) > 0
      /\ fifo' \in Seq(Codes) /\ Len(fifo') = Len(fifo) - 1
      /\ port' = fifo[1] /\ port' \in Codes
      /\ \A n \in 1 .. Len(fifo') : fifo'[n] = fifo[n + 1]
  <2>1. fifo \in Seq(Codes) /\ fifo # <<>> /\ fifo' = Tail(fifo) /\ port' = Head(fifo)
    BY <1>1, <1>2 DEF TypeOK
  <2> QED
    BY <2>1
<1>4. TypeOK' /\ Ghosts'
  BY <1>1, <1>2, <1>3 DEF TypeOK, Ghosts
<1>5. CodesCounted' /\ TicksCounted' /\ CopyFresh'
  <2>1. (0 \in irr') <=> (0 \in irr)
    BY <1>2
  <2> QED
    BY <1>1, <1>2, <1>3, <2>1 DEF TypeOK, Ghosts, CodesCounted, TicksCounted, CopyFresh
<1>6. PressesCounted'
  <2>1. Coming' = Coming
    <3>1. Cardinality(Presses(fifo))
            = Cardinality(Presses(fifo)') + (IF IsPress(port') THEN 1 ELSE 0)
      BY <1>2, <1>3, PressesTail DEF Presses
    <3>2. Cardinality(Presses(fifo)) \in Nat /\ Cardinality(Presses(fifo)') \in Nat
      BY <1>3, PressesFinite
    <3> QED
      BY <1>2, <3>1, <3>2 DEF Coming
  <2> QED
    BY <1>1, <1>2, <2>1 DEF PressesCounted
<1>7. FlagsComing'
  <2> SUFFICES ASSUME NEW j \in Modifiers
               PROVE  /\ \A n \in 1 .. Len(fifo') :
                           fifo'[n][1] = j /\ (\A m \in (n + 1) .. Len(fifo') : fifo'[m][1] # j)
                             => fifo'[n] = Latest(j)'
                      /\ Silent(j)' /\ full' /\ port'[1] = j => port' = Latest(j)'
                      /\ Silent(j)' /\ ~ (full' /\ port'[1] = j) /\ j \notin missed'
                           => LCKD'[j] = (j \in held')
    BY DEF FlagsComing
  <2>1. Latest(j)' = Latest(j)
    BY <1>2 DEF Latest
  <2>2. ASSUME NEW n \in 1 .. Len(fifo'), fifo'[n][1] = j,
               \A m \in (n + 1) .. Len(fifo') : fifo'[m][1] # j
        PROVE  fifo'[n] = Latest(j)'
    <3>1. n + 1 \in 1 .. Len(fifo) /\ fifo[n + 1][1] = j
      BY <1>3, <2>2
    <3>2. \A m \in ((n + 1) + 1) .. Len(fifo) : fifo[m][1] # j
      <4> TAKE m \in ((n + 1) + 1) .. Len(fifo)
      <4>1. m - 1 \in (n + 1) .. Len(fifo') /\ fifo'[m - 1] = fifo[m]
        BY <1>3
      <4> QED
        BY <2>2, <4>1
    <3> QED
      BY <1>1, <1>3, <2>1, <3>1, <3>2 DEF FlagsComing
  <2>3. ASSUME Silent(j)'
        PROVE  \A m \in 2 .. Len(fifo) : fifo[m][1] # j
    <3> TAKE m \in 2 .. Len(fifo)
    <3>1. m - 1 \in 1 .. Len(fifo') /\ fifo'[m - 1] = fifo[m]
      BY <1>3
    <3> QED
      BY <2>3, <3>1 DEF Silent
  <2>4. ASSUME Silent(j)', port'[1] = j
        PROVE  port' = Latest(j)'
    <3>1. 1 \in 1 .. Len(fifo) /\ fifo[1][1] = j /\ \A m \in (1 + 1) .. Len(fifo) : fifo[m][1] # j
      BY <1>3, <2>3, <2>4
    <3> QED
      BY <1>1, <1>3, <2>1, <3>1 DEF FlagsComing
  <2>5. ASSUME Silent(j)', port'[1] # j, j \notin missed
        PROVE  LCKD[j] = (j \in held)
    <3>1. Silent(j)
      BY <1>3, <2>3, <2>5 DEF Silent
    <3> QED
      BY <1>1, <1>2, <2>5, <3>1 DEF FlagsComing
  <2> QED
    BY <1>2, <2>2, <2>4, <2>5
<1> QED
  BY <1>4, <1>5, <1>6, <1>7 DEF Inv

(* The codes that are on their way, and what they are counted against,     *)
(* stay as they are.                                                       *)
LEMMA CodesStay ==
  ASSUME UNCHANGED <<keyboard, controller, LCKD, size, regs, eaten, missed>>
  PROVE  /\ CodesCounted => CodesCounted'
         /\ PressesCounted => PressesCounted'
         /\ FlagsComing => FlagsComing'
<1>1. UNCHANGED <<held, fifo, sent, presses, port, full, LCKD, size, regs, eaten, missed>>
  BY DEF keyboard, controller
<1>2. Coming' = Coming
  BY <1>1 DEF Coming, Presses
<1>3. \A k : Latest(k)' = Latest(k) /\ (Silent(k)' <=> Silent(k))
  BY <1>1 DEF Latest, Silent
<1>4. CodesCounted => CodesCounted'
  BY <1>1 DEF CodesCounted
<1>5. PressesCounted => PressesCounted'
  BY <1>1, <1>2 DEF PressesCounted
<1>6. FlagsComing => FlagsComing'
  BY <1>1, <1>3 DEF FlagsComing
<1> QED
  BY <1>4, <1>5, <1>6

(* The timer asks for its interrupt, and gets it.                          *)
LEMMA TimerInv ==
  ASSUME Inv, tick \/ irq0Handler
  PROVE  Inv'
<1>1. /\ TypeOK /\ Ghosts /\ CodesCounted /\ TicksCounted /\ PressesCounted
      /\ FlagsComing /\ CopyFresh
  BY DEF Inv
<1>2. /\ UNCHANGED <<keyboard, controller, LCKD, size, regs, eaten, missed>>
      /\ UNCHANGED <<held, fifo, sent, presses, port, full, mode, v, pressed>>
  BY DEF tick, irq0Handler, keyboard, controller, driver, inforeg
<1>3. CodesCounted' /\ PressesCounted' /\ FlagsComing'
  BY <1>1, <1>2, CodesStay
<1>4. CopyFresh'
  BY <1>1, <1>2 DEF CopyFresh
<1>5. TICKS \in Nat \ {0} /\ ticks \in Nat /\ seconds = ticks \div TICKS
  BY <1>1, ExceptionsAssumption DEF TypeOK, TicksCounted, Ghosts
<1>6. ticks \div TICKS \in Nat
  BY <1>5, DivisionStep
<1>7. CASE tick
  <2>1. /\ pit' = pit + 1 /\ irr' = irr \cup {0} /\ UNCHANGED <<ticks, seconds>>
    BY <1>7 DEF tick, timer
  <2>2. TypeOK' /\ Ghosts' /\ TicksCounted'
    BY <1>1, <1>2, <2>1 DEF TypeOK, Ghosts, TicksCounted
  <2> QED
    BY <1>3, <1>4, <2>2 DEF Inv
<1>8. CASE irq0Handler
  <2>1. /\ irr' = irr \ {0} /\ 0 \in irr /\ ticks' = ticks + 1 /\ pit' = pit
        /\ seconds' = IF (ticks + 1) % TICKS = 0 THEN seconds + 1 ELSE seconds
    BY <1>8 DEF irq0Handler, Second
  <2>2. seconds' = ticks' \div TICKS /\ seconds' \in Nat
    <3>1. (ticks + 1) \div TICKS
            = IF (ticks + 1) % TICKS = 0 THEN (ticks \div TICKS) + 1 ELSE ticks \div TICKS
      BY <1>5, DivisionStep
    <3>2. seconds' = (ticks + 1) \div TICKS
      BY <1>5, <2>1, <3>1
    <3>3. seconds \in Nat
      BY <1>5, <1>6
    <3>4. seconds' \in Nat
      BY <2>1, <3>3
    <3> QED
      BY <2>1, <3>2, <3>4
  <2>3. ticks' + (IF 0 \in irr' THEN 1 ELSE 0) <= pit'
    BY <1>1, <1>5, <2>1 DEF TicksCounted, Ghosts
  <2>4. TicksCounted'
    BY <2>2, <2>3 DEF TicksCounted
  <2>5. ticks' \in 0 .. pit' /\ seconds' \in 0 .. (ticks' \div TICKS)
    BY <1>1, <1>5, <2>1, <2>2 DEF TicksCounted, Ghosts
  <2>6. TypeOK' /\ Ghosts'
    BY <1>1, <1>2, <2>1, <2>5 DEF TypeOK, Ghosts
  <2> QED
    BY <1>3, <1>4, <2>4, <2>6 DEF Inv
<1> QED
  BY <1>7, <1>8

(* The driver gets the byte of the port, or finds that there is none.      *)
LEMMA HandlerInv ==
  ASSUME Inv, irq1Handler
  PROVE  Inv'
<1>1. /\ TypeOK /\ Ghosts /\ CodesCounted /\ TicksCounted /\ PressesCounted
      /\ FlagsComing /\ CopyFresh
  BY DEF Inv
<1> DEFINE code == get_key
<1>2. /\ LCKD' = Flags(code) /\ pressed' = (pressed \/ code[2])
      /\ size' = IF Adds(code) THEN size + 1 ELSE size
      /\ regs' = IF Saves(code) THEN regs + 1 ELSE regs
  BY DEF irq1Handler, keyboard_handler, Takes
<1>a. /\ irr = {1} /\ irr' = {} /\ full' = FALSE /\ missed' = missed \ {code[1]}
      /\ UNCHANGED <<held, fifo, sent, presses, port, mode, ticks, seconds, pit, eaten, v>>
  BY DEF irq1Handler, keyboard, timer
<1>3. /\ full => code = port /\ code \in Codes \cup {NoCode}
      /\ ~ full => code = NoCode
      /\ code[2] \in BOOLEAN /\ (~ full => code[2] = FALSE /\ code[1] \notin Keys)
  BY <1>1, CodeFacts, NoCodeFacts DEF get_key, TypeOK
<1>4. /\ Saves(code) => code[2] /\ ~ Adds(code)
      /\ Adds(code) => IsPress(code) /\ code[2]
      /\ IsPress(code) => Adds(code) \/ Saves(code)
  <2>1. IsPress(code) <=> code[2] /\ code[1] \in Letters
    BY <1>1, CodeFacts, NoCodeFacts, ExceptionsAssumption DEF get_key, TypeOK, Keys
  <2> HIDE DEF code
  <2> QED
    BY <2>1 DEF Saves, Adds
<1> HIDE DEF code
<1>b. size \in Nat /\ regs \in Nat /\ eaten \in Nat /\ Len(fifo) \in Nat /\ sent \in 0 .. MaxCodes
  BY <1>1, ExceptionsAssumption DEF TypeOK, Ghosts
<1>c. size' \in Nat /\ regs' \in Nat
  BY <1>2, <1>b
<1>d. /\ full => size' + regs' <= size + regs + 1
      /\ ~ full => size' + regs' = size + regs
  BY <1>2, <1>3, <1>4, <1>b
<1>e. size + regs + eaten + Len(fifo) + (IF full THEN 1 ELSE 0) <= sent
  BY <1>1 DEF CodesCounted
<1>f. size' + regs' + eaten + Len(fifo) <= sent
  <2>1. PICK a, b, c, d, e, f, g \in Int :
          /\ a = size /\ b = regs /\ c = eaten /\ d = Len(fifo) /\ e = sent
          /\ f = size' /\ g = regs'
    BY <1>b, <1>c
  <2>2. \/ f + g <= a + b + 1 /\ a + b + c + d + 1 <= e
        \/ f + g = a + b /\ a + b + c + d <= e
    <3>1. CASE full
      <4>1. a + b + c + d + 1 <= e
        BY <1>e, <2>1, <3>1
      <4>2. f + g <= a + b + 1
        BY <1>d, <2>1, <3>1
      <4> QED
        BY <4>1, <4>2
    <3>2. CASE ~ full
      <4>1. a + b + c + d + 0 <= e
        BY <1>e, <2>1, <3>2
      <4>2. f + g = a + b
        BY <1>d, <2>1, <3>2
      <4> QED
        BY <4>1, <4>2
    <3> QED
      BY <3>1, <3>2
  <2>3. f + g + c + d <= e
    BY <2>2
  <2> QED
    BY <2>1, <2>3
<1>5. CodesCounted'
  BY <1>a, <1>b, <1>c, <1>f DEF CodesCounted
<1>6. TypeOK' /\ Ghosts'
  <2>1. LCKD' \in [Modifiers -> BOOLEAN]
    BY <1>1, <1>2, <1>a, <1>3 DEF Flags, TypeOK
  <2>3. size' \in 0 .. MaxCodes /\ regs' \in 0 .. MaxCodes
    BY <1>b, <1>c, <1>f, ExceptionsAssumption
  <2>4. pressed' \in BOOLEAN
    BY <1>2, <1>a
  <2>5. Ghosts'
    BY <1>1, <1>2, <1>a, <2>4 DEF Ghosts
  <2>6. missed' \subseteq Modifiers /\ full' \in BOOLEAN /\ irr' \subseteq {0, 1}
    BY <1>1, <1>2, <1>a DEF TypeOK
  <2> QED
    BY <1>1, <1>2, <1>a, <2>1, <2>3, <2>5, <2>6 DEF TypeOK
<1>7. TicksCounted'
  BY <1>1, <1>2, <1>a DEF TicksCounted
<1>8. PressesCounted'
  <2>1. Cardinality(Presses(fifo)) \in Nat /\ Presses(fifo)' = Presses(fifo)
    BY <1>1, <1>2, <1>a, PressesFinite DEF Presses, TypeOK
  <2>2. /\ full /\ IsPress(port) => Coming = Coming' + 1
        /\ ~ (full /\ IsPress(port)) => Coming = Coming'
        /\ Coming \in Nat /\ Coming' \in Nat
    BY <1>a, <2>1 DEF Coming
  <2>3. full /\ IsPress(port) <=> IsPress(code)
    BY <1>3, NoCodeFacts
  <2>4. /\ size \in Nat /\ regs \in Nat /\ eaten \in Nat /\ presses \in Nat
        /\ presses' = presses /\ eaten' = eaten
        /\ size + Coming <= presses - eaten /\ presses - eaten <= size + regs + Coming
    BY <1>1, <1>2, <1>a, ExceptionsAssumption DEF PressesCounted, TypeOK, Ghosts
  <2>5. PICK a, b, c, d, e, f, g, h \in Int :
          /\ a = size /\ b = regs /\ c = Coming /\ d = presses /\ e = eaten
          /\ f = size' /\ g = regs' /\ h = Coming'
    BY <1>c, <2>2, <2>4
  <2>6. a + c <= d - e /\ d - e <= a + b + c
    BY <2>4, <2>5
  <2>7. \/ c = h + 1 /\ ((f = a + 1 /\ g = b) \/ (f = a /\ g = b + 1))
        \/ c = h /\ f = a /\ (g = b \/ g = b + 1)
    <3>1. CASE IsPress(code)
      <4>1. c = h + 1
        BY <2>2, <2>3, <2>5, <3>1
      <4>2. (f = a + 1 /\ g = b) \/ (f = a /\ g = b + 1)
        <5>1. CASE Adds(code)
          <6>1. size' = size + 1
            BY <1>2, <5>1
          <6>2. regs' = regs
            BY <1>2, <1>4, <5>1
          <6>3. f = a + 1 /\ g = b
            BY <2>5, <6>1, <6>2
          <6> QED
            BY <6>3
        <5>2. CASE Saves(code)
          BY <1>2, <1>4, <2>5, <5>2
        <5> QED
          BY <1>4, <3>1, <5>1, <5>2
      <4> QED
        BY <4>1, <4>2
    <3>2. CASE ~ IsPress(code)
      <4>1. c = h
        BY <2>2, <2>3, <2>5, <3>2
      <4>2. f = a /\ (g = b \/ g = b + 1)
        BY <1>2, <1>4, <2>5, <3>2
      <4> QED
        BY <4>1, <4>2
    <3> QED
      BY <3>1, <3>2
  <2>8. f + h <= d - e /\ d - e <= f + g + h
    BY <2>6, <2>7
  <2> QED
    BY <2>4, <2>5, <2>8 DEF PressesCounted
<1>9. FlagsComing'
  <2> SUFFICES ASSUME NEW j \in Modifiers
               PROVE  /\ \A n \in 1 .. Len(fifo') :
                           fifo'[n][1] = j /\ (\A m \in (n + 1) .. Len(fifo') : fifo'[m][1] # j)
                             => fifo'[n] = Latest(j)'
                      /\ Silent(j)' /\ full' /\ port'[1] = j => port' = Latest(j)'
                      /\ Silent(j)' /\ ~ (full' /\ port'[1] = j) /\ j \notin missed'
                           => LCKD'[j] = (j \in held')
    BY DEF FlagsComing
  <2>1. Latest(j)' = Latest(j) /\ (Silent(j)' <=> Silent(j))
    BY <1>2, <1>a DEF Latest, Silent
  <2>2. ASSUME Silent(j), j \notin missed'
        PROVE  LCKD'[j] = (j \in held)
    <3>1. CASE full /\ port[1] = j
      <4>1. port = Latest(j) /\ code = port
        BY <1>1, <1>3, <2>2, <3>1 DEF FlagsComing
      <4>2. code[2] = (j \in held) /\ code[1] = j
        <5>1. CASE j \in held
          <6>1. code = make(j)
            BY <4>1, <5>1 DEF Latest
          <6> QED
            BY <5>1, <6>1, MakeBreak
        <5>2. CASE j \notin held
          <6>1. code = break(j) /\ (j \in held) = FALSE
            BY <4>1, <5>2 DEF Latest
          <6> QED
            BY <6>1, MakeBreak
        <5> QED
          BY <5>1, <5>2
      <4> QED
        BY <1>2, <1>a, <4>2 DEF Flags
    <3>2. CASE ~ (full /\ port[1] = j)
      <4>1. code[1] # j
        BY <1>3, <3>2 DEF Keys
      <4>2. j \notin missed
        BY <1>2, <1>a, <2>2, <4>1
      <4>3. LCKD'[j] = LCKD[j]
        BY <1>2, <1>a, <4>1 DEF Flags
      <4> QED
        BY <1>1, <2>2, <3>2, <4>2, <4>3 DEF FlagsComing
    <3> QED
      BY <3>1, <3>2
  <2>3. \A n \in 1 .. Len(fifo) :
          fifo[n][1] = j /\ (\A m \in (n + 1) .. Len(fifo) : fifo[m][1] # j) => fifo[n] = Latest(j)
    BY <1>1 DEF FlagsComing
  <2> QED
    BY <1>2, <1>a, <2>1, <2>2, <2>3
<1>10. CopyFresh'
  BY <1>1, <1>2, <1>a, <1>4 DEF CopyFresh
<1> QED
  BY <1>5, <1>6, <1>7, <1>8, <1>9, <1>10 DEF Inv

(* inforeg's copy, one word further.                                       *)
LEMMA CopyInv ==
  ASSUME Inv, getRegs
  PROVE  Inv'
<1>1. /\ TypeOK /\ Ghosts /\ CodesCounted /\ TicksCounted /\ PressesCounted
      /\ FlagsComing /\ CopyFresh
  BY DEF Inv
<1>2. /\ v' = (IF Len(v) = REGS THEN <<regs>> ELSE Append(v, regs))
      /\ pressed' = (Len(v) \in 1 .. (REGS - 1) /\ pressed)
      /\ UNCHANGED <<keyboard, controller, LCKD, size, regs, eaten, missed>>
      /\ UNCHANGED <<held, fifo, sent, presses, port, full, irr, mode, ticks, seconds, pit>>
  BY DEF getRegs, keyboard, controller, driver, timer
<1>3. CodesCounted' /\ PressesCounted' /\ FlagsComing'
  BY <1>1, <1>2, CodesStay
<1>4. TypeOK' /\ TicksCounted'
  BY <1>1, <1>2 DEF TypeOK, TicksCounted
<1>5. v \in Seq(Nat) /\ Len(v) \in Nat /\ Len(v) <= REGS /\ regs \in Nat /\ REGS \in Nat \ {0}
  BY <1>1, ExceptionsAssumption DEF Ghosts, TypeOK
<1>6. CASE Len(v) = REGS
  <2>1. v' = <<regs>>
    BY <1>2, <1>6
  <2>2. v' \in Seq(Nat) /\ Len(v') = 1 /\ v'[1] = regs
    BY <1>5, <2>1
  <2>3. Ghosts'
    BY <1>1, <1>2, <1>5, <2>2 DEF Ghosts
  <2>4. CopyFresh'
    BY <1>2, <2>2 DEF CopyFresh
  <2> QED
    BY <1>3, <1>4, <2>3, <2>4 DEF Inv
<1>7. CASE Len(v) # REGS
  <2>1. v' = Append(v, regs)
    BY <1>2, <1>7
  <2>2. /\ v' \in Seq(Nat) /\ Len(v') = Len(v) + 1 /\ v'[Len(v) + 1] = regs
        /\ \A n \in 1 .. Len(v) : v'[n] = v[n]
    BY <1>5, <2>1
  <2>3. Ghosts'
    BY <1>1, <1>2, <1>5, <1>7, <2>2 DEF Ghosts
  <2>4. CopyFresh'
    <3> SUFFICES ASSUME ~ pressed', NEW n \in 1 .. Len(v') PROVE v'[n] = regs'
      BY DEF CopyFresh
    <3>1. CASE n = Len(v) + 1
      BY <1>2, <2>2, <3>1
    <3>2. CASE n # Len(v) + 1
      <4>1. n \in 1 .. Len(v) /\ Len(v) \in 1 .. (REGS - 1)
        BY <1>5, <1>7, <2>2, <3>2
      <4>2. ~ pressed
        BY <1>2, <4>1
      <4> QED
        BY <1>1, <1>2, <2>2, <4>1, <4>2 DEF CopyFresh
    <3> QED
      BY <3>1, <3>2
  <2> QED
    BY <1>3, <1>4, <2>3, <2>4 DEF Inv
<1> QED
  BY <1>6, <1>7

(* The user program fails.                                                 *)
LEMMA ExceptionInv ==
  ASSUME Inv, exception
  PROVE  Inv'
<1>1. /\ TypeOK /\ Ghosts /\ CodesCounted /\ TicksCounted /\ PressesCounted
      /\ FlagsComing /\ CopyFresh
  BY DEF Inv
<1>2. /\ UNCHANGED <<keyboard, controller, LCKD, size, regs, eaten, missed>>
      /\ UNCHANGED <<held, fifo, sent, presses, port, full, irr, ticks, seconds, pit, v, pressed>>
      /\ mode' = "exception"
  BY DEF exception, keyboard, controller, driver, timer, inforeg
<1>3. CodesCounted' /\ PressesCounted' /\ FlagsComing'
  BY <1>1, <1>2, CodesStay
<1>4. TypeOK' /\ TicksCounted' /\ Ghosts' /\ CopyFresh'
  BY <1>1, <1>2 DEF TypeOK, TicksCounted, Ghosts, CopyFresh
<1> QED
  BY <1>3, <1>4 DEF Inv

(* The exception reads a code, or finds none.                              *)
LEMMA PrintInv ==
  ASSUME Inv, printRegister
  PROVE  Inv'
<1>1. /\ TypeOK /\ Ghosts /\ CodesCounted /\ TicksCounted /\ PressesCounted
      /\ FlagsComing /\ CopyFresh
  BY DEF Inv
<1>2. /\ full' = FALSE /\ mode' \in {"user", mode} /\ irr' \in {irr, irr \ {1}}
      /\ eaten' = IF full /\ port[2] /\ port[1] \in Letters THEN eaten + 1 ELSE eaten
      /\ missed' = IF full /\ port[1] \in Modifiers THEN missed \cup {port[1]} ELSE missed
      /\ UNCHANGED <<held, fifo, sent, presses, port, LCKD, size, regs, ticks, seconds, pit>>
      /\ UNCHANGED <<v, pressed>>
  BY DEF printRegister, keyboard, driver, timer, inforeg
<1>3. port[2] /\ port[1] \in Letters <=> IsPress(port)
  BY <1>1, CodeFacts, NoCodeFacts, ExceptionsAssumption DEF TypeOK, Keys
<1>4. eaten' = IF full /\ IsPress(port) THEN eaten + 1 ELSE eaten
  BY <1>2, <1>3
<1>b. size \in Nat /\ regs \in Nat /\ eaten \in Nat /\ Len(fifo) \in Nat /\ sent \in 0 .. MaxCodes
  BY <1>1, ExceptionsAssumption DEF TypeOK, Ghosts
<1>c. eaten' \in Nat
  BY <1>4, <1>b
<1>e. size + regs + eaten + Len(fifo) + (IF full THEN 1 ELSE 0) <= sent
  BY <1>1 DEF CodesCounted
<1>f. size + regs + eaten' + Len(fifo) <= sent
  <2>1. CASE full
    BY <1>4, <1>b, <1>c, <1>e, <2>1
  <2>2. CASE ~ full
    BY <1>4, <1>b, <1>c, <1>e, <2>2
  <2> QED
    BY <2>1, <2>2
<1>5. CodesCounted'
  BY <1>2, <1>b, <1>c, <1>f DEF CodesCounted
<1>6. TypeOK'
  <2>1. eaten' \in 0 .. MaxCodes
    BY <1>b, <1>c, <1>f, ExceptionsAssumption
  <2>2. mode' \in {"user", "exception"} /\ irr' \subseteq {0, 1}
    BY <1>1, <1>2 DEF TypeOK
  <2>3. missed' \subseteq Modifiers
    BY <1>1, <1>2 DEF TypeOK
  <2> QED
    BY <1>1, <1>2, <2>1, <2>2, <2>3 DEF TypeOK
<1>7. Ghosts' /\ CopyFresh'
  BY <1>1, <1>2 DEF Ghosts, CopyFresh
<1>8. TicksCounted'
  <2>1. 0 \in irr' <=> 0 \in irr
    BY <1>2
  <2> QED
    BY <1>1, <1>2, <2>1 DEF TicksCounted
<1>9. PressesCounted'
  <2>1. Cardinality(Presses(fifo)) \in Nat /\ Presses(fifo)' = Presses(fifo)
    BY <1>1, <1>2, PressesFinite DEF Presses, TypeOK
  <2>2. /\ full /\ IsPress(port) => Coming = Coming' + 1
        /\ ~ (full /\ IsPress(port)) => Coming = Coming'
        /\ Coming \in Nat /\ Coming' \in Nat
    BY <1>2, <2>1 DEF Coming
  <2>3. /\ size \in Nat /\ regs \in Nat /\ eaten \in Nat /\ presses \in Nat
        /\ size + Coming <= presses - eaten /\ presses - eaten <= size + regs + Coming
    BY <1>1, ExceptionsAssumption DEF PressesCounted, TypeOK, Ghosts
  <2>4. PICK a, b, c, d, e, f, h \in Int :
          /\ a = size /\ b = regs /\ c = Coming /\ d = presses /\ e = eaten
          /\ f = eaten' /\ h = Coming'
    BY <1>c, <2>2, <2>3
  <2>5. a + c <= d - e /\ d - e <= a + b + c
    BY <2>3, <2>4
  <2>6. (c = h + 1 /\ f = e + 1) \/ (c = h /\ f = e)
    <3>1. CASE full /\ IsPress(port)
      <4>1. eaten' = eaten + 1
        BY <1>4, <3>1
      <4>2. Coming = Coming' + 1
        BY <2>2, <3>1
      <4>3. f = e + 1 /\ c = h + 1
        BY <2>4, <4>1, <4>2
      <4> QED
        BY <4>3
    <3>2. CASE ~ (full /\ IsPress(port))
      BY <1>4, <2>2, <2>4, <3>2
    <3> QED
      BY <3>1, <3>2
  <2>7. a + h <= d - f /\ d - f <= a + b + h
    BY <2>5, <2>6
  <2> QED
    BY <1>2, <2>4, <2>7 DEF PressesCounted
<1>10. FlagsComing'
  <2> SUFFICES ASSUME NEW j \in Modifiers
               PROVE  /\ \A n \in 1 .. Len(fifo') :
                           fifo'[n][1] = j /\ (\A m \in (n + 1) .. Len(fifo') : fifo'[m][1] # j)
                             => fifo'[n] = Latest(j)'
                      /\ Silent(j)' /\ full' /\ port'[1] = j => port' = Latest(j)'
                      /\ Silent(j)' /\ ~ (full' /\ port'[1] = j) /\ j \notin missed'
                           => LCKD'[j] = (j \in held')
    BY DEF FlagsComing
  <2>1. Latest(j)' = Latest(j) /\ (Silent(j)' <=> Silent(j))
    BY <1>2 DEF Latest, Silent
  <2>2. j \notin missed' => ~ (full /\ port[1] = j) /\ j \notin missed
    BY <1>2
  <2>3. \A n \in 1 .. Len(fifo) :
          fifo[n][1] = j /\ (\A m \in (n + 1) .. Len(fifo) : fifo[m][1] # j) => fifo[n] = Latest(j)
    BY <1>1 DEF FlagsComing
  <2>4. Silent(j) /\ j \notin missed' => LCKD[j] = (j \in held)
    BY <1>1, <2>2 DEF FlagsComing
  <2> QED
    BY <1>2, <2>1, <2>3, <2>4
<1> QED
  BY <1>5, <1>6, <1>7, <1>8, <1>9, <1>10 DEF Inv
-----------------------------------------------------------------------------
LEMMA InitInv == Init => Inv
<1> SUFFICES ASSUME Init PROVE Inv
  OBVIOUS
<1>1. /\ held = {} /\ fifo = <<>> /\ port = NoCode /\ full = FALSE /\ irr = {} /\ mode = "user"
      /\ LCKD = [k \in Modifiers |-> FALSE] /\ size = 0 /\ regs = 0
      /\ v = <<>> /\ pressed = FALSE /\ ticks = 0 /\ seconds = 0
      /\ sent = 0 /\ pit = 0 /\ presses = 0 /\ eaten = 0 /\ missed = {}
  BY DEF Init
<1>2. 0 \div TICKS = 0
  BY ExceptionsAssumption
<1>3. TypeOK
  <2>1. fifo \in Seq(Codes)
    BY <1>1
  <2>2. LCKD \in [Modifiers -> BOOLEAN] /\ missed \subseteq Modifiers /\ held \subseteq Keys
    BY <1>1
  <2>3. irr \subseteq {0, 1} /\ port \in Codes \cup {NoCode} /\ full \in BOOLEAN
    BY <1>1
  <2>4. /\ size \in 0 .. MaxCodes /\ regs \in 0 .. MaxCodes /\ eaten \in 0 .. MaxCodes
        /\ ticks \in 0 .. pit /\ seconds \in 0 .. (ticks \div TICKS)
    BY <1>1, <1>2, ExceptionsAssumption
  <2> QED
    BY <1>1, <2>1, <2>2, <2>3, <2>4 DEF TypeOK
<1>4. Ghosts /\ TicksCounted /\ CodesCounted /\ CopyFresh
  <2>1. fifo \in Seq(Codes) /\ v \in Seq(Nat) /\ Len(fifo) = 0 /\ Len(v) = 0
    BY <1>1
  <2>2. Ghosts
    <3>1. Len(v) <= REGS /\ sent \in 0 .. MaxCodes /\ pit \in Nat /\ presses \in Nat
      BY <1>1, <2>1, ExceptionsAssumption
    <3> QED
      BY <1>1, <2>1, <3>1 DEF Ghosts
  <2>3. 0 \notin irr /\ seconds = ticks \div TICKS
    BY <1>1, <1>2
  <2>4. TicksCounted
    BY <1>1, <2>3 DEF TicksCounted
  <2>5. CodesCounted /\ CopyFresh
    BY <1>1, <2>1 DEF CodesCounted, CopyFresh
  <2> QED
    BY <2>2, <2>4, <2>5
<1>5. PressesCounted
  <2>1. Presses(fifo) = {}
    BY <1>1 DEF Presses
  <2> QED
    BY <1>1, <2>1, FS_EmptySet DEF PressesCounted, Coming
<1>6. FlagsComing
  <2> SUFFICES ASSUME NEW k \in Modifiers
               PROVE  1 .. Len(fifo) = {} /\ ~ full /\ LCKD[k] = (k \in held)
    BY DEF FlagsComing
  <2>1. 1 .. Len(fifo) = {}
    BY <1>1
  <2>2. LCKD[k] = FALSE /\ (k \in held) = FALSE /\ ~ full
    BY <1>1
  <2> QED
    BY <2>1, <2>2
<1> QED
  BY <1>3, <1>4, <1>5, <1>6 DEF Inv

LEMMA NextInv == Inv /\ [Next]_vars => Inv'
<1> SUFFICES ASSUME Inv, [Next]_vars PROVE Inv'
  OBVIOUS
<1>1. ASSUME NEW k \in Keys, press(k)
      PROVE  Inv'
  <2>1. send(make(k)) /\ held' = held \cup {k} /\ make(k) \in {make(k), break(k)}
    BY <1>1 DEF press
  <2> QED
    BY <2>1, SendInv
<1>2. ASSUME NEW k \in Keys, release(k)
      PROVE  Inv'
  <2>1. /\ send(break(k)) /\ break(k) \in {make(k), break(k)}
        /\ held' = IF break(k) = make(k) THEN held \cup {k} ELSE held \ {k}
    BY <1>2, MakeBreak DEF release
  <2> QED
    BY <2>1, SendInv
<1>3. CASE UNCHANGED vars
  <2>1. /\ UNCHANGED <<keyboard, controller, LCKD, size, regs, eaten, missed>>
        /\ UNCHANGED <<held, fifo, sent, presses, port, full, irr, mode, ticks, seconds, pit>>
        /\ UNCHANGED <<v, pressed>>
    BY <1>3 DEF vars, keyboard, controller, driver, timer, inforeg
  <2>2. CodesCounted' /\ PressesCounted' /\ FlagsComing'
    BY <2>1, CodesStay DEF Inv
  <2>3. TypeOK' /\ Ghosts' /\ TicksCounted' /\ CopyFresh'
    BY <2>1 DEF Inv, TypeOK, Ghosts, TicksCounted, CopyFresh
  <2> QED
    BY <2>2, <2>3 DEF Inv
<1> QED
  BY <1>1, <1>2, <1>3, LoadInv, TimerInv, HandlerInv, CopyInv, ExceptionInv, PrintInv
     DEF Next, Kernel

THEOREM Invariant == Spec => []Inv
BY InitInv, NextInv, PTL DEF Spec

(* Every variable keeps its type; the counters stay within what was sent,  *)
(* and seconds never run ahead of ticks, nor ticks of the timer.           *)
THEOREM TypeCorrect == Spec => []TypeOK
<1>1. Inv => TypeOK
  BY DEF Inv
<1> QED
  BY <1>1, Invariant, PTL

(* No modifier sticks: once its codes are through, its flag is its key.    *)
THEOREM ModifiersNeverStick == Spec => []FlagsFollowKeys
<1>1. Inv => FlagsFollowKeys
  <2> SUFFICES ASSUME Inv, NEW k \in Modifiers \ missed,
                      {make(k), break(k)} \cap OnTheWay = {}
               PROVE  LCKD[k] = (k \in held)
    BY DEF FlagsFollowKeys
  <2>1. fifo \in Seq(Codes) /\ port \in Codes \cup {NoCode} /\ k \in Keys
    BY DEF Inv, TypeOK, Keys
  <2>2. Silent(k)
    <3> SUFFICES ASSUME NEW n \in 1 .. Len(fifo), fifo[n][1] = k PROVE FALSE
      BY DEF Silent
    <3>1. fifo[n] \in Codes /\ fifo[n] \in OnTheWay
      BY <2>1 DEF OnTheWay, Range
    <3> QED
      BY <3>1, CodeFacts
  <2>3. ~ (full /\ port[1] = k)
    <3> SUFFICES ASSUME full, port[1] = k PROVE FALSE
      OBVIOUS
    <3>1. port \in Codes
      BY <2>1, NoCodeFacts
    <3> QED
      BY <3>1, CodeFacts DEF OnTheWay
  <2> QED
    BY <2>2, <2>3 DEF Inv, FlagsComing
<1> QED
  BY <1>1, Invariant, PTL

(* A letter pressed once is added once, however exceptions read the port   *)
(* behind the driver's back.                                               *)
THEOREM LettersTypedOnce == Spec => []TypedOnce
<1>1. Inv => TypedOnce
  <2> SUFFICES ASSUME Inv, OnTheWay \cap {make(k) : k \in Letters} = {}
               PROVE  size <= presses - eaten /\ presses - eaten <= size + regs
    BY DEF TypedOnce
  <2>1. fifo \in Seq(Codes)
    BY DEF Inv, TypeOK
  <2>2. Presses(fifo) = {}
    <3> SUFFICES ASSUME NEW n \in 1 .. Len(fifo), IsPress(fifo[n]) PROVE FALSE
      BY DEF Presses
    <3>1. fifo[n] \in OnTheWay
      BY <2>1 DEF OnTheWay, Range
    <3> QED
      BY <3>1 DEF IsPress
  <2>3. ~ (full /\ IsPress(port))
    BY DEF OnTheWay, IsPress
  <2>4. Coming = 0
    BY <2>2, <2>3, FS_EmptySet DEF Coming
  <2>5. PressesCounted /\ size \in Nat /\ regs \in Nat /\ presses \in Nat /\ eaten \in Nat
    BY ExceptionsAssumption DEF Inv, TypeOK, Ghosts
  <2> QED
    BY <2>4, <2>5 DEF PressesCounted
<1> QED
  BY <1>1, Invariant, PTL

(* A finished copy that no press disturbed holds one moment's registers.   *)
THEOREM CopiesAreWhole == Spec => []CopyWhole
<1>1. Inv => CopyWhole
  <2> SUFFICES ASSUME Inv, Len(v) = REGS, ~ pressed, NEW i \in 1 .. REGS PROVE v[i] = v[1]
    BY DEF CopyWhole
  <2>1. i \in 1 .. Len(v) /\ 1 \in 1 .. Len(v)
    BY ExceptionsAssumption
  <2> QED
    BY <2>1 DEF Inv, CopyFresh
<1> QED
  BY <1>1, Invariant, PTL
=============================================================================
