--------------------------- MODULE ProgramProofs ----------------------------
(* The memory-manager test, proved for every number and size of requests,  *)
(* every memory manager that implements module Allocator, and any number   *)
(* of restarts.                                                            *)
EXTENDS Program, TLAPS

USE DEF NULL, None

Working == {"request", "set", "check", "free"}

Requested == [address : Nat \cup {NULL}, size : 1 .. MAX_MEMORY]

Types ==
  /\ pc \in Working \cup {"main", "_start", "done", "hang"}
  /\ mm_rqs \in Seq(Requested)
  /\ total \in 0 .. MAX_MEMORY /\ (Len(mm_rqs) = 0 => total = 0)
  /\ pending \in {None} \cup 1 .. MAX_MEMORY
  /\ byte \in [Arena -> Int]

(* Where the program is in its loops.                                      *)
Loops ==
  /\ pc = "request" => i = 1 /\ (pending # None => pending <= MAX_MEMORY - total)
  /\ pc \in {"set", "check", "free"} => i \in 1 .. Len(mm_rqs)
  /\ pc # "request" => pending = None

(* The saved stack pointer is the one of the program's call.               *)
Returns ==
  /\ DOMAIN stack = -2 .. 0
  /\ pc = "main" => rsp = 0
  /\ pc # "main" => snapshotSP = -1 /\ stack[-1] = "hang"
  /\ pc = "_start" => rsp = -1
  /\ pc \in Working \cup {"done"} => rsp = -2

(* Extents do not meet.                                                    *)
Apart ==
  /\ \A b \in DOMAIN extent :
       b \in Arena /\ extent[b] \in Nat \ {0} /\ MM!Span(b, extent[b]) \subseteq Arena
  /\ \A b, c \in DOMAIN extent :
       b # c => MM!Span(b, extent[b]) \cap MM!Span(c, extent[c]) = {}

From == IF pc = "free" THEN i ELSE 1

(* The requests that were granted and whose block the program still has.   *)
Mine == IF pc \in Working THEN {n \in From .. Len(mm_rqs) : mm_rqs[n].address # NULL} ELSE {}

Block(n) == mm_rqs[n].address - Header

BlocksHeld ==
  /\ \A n \in Mine : Block(n) \in DOMAIN extent /\ extent[Block(n)] >= Need(mm_rqs[n].size)
  /\ \A m, n \in Mine : m # n => Block(m) # Block(n)

(* What the program has written and not yet looked at for the last time.   *)
Written ==
  /\ pc = "set" => \A n \in Mine : n < i => \A a \in Filled(mm_rqs[n]) : byte[a] = n
  /\ pc = "check" => \A n \in Mine : \A a \in Filled(mm_rqs[n]) : byte[a] = n

Inv ==
  /\ Types /\ Loops /\ Returns /\ Apart /\ BlocksHeld /\ Written
  /\ NoError /\ Accounted /\ (pc = "main" => extent = [b \in {} |-> 0] /\ leaked = {})
-----------------------------------------------------------------------------
(* The memory manager's steps, as the program sees them.                   *)
LEMMA GrantFacts ==
  ASSUME Apart, pending \in 1 .. MAX_MEMORY, MM!Grant
  PROVE  /\ \E b \in Arena \ DOMAIN extent :
              /\ answer' = b + Header /\ DOMAIN extent' = DOMAIN extent \cup {b}
              /\ extent'[b] >= Need(pending)
         /\ \A x \in DOMAIN extent : extent'[x] = extent[x]
         /\ pending' = None /\ Apart'
<1> DEFINE gap == MM!Gap
<1>1. PICK b \in gap : \E s \in Need(pending) .. (Need(pending) + Slack) :
        /\ answer' = b + Header
        /\ extent' = [x \in DOMAIN extent \cup {b} |-> IF x = b THEN s ELSE extent[x]]
        /\ MM!Span(b, s) \subseteq gap
  BY DEF MM!Grant
<1>2. PICK s \in Need(pending) .. (Need(pending) + Slack) :
        /\ answer' = b + Header
        /\ extent' = [x \in DOMAIN extent \cup {b} |-> IF x = b THEN s ELSE extent[x]]
        /\ MM!Span(b, s) \subseteq gap
  BY <1>1
<1>3. /\ Need(pending) \in Nat /\ Need(pending) >= pending + Header /\ Slack \in Nat
      /\ Header \in Nat \ {0} /\ pending \in Nat \ {0} /\ Arena \subseteq Nat
  BY ProgramAssumption
<1>4. s \in Nat \ {0} /\ s >= Need(pending)
  BY <1>3
<1>5. /\ gap \subseteq Arena
      /\ \A c \in DOMAIN extent : gap \cap MM!Span(c, extent[c]) = {}
  BY DEF MM!Gap
<1> HIDE DEF gap
<1>6. b \in Arena /\ b \in Nat
  BY <1>3, <1>5
<1>7. b \notin DOMAIN extent
  <2> SUFFICES ASSUME b \in DOMAIN extent PROVE FALSE
    OBVIOUS
  <2>1. extent[b] \in Nat \ {0}
    BY DEF Apart
  <2>2. b \in MM!Span(b, extent[b])
    BY <1>6, <2>1 DEF MM!Span
  <2> QED
    BY <1>5, <2>2
<1>8. /\ DOMAIN extent' = DOMAIN extent \cup {b} /\ extent'[b] = s
      /\ \A x \in DOMAIN extent : extent'[x] = extent[x]
  BY <1>2, <1>7
<1>9. Apart'
  <2>1. \A c \in DOMAIN extent' :
          c \in Arena /\ extent'[c] \in Nat \ {0} /\ MM!Span(c, extent'[c]) \subseteq Arena
    BY <1>2, <1>4, <1>5, <1>6, <1>8 DEF Apart
  <2>2. ASSUME NEW c \in DOMAIN extent', NEW d \in DOMAIN extent', c # d
        PROVE  MM!Span(c, extent'[c]) \cap MM!Span(d, extent'[d]) = {}
    <3>1. CASE c = b
      BY <1>2, <1>5, <1>8, <2>2, <3>1
    <3>2. CASE d = b
      BY <1>2, <1>5, <1>8, <2>2, <3>2
    <3>3. CASE c # b /\ d # b
      BY <1>8, <2>2, <3>3 DEF Apart
    <3> QED
      BY <3>1, <3>2, <3>3
  <2> QED
    BY <2>1, <2>2 DEF Apart
<1> QED
  BY <1>2, <1>4, <1>6, <1>7, <1>8, <1>9 DEF MM!Grant

LEMMA ReleaseFacts ==
  ASSUME Apart, NEW b, MM!Release(b)
  PROVE  /\ pending' = pending
         /\ b \in DOMAIN extent /\ DOMAIN extent' = DOMAIN extent \ {b}
         /\ \A x \in DOMAIN extent' : extent'[x] = extent[x]
         /\ Apart'
<1>1. /\ pending' = pending /\ b \in DOMAIN extent
      /\ extent' = [x \in DOMAIN extent \ {b} |-> extent[x]]
  BY DEF MM!Release
<1>2. DOMAIN extent' = DOMAIN extent \ {b} /\ \A x \in DOMAIN extent' : extent'[x] = extent[x]
  BY <1>1
<1>3. Apart'
  BY <1>2 DEF Apart
<1> QED
  BY <1>1, <1>2, <1>3

(* What is held, by the requests.                                          *)
LEMMA HeldIsMine ==
  /\ Held = {Block(n) : n \in Mine}
  /\ Held' = {Block(n)' : n \in Mine'}
BY DEF Held, Mine, From, Block, Working

LEMMA EntryFacts ==
  ASSUME Types, NEW n \in 1 .. Len(mm_rqs)
  PROVE  /\ mm_rqs[n].address \in Nat \cup {NULL} /\ mm_rqs[n].size \in 1 .. MAX_MEMORY
         /\ mm_rqs[n].size \in Nat \ {0}
<1>1. mm_rqs[n] \in Requested
  BY DEF Types
<1> QED
  BY <1>1, ProgramAssumption DEF Requested

LEMMA MineFacts ==
  ASSUME Types, Loops, NEW n \in Mine
  PROVE  /\ n \in 1 .. Len(mm_rqs) /\ n \in Nat /\ pc \in Working
         /\ mm_rqs[n].address \in Nat /\ mm_rqs[n].size \in 1 .. MAX_MEMORY
         /\ Block(n) \in Int
<1>1. pc \in Working /\ n \in From .. Len(mm_rqs) /\ mm_rqs[n].address # NULL
  BY DEF Mine
<1>2. n \in 1 .. Len(mm_rqs)
  BY <1>1 DEF From, Loops, Types
<1>3. mm_rqs[n].address \in Nat /\ mm_rqs[n].size \in 1 .. MAX_MEMORY
  BY <1>1, <1>2, EntryFacts
<1>4. PICK a \in Nat, h \in Nat : a = mm_rqs[n].address /\ h = Header
  BY <1>3, ProgramAssumption
<1>5. Block(n) = a - h /\ a - h \in Int
  BY <1>4 DEF Block
<1>6. n \in Nat
  BY <1>2
<1> QED
  BY <1>1, <1>2, <1>3, <1>5, <1>6

(* A block's bytes are its own.                                            *)
LEMMA FilledApart ==
  ASSUME Types, Loops, Apart, BlocksHeld, NEW n \in Mine
  PROVE  /\ Filled(mm_rqs[n]) \subseteq Arena
         /\ \A m \in Mine : m # n => Filled(mm_rqs[m]) \cap Filled(mm_rqs[n]) = {}
<1>1. ASSUME NEW k \in Mine
      PROVE  /\ Block(k) \in DOMAIN extent
             /\ Filled(mm_rqs[k]) \subseteq MM!Span(Block(k), extent[Block(k)])
  <2>1. PICK a \in Nat, z \in 1 .. MAX_MEMORY : a = mm_rqs[k].address /\ z = mm_rqs[k].size
    BY MineFacts
  <2>2. Need(z) \in Nat /\ Need(z) >= z + Header /\ Header \in Nat \ {0} /\ z \in Nat
    BY ProgramAssumption
  <2>3. /\ Block(k) \in DOMAIN extent /\ Block(k) = a - Header
        /\ extent[Block(k)] \in Nat /\ extent[Block(k)] >= Need(z)
    BY <2>1 DEF BlocksHeld, Apart, Block
  <2>4. PICK e \in Nat : e = extent[Block(k)]
    BY <2>3
  <2>5. a .. (a + z - 1) \subseteq (a - Header) .. ((a - Header) + e - 1)
    BY <2>2, <2>3, <2>4
  <2> QED
    BY <2>1, <2>3, <2>4, <2>5 DEF Filled, MM!Span
<1>2. Filled(mm_rqs[n]) \subseteq Arena
  BY <1>1 DEF Apart
<1>3. ASSUME NEW m \in Mine, m # n
      PROVE  Filled(mm_rqs[m]) \cap Filled(mm_rqs[n]) = {}
  <2>1. Block(m) # Block(n)
    BY <1>3 DEF BlocksHeld
  <2> QED
    BY <1>1, <2>1 DEF Apart
<1> QED
  BY <1>2, <1>3
-----------------------------------------------------------------------------
(* The kernel's call, the program's start and its return, and a restart.   *)
LEMMA CallInv ==
  ASSUME Inv, main \/ _start \/ return \/ exception
  PROVE  Inv'
<1>1. /\ Types /\ Loops /\ Returns /\ Apart /\ BlocksHeld /\ Written /\ NoError /\ Accounted
      /\ pc = "main" => extent = [b \in {} |-> 0] /\ leaked = {}
  BY DEF Inv
<1>2. UNCHANGED <<extent, pending, byte, error>>
  BY DEF main, _start, return, exception, manager
<1>3. \/ /\ pc = "main" /\ pc' = "_start" /\ snapshotSP' = -1 /\ rsp' = -1
         /\ stack' = [stack EXCEPT ![-1] = "hang"]
         /\ UNCHANGED <<mm_rqs, total, i, leaked>>
      \/ /\ pc = "_start" /\ pc' = "request" /\ rsp' = -2
         /\ stack' = [stack EXCEPT ![-2] = "the program's frame"]
         /\ mm_rqs' = <<>> /\ total' = 0 /\ i' = 1
         /\ UNCHANGED <<snapshotSP, leaked>>
      \/ /\ pc = "done" /\ pc' = "hang"
         /\ UNCHANGED <<mm_rqs, total, i, stack, snapshotSP, leaked>>
      \/ /\ pc \in Working \cup {"done"} /\ pending = None /\ pc' = "_start" /\ rsp' = -1
         /\ leaked' = DOMAIN extent
         /\ UNCHANGED <<mm_rqs, total, i, stack, snapshotSP>>
  <2>1. CASE main
    BY <1>1, <2>1 DEF main, getSP, Returns, locals
  <2>2. CASE _start
    <3>1. rsp = -1
      <4>1. pc = "_start"
        BY <2>2 DEF _start
      <4> QED
        BY <1>1, <4>1 DEF Returns
    <3>2. rsp - 1 = -2
      BY <3>1
    <3> QED
      BY <2>2, <3>2 DEF _start
  <2>3. CASE return
    <3>1. rsp = -2 /\ stack[-1] = "hang" /\ rsp + 1 = -1
      BY <1>1, <2>3 DEF return, Returns
    <3> QED
      BY <2>3, <3>1 DEF return, locals
  <2>4. CASE exception
    BY <1>1, <2>4 DEF exception, Returns, locals, Working
  <2> QED
    BY <2>1, <2>2, <2>3, <2>4
<1>4. pending = None
  BY <1>1, <1>3 DEF Loops
<1>5. Types' /\ Loops'
  <2>1. mm_rqs' \in Seq(Requested) /\ total' \in 0 .. MAX_MEMORY /\ (Len(mm_rqs') = 0 => total' = 0)
    <3>1. CASE pc' = "request"
      <4>1. mm_rqs' = <<>> /\ total' = 0
        BY <1>3, <3>1
      <4> QED
        BY <4>1, ProgramAssumption
    <3>2. CASE pc' # "request"
      <4>1. mm_rqs' = mm_rqs /\ total' = total
        BY <1>3, <3>2
      <4> QED
        BY <1>1, <4>1 DEF Types
    <3> QED
      BY <3>1, <3>2
  <2>2. pc' \in {"_start", "request", "hang"} /\ (pc' = "request" => i' = 1)
    BY <1>3
  <2> QED
    BY <1>1, <1>2, <1>4, <2>1, <2>2 DEF Types, Loops, Working
<1>6. Returns'
  <2>1. DOMAIN stack' = -2 .. 0
    BY <1>1, <1>3 DEF Returns
  <2>2. stack'[-1] = "hang" /\ snapshotSP' = -1
    <3>1. -1 \in DOMAIN stack /\ -1 # -2
      BY <1>1 DEF Returns
    <3>2. CASE pc = "main"
      BY <1>3, <3>1, <3>2 DEF Working
    <3>3. CASE pc # "main"
      <4>1. stack[-1] = "hang" /\ snapshotSP = -1 /\ snapshotSP' = snapshotSP
        BY <1>1, <1>3, <3>3 DEF Returns
      <4>2. stack' = stack \/ stack' = [stack EXCEPT ![-2] = "the program's frame"]
        BY <1>3, <3>3
      <4> QED
        BY <3>1, <4>1, <4>2
    <3> QED
      BY <3>2, <3>3
  <2> QED
    BY <1>3, <2>1, <2>2 DEF Returns, Working
<1>7. Mine' = {}
  <2>1. CASE pc' \in {"_start", "hang"}
    BY <2>1 DEF Mine, Working
  <2>2. CASE pc' = "request"
    <3>1. mm_rqs' = <<>>
      BY <1>3, <2>2
    <3> QED
      BY <2>2, <3>1 DEF Mine, From
  <2> QED
    BY <1>3, <2>1, <2>2
<1>8. Apart' /\ BlocksHeld' /\ Written' /\ NoError'
  BY <1>1, <1>2, <1>7 DEF Apart, BlocksHeld, Written, NoError
<1>9. Accounted'
  <2>1. Held' = {}
    BY <1>7, HeldIsMine
  <2>2. DOMAIN extent' = leaked'
    <3>1. CASE pc \in {"main", "_start", "done"} /\ leaked' = leaked
      <4>1. Mine = {}
        BY <3>1 DEF Mine, Working
      <4> QED
        BY <1>1, <1>2, <3>1, <4>1, HeldIsMine DEF Accounted
    <3>2. CASE leaked' = DOMAIN extent
      BY <1>2, <3>2
    <3> QED
      BY <1>3, <3>1, <3>2
  <2> QED
    BY <2>1, <2>2 DEF Accounted
<1> QED
  BY <1>3, <1>5, <1>6, <1>8, <1>9 DEF Inv

(* A request is made.                                                      *)
LEMMA RequestInv ==
  ASSUME Inv, request
  PROVE  Inv'
<1>1. /\ Types /\ Loops /\ Returns /\ Apart /\ BlocksHeld /\ Written /\ NoError /\ Accounted
  BY DEF Inv
<1>2. /\ pc = "request" /\ total < MAX_MEMORY
      /\ UNCHANGED <<extent, byte, mm_rqs, total, i, pc, error>>
      /\ UNCHANGED <<rsp, stack, snapshotSP, leaked>>
  BY DEF request, WantsMore, MM!Ask, locals, machine
<1>3. PICK u \in GetUniform(MAX_MEMORY - total - 1) : pending' = u + 1
  BY DEF request, MM!Ask
<1>4. pending' \in 1 .. (MAX_MEMORY - total) /\ total \in Nat
  BY <1>1, <1>2, <1>3, ProgramAssumption DEF GetUniform, Types
<1>5. Types' /\ Loops'
  BY <1>1, <1>2, <1>4, ProgramAssumption DEF Types, Loops
<1>6. Mine' = Mine /\ \A n : Block(n)' = Block(n)
  BY <1>2 DEF Mine, From, Block
<1>7. Returns' /\ Apart' /\ NoError'
  BY <1>1, <1>2 DEF Returns, Apart, NoError
<1>8. BlocksHeld' /\ Written'
  BY <1>1, <1>2, <1>6 DEF BlocksHeld, Written
<1>9. Accounted'
  BY <1>1, <1>2, <1>6, HeldIsMine DEF Accounted
<1> QED
  BY <1>2, <1>5, <1>7, <1>8, <1>9 DEF Inv

(* A request is answered.                                                  *)
LEMMA ReplyInv ==
  ASSUME Inv, reply
  PROVE  Inv'
<1>1. /\ Types /\ Loops /\ Returns /\ Apart /\ BlocksHeld /\ Written /\ NoError /\ Accounted
  BY DEF Inv
<1>2. /\ mm_rqs' = Append(mm_rqs, [address |-> answer', size |-> pending])
      /\ total' = total + pending
      /\ UNCHANGED <<byte, i, pc, error, rsp, stack, snapshotSP, leaked>>
  BY DEF reply, machine
<1>3. MM!Grant \/ MM!Refuse
  BY DEF reply
<1>4. pending \in 1 .. MAX_MEMORY /\ pc = "request" /\ i = 1 /\ pending <= MAX_MEMORY - total
  <2>1. pending # None
    BY <1>3 DEF MM!Grant, MM!Refuse
  <2> QED
    BY <1>1, <2>1 DEF Types, Loops
<1>5. pending' = None /\ Apart'
  <2>1. CASE MM!Grant
    BY <1>1, <1>4, <2>1, GrantFacts
  <2>2. CASE MM!Refuse
    BY <1>1, <2>2 DEF MM!Refuse, Apart
  <2> QED
    BY <1>3, <2>1, <2>2
<1>6. answer' \in Nat \cup {NULL}
  <2>1. CASE MM!Grant
    <3>1. PICK b \in Arena : answer' = b + Header
      BY <1>1, <1>4, <2>1, GrantFacts
    <3> QED
      BY <3>1, ProgramAssumption
  <2>2. CASE MM!Refuse
    BY <2>2 DEF MM!Refuse
  <2> QED
    BY <1>3, <2>1, <2>2
<1>a. PICK L \in Nat : L = Len(mm_rqs)
  BY <1>1 DEF Types
<1>7. /\ mm_rqs' \in Seq(Requested) /\ Len(mm_rqs') = L + 1
      /\ mm_rqs'[L + 1] = [address |-> answer', size |-> pending]
      /\ \A n \in 1 .. L : mm_rqs'[n] = mm_rqs[n]
  <2>1. [address |-> answer', size |-> pending] \in Requested /\ mm_rqs \in Seq(Requested)
    BY <1>1, <1>4, <1>6 DEF Requested, Types
  <2> QED
    BY <1>2, <1>a, <2>1
<1>8. Types' /\ Loops'
  <2>1. total' \in 0 .. MAX_MEMORY
    BY <1>1, <1>2, <1>4, ProgramAssumption DEF Types
  <2>2. Len(mm_rqs') # 0
    BY <1>7
  <2> QED
    BY <1>1, <1>2, <1>4, <1>5, <1>7, <2>1, <2>2 DEF Types, Loops
<1>9. Returns' /\ NoError' /\ Written'
  BY <1>1, <1>2, <1>4 DEF Returns, NoError, Written
<1>10. \A n \in Mine : n \in 1 .. L /\ mm_rqs'[n] = mm_rqs[n] /\ Block(n)' = Block(n)
  BY <1>1, <1>7, <1>a, MineFacts DEF Block
<1>11. Mine' = IF answer' = NULL THEN Mine ELSE Mine \cup {L + 1}
  <2>1. Mine = {n \in 1 .. L : mm_rqs[n].address # NULL}
    BY <1>4, <1>a DEF Mine, From, Working
  <2>2. Mine' = {n \in 1 .. (L + 1) : mm_rqs'[n].address # NULL}
    BY <1>2, <1>4, <1>7 DEF Mine, From, Working
  <2>3. mm_rqs'[L + 1].address = answer'
    BY <1>7
  <2>4. \A n \in 1 .. (L + 1) : n = L + 1 \/ (n \in 1 .. L /\ mm_rqs'[n].address = mm_rqs[n].address)
    BY <1>7
  <2>5. 1 .. L \subseteq 1 .. (L + 1) /\ L + 1 \in 1 .. (L + 1) /\ L + 1 \notin 1 .. L
    BY <1>7
  <2>6. \A n \in 1 .. L : mm_rqs'[n].address = mm_rqs[n].address
    BY <1>7
  <2> QED
    BY <2>1, <2>2, <2>3, <2>4, <2>5, <2>6
<1>12. BlocksHeld' /\ Accounted'
  <2>1. CASE MM!Grant
    <3>1. PICK b \in Arena \ DOMAIN extent :
            /\ answer' = b + Header /\ DOMAIN extent' = DOMAIN extent \cup {b}
            /\ extent'[b] >= Need(pending)
            /\ \A x \in DOMAIN extent : extent'[x] = extent[x]
      BY <1>1, <1>4, <2>1, GrantFacts
    <3>2. answer' # NULL /\ Block(L + 1)' = b /\ mm_rqs'[L + 1].size = pending
      BY <1>7, <3>1, ProgramAssumption DEF Block
    <3>3. Mine' = Mine \cup {L + 1}
      BY <1>11, <3>2
    <3>4. \A n \in Mine : Block(n) \in DOMAIN extent /\ Block(n) # b
      BY <1>1, <3>1 DEF BlocksHeld
    <3>5. BlocksHeld'
      <4>1. ASSUME NEW n \in Mine'
            PROVE  Block(n)' \in DOMAIN extent' /\ extent'[Block(n)'] >= Need(mm_rqs'[n].size)
        <5>1. CASE n = L + 1
          BY <3>1, <3>2, <5>1
        <5>2. CASE n \in Mine
          BY <1>1, <1>10, <3>1, <5>2 DEF BlocksHeld
        <5> QED
          BY <3>3, <5>1, <5>2
      <4>2. \A m, n \in Mine' : m # n => Block(m)' # Block(n)'
        BY <1>1, <1>10, <3>2, <3>3, <3>4 DEF BlocksHeld
      <4> QED
        BY <4>1, <4>2 DEF BlocksHeld
    <3>6. Held' = Held \cup {b}
      BY <1>10, <3>2, <3>3, HeldIsMine
    <3>7. Accounted'
      BY <1>1, <1>2, <3>1, <3>6 DEF Accounted
    <3> QED
      BY <3>5, <3>7
  <2>2. CASE MM!Refuse
    <3>1. answer' = NULL /\ extent' = extent
      BY <2>2 DEF MM!Refuse
    <3>2. Mine' = Mine
      BY <1>11, <3>1
    <3>3. Held' = Held
      BY <1>10, <3>2, HeldIsMine
    <3>4. BlocksHeld'
      BY <1>1, <1>10, <3>1, <3>2 DEF BlocksHeld
    <3> QED
      BY <1>1, <1>2, <3>1, <3>3, <3>4 DEF Accounted
  <2> QED
    BY <1>3, <2>1, <2>2
<1> QED
  BY <1>2, <1>4, <1>5, <1>8, <1>9, <1>12 DEF Inv

(* The loops' variables, one request further.                              *)
LEMMA AdvanceFacts ==
  ASSUME Types, Loops, pc \in {"set", "check", "free"}, NEW to, Advance(to)
  PROVE  /\ i \in 1 .. Len(mm_rqs) /\ Len(mm_rqs) \in Nat /\ i \in Nat
         /\ mm_rqs' = mm_rqs /\ total' = total
         /\ \/ i = Len(mm_rqs) /\ i' = 1 /\ pc' = to
            \/ i < Len(mm_rqs) /\ i' = i + 1 /\ pc' = pc
         /\ i' \in 1 .. Len(mm_rqs)
<1>1. i \in 1 .. Len(mm_rqs) /\ Len(mm_rqs) \in Nat
  BY DEF Loops, Types
<1>2. mm_rqs' = mm_rqs /\ total' = total
  BY DEF Advance
<1>3. CASE IsLast
  BY <1>1, <1>2, <1>3 DEF Advance, IsLast
<1>4. CASE ~ IsLast
  <2>1. i # Len(mm_rqs) /\ i' = i + 1 /\ pc' = pc
    BY <1>4 DEF Advance, IsLast
  <2> QED
    BY <1>1, <1>2, <2>1
<1> QED
  BY <1>3, <1>4

(* The first loop ends, and the blocks are written to and looked at.       *)
LEMMA RequestedInv ==
  ASSUME Inv, requested
  PROVE  Inv'
<1>1. /\ Types /\ Loops /\ Returns /\ Apart /\ BlocksHeld /\ Written /\ NoError /\ Accounted
  BY DEF Inv
<1>2. /\ pc = "request" /\ pending = None /\ pc' = "set"
      /\ UNCHANGED <<extent, pending, byte, mm_rqs, total, i, error>>
      /\ UNCHANGED <<rsp, stack, snapshotSP, leaked>>
  BY DEF requested, manager, locals, machine
<1>3. i = 1 /\ i \in 1 .. Len(mm_rqs)
  <2>1. i = 1 /\ Len(mm_rqs) \in Nat
    BY <1>1, <1>2 DEF Loops, Types
  <2>2. Len(mm_rqs) # 0
    BY <1>1, ProgramAssumption DEF requested, WantsMore, Types
  <2> QED
    BY <2>1, <2>2
<1>4. Mine' = Mine /\ \A n : Block(n)' = Block(n)
  BY <1>2 DEF Mine, From, Working, Block
<1>5. Types' /\ Loops'
  BY <1>1, <1>2, <1>3 DEF Types, Loops, Working
<1>6. Returns' /\ Apart' /\ NoError' /\ BlocksHeld'
  BY <1>1, <1>2, <1>4 DEF Returns, Apart, NoError, BlocksHeld, Working
<1>7. Written'
  <2>1. \A n \in Mine : ~ n < i
    BY <1>1, <1>3, MineFacts
  <2> QED
    BY <1>2, <1>4, <2>1 DEF Written
<1>8. Accounted'
  BY <1>1, <1>2, <1>4, HeldIsMine DEF Accounted
<1> QED
  BY <1>2, <1>5, <1>6, <1>7, <1>8 DEF Inv

LEMMA MemSetInv ==
  ASSUME Inv, MemSet
  PROVE  Inv'
<1>1. /\ Types /\ Loops /\ Returns /\ Apart /\ BlocksHeld /\ Written /\ NoError /\ Accounted
  BY DEF Inv
<1>2. /\ pc = "set" /\ Advance("check")
      /\ byte' = (IF mm_rqs[i].address = NULL THEN byte
                  ELSE [a \in Arena |-> IF a \in Filled(mm_rqs[i]) THEN i ELSE byte[a]])
      /\ UNCHANGED <<extent, pending, error, rsp, stack, snapshotSP, leaked>>
  BY DEF MemSet, manager, machine
<1>3. /\ i \in 1 .. Len(mm_rqs) /\ Len(mm_rqs) \in Nat /\ i \in Nat
      /\ mm_rqs' = mm_rqs /\ total' = total /\ i' \in 1 .. Len(mm_rqs)
      /\ \/ i = Len(mm_rqs) /\ i' = 1 /\ pc' = "check"
         \/ i < Len(mm_rqs) /\ i' = i + 1 /\ pc' = "set"
  BY <1>1, <1>2, AdvanceFacts
<1>4. Mine' = Mine /\ \A n : Block(n)' = Block(n)
  <2>1. From' = 1 /\ From = 1 /\ pc \in Working /\ pc' \in Working
    BY <1>2, <1>3 DEF From, Working
  <2> QED
    BY <1>3, <2>1 DEF Mine, Block
<1>5. Types' /\ Loops'
  <2>1. byte' \in [Arena -> Int]
    BY <1>1, <1>2, <1>3 DEF Types
  <2>2. pending' = None
    BY <1>1, <1>2 DEF Loops
  <2> QED
    BY <1>1, <1>2, <1>3, <2>1, <2>2 DEF Types, Loops, Working
<1>6. Returns' /\ Apart' /\ NoError' /\ BlocksHeld'
  BY <1>1, <1>2, <1>3, <1>4 DEF Returns, Apart, NoError, BlocksHeld, Working
<1>7. ASSUME NEW n \in Mine, n < i \/ n = i, NEW a \in Filled(mm_rqs[n])
      PROVE  byte'[a] = n
  <2>1. n \in Nat /\ a \in Arena
    BY <1>1, <1>7, MineFacts, FilledApart
  <2>2. CASE n = i
    <3>1. mm_rqs[i].address # NULL
      BY <2>2 DEF Mine
    <3> QED
      BY <1>2, <1>7, <2>1, <2>2, <3>1
  <2>3. CASE n < i
    <3>1. byte[a] = n
      BY <1>1, <1>2, <1>7, <2>3 DEF Written
    <3>2. CASE mm_rqs[i].address = NULL
      BY <1>2, <3>1, <3>2
    <3>3. CASE mm_rqs[i].address # NULL
      <4>1. i \in Mine /\ n # i
        BY <1>2, <1>3, <2>1, <2>3, <3>3 DEF Mine, From, Working
      <4>2. a \notin Filled(mm_rqs[i])
        BY <1>1, <1>7, <4>1, FilledApart
      <4> QED
        BY <1>2, <2>1, <3>1, <3>3, <4>2
    <3> QED
      BY <3>2, <3>3
  <2> QED
    BY <1>7, <2>2, <2>3
<1>8. Written'
  <2>1. ASSUME NEW n \in Mine', pc' = "check" \/ n < i'
        PROVE  n \in Mine /\ (n < i \/ n = i)
    <3>1. n \in Mine /\ n \in 1 .. Len(mm_rqs)
      BY <1>1, <1>4, <2>1, MineFacts
    <3> QED
      BY <1>3, <2>1, <3>1
  <2>2. ASSUME NEW n \in Mine', pc' = "check" \/ n < i', NEW a \in Filled(mm_rqs'[n])
        PROVE  byte'[a] = n
    BY <1>3, <1>7, <2>1, <2>2
  <2>3. \A n : Filled(mm_rqs[n])' = Filled(mm_rqs'[n])
    BY DEF Filled
  <2> QED
    BY <2>2, <2>3 DEF Written
<1>9. Accounted'
  BY <1>1, <1>2, <1>4, HeldIsMine DEF Accounted
<1>10. pc' # "main"
  BY <1>3
<1> QED
  BY <1>5, <1>6, <1>8, <1>9, <1>10 DEF Inv

LEMMA CheckInv ==
  ASSUME Inv, check
  PROVE  Inv'
<1>1. /\ Types /\ Loops /\ Returns /\ Apart /\ BlocksHeld /\ Written /\ NoError /\ Accounted
  BY DEF Inv
<1>2. /\ pc = "check" /\ Advance("free")
      /\ error' = (error \/ (/\ mm_rqs[i].address # NULL
                             /\ \E a \in memcheck(mm_rqs[i]) : byte[a] # i))
      /\ UNCHANGED <<extent, pending, byte, rsp, stack, snapshotSP, leaked>>
  BY DEF check, manager, machine
<1>3. /\ i \in 1 .. Len(mm_rqs) /\ Len(mm_rqs) \in Nat /\ i \in Nat
      /\ mm_rqs' = mm_rqs /\ total' = total /\ i' \in 1 .. Len(mm_rqs)
      /\ \/ i = Len(mm_rqs) /\ i' = 1 /\ pc' = "free"
         \/ i < Len(mm_rqs) /\ i' = i + 1 /\ pc' = "check"
  BY <1>1, <1>2, AdvanceFacts
<1>4. Mine' = Mine /\ \A n : Block(n)' = Block(n)
  <2>1. From' = 1 /\ From = 1 /\ pc \in Working /\ pc' \in Working
    BY <1>2, <1>3 DEF From, Working
  <2> QED
    BY <1>3, <2>1 DEF Mine, Block
<1>5. Types' /\ Loops'
  <2>1. pending' = None
    BY <1>1, <1>2 DEF Loops
  <2> QED
    BY <1>1, <1>2, <1>3, <2>1 DEF Types, Loops, Working
<1>6. Returns' /\ Apart' /\ BlocksHeld'
  BY <1>1, <1>2, <1>3, <1>4 DEF Returns, Apart, BlocksHeld, Working
<1>7. NoError'
  <2> SUFFICES ASSUME mm_rqs[i].address # NULL, NEW a \in memcheck(mm_rqs[i])
               PROVE  byte[a] = i
    BY <1>1, <1>2 DEF NoError
  <2>1. i \in Mine /\ a \in Filled(mm_rqs[i])
    BY <1>2, <1>3 DEF Mine, From, Working, memcheck, Filled
  <2> QED
    BY <1>1, <1>2, <2>1 DEF Written
<1>8. Written'
  <2>1. \A n : Filled(mm_rqs[n])' = Filled(mm_rqs[n])
    BY <1>3 DEF Filled
  <2> QED
    BY <1>1, <1>2, <1>3, <1>4, <2>1 DEF Written
<1>9. Accounted'
  BY <1>1, <1>2, <1>4, HeldIsMine DEF Accounted
<1>10. pc' # "main"
  BY <1>3
<1> QED
  BY <1>5, <1>6, <1>7, <1>8, <1>9, <1>10 DEF Inv

(* A block is given back, or was never given.                              *)
LEMMA MfreeInv ==
  ASSUME Inv, Mfree
  PROVE  Inv'
<1>1. /\ Types /\ Loops /\ Returns /\ Apart /\ BlocksHeld /\ Written /\ NoError /\ Accounted
  BY DEF Inv
<1>2. /\ pc = "free" /\ Advance("done")
      /\ UNCHANGED <<byte, error, rsp, stack, snapshotSP, leaked>>
  BY DEF Mfree, machine
<1>3. /\ i \in 1 .. Len(mm_rqs) /\ Len(mm_rqs) \in Nat /\ i \in Nat
      /\ mm_rqs' = mm_rqs /\ total' = total /\ i' \in 1 .. Len(mm_rqs)
      /\ \/ i = Len(mm_rqs) /\ i' = 1 /\ pc' = "done"
         \/ i < Len(mm_rqs) /\ i' = i + 1 /\ pc' = "free"
  BY <1>1, <1>2, AdvanceFacts
<1>4. Mine' = Mine \ {i} /\ \A n : Block(n)' = Block(n)
  <2>1. Mine = {n \in i .. Len(mm_rqs) : mm_rqs[n].address # NULL}
    BY <1>2 DEF Mine, From, Working
  <2>2. CASE i = Len(mm_rqs) /\ pc' = "done"
    <3>1. Mine' = {}
      BY <2>2 DEF Mine, Working
    <3>2. \A n \in Mine : n = i
      BY <1>3, <2>1, <2>2
    <3> QED
      BY <1>3, <3>1, <3>2 DEF Block
  <2>3. CASE i < Len(mm_rqs) /\ i' = i + 1 /\ pc' = "free"
    <3>1. Mine' = {n \in (i + 1) .. Len(mm_rqs) : mm_rqs[n].address # NULL}
      BY <1>3, <2>3 DEF Mine, From, Working
    <3>2. \A n : n \in (i + 1) .. Len(mm_rqs) <=> n \in i .. Len(mm_rqs) /\ n # i
      BY <1>3
    <3> QED
      BY <1>3, <2>1, <3>1, <3>2 DEF Block
  <2> QED
    BY <1>3, <2>2, <2>3
<1>5. /\ Apart' /\ pending' = pending
      /\ DOMAIN extent' = DOMAIN extent \ (IF i \in Mine THEN {Block(i)} ELSE {})
      /\ \A x \in DOMAIN extent' : extent'[x] = extent[x]
  <2>1. i \in Mine <=> mm_rqs[i].address # NULL
    BY <1>2, <1>3 DEF Mine, From, Working
  <2>2. CASE mm_rqs[i].address = NULL
    <3>1. UNCHANGED <<extent, pending>>
      BY <2>2 DEF Mfree, manager
    <3> QED
      BY <1>1, <2>1, <2>2, <3>1 DEF Apart
  <2>3. CASE mm_rqs[i].address # NULL
    <3>1. MM!Release(Block(i))
      BY <2>3 DEF Mfree, Block
    <3> QED
      BY <1>1, <2>1, <2>3, <3>1, ReleaseFacts
  <2> QED
    BY <2>2, <2>3
<1>6. Types' /\ Loops'
  <2>1. pending' = None
    BY <1>1, <1>2, <1>5 DEF Loops
  <2> QED
    BY <1>1, <1>2, <1>3, <2>1 DEF Types, Loops, Working
<1>7. Returns' /\ NoError' /\ Written'
  BY <1>1, <1>2, <1>3 DEF Returns, NoError, Written, Working
<1>8. BlocksHeld'
  <2>1. ASSUME NEW n \in Mine'
        PROVE  Block(n) \in DOMAIN extent' /\ extent'[Block(n)] >= Need(mm_rqs[n].size)
    <3>1. n \in Mine /\ (i \in Mine => Block(n) # Block(i))
      BY <1>1, <1>4 DEF BlocksHeld
    <3> QED
      BY <1>1, <1>5, <3>1 DEF BlocksHeld
  <2> QED
    BY <1>1, <1>3, <1>4, <2>1 DEF BlocksHeld
<1>9. Accounted'
  <2>1. Held' = Held \ (IF i \in Mine THEN {Block(i)} ELSE {})
    <3>1. Held' = {Block(n) : n \in Mine \ {i}} /\ Held = {Block(n) : n \in Mine}
      BY <1>4, HeldIsMine
    <3>2. \A n \in Mine \ {i} : i \in Mine => Block(n) # Block(i)
      BY <1>1 DEF BlocksHeld
    <3> QED
      BY <3>1, <3>2
  <2>2. i \in Mine => Block(i) \in Held
    BY HeldIsMine
  <2> QED
    BY <1>1, <1>2, <1>5, <2>1, <2>2 DEF Accounted
<1>10. pc' # "main"
  BY <1>3
<1> QED
  BY <1>5, <1>6, <1>7, <1>8, <1>9, <1>10 DEF Inv
-----------------------------------------------------------------------------
LEMMA InitInv == Init => Inv
<1> SUFFICES ASSUME Init PROVE Inv
  OBVIOUS
<1>1. /\ pending = None /\ mm_rqs = <<>> /\ total = 0 /\ i = 1 /\ error = FALSE
      /\ pc = "main" /\ rsp = 0 /\ leaked = {}
  BY DEF Init, MM!Init
<1>a. extent = [b \in {} |-> 0] /\ byte = [a \in Arena |-> NULL]
  BY DEF Init, MM!Init
<1>b. DOMAIN stack = -2 .. 0
  BY DEF Init
<1>2. Types /\ Loops
  <2>1. mm_rqs \in Seq(Requested)
    BY <1>1
  <2>2. byte \in [Arena -> Int]
    BY <1>a
  <2>3. total \in 0 .. MAX_MEMORY
    BY <1>1, ProgramAssumption
  <2> QED
    BY <1>1, <2>1, <2>2, <2>3 DEF Types, Loops, Working
<1>3. Returns
  BY <1>1, <1>b DEF Returns, Working
<1>4. DOMAIN extent = {} /\ Mine = {}
  BY <1>1, <1>a DEF Mine, Working
<1>5. Apart /\ BlocksHeld /\ Written /\ NoError
  BY <1>1, <1>4 DEF Apart, BlocksHeld, Written, NoError
<1>6. Accounted
  BY <1>1, <1>4, HeldIsMine DEF Accounted
<1> QED
  BY <1>1, <1>a, <1>2, <1>3, <1>5, <1>6 DEF Inv

LEMMA NextInv == Inv /\ [Next]_vars => Inv'
<1> SUFFICES ASSUME Inv, [Next]_vars PROVE Inv'
  OBVIOUS
<1>1. CASE UNCHANGED vars
  <2>1. /\ UNCHANGED <<extent, pending, byte, mm_rqs, total, i, pc, error>>
        /\ UNCHANGED <<rsp, stack, snapshotSP, leaked>>
    BY <1>1 DEF vars, manager, machine, locals
  <2>2. Mine' = Mine /\ \A n : Block(n)' = Block(n) /\ Filled(mm_rqs[n])' = Filled(mm_rqs[n])
    BY <2>1 DEF Mine, From, Block, Filled
  <2>3. Types' /\ Loops' /\ Returns' /\ Apart' /\ NoError'
    BY <2>1 DEF Inv, Types, Loops, Returns, Apart, NoError
  <2>4. BlocksHeld' /\ Written'
    BY <2>1, <2>2 DEF Inv, BlocksHeld, Written
  <2>5. Accounted'
    BY <2>1, <2>2, HeldIsMine DEF Inv, Accounted
  <2> QED
    BY <2>1, <2>3, <2>4, <2>5 DEF Inv
<1> QED
  BY <1>1, CallInv, RequestInv, ReplyInv, RequestedInv, MemSetInv, CheckInv, MfreeInv
     DEF Next, Code

THEOREM Invariant == Spec => []Inv
BY InitInv, NextInv, PTL DEF Spec

(* The test finds in every block what it wrote there, with any memory      *)
(* manager that keeps the promises of module Allocator.                    *)
THEOREM TestNeverFails == Spec => []NoError
<1>1. Inv => NoError
  BY DEF Inv
<1> QED
  BY <1>1, Invariant, PTL

(* What is in use is what exceptions have leaked and what the program      *)
(* holds.                                                                  *)
THEOREM MemoryAccounted == Spec => []Accounted
<1>1. Inv => Accounted
  BY DEF Inv
<1> QED
  BY <1>1, Invariant, PTL
=============================================================================
