----------------------------- MODULE HeapProofs -----------------------------
(* The memory manager's properties, proved for every arena and every       *)
(* sequence of calls.                                                      *)
EXTENDS Heap, FiniteSetTheorems, WellFoundedInduction, TLAPS

USE DEF NULL, None, BYTE_ALIGNMENT, heapStructSize, heapMINIMUM_BLOCK_SIZE

(* Where the ends of the arena are.                                        *)
LEMMA Layout ==
  /\ Start \in Nat /\ Base \in Nat /\ End \in Nat
  /\ 0 < Start /\ Start < Base /\ Base + 64 <= End /\ End < AllocatedBit
  /\ Base % 64 = 0 /\ End % 64 = 0
  /\ AllocatedBit \in Nat
<1>1. sbrk_handler = START_ADDRESS
  BY HeapAssumption DEF sbrk_handler
<1>2. /\ Base \in Nat /\ Base % 64 = 0
      /\ START_ADDRESS <= Base /\ Base < START_ADDRESS + 64
  BY <1>1, HeapAssumption DEF Base, Aligned, AlignDown
<1>3. /\ End \in Nat /\ End % 64 = 0
      /\ START_ADDRESS + TOTAL_HEAP_SIZE - 128 < End
      /\ End < START_ADDRESS + TOTAL_HEAP_SIZE
  BY <1>1, HeapAssumption DEF End, AlignDown
<1>4. Base + 64 <= End
  BY <1>2, <1>3, HeapAssumption
<1> QED
  BY <1>2, <1>3, <1>4, HeapAssumption

(* A block size that checkSize lets through is aligned and leaves room for *)
(* the header: none of the wrap-around tests of lines 51-63 ever fires.    *)
LEMMA BlockSizeLarge ==
  ASSUME NEW n \in Requests, n < AllocatedBit, BlockSize(n) > 0
  PROVE  /\ BlockSize(n) \in Nat
         /\ BlockSize(n) % 64 = 0
         /\ BlockSize(n) >= n + 64 /\ n > 0
<1>1. n \in Nat /\ AllocatedBit \in Nat /\ AllocatedBit > 128
  BY HeapAssumption, Layout
<1>2. n > 0
  BY <1>1 DEF BlockSize
<1>3. Wrap(n + 64) = n + 64
  BY <1>1 DEF Wrap
<1>4. BlockSize(n) = RoundUp(n + 64)
  BY <1>1, <1>2, <1>3 DEF BlockSize
<1>5. Wrap((n + 64) + (64 - ((n + 64) % 64))) = (n + 64) + (64 - ((n + 64) % 64))
  BY <1>1 DEF Wrap
<1> QED
  BY <1>1, <1>2, <1>4, <1>5 DEF RoundUp, Aligned

(* What the type invariant says of headers.                                *)
LEMMA HeaderFacts ==
  ASSUME TypeOK
  PROVE  /\ blocks \subseteq Headers /\ End \notin blocks /\ End \in Headers
         /\ \A b \in Headers : b \in Nat /\ b % 64 = 0 /\ Base <= b /\ b <= End /\ Start < b
         /\ \A b \in Headers \cup {Start} :
              /\ Next_(b) \in Headers \cup {NULL}
              /\ Size(b) \in Nat /\ Size(b) <= End - Base
              /\ mem[b].owned \in BOOLEAN
<1>1. mem \in [Headers \cup {Start} -> HeaderType] /\ blocks \subseteq Headers \ {End}
  BY DEF TypeOK
<1>2. \A b \in Headers \cup {Start} : mem[b] \in HeaderType
  BY <1>1
<1>3. \A b \in Headers \cup {Start} :
        /\ Next_(b) \in Headers \cup {NULL}
        /\ Size(b) \in Nat /\ Size(b) <= End - Base
        /\ mem[b].owned \in BOOLEAN
  BY <1>2, Layout DEF HeaderType, Next_, Size
<1>4. /\ End \in Headers
      /\ \A b \in Headers : b \in Nat /\ b % 64 = 0 /\ Base <= b /\ b <= End /\ Start < b
  BY Layout DEF Headers, Aligned
<1> QED
  BY <1>1, <1>3, <1>4

(* A malloc that searches runs on a heap that has been set up.             *)
LEMMA UpAndRunning ==
  ASSUME TypeOK, SetUp, pc \notin {"idle", "init"} \/ blocks # {}
  PROVE  /\ pEnd = End /\ pc # "init" /\ Base \in blocks
         /\ Size(Start) = 0 /\ ~ mem[Start].owned
         /\ Size(End) = 0 /\ ~ mem[End].owned /\ Next_(End) = NULL
BY DEF TypeOK, SetUp, Size, Next_

(* Cardinalities of intervals of addresses.                                *)
LEMMA SpanSize ==
  ASSUME NEW a \in Nat, NEW n \in Nat
  PROVE  IsFiniteSet(a .. (a + n - 1)) /\ Cardinality(a .. (a + n - 1)) = n
<1>1. a + n - 1 \in Int /\ a \in Int
  OBVIOUS
<1> QED
  BY <1>1, FS_Interval

(* Adding a block's bytes to a finite set of others adds their number:     *)
(* what the count does when a block is freed (line 204).                   *)
LEMMA AddSpan ==
  ASSUME NEW S, NEW T, IsFiniteSet(S), NEW a \in Nat, NEW n \in Nat,
         S \cap (a .. (a + n - 1)) = {}, T = S \cup (a .. (a + n - 1))
  PROVE  IsFiniteSet(T) /\ Cardinality(T) = Cardinality(S) + n
<1>1. IsFiniteSet(a .. (a + n - 1)) /\ Cardinality(a .. (a + n - 1)) = n
  BY SpanSize
<1>2. Cardinality(S \cap (a .. (a + n - 1))) = 0
  BY FS_EmptySet
<1>3. Cardinality(S) \in Nat
  BY FS_CardinalityType
<1>4. /\ IsFiniteSet(T)
      /\ Cardinality(T) = Cardinality(S) + Cardinality(a .. (a + n - 1))
                            - Cardinality(S \cap (a .. (a + n - 1)))
  BY <1>1, FS_Union
<1> QED
  BY <1>1, <1>2, <1>3, <1>4

(* The free bytes are part of the arena, so they can be counted.           *)
LEMMA FreeSpaceFinite == IsFiniteSet(FreeSpace) /\ IsFiniteSet(FreeSpace')
<1>1. IsFiniteSet(Arena)
  <2>1. Base \in Int /\ End - 1 \in Int
    BY Layout
  <2> QED
    BY <2>1, FS_Interval DEF Arena
<1>2. FreeSpace \in SUBSET Arena /\ FreeSpace' \in SUBSET Arena
  BY DEF FreeSpace
<1> QED
  BY <1>1, <1>2, FS_Subset

(* The bytes a block covers are the arena's.                               *)
LEMMA BlockInArena ==
  ASSUME TypeOK, Tiling, NEW b \in blocks
  PROVE  /\ b \in Nat /\ Size(b) \in Nat /\ b + Size(b) <= End
         /\ b .. (b + Size(b) - 1) \subseteq Arena
<1>1. /\ b \in Nat /\ Size(b) \in Nat /\ Base <= b
      /\ b + Size(b) \in blocks \cup {End}
  BY HeaderFacts DEF Tiling
<1>2. b + Size(b) <= End
  BY <1>1, HeaderFacts, Layout
<1> QED
  BY <1>1, <1>2, Layout DEF Arena

-----------------------------------------------------------------------------
(* The heap before its first malloc satisfies the invariant (lines 22-34). *)
LEMMA InitInv == Init => Inv
<1> SUFFICES ASSUME Init PROVE Inv
  OBVIOUS
<1>1. /\ TypeOK /\ SetUp /\ Tiling /\ FreeListOrdered /\ Coalesced
      /\ Ownership /\ StaleCleared /\ InCall
  BY Layout DEF Init, TypeOK, SetUp, Tiling, FreeListOrdered, Coalesced, Ownership,
     StaleCleared, InCall, Free, Listed, Detached, Allocating, Taken, header, HeaderType,
     Headers, Arena
<1>2. FreeSpace = {} /\ freeBytesRemaining = 0
  BY DEF Init, FreeSpace, Free
<1>3. Accounting
  BY <1>2, FS_EmptySet DEF Accounting
<1> QED
  BY <1>1, <1>3 DEF Inv

(* A step that changes neither the free blocks, nor a size, nor the count. *)
LEMMA SameAccounting ==
  ASSUME Accounting, Free' = Free, freeBytesRemaining' = freeBytesRemaining,
         \A b \in Free : mem'[b].size = mem[b].size
  PROVE  Accounting'
<1>1. FreeSpace' = FreeSpace
  BY DEF FreeSpace, Size
<1> QED
  BY <1>1 DEF Accounting

(* Entering RTOSMalloc disturbs nothing (lines 38-44).                     *)
LEMMA MallocInv ==
  ASSUME Inv, NEW n \in Requests, RTOSMalloc(n)
  PROVE  Inv'
<1> USE DEF Inv, RTOSMalloc, globals
<1> n \in Nat /\ n # None
  BY HeapAssumption
<1>1. TypeOK'
  BY DEF TypeOK
<1>2. Free' = Free /\ Listed' = Listed /\ mem' = mem /\ blocks' = blocks /\ pEnd' = pEnd
  BY DEF Free, Listed, Detached
<1>3. SetUp' /\ Tiling' /\ Coalesced' /\ FreeListOrdered' /\ Ownership' /\ StaleCleared'
  BY <1>2 DEF SetUp, Tiling, Coalesced, FreeListOrdered, Ownership, StaleCleared, Size, Next_
<1>4. InCall'
  BY DEF InCall, Allocating, Taken, TypeOK
<1>5. Accounting'
  BY <1>2, SameAccounting
<1> QED
  BY <1>1, <1>3, <1>4, <1>5

(* initHeap's single block satisfies the invariant (lines 137-183).        *)
LEMMA InitHeapInv ==
  ASSUME Inv, initHeap
  PROVE  Inv'
<1>1. /\ pEnd' = End /\ freeBytesRemaining' = End - Base /\ blocks' = {Base}
      /\ pc = "init" /\ pc' = "check" /\ UNCHANGED <<locals, returnp, asked, live, stale>>
  BY DEF initHeap
<1>2. /\ TypeOK /\ InCall /\ blocks = {} /\ DOMAIN live = {} /\ stale = {}
      /\ mem \in [Headers \cup {Start} -> HeaderType]
  BY <1>1, Layout DEF Inv, SetUp, TypeOK
<1>3. /\ Base \in Headers /\ End \in Headers
      /\ Start # Base /\ Start # End /\ Base # End
  BY Layout DEF Headers, Aligned
<1>4. /\ mem' \in [Headers \cup {Start} -> HeaderType]
      /\ mem'[Start] = header(Base, 0, FALSE) /\ mem'[Base] = header(End, End - Base, FALSE)
      /\ mem'[End] = header(NULL, 0, FALSE)
  <2>1. /\ header(Base, 0, FALSE) \in HeaderType /\ header(End, End - Base, FALSE) \in HeaderType
        /\ header(NULL, 0, FALSE) \in HeaderType
    BY <1>3, Layout DEF HeaderType, header
  <2>2. mem' = [mem EXCEPT ![Start] = header(Base, 0, FALSE), ![End] = header(NULL, 0, FALSE),
                           ![Base] = header(End, End - Base, FALSE)]
    BY DEF initHeap
  <2> QED
    BY <1>2, <1>3, <2>1, <2>2
<1>5. TypeOK'
  <2>1. /\ End - Base \in 0 .. (End - Base)
        /\ {Base} \subseteq Headers \ {End}
    BY <1>3, Layout
  <2> QED
    BY <1>1, <1>2, <1>3, <1>4, <2>1 DEF TypeOK, locals
<1>6. Free' = {Base} /\ Listed' = {Base}
  BY <1>1, <1>4 DEF Free, Listed, Detached, header
<1>7. SetUp' /\ Tiling' /\ Coalesced' /\ FreeListOrdered'
  <2>1. /\ mem'[Start].next = Base /\ mem'[Start].size = 0 /\ mem'[Start].owned = FALSE
        /\ mem'[Base].next = End /\ mem'[Base].size = End - Base
        /\ mem'[End].next = NULL /\ mem'[End].size = 0 /\ mem'[End].owned = FALSE
    BY <1>4 DEF header
  <2>2. SetUp'
    BY <1>1, <2>1, Layout DEF SetUp
  <2>3. Tiling' /\ Coalesced'
    BY <1>1, <1>6, <2>1, Layout DEF Tiling, Coalesced, Size, Aligned
  <2>4. FreeListOrdered'
    BY <1>1, <1>6, <2>1, Layout DEF FreeListOrdered, Next_
  <2> QED
    BY <2>2, <2>3, <2>4
<1>8. Ownership' /\ StaleCleared'
  BY <1>1, <1>2, <1>6 DEF Ownership, StaleCleared
<1>9. InCall'
  BY <1>1, <1>2 DEF InCall, Allocating, Taken, locals
<1>10. Accounting'
  <2>1. FreeSpace' = Base .. (Base + (End - Base) - 1)
    <3>1. Free' = {Base} /\ mem'[Base].size = End - Base
      BY <1>4, <1>6 DEF header
    <3> QED
      BY <3>1, Layout DEF FreeSpace, Size, Arena
  <2>2. Cardinality(FreeSpace') = End - Base
    <3>1. Base \in Nat /\ End - Base \in Nat
      BY Layout
    <3> QED
      BY <2>1, <3>1, SpanSize
  <2> QED
    BY <1>1, <2>2 DEF Accounting
<1> QED
  BY <1>5, <1>7, <1>8, <1>9, <1>10 DEF Inv

(* Rounding the request up and testing it against the count starts the     *)
(* walk on the header start, or ends the call (lines 46-71).               *)
LEMMA CheckSizeInv ==
  ASSUME Inv, checkSize
  PROVE  Inv'
<1> USE DEF Inv, checkSize, globals, Return
<1>1. pc' \in {"find", "idle"} /\ pEnd = End /\ Listed' = Listed /\ Free' = Free
  BY Layout DEF SetUp, TypeOK, Free, Listed, Detached
<1>2. SetUp' /\ Tiling' /\ Coalesced' /\ FreeListOrdered' /\ Ownership' /\ StaleCleared'
  BY <1>1 DEF SetUp, Tiling, Coalesced, FreeListOrdered, Ownership, StaleCleared, Size, Next_
<1>5. Accounting'
  BY <1>1, SameAccounting
<1>3. CASE pc' = "idle"
  <2>1. TypeOK' /\ InCall'
    BY <1>3 DEF TypeOK, InCall, Allocating, Taken
  <2> QED
    BY <1>2, <1>5, <2>1
<1>4. CASE pc' = "find"
  <2>1. /\ requestedSize \in Requests /\ requestedSize < AllocatedBit /\ asked = requestedSize
        /\ BlockSize(requestedSize) > 0
        /\ requestedSize' = BlockSize(requestedSize)
        /\ prevp' = Start /\ currp' = mem[Start].next /\ asked' = asked
        /\ iteratorp' = iteratorp /\ blockToInsert' = blockToInsert
    BY <1>4 DEF HasRoom, InCall, TypeOK
  <2>2. /\ requestedSize' \in Nat /\ requestedSize' % 64 = 0
        /\ asked > 0 /\ requestedSize' >= asked + 64
    BY <2>1, BlockSizeLarge
  <2>3. currp' \in Listed \cup {End} /\ \A b \in Listed : currp' <= b
    <3>1. Start < Base /\ Listed \subseteq Headers /\ \A b \in Headers : b >= Base
      BY Layout DEF TypeOK, Listed, Free, Headers
    <3>2. /\ Next_(Start) \in Listed \cup {End}
          /\ \A c \in Listed : Start < c => Next_(Start) <= c
      BY <1>1, Layout DEF FreeListOrdered
    <3>3. currp' = Next_(Start)
      BY <2>1 DEF Next_
    <3>4. \A c \in Listed : Start < c
      BY <3>1, Layout DEF Headers
    <3> HIDE DEF Inv, checkSize, globals, Return
    <3> QED
      BY <3>2, <3>3, <3>4
  <2>4. TypeOK'
    BY <1>4, <2>1, <2>2, <2>3, Layout DEF TypeOK, HeaderType, Listed, Free
  <2>5. currp' \in Int /\ \A b \in Listed : b \in Int
    BY <2>4, Layout DEF TypeOK, Listed, Free, Headers
  <2>6. InCall'
    BY <1>1, <1>4, <2>1, <2>2, <2>3, <2>5 DEF InCall, Allocating, Taken, Next_, Aligned
  <2> QED
    BY <1>2, <1>5, <2>4, <2>6
<1> QED
  BY <1>1, <1>3, <1>4

(* The walk for a block stays in the list and skips only blocks that are   *)
(* too small (lines 73-76).                                                *)
LEMMA WalkToFitInv ==
  ASSUME Inv, walkToFit
  PROVE  Inv'
<1>1. /\ pc = "find" /\ TooSmall(currp) /\ Next_(currp) # NULL
      /\ prevp' = currp /\ currp' = Next_(currp)
      /\ UNCHANGED <<pc, requestedSize, returnp, iteratorp, blockToInsert>>
      /\ UNCHANGED <<mem, pEnd, freeBytesRemaining, blocks, asked, live, stale>>
  BY DEF walkToFit, Next_, globals, ghosts
<1>2. /\ TypeOK /\ SetUp /\ Tiling /\ FreeListOrdered /\ Coalesced
      /\ Ownership /\ StaleCleared /\ InCall /\ Accounting
  BY DEF Inv
<1>3. /\ pEnd = End /\ Next_(End) = NULL
  BY <1>1, <1>2, UpAndRunning
<1>4. /\ prevp \in Listed \cup {Start} /\ currp = Next_(prevp)
      /\ \A b \in Listed : b < currp => TooSmall(b)
  BY <1>1, <1>2 DEF InCall
<1>5. currp \in Listed
  BY <1>1, <1>2, <1>3, <1>4, Layout DEF FreeListOrdered
<1>6. /\ currp' \in Listed \cup {End}
      /\ \A b \in Listed : currp < b => currp' <= b
  BY <1>1, <1>2, <1>3, <1>5, Layout DEF FreeListOrdered
<1>7. Listed \subseteq Headers
  BY <1>2, HeaderFacts DEF Listed, Free
<1>8. Listed' = Listed /\ Free' = Free
  BY <1>1 DEF Listed, Free, Detached
<1>9. TypeOK'
  BY <1>1, <1>2, <1>5, <1>6, <1>7, HeaderFacts DEF TypeOK
<1>10. SetUp' /\ Tiling' /\ Coalesced' /\ FreeListOrdered' /\ Ownership' /\ StaleCleared'
  BY <1>1, <1>2, <1>8 DEF SetUp, Tiling, Coalesced, FreeListOrdered, Ownership, StaleCleared, Size, Next_
<1>11. \A b \in Listed' : b < currp' => TooSmall(b)'
  <2> SUFFICES ASSUME NEW b \in Listed, b < currp'
               PROVE  TooSmall(b)'
    BY <1>8
  <2>1. b \in Nat /\ currp \in Nat /\ currp' \in Nat
    BY <1>5, <1>6, <1>7, Layout, <1>2, HeaderFacts
  <2>2. b < currp \/ b = currp
    BY <2>1, <1>6
  <2>3. TooSmall(b)
    BY <2>2, <1>4, <1>1
  <2> QED
    BY <2>3, <1>1 DEF TooSmall
<1>12. InCall'
  BY <1>1, <1>2, <1>5, <1>8, <1>11 DEF InCall, Allocating, Taken, Next_
<1>13. Accounting'
  BY <1>1, <1>2, <1>8, SameAccounting
<1> QED
  BY <1>9, <1>10, <1>12, <1>13 DEF Inv

(* The walk for a place stays in the list, below the block to insert       *)
(* (lines 222-225).                                                        *)
LEMMA WalkToPlaceInv ==
  ASSUME Inv, walkToPlace
  PROVE  Inv'
<1>1. /\ pc = "insert" /\ Next_(iteratorp) < blockToInsert /\ iteratorp' = Next_(iteratorp)
      /\ UNCHANGED <<pc, requestedSize, prevp, currp, returnp, blockToInsert>>
      /\ UNCHANGED <<mem, pEnd, freeBytesRemaining, blocks, asked, live, stale>>
  BY DEF walkToPlace, Before, Next_, globals, ghosts
<1>2. /\ TypeOK /\ SetUp /\ Tiling /\ FreeListOrdered /\ Coalesced
      /\ Ownership /\ StaleCleared /\ InCall /\ Accounting
  BY DEF Inv
<1>3. pEnd = End
  BY <1>1, <1>2, UpAndRunning
<1>4. /\ blockToInsert \in Free /\ iteratorp \in Listed \cup {Start}
  BY <1>1, <1>2 DEF InCall
<1>5. Listed \subseteq Headers /\ blockToInsert \in Nat /\ blockToInsert <= End
  BY <1>2, <1>4, HeaderFacts DEF Listed, Free
<1>6. iteratorp' \in Listed
  BY <1>1, <1>2, <1>3, <1>4, <1>5, Layout DEF FreeListOrdered
<1>7. Listed' = Listed /\ Free' = Free
  BY <1>1 DEF Listed, Free, Detached
<1>8. TypeOK'
  BY <1>1, <1>2, <1>5, <1>6 DEF TypeOK
<1>9. SetUp' /\ Tiling' /\ Coalesced' /\ FreeListOrdered' /\ Ownership' /\ StaleCleared'
  BY <1>1, <1>2, <1>7 DEF SetUp, Tiling, Coalesced, FreeListOrdered, Ownership, StaleCleared, Size, Next_
<1>10. InCall'
  BY <1>1, <1>2, <1>6, <1>7 DEF InCall, Allocating, Taken, Size, Next_
<1>11. Accounting'
  BY <1>1, <1>2, <1>7, SameAccounting
<1> QED
  BY <1>8, <1>9, <1>10, <1>11 DEF Inv

(* Marking the block and charging it leaves the count exact and gives the  *)
(* client bytes that no one else has (lines 104-113).                      *)
LEMMA OwnBlockInv ==
  ASSUME Inv, ownBlock
  PROVE  Inv'
<1>1. /\ pc = "own" /\ pc' = "idle" /\ asked' = None
      /\ requestedSize' = 0 /\ prevp' = NULL /\ currp' = NULL
      /\ iteratorp' = NULL /\ blockToInsert' = NULL
      /\ freeBytesRemaining' = freeBytesRemaining - Size(currp)
      /\ live' = [p \in DOMAIN live \cup {returnp} |-> IF p = returnp THEN asked ELSE live[p]]
      /\ stale' = {p \in stale : p - 64 \notin Handed(currp)}
      /\ UNCHANGED <<pEnd, returnp, blocks>>
  BY DEF ownBlock, Return, Size, Charged
<1>2. /\ TypeOK /\ SetUp /\ Tiling /\ FreeListOrdered /\ Coalesced
      /\ Ownership /\ StaleCleared /\ InCall /\ Accounting
  BY DEF Inv
<1>3. /\ currp \in Free /\ Size(currp) >= requestedSize /\ returnp = currp + 64
      /\ requestedSize >= asked + 64 /\ asked \in Requests /\ asked \in Nat
      /\ requestedSize \in Nat
      /\ blockToInsert = NULL
  BY <1>1, <1>2, HeapAssumption DEF InCall, Taken, Allocating, TypeOK
<1>4. /\ currp \in Headers /\ currp # Start /\ currp # End /\ currp \in Nat /\ Size(currp) \in Nat
      /\ Size(currp) > 0 /\ NULL \notin blocks
  BY <1>2, <1>3, HeaderFacts, Layout DEF Free, Tiling
<1>5. /\ mem' \in [Headers \cup {Start} -> HeaderType]
      /\ mem'[currp].owned = TRUE /\ mem'[currp].next = NULL /\ mem'[currp].size = mem[currp].size
      /\ \A b \in (Headers \cup {Start}) \ {currp} : mem'[b] = mem[b]
  <2>1. mem \in [Headers \cup {Start} -> HeaderType]
    BY <1>2 DEF TypeOK
  <2>2. mem[currp] \in HeaderType
    BY <2>1, <1>4
  <2>3. mem' = [mem EXCEPT ![currp].owned = TRUE, ![currp].next = NULL]
    BY DEF ownBlock
  <2> QED
    BY <1>4, <2>1, <2>2, <2>3 DEF HeaderType
<1>6. \A b \in (Headers \cup {Start}) \ {currp} :
        mem'[b].next = mem[b].next /\ mem'[b].size = mem[b].size /\ mem'[b].owned = mem[b].owned
  BY <1>5
<1>7. blocks \subseteq Headers /\ Start \notin Headers /\ End \in Headers
  BY <1>2, HeaderFacts, Layout
<1>8. Free' = Free \ {currp} /\ Listed' = Free \ {currp} /\ Listed' = Listed
  BY <1>1, <1>3, <1>4, <1>5, <1>6, <1>7 DEF Free, Listed, Detached
<1>9. returnp \in Arena
  BY <1>2, <1>3, <1>4, Layout DEF TypeOK
<1>10. TypeOK'
  <2>1. live' \in [DOMAIN live' -> Requests] /\ DOMAIN live' \subseteq Arena
    BY <1>1, <1>2, <1>3, <1>9 DEF TypeOK
  <2>2. stale' \subseteq Arena
    BY <1>1, <1>2 DEF TypeOK
  <2> QED
    BY <1>1, <1>2, <1>4, <1>5, <2>1, <2>2 DEF TypeOK
<1>11. SetUp' /\ Tiling' /\ Coalesced' /\ FreeListOrdered'
  <2>1. SetUp'
    BY <1>1, <1>2, <1>4, <1>6, <1>7, UpAndRunning DEF SetUp, Size, Next_
  <2>2. Tiling'
    BY <1>1, <1>2, <1>5, <1>6, <1>7 DEF Tiling, Size
  <2>3. \A b \in Listed \cup {Start} : mem'[b].next = mem[b].next /\ mem'[b].size = mem[b].size
    BY <1>4, <1>6, <1>7, <1>8 DEF Free
  <2>4. Coalesced' /\ FreeListOrdered'
    BY <1>1, <1>2, <1>8, <2>3 DEF Coalesced, FreeListOrdered, Free, Size, Next_
  <2> QED
    BY <2>1, <2>2, <2>4
<1>12. Ownership'
  <2>1. blocks' \ Free' = (blocks \ Free) \cup {currp}
    BY <1>1, <1>3, <1>8 DEF Free
  <2>2. \A b \in blocks' \ Free' : Next_(b)' = NULL /\ b + 64 \in DOMAIN live'
    BY <1>1, <1>2, <1>3, <1>5, <1>6, <1>7, <2>1 DEF Ownership, Next_
  <2>3. ASSUME NEW p \in DOMAIN live'
        PROVE  p - 64 \in blocks' \ Free' /\ live'[p] + 64 <= mem'[p - 64].size
    <3>1. CASE p = returnp
      <4>1. p - 64 = currp /\ live'[p] = asked
        BY <1>1, <1>3, <1>4, <3>1
      <4>2. asked + 64 <= mem'[currp].size
        BY <1>3, <1>4, <1>5 DEF Size
      <4> QED
        BY <2>1, <4>1, <4>2
    <3>2. CASE p # returnp
      <4>1. p \in DOMAIN live /\ live'[p] = live[p]
        BY <1>1, <3>2
      <4>2. p - 64 \in blocks \ Free /\ live[p] + 64 <= mem[p - 64].size /\ p - 64 # currp
        BY <1>2, <1>3, <4>1 DEF Ownership, Size
      <4>3. mem'[p - 64].size = mem[p - 64].size
        BY <1>6, <1>7, <4>2
      <4> QED
        BY <2>1, <4>1, <4>2, <4>3
    <3> QED
      BY <3>1, <3>2
  <2> QED
    BY <2>2, <2>3 DEF Ownership, Size
<1>13. StaleCleared'
  <2>1. currp \in Handed(currp)
    BY <1>4 DEF Handed, Size
  <2> QED
    BY <1>1, <1>2, <1>6, <2>1 DEF StaleCleared
<1>14. InCall'
  BY <1>1 DEF InCall, Allocating, Taken
<1>15. Accounting'
  <2>1. /\ currp \in blocks /\ currp .. (currp + Size(currp) - 1) \subseteq Arena
        /\ \A b \in Free : b \in Nat /\ Size(b) \in Nat
    BY <1>2, <1>3, BlockInArena DEF Free
  <2>2. \A b \in Free \ {currp} : b + Size(b) <= currp \/ currp + Size(currp) <= b
    <3>1. \A b \in Free \ {currp} : b \in blocks /\ (b < currp \/ currp < b)
      BY <1>4, <2>1 DEF Free
    <3> QED
      BY <1>2, <2>1, <3>1 DEF Tiling
  <2>3. \A b \in Free \ {currp} : mem'[b].size = mem[b].size
    BY <1>6, <1>7 DEF Free
  <2>4. FreeSpace' = {a \in Arena : \E b \in Free \ {currp} : b <= a /\ a < b + Size(b)}
    BY <1>8, <2>3 DEF FreeSpace, Size
  <2>5. /\ FreeSpace = FreeSpace' \cup (currp .. (currp + Size(currp) - 1))
        /\ FreeSpace' \cap (currp .. (currp + Size(currp) - 1)) = {}
    <3>1. \A a \in Arena : a \in Nat
      BY Layout DEF Arena
    <3>2. FreeSpace = {a \in Arena : \E b \in Free : b <= a /\ a < b + Size(b)}
      BY DEF FreeSpace
    <3>3. ASSUME NEW a \in Arena
          PROVE  a \in currp .. (currp + Size(currp) - 1) <=> currp <= a /\ a < currp + Size(currp)
      BY <1>4, <3>1
    <3>4. ASSUME NEW a \in Arena
          PROVE  a \in FreeSpace <=> a \in FreeSpace' \/ a \in currp .. (currp + Size(currp) - 1)
      BY <1>3, <2>4, <3>2, <3>3
    <3>5. ASSUME NEW a \in FreeSpace'
          PROVE  a \notin currp .. (currp + Size(currp) - 1)
      BY <1>4, <2>1, <2>2, <2>4, <3>1, <3>3
    <3> QED
      BY <2>1, <2>4, <3>2, <3>4, <3>5
  <2>6. Cardinality(FreeSpace) = Cardinality(FreeSpace') + Size(currp)
    BY <1>4, <2>5, FreeSpaceFinite, AddSpan
  <2>7. Cardinality(FreeSpace') \in Nat
    BY FreeSpaceFinite, FS_CardinalityType
  <2> QED
    BY <1>1, <1>2, <1>4, <2>6, <2>7 DEF Accounting
<1> QED
  BY <1>10, <1>11, <1>12, <1>13, <1>14, <1>15 DEF Inv

(* Clearing the mark and crediting the block leaves the count exact, with  *)
(* the block out of the list until it is inserted (lines 187-207).         *)
LEMMA FreeInv ==
  ASSUME Inv, NEW p \in DOMAIN live \cup stale, RTOSFree(p)
  PROVE  Inv'
<1> DEFINE h == p - 64
<1>1. /\ pc = "idle" /\ pc' = "insert" /\ Releasable(h)
      /\ freeBytesRemaining' = freeBytesRemaining + Size(h)
      /\ iteratorp' = Start /\ blockToInsert' = h
      /\ live' = [q \in DOMAIN live \ {p} |-> live[q]]
      /\ stale' = stale \cup {p}
      /\ UNCHANGED <<pEnd, requestedSize, prevp, currp, returnp, blocks, asked>>
  BY DEF RTOSFree, Size
<1>2. /\ TypeOK /\ SetUp /\ Tiling /\ FreeListOrdered /\ Coalesced
      /\ Ownership /\ StaleCleared /\ InCall /\ Accounting
  BY DEF Inv
<1>3. p \in DOMAIN live /\ h \in blocks \ Free /\ p \in Arena
  BY <1>1, <1>2 DEF Releasable, StaleCleared, Ownership, TypeOK
<1>4. /\ h \in Headers /\ h # Start /\ h # End /\ h \in Nat /\ Size(h) \in Nat /\ Start < h
      /\ NULL \notin blocks
  BY <1>2, <1>3, HeaderFacts, Layout
<1>5. /\ mem' \in [Headers \cup {Start} -> HeaderType]
      /\ \A b \in Headers \cup {Start} : Next_(b)' = Next_(b) /\ Size(b)' = Size(b)
      /\ mem'[h].owned = FALSE
      /\ \A b \in (Headers \cup {Start}) \ {h} : mem'[b].owned = mem[b].owned
  <2>1. mem \in [Headers \cup {Start} -> HeaderType]
    BY <1>2 DEF TypeOK
  <2>2. mem[h] \in HeaderType
    BY <2>1, <1>4
  <2>3. mem' = [mem EXCEPT ![h].owned = FALSE]
    BY DEF RTOSFree, Freed
  <2> HIDE DEF h
  <2> QED
    BY <1>4, <2>1, <2>2, <2>3 DEF HeaderType, Size, Next_
<1> HIDE DEF h
<1>6. blocks \subseteq Headers /\ Start \notin Headers /\ End \in Headers
  BY <1>2, HeaderFacts, Layout
<1>7. currp = NULL /\ asked = None
  BY <1>1, <1>2 DEF InCall
<1>8. Free' = Free \cup {h} /\ Listed' = Free /\ Listed = Free
  BY <1>1, <1>3, <1>4, <1>5, <1>6, <1>7 DEF Free, Listed, Detached
<1>9. TypeOK'
  <2>1. live' \in [DOMAIN live' -> Requests] /\ DOMAIN live' \subseteq Arena
    BY <1>1, <1>2 DEF TypeOK
  <2> QED
    BY <1>1, <1>2, <1>3, <1>4, <1>5, <2>1 DEF TypeOK
<1>10. SetUp' /\ Tiling' /\ Coalesced' /\ FreeListOrdered'
  <2>1. SetUp'
    BY <1>1, <1>2, <1>3, <1>4, <1>5, <1>6, UpAndRunning DEF SetUp, Size, Next_
  <2>2. Tiling'
    BY <1>1, <1>2, <1>5, <1>6 DEF Tiling
  <2>3. Coalesced' /\ FreeListOrdered'
    BY <1>1, <1>2, <1>5, <1>6, <1>8 DEF Coalesced, FreeListOrdered, Free
  <2> QED
    BY <2>1, <2>2, <2>3
<1>11. Ownership'
  <2>1. blocks' \ Free' = (blocks \ Free) \ {h}
    BY <1>1, <1>8
  <2>2. ASSUME NEW b \in blocks' \ Free'
        PROVE  Next_(b)' = NULL /\ b + 64 \in DOMAIN live'
    <3>1. b \in blocks \ Free /\ b # h /\ b \in Nat /\ p \in Int
      BY <1>2, <1>3, <2>1, HeaderFacts, Layout DEF Arena
    <3>2. b + 64 # p
      BY <3>1 DEF h
    <3> QED
      BY <1>1, <1>2, <1>5, <1>6, <3>1, <3>2 DEF Ownership
  <2>3. ASSUME NEW q \in DOMAIN live'
        PROVE  q - 64 \in blocks' \ Free' /\ live'[q] + 64 <= Size(q - 64)'
    <3>1. q \in DOMAIN live /\ q # p /\ live'[q] = live[q] /\ q \in Int /\ p \in Int
      BY <1>1, <1>2, <1>3, Layout DEF TypeOK, Arena
    <3>2. q - 64 # h
      BY <3>1 DEF h
    <3>3. q - 64 \in blocks \ Free /\ live[q] + 64 <= Size(q - 64)
      BY <1>2, <3>1 DEF Ownership
    <3>4. Size(q - 64)' = Size(q - 64)
      BY <1>5, <1>6, <3>3
    <3> QED
      BY <2>1, <3>1, <3>2, <3>3, <3>4
  <2> QED
    BY <2>2, <2>3 DEF Ownership
<1>12. StaleCleared'
  BY <1>1, <1>2, <1>4, <1>5 DEF StaleCleared, h
<1>13. InCall'
  BY <1>1, <1>3, <1>4, <1>7, <1>8 DEF InCall, Allocating, Taken
<1>14. Accounting'
  <2>1. /\ h .. (h + Size(h) - 1) \subseteq Arena
        /\ \A b \in Free : b \in Nat /\ Size(b) \in Nat
    BY <1>2, <1>3, BlockInArena DEF Free
  <2>2. \A b \in Free : b + Size(b) <= h \/ h + Size(h) <= b
    <3>1. \A b \in Free : b \in blocks /\ (b < h \/ h < b)
      BY <1>3, <1>4, <2>1 DEF Free
    <3> QED
      BY <1>2, <1>3, <2>1, <3>1 DEF Tiling
  <2>3. FreeSpace' = {a \in Arena : \E b \in Free \cup {h} : b <= a /\ a < b + Size(b)}
    <3>1. \A b \in Free \cup {h} : Size(b)' = Size(b)
      BY <1>3, <1>5, <1>6 DEF Free
    <3> QED
      BY <1>8, <3>1 DEF FreeSpace
  <2>4. /\ FreeSpace' = FreeSpace \cup (h .. (h + Size(h) - 1))
        /\ FreeSpace \cap (h .. (h + Size(h) - 1)) = {}
    <3>1. \A a \in Arena : a \in Nat
      BY Layout DEF Arena
    <3>2. FreeSpace = {a \in Arena : \E b \in Free : b <= a /\ a < b + Size(b)}
      BY DEF FreeSpace
    <3>3. ASSUME NEW a \in Arena
          PROVE  a \in h .. (h + Size(h) - 1) <=> h <= a /\ a < h + Size(h)
      BY <1>4, <3>1
    <3>4. ASSUME NEW a \in Arena
          PROVE  a \in FreeSpace' <=> a \in FreeSpace \/ a \in h .. (h + Size(h) - 1)
      BY <2>3, <3>2, <3>3
    <3>5. ASSUME NEW a \in FreeSpace
          PROVE  a \notin h .. (h + Size(h) - 1)
      BY <1>4, <2>1, <2>2, <3>1, <3>2, <3>3
    <3> QED
      BY <2>1, <2>3, <3>2, <3>4, <3>5
  <2>5. Cardinality(FreeSpace') = Cardinality(FreeSpace) + Size(h)
    BY <1>4, <2>4, FreeSpaceFinite, AddSpan
  <2> QED
    BY <1>1, <1>2, <2>5 DEF Accounting
<1> QED
  BY <1>9, <1>10, <1>11, <1>12, <1>13, <1>14 DEF Inv

(* The list has one predecessor for every block in it.                     *)
LEMMA OnePredecessor ==
  ASSUME TypeOK, FreeListOrdered, pEnd = End,
         NEW a \in Listed \cup {Start}, NEW b \in Listed \cup {Start},
         Next_(a) = Next_(b)
  PROVE  a = b
<1>1. /\ Listed \subseteq Headers /\ \A c \in Headers : c \in Nat /\ Start < c
      /\ Start \in Nat /\ End # NULL /\ End \in Headers
  BY HeaderFacts, Layout DEF Listed, Free
<1>2. \A x, y \in Listed \cup {Start} : x < y => Next_(x) <= y /\ y < Next_(y)
  BY <1>1 DEF FreeListOrdered
<1>3. \A x \in Listed \cup {Start} : x \in Nat /\ Next_(x) \in Nat
  BY <1>1 DEF FreeListOrdered
<1> QED
  BY <1>2, <1>3

(* Unlinking a block leaves the list in order.                             *)
LEMMA UnlinkOrdered ==
  ASSUME TypeOK, FreeListOrdered, pEnd = End, pEnd' = pEnd,
         NEW p \in Listed \cup {Start}, NEW c \in Listed, Next_(p) = c,
         Listed' = Listed \ {c}, mem'[p].next = Next_(c),
         \A b \in (Listed \cup {Start}) \ {p, c} : mem'[b].next = Next_(b)
  PROVE  FreeListOrdered'
<1>1. /\ Listed \subseteq Headers /\ \A b \in Headers : b \in Nat /\ Start < b
      /\ Start \in Nat /\ End # NULL /\ End \in Headers /\ End \notin Listed
  BY HeaderFacts, Layout DEF Listed, Free
<1>2. \A x \in Listed \cup {Start} :
        /\ x \in Nat /\ Next_(x) \in Nat /\ Next_(x) \in Listed \cup {End} /\ x < Next_(x)
        /\ \A y \in Listed : x < y => Next_(x) <= y
  BY <1>1 DEF FreeListOrdered
<1>3. ASSUME NEW b \in Listed' \cup {Start}
      PROVE  /\ mem'[b].next \in Listed' \cup {End} /\ b < mem'[b].next
             /\ \A d \in Listed' : b < d => mem'[b].next <= d
  <2>1. CASE b = p
    <3>1. c \in Nat /\ p < c /\ c < Next_(c) /\ Next_(c) \in Listed \cup {End} /\ p \in Nat
      BY <1>1, <1>2
    <3>2. ASSUME NEW d \in Listed', p < d PROVE Next_(c) <= d
      BY <1>1, <1>2, <3>1, <3>2
    <3> QED
      BY <1>2, <2>1, <3>1, <3>2
  <2>2. CASE b # p
    <3>1. b # c /\ b \in Listed \cup {Start} /\ mem'[b].next = Next_(b)
      BY <1>1, <2>2
    <3>2. Next_(b) # c
      BY <2>2, <3>1, OnePredecessor
    <3> QED
      BY <1>2, <3>1, <3>2
  <2> QED
    BY <2>1, <2>2
<1> QED
  BY <1>3, Layout DEF FreeListOrdered, Next_

(* Unlinking a block, and splitting it when it is much too large, keeps    *)
(* the tiling and the list (lines 78-102).                                 *)
LEMMA TakeBlockInv ==
  ASSUME Inv, takeBlock
  PROVE  Inv'
<1>1. /\ pc = "find" /\ ~ (TooSmall(currp) /\ Next_(currp) # NULL)
      /\ live' = live /\ stale' = stale
  BY DEF takeBlock, Next_
<1>2. /\ TypeOK /\ SetUp /\ Tiling /\ FreeListOrdered /\ Coalesced
      /\ Ownership /\ StaleCleared /\ InCall /\ Accounting
  BY DEF Inv
<1>3. pEnd = End /\ Next_(End) = NULL /\ Size(End) = 0
  BY <1>1, <1>2, UpAndRunning
<1>4. /\ prevp \in Listed \cup {Start} /\ currp = Next_(prevp)
      /\ blockToInsert = NULL /\ asked \in Requests /\ asked \in Nat /\ asked > 0
      /\ requestedSize \in Nat /\ requestedSize % 64 = 0 /\ requestedSize >= asked + 64
  BY <1>1, <1>2, HeapAssumption DEF InCall, Allocating, TypeOK, Aligned
<1>5. currp \in Listed \cup {End}
  BY <1>2, <1>3, <1>4, Layout DEF FreeListOrdered
<1>6. /\ blocks \subseteq Headers /\ Start \notin Headers /\ End \in Headers /\ NULL \notin Headers
      /\ End \notin blocks /\ Start \in Nat /\ Listed = Free /\ Free \subseteq blocks
      /\ \A b \in Headers : b \in Nat /\ b % 64 = 0 /\ Base <= b /\ b <= End /\ Start < b
      /\ mem \in [Headers \cup {Start} -> HeaderType]
  BY <1>1, <1>2, HeaderFacts, Layout DEF Listed, Free, Detached, TypeOK
<1>7. CASE currp = pEnd
  <2>1. /\ UNCHANGED <<mem, pEnd, freeBytesRemaining, returnp, blocks>>
        /\ pc' = "idle" /\ asked' = None
        /\ requestedSize' = 0 /\ prevp' = NULL /\ currp' = NULL
        /\ iteratorp' = NULL /\ blockToInsert' = NULL
    BY <1>7 DEF takeBlock, Return, globals
  <2>2. Listed' = Listed /\ Free' = Free
    BY <1>1, <2>1 DEF Listed, Free, Detached
  <2>3. TypeOK'
    BY <1>1, <1>2, <2>1 DEF TypeOK
  <2>4. SetUp' /\ Tiling' /\ Coalesced' /\ FreeListOrdered' /\ Ownership' /\ StaleCleared'
    BY <1>1, <1>2, <1>3, <2>1, <2>2, Layout
       DEF SetUp, Tiling, Coalesced, FreeListOrdered, Ownership, StaleCleared, Size, Next_
  <2>5. InCall'
    BY <2>1 DEF InCall, Allocating, Taken
  <2>6. Accounting'
    BY <1>2, <2>1, <2>2, SameAccounting
  <2> QED
    BY <2>3, <2>4, <2>5, <2>6 DEF Inv
<1>8. CASE currp # pEnd
  <2>1. /\ returnp' = currp + 64
        /\ UNCHANGED <<pEnd, freeBytesRemaining, requestedSize, prevp, currp, asked>>
    BY <1>4, <1>8 DEF takeBlock, Next_
  <2>2. /\ currp \in Free /\ currp \in Headers /\ currp \in Nat /\ currp # Start /\ currp # prevp
        /\ Size(currp) >= requestedSize /\ Size(currp) \in Nat /\ Size(currp) <= End - Base
        /\ currp + Size(currp) \in blocks \cup {End}
        /\ Size(currp) % 64 = 0
        /\ prevp \in Headers \cup {Start}
    <3>1. currp \in Free
      BY <1>3, <1>5, <1>6, <1>8
    <3>2. Next_(currp) # NULL
      BY <1>2, <1>3, <1>6, <3>1, Layout DEF FreeListOrdered
    <3>3. prevp < currp
      BY <1>2, <1>3, <1>4, Layout DEF FreeListOrdered
    <3>4. Size(currp) \in Nat /\ Size(currp) <= End - Base
      BY <1>2, <1>6, <3>1, HeaderFacts
    <3> QED
      BY <1>1, <1>2, <1>4, <1>6, <3>1, <3>2, <3>3, <3>4 DEF Tiling, TooSmall, Size, Aligned
  <2>3. returnp' \in Arena
    BY <1>4, <1>6, <2>1, <2>2, Layout DEF Arena
  <2>4. CASE ~ Splits(currp)
    <3>1. /\ pc' = "own" /\ iteratorp' = iteratorp /\ blockToInsert' = NULL /\ blocks' = blocks
          /\ mem' = [mem EXCEPT ![prevp].next = mem[currp].next]
      BY <1>4, <1>8, <2>4 DEF takeBlock
    <3>2. /\ mem' \in [Headers \cup {Start} -> HeaderType]
          /\ mem'[prevp].next = Next_(currp)
          /\ \A b \in (Headers \cup {Start}) \ {prevp} : mem'[b].next = mem[b].next
          /\ \A b \in Headers \cup {Start} : mem'[b].size = mem[b].size /\ mem'[b].owned = mem[b].owned
      <4>1. mem[prevp] \in HeaderType /\ mem[currp] \in HeaderType
        BY <1>6, <2>2
      <4> QED
        BY <1>6, <2>2, <3>1, <4>1 DEF HeaderType, Next_
    <3>3. Free' = Free /\ Listed' = Listed \ {currp}
      BY <1>6, <2>1, <3>1, <3>2 DEF Free, Listed, Detached
    <3>4. TypeOK'
      BY <1>1, <1>2, <2>1, <2>3, <3>1, <3>2, Layout DEF TypeOK
    <3>5. SetUp'
      <4>1. prevp # End
        BY <1>4, <1>6
      <4> QED
        BY <1>1, <1>2, <1>3, <1>6, <2>1, <2>2, <3>1, <3>2, <4>1, Layout DEF SetUp
    <3>6. Tiling'
      BY <1>2, <1>6, <3>1, <3>2 DEF Tiling, Size
    <3>7. Coalesced'
      BY <1>2, <1>6, <3>2, <3>3 DEF Coalesced, Size
    <3>8. FreeListOrdered'
      <4>1. \A b \in (Listed \cup {Start}) \ {prevp, currp} : mem'[b].next = Next_(b)
        BY <1>6, <3>2 DEF Next_
      <4> QED
        BY <1>2, <1>3, <1>4, <1>6, <2>1, <2>2, <3>2, <3>3, <4>1, UnlinkOrdered
    <3>9. Ownership'
      <4>1. \A b \in blocks \ Free : mem'[b].next = mem[b].next
        BY <1>4, <1>6, <3>2
      <4> QED
        BY <1>1, <1>2, <1>6, <3>1, <3>2, <3>3, <4>1 DEF Ownership, Size, Next_
    <3>10. StaleCleared'
      BY <1>1, <1>2, <3>2 DEF StaleCleared
    <3>11. InCall'
      <4>1. currp' \in Free' /\ mem'[currp].size >= requestedSize /\ currp # NULL
        BY <1>6, <2>1, <2>2, <3>2, <3>3 DEF Size
      <4> QED
        BY <1>1, <1>2, <1>4, <2>1, <3>1, <4>1 DEF InCall, Allocating, Taken, Size, Aligned
    <3>12. Accounting'
      BY <1>2, <1>6, <2>1, <3>2, <3>3, SameAccounting
    <3> QED
      BY <3>4, <3>5, <3>6, <3>7, <3>8, <3>9, <3>10, <3>11, <3>12 DEF Inv
  <2>5. CASE Splits(currp)
    <3> DEFINE rest == currp + requestedSize
    <3>1. /\ pc' = "insert" /\ iteratorp' = Start /\ blockToInsert' = rest
          /\ blocks' = blocks \cup {rest}
      BY <1>8, <2>5 DEF takeBlock
    <3>0. mem' = [mem EXCEPT
                    ![prevp].next = mem[currp].next,
                    ![rest] = header(@.next, mem[currp].size - requestedSize, FALSE),
                    ![currp].size = requestedSize]
      BY <1>8, <2>5 DEF takeBlock
    <3>2. /\ Size(currp) - requestedSize > 128 /\ rest \in Nat
          /\ currp < rest /\ rest < currp + Size(currp)
          /\ rest \in Headers /\ rest \notin blocks /\ rest # End /\ rest # prevp
      <4>1. Size(currp) - requestedSize > 128
        BY <2>5 DEF Splits, Size
      <4>2. rest \in Nat /\ currp < rest /\ rest < currp + Size(currp) /\ rest % 64 = 0
        BY <1>4, <1>6, <2>2, <4>1
      <4>3. currp + Size(currp) <= End /\ Base <= currp
        BY <1>6, <2>2
      <4>4. rest \in Headers /\ rest # End
        BY <2>2, <4>2, <4>3, Layout DEF Headers, Aligned
      <4>5. rest \notin blocks
        BY <1>2, <1>6, <2>2, <4>2 DEF Tiling
      <4> QED
        BY <1>4, <1>6, <2>2, <4>1, <4>2, <4>4, <4>5
    <3> HIDE DEF rest
    <3>3. /\ mem' \in [Headers \cup {Start} -> HeaderType]
          /\ mem'[prevp].next = Next_(currp) /\ mem'[prevp].size = Size(prevp)
          /\ mem'[prevp].owned = mem[prevp].owned
          /\ mem'[rest].size = Size(currp) - requestedSize /\ mem'[rest].owned = FALSE
          /\ mem'[currp].size = requestedSize /\ mem'[currp].owned = mem[currp].owned
          /\ \A b \in (Headers \cup {Start}) \ {prevp, rest, currp} : mem'[b] = mem[b]
      <4>1. /\ mem[prevp] \in HeaderType /\ mem[currp] \in HeaderType /\ mem[rest] \in HeaderType
            /\ prevp # rest /\ prevp # currp /\ rest # currp
        BY <1>6, <2>2, <3>2
      <4>2. /\ Size(currp) - requestedSize \in 0 .. (End - Base)
            /\ requestedSize \in 0 .. (End - Base)
        BY <1>4, <2>2, <3>2, Layout
      <4>3. /\ [mem[prevp] EXCEPT !.next = mem[currp].next] \in HeaderType
            /\ header(mem[rest].next, mem[currp].size - requestedSize, FALSE) \in HeaderType
            /\ [mem[currp] EXCEPT !.size = requestedSize] \in HeaderType
        BY <4>1, <4>2 DEF HeaderType, header, Size
      <4>4. mem' = [mem EXCEPT
                      ![prevp] = [mem[prevp] EXCEPT !.next = mem[currp].next],
                      ![rest] = header(mem[rest].next, mem[currp].size - requestedSize, FALSE),
                      ![currp] = [mem[currp] EXCEPT !.size = requestedSize]]
        BY <1>6, <2>2, <3>0, <3>2, <4>1
      <4>5. /\ mem' \in [Headers \cup {Start} -> HeaderType]
            /\ mem'[prevp] = [mem[prevp] EXCEPT !.next = mem[currp].next]
            /\ mem'[rest] = header(mem[rest].next, mem[currp].size - requestedSize, FALSE)
            /\ mem'[currp] = [mem[currp] EXCEPT !.size = requestedSize]
            /\ \A b \in (Headers \cup {Start}) \ {prevp, rest, currp} : mem'[b] = mem[b]
        BY <1>6, <2>2, <3>2, <4>1, <4>3, <4>4
      <4> QED
        BY <4>1, <4>5 DEF HeaderType, header, Size, Next_
    <3>4. /\ \A b \in (Headers \cup {Start}) \ {rest, currp} :
                mem'[b].size = mem[b].size /\ mem'[b].owned = mem[b].owned
          /\ \A b \in (Headers \cup {Start}) \ {prevp, rest, currp} : mem'[b].next = mem[b].next
      BY <3>3 DEF Size
    <3>5. Free' = Free \cup {rest} /\ Listed' = Listed \ {currp}
      <4>1. Free' = Free \cup {rest}
        BY <1>6, <2>2, <3>1, <3>2, <3>3, <3>4 DEF Free
      <4> QED
        BY <1>6, <2>1, <3>1, <3>2, <4>1 DEF Listed, Detached
    <3>6. TypeOK'
      BY <1>1, <1>2, <2>1, <2>3, <3>1, <3>2, <3>3, Layout DEF TypeOK
    <3>7. SetUp'
      <4>1. prevp # End
        BY <1>4, <1>6
      <4>2. mem'[Start].size = mem[Start].size /\ mem'[Start].owned = mem[Start].owned
        BY <1>6, <2>2, <3>2, <3>4
      <4>3. mem'[End].size = mem[End].size /\ mem'[End].owned = mem[End].owned /\ mem'[End].next = mem[End].next
        BY <1>3, <1>6, <1>8, <3>2, <3>4, <4>1
      <4> QED
        BY <1>1, <1>2, <1>3, <2>1, <3>1, <4>2, <4>3, Layout DEF SetUp
    <3>8. Tiling'
      <4>1. ASSUME NEW b \in blocks'
            PROVE  /\ mem'[b].size > 0 /\ mem'[b].size % 64 = 0
                   /\ b + mem'[b].size \in blocks' \cup {End}
                   /\ \A c \in blocks' : b < c => b + mem'[b].size <= c
        <5>1. CASE b = currp
          <6>1. /\ mem'[b].size = requestedSize /\ b + mem'[b].size = rest
            BY <3>3, <5>1 DEF rest
          <6>2. ASSUME NEW c \in blocks', currp < c PROVE rest <= c
            BY <1>2, <1>6, <2>2, <3>1, <3>2, <6>2 DEF Tiling
          <6> QED
            BY <1>4, <3>1, <5>1, <6>1, <6>2
        <5>2. CASE b = rest
          <6>1. /\ mem'[b].size = Size(currp) - requestedSize /\ b + mem'[b].size = currp + Size(currp)
            BY <1>4, <2>2, <3>3, <5>2 DEF rest
          <6>2. ASSUME NEW c \in blocks', rest < c PROVE currp + Size(currp) <= c
            BY <1>2, <1>6, <2>2, <3>1, <3>2, <6>2 DEF Tiling
          <6>3. mem'[b].size % 64 = 0
            BY <1>4, <2>2, <6>1
          <6> QED
            BY <1>4, <2>2, <3>1, <3>2, <5>2, <6>1, <6>2, <6>3
        <5>3. CASE b # currp /\ b # rest
          <6>1. b \in blocks /\ mem'[b].size = Size(b) /\ b \in Nat /\ Size(b) \in Nat
            BY <1>2, <1>6, <3>1, <3>4, <5>3, HeaderFacts DEF Size
          <6>2. /\ Size(b) > 0 /\ Size(b) % 64 = 0 /\ b + Size(b) \in blocks \cup {End}
                /\ \A c \in blocks : b < c => b + Size(b) <= c
            BY <1>2, <6>1 DEF Tiling, Aligned
          <6>3. b < rest => b + Size(b) <= rest
            <7>1. CASE b < currp
              BY <2>2, <3>2, <6>1, <6>2, <7>1, <1>6
            <7>2. CASE currp < b
              BY <1>2, <1>6, <2>2, <3>2, <6>1, <7>2 DEF Tiling
            <7> QED
              BY <2>2, <5>3, <6>1, <7>1, <7>2
          <6> QED
            BY <3>1, <6>1, <6>2, <6>3
        <5> QED
          BY <5>1, <5>2, <5>3
      <4> QED
        BY <4>1 DEF Tiling, Size, Aligned
    <3>9. Coalesced'
      <4>1. \A b \in Listed' : b \in Listed /\ mem'[b].size = mem[b].size
        BY <1>6, <3>2, <3>4, <3>5
      <4> QED
        BY <1>2, <4>1 DEF Coalesced, Size
    <3>10. FreeListOrdered'
      <4>1. \A b \in (Listed \cup {Start}) \ {prevp, currp} : mem'[b].next = Next_(b)
        BY <1>6, <2>2, <3>2, <3>4 DEF Next_
      <4> QED
        BY <1>2, <1>3, <1>4, <1>6, <2>1, <2>2, <3>3, <3>5, <4>1, UnlinkOrdered
    <3>11. Ownership'
      <4>1. blocks' \ Free' = blocks \ Free
        BY <1>6, <2>2, <3>1, <3>2, <3>5
      <4>2. \A b \in blocks \ Free : mem'[b].next = mem[b].next /\ mem'[b].size = mem[b].size
        BY <1>4, <1>6, <2>2, <3>2, <3>4
      <4> QED
        BY <1>1, <1>2, <4>1, <4>2 DEF Ownership, Size, Next_
    <3>12. StaleCleared'
      <4>1. \A b \in Headers : ~ mem[b].owned => ~ mem'[b].owned
        BY <2>2, <3>3, <3>4
      <4> QED
        BY <1>1, <1>2, <4>1 DEF StaleCleared
    <3>13. InCall'
      <4>1. currp' \in Free' /\ mem'[currp].size >= requestedSize /\ currp # NULL
        BY <1>4, <1>6, <2>1, <2>2, <3>3, <3>5
      <4>2. rest \in Free' /\ rest # currp /\ Start < rest
        BY <1>6, <2>2, <3>2, <3>5
      <4> QED
        BY <1>1, <1>2, <1>4, <2>1, <3>1, <4>1, <4>2 DEF InCall, Allocating, Taken, Size, Aligned
    <3>14. Accounting'
      <4>1. \A a \in Arena : a \in Nat
        BY Layout DEF Arena
      <4>2. /\ \A c \in Free \ {currp} : mem'[c].size = Size(c)
            /\ mem'[currp].size = requestedSize /\ currp + requestedSize = rest
            /\ rest + mem'[rest].size = currp + Size(currp)
        BY <1>4, <1>6, <2>2, <3>2, <3>3, <3>4 DEF Size, rest
      <4>3. ASSUME NEW a \in Arena
            PROVE  (\E c \in Free' : c <= a /\ a < c + mem'[c].size)
                     <=> (\E c \in Free : c <= a /\ a < c + Size(c))
        <5>1. (currp <= a /\ a < currp + Size(currp))
                <=> \/ currp <= a /\ a < currp + mem'[currp].size
                    \/ rest <= a /\ a < rest + mem'[rest].size
          BY <2>2, <3>2, <4>1, <4>2
        <5> QED
          BY <2>2, <3>2, <3>5, <4>2, <5>1
      <4>4. FreeSpace' = FreeSpace
        BY <4>3 DEF FreeSpace, Size
      <4> QED
        BY <1>2, <2>1, <4>4 DEF Accounting
    <3> QED
      BY <3>6, <3>7, <3>8, <3>9, <3>10, <3>11, <3>12, <3>13, <3>14 DEF Inv
  <2> QED
    BY <2>4, <2>5
<1> QED
  BY <1>7, <1>8

(* Two blocks do not end at the same address.                              *)
LEMMA OneEnd ==
  ASSUME TypeOK, Tiling, NEW a \in blocks, NEW b \in blocks,
         a + Size(a) = b + Size(b)
  PROVE  a = b
<1>1. a \in Nat /\ b \in Nat /\ Size(a) \in Nat /\ Size(b) \in Nat
  BY HeaderFacts
<1>2. Size(a) > 0 /\ Size(b) > 0 /\ (a < b => a + Size(a) <= b) /\ (b < a => b + Size(b) <= a)
  BY DEF Tiling
<1> QED
  BY <1>1, <1>2

(* addBlockToFreeList's last step, by the four ways it can merge.          *)
LEMMA LinkBlockInv ==
  ASSUME Inv, linkBlock
  PROVE  Inv'
<1> PICK i : i = iteratorp
  OBVIOUS
<1> PICK b : b = blockToInsert
  OBVIOUS
<1> PICK cur : cur = currp
  OBVIOUS
<1> DEFINE
  after == Next_(i)
  left  == i + Size(i) = b
  right == b + Size(b) = after /\ after # End
  home  == IF left THEN i ELSE b
  total  == (IF left THEN Size(i) ELSE 0) + Size(b) + (IF right THEN Size(after) ELSE 0)
  succ  == IF right THEN Next_(after) ELSE after
  gone  == (IF left THEN {b} ELSE {}) \cup (IF right THEN {after} ELSE {})
<1>1. /\ TypeOK /\ SetUp /\ Tiling /\ FreeListOrdered /\ Coalesced
      /\ Ownership /\ StaleCleared /\ InCall /\ Accounting
  BY DEF Inv
<1>2. pc = "insert" /\ ~ (after < b)
  BY DEF linkBlock, Before, Next_
<1>3. pEnd = End
  BY <1>1, <1>2, UpAndRunning
<1>4. /\ blocks' = blocks \ gone
      /\ UNCHANGED <<pEnd, freeBytesRemaining, returnp, asked, live, stale>>
      /\ blockToInsert' = NULL /\ iteratorp' = NULL
      /\ cur = NULL => /\ pc' = "idle" /\ requestedSize' = 0
                       /\ prevp' = NULL /\ currp' = NULL
      /\ cur # NULL => pc' = "own" /\ UNCHANGED <<requestedSize, prevp, currp>>
  BY <1>3 DEF linkBlock, Return, Touch, Size, Next_
<1>6. /\ blocks \subseteq Headers /\ Start \notin Headers /\ End \in Headers /\ NULL \notin Headers
      /\ End \notin blocks /\ Start \in Nat /\ Listed \subseteq Free /\ Free \subseteq blocks
      /\ \A a \in Headers : a \in Nat /\ Base <= a /\ a <= End /\ Start < a
      /\ \A a \in Headers \cup {Start} :
            Next_(a) \in Headers \cup {NULL} /\ Size(a) \in Nat /\ mem[a].owned \in BOOLEAN
      /\ mem \in [Headers \cup {Start} -> HeaderType]
      /\ End # NULL
  BY <1>1, HeaderFacts, Layout DEF Listed, Free, TypeOK
<1>7. /\ b \in Free /\ b # cur /\ i \in Listed \cup {Start} /\ i < b
      /\ Listed = Free \ {cur, b} /\ b \in Nat /\ i \in Nat
      /\ cur # NULL => cur \in Free
  BY <1>1, <1>2, <1>6 DEF InCall, Listed, Detached, Taken
<1>5. mem' = IF left
             THEN [mem EXCEPT ![home] = header(succ, total, mem[home].owned)]
             ELSE [mem EXCEPT ![home] = header(succ, total, mem[home].owned), ![i].next = home]
  <2>1. mem' = Linked(home, header(succ, total, mem[home].owned))
    BY <1>3 DEF linkBlock, Touch, Size, Next_
  <2>2. i = home <=> left
    BY <1>7
  <2> QED
    BY <2>1, <2>2 DEF Linked
<1>8. \A a \in Listed \cup {Start} :
        /\ Next_(a) \in Listed \cup {End} /\ a < Next_(a) /\ a \in Nat
        /\ \A c \in Listed : a < c => Next_(a) <= c
  BY <1>1, <1>3, <1>6 DEF FreeListOrdered
<1>9. \A a \in blocks :
        /\ Size(a) > 0 /\ Size(a) % 64 = 0 /\ a + Size(a) \in blocks \cup {End}
        /\ \A c \in blocks : a < c => a + Size(a) <= c
  BY <1>1 DEF Tiling, Aligned
<1>10. after \in Listed \cup {End} /\ b < after /\ after \in Nat /\ after \in Headers
  <2>1. after \in Listed \cup {End}
    BY <1>7, <1>8
  <2>2. after \in Headers /\ after \in Nat /\ b \notin Listed /\ b # End
    BY <1>6, <1>7, <2>1
  <2> QED
    BY <1>2, <1>7, <2>1, <2>2
<1>11. left => i \in Listed
  BY <1>1, <1>2, <1>6, <1>7, UpAndRunning, Layout
<1>12. /\ home \in Free /\ home \in Headers /\ home \in Nat /\ home # cur
       /\ (home # i \/ left) /\ home <= b /\ i <= home
  BY <1>6, <1>7, <1>11
<1>13. right => after \in Listed
  BY <1>10
<1>14. home + total = IF right THEN after + Size(after) ELSE b + Size(b)
  BY <1>6, <1>7, <1>10, <1>11
<1>15. home + total \in blocks \cup {End} /\ home + total \notin gone /\ total \in Nat /\ total > 0
  <2>1. /\ Size(i) \in Nat /\ Size(after) \in Nat
        /\ b \in blocks /\ Size(b) \in Nat /\ Size(b) > 0 /\ b < b + Size(b)
    BY <1>6, <1>7, <1>9, <1>10
  <2>2. total \in Nat /\ total > 0
    BY <2>1
  <2>3. CASE right
    <3>1. /\ after \in blocks /\ after < after + Size(after)
          /\ after + Size(after) \in blocks \cup {End}
      BY <1>6, <1>9, <1>10, <1>13, <2>1, <2>3
    <3>2. home + total = after + Size(after)
      BY <1>14, <2>3
    <3>3. after + Size(after) # b /\ after + Size(after) # after
      BY <1>7, <1>10, <2>1, <3>1
    <3> HIDE DEF home, total
    <3> QED
      BY <2>2, <3>1, <3>2, <3>3
  <2>4. CASE ~ right
    <3>1. home + total = b + Size(b)
      BY <1>14, <2>4
    <3>2. b + Size(b) \in blocks \cup {End} /\ b + Size(b) # b
      BY <1>7, <1>9, <2>1
    <3> HIDE DEF home, total
    <3> QED
      BY <2>2, <2>4, <3>1, <3>2
  <2> QED
    BY <2>3, <2>4
<1>16. /\ mem' \in [Headers \cup {Start} -> HeaderType]
       /\ mem'[home].size = total /\ mem'[home].next = succ
       /\ left \/ mem'[i].next = home
       /\ \A a \in (Headers \cup {Start}) \ {home} : mem'[a].size = Size(a)
       /\ \A a \in (Headers \cup {Start}) \ {home, i} : mem'[a].next = Next_(a)
       /\ \A a \in Headers \cup {Start} : mem'[a].owned = mem[a].owned
  <2> DEFINE hdr == header(succ, total, mem[home].owned)
  <2>1. succ \in Headers
    BY <1>6, <1>8, <1>10, <1>13
  <2>2. total \in 0 .. (End - Base)
    <3> HIDE DEF home, total
    <3>1. home + total <= End /\ Base <= home
      BY <1>6, <1>12, <1>15
    <3> QED
      BY <1>12, <1>15, <3>1, Layout
  <2>3. /\ home \in Headers \cup {Start} /\ i \in Headers \cup {Start}
        /\ mem \in [Headers \cup {Start} -> HeaderType]
        /\ mem[home] \in HeaderType /\ mem[i] \in HeaderType
        /\ [mem[i] EXCEPT !.next = home] \in HeaderType
    <3>1. mem[home] \in HeaderType /\ mem[i] \in HeaderType
      BY <1>6, <1>7, <1>12
    <3> HIDE DEF home
    <3>2. [mem[i] EXCEPT !.next = home] \in HeaderType
      BY <1>12, <3>1 DEF HeaderType
    <3> QED
      BY <1>6, <1>7, <1>12, <3>1, <3>2
  <2>4. /\ hdr \in HeaderType /\ hdr.next = succ /\ hdr.size = total /\ hdr.owned = mem[home].owned
    <3> HIDE DEF home, succ, total
    <3>1. mem[home].owned \in BOOLEAN
      BY <2>3 DEF HeaderType
    <3> QED
      BY <2>1, <2>2, <3>1 DEF header, HeaderType
  <2>5. CASE left
    <3>1. mem' = [mem EXCEPT ![home] = hdr] /\ home = i
      BY <1>5, <2>3, <2>5
    <3> HIDE DEF home, succ, total, hdr
    <3>2. /\ mem' \in [Headers \cup {Start} -> HeaderType]
          /\ mem'[home] = hdr
          /\ \A a \in (Headers \cup {Start}) \ {home} : mem'[a] = mem[a]
      BY <2>3, <2>4, <3>1
    <3> QED
      BY <2>4, <2>5, <3>1, <3>2 DEF Size, Next_
  <2>6. CASE ~ left
    <3>1. /\ mem' = [mem EXCEPT ![home] = hdr, ![i] = [mem[i] EXCEPT !.next = home]]
          /\ home # i
      BY <1>5, <1>7, <1>12, <2>3, <2>6
    <3> HIDE DEF home, succ, total, hdr
    <3>2. /\ mem' \in [Headers \cup {Start} -> HeaderType]
          /\ mem'[home] = hdr
          /\ mem'[i] = [mem[i] EXCEPT !.next = home]
          /\ \A a \in (Headers \cup {Start}) \ {home, i} : mem'[a] = mem[a]
      BY <2>3, <2>4, <3>1
    <3>3. /\ mem'[i].next = home /\ mem'[i].size = mem[i].size /\ mem'[i].owned = mem[i].owned
      BY <2>3, <3>2 DEF HeaderType
    <3> QED
      BY <2>4, <3>1, <3>2, <3>3 DEF Size, Next_
  <2> QED
    BY <2>5, <2>6
<1>17. /\ Free' = Free \ gone /\ Listed' = (Listed \cup {b}) \ gone
       /\ home \in Listed' /\ gone \subseteq Free
  <2>1. gone \subseteq Free /\ cur \notin gone
    BY <1>6, <1>7, <1>13
  <2>2. Free' = Free \ gone
    BY <1>4, <1>6, <1>16 DEF Free
  <2>3. Listed' = Free' \ {cur}
    BY <1>4, <1>6, <2>2 DEF Listed, Detached
  <2>4. Listed' = (Listed \cup {b}) \ gone
    BY <1>7, <2>1, <2>2, <2>3
  <2>5. home \notin gone
    BY <1>7, <1>10, <1>12
  <2> QED
    BY <1>7, <1>11, <2>1, <2>2, <2>4, <2>5
<1>19. TypeOK'
  BY <1>1, <1>4, <1>16 DEF TypeOK, Return
<1>20. SetUp'
  <2>1. Base \in blocks'
    <3>1. Base # after
      BY <1>6, <1>7, <1>10
    <3>2. left => Base # b
      BY <1>6, <1>7, <1>11
    <3> QED
      BY <1>1, <1>3, <1>4, <1>6, <3>1, <3>2 DEF SetUp
  <2>2. Start # home /\ End # home /\ End # i
    BY <1>6, <1>7, <1>12
  <2> HIDE DEF home
  <2> QED
    BY <1>1, <1>2, <1>3, <1>4, <1>6, <1>16, <2>1, <2>2 DEF SetUp, Size, Next_
<1>21. Tiling'
  <2>1. ASSUME NEW a \in blocks'
        PROVE  /\ mem'[a].size > 0 /\ mem'[a].size % 64 = 0
               /\ a + mem'[a].size \in blocks' \cup {End}
               /\ \A c \in blocks' : a < c => a + mem'[a].size <= c
    <3>1. CASE a = home
      <4>1. total % 64 = 0
        <5>1. /\ Size(i) \in Nat /\ Size(b) \in Nat /\ Size(after) \in Nat
              /\ Size(b) % 64 = 0 /\ (left => Size(i) % 64 = 0) /\ (right => Size(after) % 64 = 0)
          BY <1>6, <1>7, <1>9, <1>10, <1>11, <1>13
        <5> DEFINE x == IF left THEN Size(i) ELSE 0
                   z == IF right THEN Size(after) ELSE 0
        <5>2. x \in Nat /\ x % 64 = 0 /\ z \in Nat /\ z % 64 = 0 /\ total = x + Size(b) + z
          BY <5>1
        <5> HIDE DEF x, z, total
        <5> QED
          BY <5>1, <5>2
      <4>2. home + total \in blocks' \cup {End}
        BY <1>4, <1>15
      <4>3. ASSUME NEW c \in blocks', home < c PROVE home + total <= c
        <5>1. c \in blocks /\ c \notin gone /\ c \in Nat
          BY <1>4, <1>6
        <5>2. b < c
          BY <1>6, <1>7, <1>9, <1>11, <4>3, <5>1
        <5>3. b + Size(b) <= c
          BY <1>6, <1>7, <1>9, <5>1, <5>2
        <5>4. right => after < c
          BY <1>6, <1>7, <1>10, <5>1, <5>3
        <5>5. right => after + Size(after) <= c
          BY <1>6, <1>9, <1>13, <5>1, <5>4
        <5> QED
          BY <1>14, <5>3, <5>5
      <4> HIDE DEF home, total
      <4> QED
        BY <1>15, <1>16, <3>1, <4>1, <4>2, <4>3
    <3>2. CASE a # home
      <4>1. a \in blocks /\ a \notin gone /\ mem'[a].size = Size(a)
        BY <1>4, <1>6, <1>16, <3>2
      <4>2. /\ Size(a) > 0 /\ Size(a) % 64 = 0 /\ a + Size(a) \in blocks \cup {End}
            /\ \A c \in blocks : a < c => a + Size(a) <= c
        BY <1>9, <4>1
      <4>3. a + Size(a) \notin gone
        <5>1. left => a + Size(a) # b
          BY <1>1, <1>6, <1>11, <3>2, <4>1, OneEnd
        <5>2. right => a + Size(a) # after
          <6>1. a # b
            BY <3>2, <4>1
          <6> QED
            BY <1>1, <1>6, <1>7, <4>1, <6>1, OneEnd
        <5> QED
          BY <5>1, <5>2
      <4> QED
        BY <1>4, <4>1, <4>2, <4>3
    <3> QED
      BY <3>1, <3>2
  <2> QED
    BY <2>1 DEF Tiling, Size, Aligned
<1>22. ASSUME NEW a \in Listed', a # home
      PROVE  a \in Listed /\ a \in Nat /\ a \notin gone
  BY <1>6, <1>7, <1>17, <1>22
<1>23. Coalesced'
  <2>1. ASSUME NEW a \in Listed', NEW c \in Listed'
        PROVE  a + mem'[a].size # c
    <3>1. CASE a = home
      <4>1. a + mem'[a].size = home + total
        BY <1>16, <3>1
      <4>2. home < home + total
        <5> HIDE DEF home, total
        <5> QED
          BY <1>12, <1>15
      <4>3. CASE c = home
        <5> HIDE DEF home, total
        <5> QED
          BY <1>12, <1>15, <4>1, <4>2, <4>3
      <4>4. CASE c # home
        <5>1. c \in Listed /\ c \in Nat /\ c \notin gone /\ c \in blocks
          BY <1>6, <1>22, <4>4
        <5>2. CASE right
          <6>1. after \in Listed
            BY <1>13, <5>2
          <6>2. after + Size(after) # c
            BY <1>1, <5>1, <6>1 DEF Coalesced
          <6>3. home + total = after + Size(after)
            BY <1>14, <5>2
          <6> HIDE DEF home, total, after
          <6> QED
            BY <4>1, <6>2, <6>3
        <5>3. CASE ~ right
          <6>1. SUFFICES ASSUME b + Size(b) = c PROVE FALSE
            BY <1>14, <4>1, <5>3
          <6>2. b < c
            BY <1>6, <1>7, <1>9, <6>1
          <6>3. after <= c /\ c # End
            BY <1>6, <1>7, <1>8, <5>1, <6>2
          <6>4. after \in blocks => b + Size(b) <= after
            BY <1>6, <1>7, <1>9, <1>10
          <6>5. after = End => c < after
            BY <1>6, <5>1, <6>3
          <6> QED
            BY <1>6, <1>10, <5>1, <5>3, <6>1, <6>3, <6>4, <6>5
        <5> QED
          BY <5>2, <5>3
      <4> QED
        BY <4>3, <4>4
    <3>2. CASE a # home
      <4>1. a \in Listed /\ a \in Nat /\ a \notin gone /\ a \in blocks /\ mem'[a].size = Size(a)
        BY <1>6, <1>16, <1>22, <3>2
      <4>2. CASE c \in Listed
        BY <1>1, <4>1, <4>2 DEF Coalesced
      <4>3. CASE c \notin Listed
        <5>1. c = b /\ ~ left
          BY <1>11, <1>17, <4>3
        <5>2. SUFFICES ASSUME a + Size(a) = b PROVE FALSE
          BY <4>1, <5>1
        <5>3. a < b /\ Size(a) \in Nat
          BY <1>6, <1>7, <1>9, <4>1, <5>2
        <5>4. a # i
          BY <5>1, <5>2
        <5>5. i < a => FALSE
          BY <1>7, <1>8, <1>10, <4>1, <5>3
        <5>6. a < i => FALSE
          BY <1>6, <1>7, <1>9, <4>1, <5>2, <5>3
        <5> QED
          BY <1>7, <4>1, <5>4, <5>5, <5>6
      <4> QED
        BY <4>2, <4>3
    <3> QED
      BY <3>1, <3>2
  <2> QED
    BY <2>1 DEF Coalesced, Size
<1>27. FreeListOrdered'
  <2>1. ASSUME NEW a \in Listed' \cup {Start}
        PROVE  /\ mem'[a].next \in Listed' \cup {End} /\ a < mem'[a].next
               /\ \A c \in Listed' : a < c => mem'[a].next <= c
    <3>1. CASE a = home
      <4>1. mem'[a].next = succ
        BY <1>16, <3>1
      <4>2. succ \in Listed \cup {End} /\ b < succ /\ succ \notin gone /\ succ \in Nat
        <5>1. CASE right
          <6>1. /\ succ = Next_(after) /\ after \in Listed /\ after < Next_(after)
                /\ Next_(after) \in Listed \cup {End}
            BY <1>8, <1>13, <5>1
          <6>2. Next_(after) \in Nat
            BY <1>6, <6>1
          <6> HIDE DEF succ
          <6> QED
            BY <1>7, <1>10, <6>1, <6>2
        <5>2. CASE ~ right
          BY <1>7, <1>10, <5>2
        <5> QED
          BY <5>1, <5>2
      <4>3. ASSUME NEW c \in Listed', home < c PROVE succ <= c
        <5>1. c \in Listed /\ c \in Nat /\ c \notin gone
          BY <1>12, <1>22, <4>3
        <5>2. after <= c
          BY <1>7, <1>8, <1>12, <4>3, <5>1
        <5> QED
          BY <1>8, <1>10, <1>13, <5>1, <5>2
      <4>4. home < succ /\ succ \in Listed' \cup {End}
        BY <1>7, <1>12, <1>17, <4>2
      <4> HIDE DEF home, succ
      <4> QED
        BY <3>1, <4>1, <4>3, <4>4
    <3>2. CASE a = i /\ a # home
      <4>1. ~ left /\ home = b /\ mem'[a].next = b
        BY <1>16, <3>2
      <4>2. ASSUME NEW c \in Listed', a < c PROVE b <= c
        BY <1>7, <1>8, <1>10, <1>22, <3>2, <4>1, <4>2
      <4> QED
        BY <1>7, <1>17, <3>2, <4>1, <4>2
    <3>3. CASE a # i /\ a # home
      <4>1. a \in Listed \cup {Start} /\ a \in Nat /\ a \notin gone /\ mem'[a].next = Next_(a)
        BY <1>6, <1>7, <1>10, <1>16, <1>22, <3>3
      <4>2. Next_(a) # after
        BY <1>1, <1>3, <1>7, <3>3, <4>1, OnePredecessor
      <4>3. /\ Next_(a) \in Listed \cup {End} /\ a < Next_(a) /\ Next_(a) \in Nat
            /\ \A c \in Listed : a < c => Next_(a) <= c
        BY <1>6, <1>8, <4>1
      <4>4. Next_(a) \in Listed' \cup {End}
        BY <1>7, <1>17, <4>2, <4>3
      <4>5. a < b => Next_(a) <= b
        <5>1. a < b => a < i
          BY <1>6, <1>7, <1>8, <1>10, <3>3, <4>1
        <5>2. a < i => Next_(a) <= i
          BY <1>6, <1>7, <4>1, <4>3
        <5> QED
          BY <1>7, <4>3, <5>1, <5>2
      <4> QED
        BY <1>17, <4>1, <4>3, <4>4, <4>5
    <3> QED
      BY <3>1, <3>2, <3>3
  <2> QED
    BY <1>3, <1>4, <1>6, <2>1 DEF FreeListOrdered, Next_
<1>24. Ownership'
  <2>1. /\ blocks' \ Free' = blocks \ Free
        /\ home \notin blocks \ Free /\ i \notin blocks \ Free
    BY <1>4, <1>6, <1>7, <1>12, <1>17
  <2> HIDE DEF home
  <2>2. \A a \in blocks \ Free : mem'[a].next = Next_(a) /\ mem'[a].size = Size(a)
    BY <1>6, <1>16, <2>1
  <2> QED
    BY <1>1, <1>4, <2>1, <2>2 DEF Ownership, Size, Next_
<1>25. StaleCleared'
  BY <1>1, <1>4, <1>16 DEF StaleCleared
<1>26. InCall'
  <2>1. CASE cur = NULL
    BY <1>1, <1>2, <1>4, <2>1 DEF InCall, Allocating, Taken
  <2>2. CASE cur # NULL
    <3>1. /\ cur \in Free' /\ mem'[cur].size = mem[cur].size
      <4>1. cur \notin gone /\ cur # home
        BY <1>6, <1>7, <1>12, <1>13
      <4> HIDE DEF home, gone
      <4> QED
        BY <1>6, <1>7, <1>16, <1>17, <2>2, <4>1 DEF Size
    <3>2. /\ Allocating /\ Taken /\ pc' = "own" /\ currp' = currp
      BY <1>2, <1>4, <2>2 DEF Allocating, Taken
    <3> QED
      BY <1>1, <1>2, <1>4, <2>2, <3>1, <3>2 DEF InCall, Allocating, Taken, Size
  <2> QED
    BY <2>1, <2>2
<1>28. Accounting'
  <2>1. ASSUME NEW a \in Arena
        PROVE  (\E c \in Free' : c <= a /\ a < c + mem'[c].size)
                 <=> (\E c \in Free : c <= a /\ a < c + Size(c))
    <3>1. a \in Nat
      BY Layout DEF Arena
    <3>2. home <= a /\ a < home + total
            <=> \/ left /\ i <= a /\ a < i + Size(i)
                \/ b <= a /\ a < b + Size(b)
                \/ right /\ after <= a /\ a < after + Size(after)
      <4>1. Size(b) \in Nat /\ Size(i) \in Nat /\ Size(after) \in Nat
        BY <1>6, <1>7, <1>10
      <4> QED
        BY <1>7, <1>10, <1>14, <3>1, <4>1
    <3>3. \A c \in Free \ (gone \cup {home}) : mem'[c].size = Size(c)
      BY <1>6, <1>16
    <3>4. gone \cup {home} = {b} \cup (IF left THEN {i} ELSE {}) \cup (IF right THEN {after} ELSE {})
      OBVIOUS
    <3>5. /\ b \in Free /\ (left => i \in Free) /\ (right => after \in Free)
          /\ home \in Free /\ home \notin gone
      BY <1>6, <1>7, <1>11, <1>12, <1>13, <1>17
    <3>6. (\E c \in gone \cup {home} : c <= a /\ a < c + Size(c)) <=> (home <= a /\ a < home + total)
      <4> HIDE DEF home, total, gone
      <4> QED
        BY <3>2, <3>4
    <3> HIDE DEF home, total, gone, left, right
    <3>7. Free = (Free \ (gone \cup {home})) \cup (gone \cup {home})
      BY <1>17, <3>5
    <3>8. Free' = (Free \ (gone \cup {home})) \cup {home}
      BY <1>17, <3>5
    <3>9. mem'[home].size = total
      BY <1>16
    <3> QED
      BY <3>3, <3>6, <3>7, <3>8, <3>9
  <2>2. FreeSpace' = FreeSpace
    BY <2>1 DEF FreeSpace, Size
  <2> QED
    BY <1>1, <1>4, <2>2 DEF Accounting
<1> QED
  BY <1>19, <1>20, <1>21, <1>23, <1>24, <1>25, <1>26, <1>27, <1>28 DEF Inv
-----------------------------------------------------------------------------
(* Every step of the manager and of its clients keeps the invariant.       *)
LEMMA NextInv ==
  ASSUME Inv, [Next]_vars
  PROVE  Inv'
<1>1. ASSUME UNCHANGED vars PROVE Inv'
  <2>1. /\ UNCHANGED <<mem, pEnd, freeBytesRemaining, pc, requestedSize, prevp, currp, iteratorp>>
        /\ UNCHANGED <<blockToInsert, returnp, blocks, asked, live, stale>>
    BY <1>1 DEF vars, globals, locals, ghosts
  <2>2. Free' = Free /\ Listed' = Listed
    BY <2>1 DEF Free, Listed, Detached
  <2>3. /\ TypeOK /\ SetUp /\ Tiling /\ FreeListOrdered /\ Coalesced
        /\ Ownership /\ StaleCleared /\ InCall /\ Accounting
    BY DEF Inv
  <2>4. TypeOK' /\ SetUp' /\ Tiling'
    BY <2>1, <2>3 DEF TypeOK, SetUp, Tiling, Size
  <2>5. FreeListOrdered' /\ Coalesced' /\ Ownership' /\ StaleCleared'
    BY <2>1, <2>2, <2>3 DEF FreeListOrdered, Coalesced, Ownership, StaleCleared, Size, Next_
  <2>6. InCall'
    BY <2>1, <2>2, <2>3 DEF InCall, Allocating, Taken, TooSmall, Size, Next_
  <2>7. Accounting'
    BY <2>1, <2>2, <2>3, SameAccounting
  <2> QED
    BY <2>4, <2>5, <2>6, <2>7 DEF Inv
<1>2. ASSUME NEW n \in Requests, RTOSMalloc(n) PROVE Inv'
  BY <1>2, MallocInv
<1>3. ASSUME NEW p \in DOMAIN live \cup stale \cup {NULL}, RTOSFree(p) PROVE Inv'
  <2>1. p \in DOMAIN live \cup stale
    BY <1>3 DEF RTOSFree
  <2> QED
    BY <1>3, <2>1, FreeInv
<1>4. ASSUME NEW p \in DOMAIN live \cup stale \cup {NULL}, RTOSFreeIgnored(p) PROVE Inv'
  BY <1>1, <1>4 DEF RTOSFreeIgnored
<1>5. ASSUME Code PROVE Inv'
  BY <1>5, InitHeapInv, CheckSizeInv, WalkToFitInv, TakeBlockInv, OwnBlockInv,
     WalkToPlaceInv, LinkBlockInv DEF Code
<1> QED
  BY <1>1, <1>2, <1>3, <1>4, <1>5 DEF Next

(* The inductive invariant holds in every reachable state of the manager.  *)
THEOREM Invariant == Spec => []Inv
<1>1. Inv /\ [Next]_vars => Inv'
  BY NextInv
<1> QED
  BY InitInv, <1>1, PTL DEF Spec

(* The tiling and the ownership of blocks keep clients apart: what         *)
(* RTOSMalloc returns lies inside a block of its own, past the header      *)
(* (line 83).                                                              *)
LEMMA ClientsFromInv == Inv => ClientsDisjoint
<1> SUFFICES ASSUME Inv, NEW p \in DOMAIN live
             PROVE  LET payload == p .. (p + live[p] - 1) IN
                    /\ payload \subseteq Arena
                    /\ \A q \in DOMAIN live \ {p} : payload \cap (q .. (q + live[q] - 1)) = {}
                    /\ \A b \in blocks : payload \cap (b .. (b + 15)) = {}
  BY DEF ClientsDisjoint
<1>1. TypeOK /\ Tiling /\ Ownership
  BY DEF Inv
<1>2. \A q \in DOMAIN live :
        /\ q - 64 \in blocks /\ live[q] + 64 <= Size(q - 64)
        /\ q \in Nat /\ live[q] \in Nat
  BY <1>1, HeapAssumption, Layout DEF TypeOK, Ownership, Arena
<1>3. \A b \in blocks :
        /\ b \in Nat /\ Size(b) \in Nat /\ Size(b) >= 64
        /\ Base <= b /\ b + Size(b) <= End
        /\ \A c \in blocks : b < c => b + Size(b) <= c
  <2> SUFFICES ASSUME NEW b \in blocks
               PROVE  /\ b \in Nat /\ Size(b) \in Nat /\ Size(b) >= 64
                      /\ Base <= b /\ b + Size(b) <= End
                      /\ \A c \in blocks : b < c => b + Size(b) <= c
    OBVIOUS
  <2>1. b \in Nat /\ Size(b) \in Nat /\ b + Size(b) <= End /\ Base <= b
    BY <1>1, BlockInArena, HeaderFacts
  <2>2. Size(b) > 0 /\ Size(b) % 64 = 0
    BY <1>1 DEF Tiling, Aligned
  <2>3. Size(b) >= 64
    BY <2>1, <2>2
  <2> QED
    BY <1>1, <2>1, <2>3 DEF Tiling
<1>4. p .. (p + live[p] - 1) \subseteq Arena
  BY <1>2, <1>3, Layout DEF Arena
<1>5. ASSUME NEW q \in DOMAIN live \ {p}
      PROVE  (p .. (p + live[p] - 1)) \cap (q .. (q + live[q] - 1)) = {}
  <2>1. p - 64 < q - 64 \/ q - 64 < p - 64
    BY <1>2
  <2> QED
    BY <1>2, <1>3, <2>1
<1>6. ASSUME NEW b \in blocks
      PROVE  (p .. (p + live[p] - 1)) \cap (b .. (b + 15)) = {}
  <2>1. CASE b <= p - 64
    BY <1>2, <1>3, <2>1
  <2>2. CASE p - 64 < b
    BY <1>2, <1>3, <2>2
  <2> QED
    BY <1>2, <1>3, <2>1, <2>2
<1> QED
  BY <1>4, <1>5, <1>6

(* A tiling with no owned block and no two adjacent free ones is one       *)
(* block: what the merges of lines 231-251 achieve.                        *)
LEMMA WholeFromInv == Inv => WholeAgain
<1> SUFFICES ASSUME Inv, pc = "idle", pEnd # NULL, DOMAIN live = {}
             PROVE  /\ mem[Start].next = Base /\ mem[Base].next = End
                    /\ mem[Base].size = End - Base
                    /\ freeBytesRemaining = End - Base
  BY DEF WholeAgain
<1>1. /\ TypeOK /\ SetUp /\ Tiling /\ FreeListOrdered /\ Coalesced /\ Ownership /\ Accounting
  BY DEF Inv
<1>2. pEnd = End /\ Base \in blocks
  BY <1>1 DEF SetUp, TypeOK
<1>3. Free = blocks /\ Listed = blocks
  BY <1>1 DEF Ownership, Free, Listed, Detached
<1>4. \A b \in blocks : b \in Nat /\ Base <= b /\ Start < b /\ b < End /\ Size(b) \in Nat
  <2>1. \A b \in blocks : b \in Headers /\ b # End
    BY <1>1, HeaderFacts
  <2>2. \A b \in Headers : b \in Nat /\ Base <= b /\ b <= End /\ Start < b /\ Size(b) \in Nat
    BY <1>1, HeaderFacts
  <2> QED
    BY <2>1, <2>2, Layout
<1>5. Base + Size(Base) = End
  BY <1>1, <1>2, <1>3 DEF Tiling, Coalesced
<1>6. Size(Base) = End - Base
  BY <1>2, <1>4, <1>5, Layout
<1>7. \A b \in blocks : b = Base
  BY <1>1, <1>2, <1>4, <1>5, Layout DEF Tiling
<1>8. /\ Next_(Start) \in blocks \cup {End} /\ Next_(Base) \in blocks \cup {End}
      /\ Start < Next_(Start) /\ Base < Next_(Base)
      /\ \A c \in blocks : Start < c => Next_(Start) <= c
  BY <1>1, <1>2, <1>3, Layout DEF FreeListOrdered
<1>9. Next_(Start) = Base /\ Next_(Base) = End
  <2>1. Next_(Start) <= Base
    BY <1>2, <1>8, Layout
  <2>2. Next_(Start) # End /\ Next_(Base) # Base
    BY <1>8, <2>1, Layout
  <2> QED
    BY <1>7, <1>8, <2>2
<1>10. FreeSpace = Base .. (Base + (End - Base) - 1)
  <2>1. Free = {Base}
    BY <1>2, <1>3, <1>7
  <2> QED
    BY <1>6, <2>1, Layout DEF FreeSpace, Arena
<1>11. freeBytesRemaining = End - Base
  <2>1. Base \in Nat /\ End - Base \in Nat
    BY Layout
  <2> QED
    BY <1>1, <1>10, <2>1, SpanSize DEF Accounting
<1> QED
  BY <1>6, <1>9, <1>11 DEF Size, Next_

(* Every reachable state is well typed: headers are aligned, inside the    *)
(* arena, and every pointer the code follows is one of them.               *)
THEOREM TypeCorrect == Spec => []TypeOK
<1>1. Inv => TypeOK
  BY DEF Inv
<1> QED
  BY Invariant, <1>1, PTL

(* No two clients share a byte, and no client is given a header            *)
(* (RTOSMalloc's pointer, split and size, lines 83-109).                   *)
THEOREM ClientsSafe == Spec => []ClientsDisjoint
BY Invariant, ClientsFromInv, PTL

(* The count that gates malloc (line 67) is the number of free bytes,      *)
(* at every step of every call.                                            *)
THEOREM CountExact == Spec => []Accounting
<1>1. Inv => Accounting
  BY DEF Inv
<1> QED
  BY Invariant, <1>1, PTL

(* The free list is in address order, complete, and has no two blocks that *)
(* touch, whatever the order of the frees (lines 215-260).                 *)
THEOREM ListSound == Spec => [](FreeListOrdered /\ Coalesced)
<1>1. Inv => FreeListOrdered /\ Coalesced
  BY DEF Inv
<1> QED
  BY Invariant, <1>1, PTL

(* A pointer that has been freed is refused by RTOSFree (lines 199-202).   *)
THEOREM NoDoubleFree == Spec => []StaleIgnored
<1>1. Inv => StaleIgnored
  BY DEF Inv, StaleCleared, StaleIgnored, Releasable
<1> QED
  BY Invariant, <1>1, PTL

(* When no client holds anything the arena is one free block again.        *)
THEOREM NoFragmentation == Spec => []WholeAgain
BY Invariant, WholeFromInv, PTL

(* The search returns the lowest block that fits, and gives up only when   *)
(* none does (lines 70-80).                                                *)
THEOREM LowestFit == Spec => FirstFit
<1> DEFINE Lowest == pc = "find" /\ pc' # "find" =>
             \A b \in Listed :
               mem[b].size < requestedSize \/ (returnp' # NULL /\ returnp' <= b + heapStructSize)
<1>1. ASSUME Inv, [Next]_vars PROVE Lowest
  <2> SUFFICES ASSUME pc = "find", pc' # "find", NEW b \in Listed, ~ TooSmall(b)
               PROVE  returnp' # NULL /\ returnp' <= b + 64
    BY DEF TooSmall
  <2>1. takeBlock
    BY <1>1 DEF Next, Code, RTOSMalloc, RTOSFree, RTOSFreeIgnored, initHeap, checkSize, walkToFit,
       ownBlock, walkToPlace, linkBlock, vars
  <2>2. TypeOK /\ SetUp /\ InCall
    BY <1>1 DEF Inv
  <2>3. /\ currp = Next_(prevp) /\ pEnd = End
        /\ \A c \in Listed : c < currp => TooSmall(c)
    BY <2>2, UpAndRunning DEF InCall
  <2>4. /\ b \in Nat /\ b < End /\ currp \in Nat
    <3>1. b \in Headers /\ b # End
      BY <2>2, HeaderFacts DEF Listed, Free
    <3>2. currp \in Headers \cup {NULL}
      BY <2>2 DEF TypeOK
    <3> QED
      BY <2>2, <3>1, <3>2, HeaderFacts, Layout
  <2>5. currp <= b /\ currp # pEnd
    BY <2>3, <2>4, Layout
  <2>6. returnp' = currp + 64
    BY <2>1, <2>3, <2>5 DEF takeBlock, Next_
  <2> QED
    BY <2>4, <2>5, <2>6
<1> QED
  BY Invariant, <1>1, PTL DEF Spec, FirstFit
-----------------------------------------------------------------------------
(* The memory manager implements the abstract allocator: a call that only  *)
(* searches, splits or merges is invisible to clients, and the steps that  *)
(* hand out, refuse and take back are the allocator's.                     *)

(* What a call in progress knows of the request it was made for.           *)
Serving ==
  /\ pc \in {"init", "check", "find"} => returnp = NULL
  /\ Allocating => requestedSize = Need(asked)
  /\ Taken => Size(currp) - requestedSize <= heapMINIMUM_BLOCK_SIZE

-----------------------------------------------------------------------------
(* There is a least element in a set of naturals.                          *)
LEMMA LeastNatural ==
  ASSUME NEW T, T \subseteq Nat, T # {}
  PROVE  \E m \in T : \A n \in T : m <= n
<1> DEFINE R == OpToRel(<, Nat)
<1>1. PICK m \in T : \A n \in T : <<n, m>> \notin R
  BY NatLessThanWellFounded, WFMin
<1>2. \A n \in T : ~ (n < m)
  BY <1>1 DEF OpToRel
<1> QED
  BY <1>2

(* The bytes a request needs, in closed form, are what lines 48 to 64      *)
(* compute, as long as the request is no larger than a signed size.        *)
LEMMA NeedIsBlockSize ==
  ASSUME NEW n \in Requests, 0 < n, n < AllocatedBit
  PROVE  /\ BlockSize(n) = Need(n)
         /\ Need(n) \in Nat /\ Need(n) >= n + 64
<1>1. n \in Nat /\ AllocatedBit \in Nat /\ AllocatedBit > 128
  BY HeapAssumption, Layout
<1>2. Wrap(n + 64) = n + 64
  BY <1>1 DEF Wrap
<1>3. BlockSize(n) = RoundUp(n + 64)
  BY <1>1, <1>2 DEF BlockSize
<1>4. Wrap((n + 64) + (64 - ((n + 64) % 64))) = (n + 64) + (64 - ((n + 64) % 64))
  BY <1>1 DEF Wrap
<1>5. RoundUp(n + 64) = IF (n + 64) % 64 = 0 THEN n + 64 ELSE (n + 64) + (64 - ((n + 64) % 64))
  BY <1>1, <1>4 DEF RoundUp, Aligned
<1>6. /\ Need(n) = IF (n + 64) % 64 = 0 THEN n + 64 ELSE (n + 64) + (64 - ((n + 64) % 64))
      /\ Need(n) \in Nat /\ Need(n) >= n + 64
  BY <1>1 DEF Need
<1> QED
  BY <1>3, <1>5, <1>6

(* Every byte of the arena is in some block.                               *)
LEMMA Covered ==
  ASSUME TypeOK, SetUp, Tiling, pEnd # NULL, NEW a \in Arena
  PROVE  \E b \in blocks : b <= a /\ a < b + Size(b)
<1> DEFINE below == {b \in blocks : b <= a}
           distance == {a - b : b \in below}
<1>1. a \in Nat /\ Base <= a /\ a < End
  BY Layout DEF Arena
<1>2. Base \in blocks /\ \A b \in blocks : b \in Nat /\ Size(b) \in Nat
  BY UpAndRunning, HeaderFacts DEF SetUp
<1>3. distance \subseteq Nat /\ distance # {}
  BY <1>1, <1>2
<1>4. PICK d \in distance : \A e \in distance : d <= e
  BY <1>3, LeastNatural
<1>5. PICK b \in below : d = a - b
  BY <1>4
<1>6. ASSUME b + Size(b) <= a PROVE FALSE
  <2>1. b + Size(b) \in below /\ Size(b) > 0
    BY <1>1, <1>2, <1>6, Layout DEF Tiling
  <2>2. PICK c \in below : c = b + Size(b)
    BY <2>1
  <2>3. a - c \in distance
    OBVIOUS
  <2>4. d <= a - c /\ d = a - b
    BY <1>4, <1>5, <2>3
  <2>5. PICK n \in Nat : n = a
    BY <1>1
  <2>6. PICK x \in Nat, z \in Nat : x = b /\ z = Size(b) /\ z > 0
    BY <1>2, <2>1
  <2>7. n - x <= n - (x + z)
    BY <2>2, <2>4, <2>5, <2>6
  <2> QED
    BY <2>6, <2>7
<1> QED
  BY <1>1, <1>2, <1>5, <1>6

(* Two blocks that share a byte are one.                                   *)
LEMMA OneBlock ==
  ASSUME TypeOK, Tiling, NEW b \in blocks, NEW c \in blocks, NEW a \in Int,
         b <= a, a < b + Size(b), c <= a, a < c + Size(c)
  PROVE  b = c
<1>1. b \in Nat /\ c \in Nat /\ Size(b) \in Nat /\ Size(c) \in Nat
  BY BlockInArena
<1> QED
  BY <1>1 DEF Tiling

(* What the allocator calls the gap is the bytes of the free blocks.       *)
LEMMA GapIsFree ==
  ASSUME Inv, pEnd # NULL
  PROVE  Abstract!Gap = FreeSpace
<1>1. TypeOK /\ SetUp /\ Tiling
  BY DEF Inv
<1>2. \A b \in blocks : b \in Nat /\ Size(b) \in Nat
  BY <1>1, BlockInArena
<1>3. \A b \in blocks \ Free : [c \in blocks \ Free |-> Size(c)][b] = Size(b)
  OBVIOUS
<1>4. \A a \in Arena :
        (\E b \in blocks \ Free : a \in b .. (b + Size(b) - 1))
          <=> ~ (\E b \in Free : b <= a /\ a < b + Size(b))
  <2> SUFFICES ASSUME NEW a \in Arena
               PROVE  (\E b \in blocks \ Free : a \in b .. (b + Size(b) - 1))
                        <=> ~ (\E b \in Free : b <= a /\ a < b + Size(b))
    OBVIOUS
  <2>1. a \in Int
    BY Layout DEF Arena
  <2>2. PICK b \in blocks : b <= a /\ a < b + Size(b)
    BY <1>1, Covered
  <2>3. \A c \in blocks : c <= a /\ a < c + Size(c) => c = b
    BY <1>1, <2>1, <2>2, OneBlock
  <2>4. \A c \in blocks : a \in c .. (c + Size(c) - 1) <=> c <= a /\ a < c + Size(c)
    BY <1>2, <2>1
  <2> QED
    BY <2>2, <2>3, <2>4 DEF Free
<1>5. Abstract!Gap = Arena \ UNION {b .. (b + Size(b) - 1) : b \in blocks \ Free}
  BY DEF Abstract!Gap, Abstract!Span
<1> QED
  BY <1>4, <1>5 DEF FreeSpace
-----------------------------------------------------------------------------
(* A call keeps what it knows of its request until it returns.             *)
LEMMA ServingStep ==
  ASSUME Inv, Serving, [Next]_vars
  PROVE  Serving'
<1>1. TypeOK /\ SetUp /\ InCall /\ FreeListOrdered
  BY DEF Inv
<1>2. CASE UNCHANGED vars
  BY <1>2 DEF Serving, Allocating, Taken, Size, vars, globals, locals, ghosts
<1>3. ASSUME NEW n \in Requests, RTOSMalloc(n) PROVE Serving'
  BY <1>3 DEF Serving, Allocating, Taken, RTOSMalloc
<1>4. ASSUME NEW p \in DOMAIN live \cup stale \cup {NULL}, RTOSFree(p) PROVE Serving'
  BY <1>1, <1>4 DEF Serving, Allocating, Taken, RTOSFree, InCall
<1>5. ASSUME NEW p \in DOMAIN live \cup stale \cup {NULL}, RTOSFreeIgnored(p) PROVE Serving'
  BY <1>2, <1>5 DEF RTOSFreeIgnored
<1>6. CASE initHeap
  BY <1>6 DEF Serving, Allocating, Taken, initHeap
<1>7. CASE checkSize
  <2>1. asked = requestedSize /\ asked \in Requests /\ requestedSize \in Nat
    BY <1>1, <1>7 DEF checkSize, InCall, TypeOK
  <2>2. CASE pc' = "idle"
    BY <2>2 DEF Serving, Allocating, Taken
  <2>3. CASE pc' = "find"
    <3>1. /\ requestedSize < AllocatedBit /\ BlockSize(requestedSize) > 0
          /\ requestedSize' = BlockSize(requestedSize) /\ asked' = asked /\ returnp' = returnp
          /\ pc = "check"
      BY <1>7, <2>3 DEF checkSize, HasRoom, Return
    <3>2. BlockSize(requestedSize) = Need(asked)
      BY <2>1, <3>1, BlockSizeLarge, NeedIsBlockSize
    <3> QED
      BY <2>3, <3>1, <3>2 DEF Serving, Allocating, Taken, Need
  <2> QED
    BY <1>7, <2>2, <2>3 DEF checkSize, Return
<1>8. CASE walkToFit
  BY <1>8 DEF Serving, Allocating, Taken, walkToFit, ghosts
<1>9. CASE takeBlock
  <2>1. CASE currp = pEnd
    BY <1>9, <2>1 DEF takeBlock, Return, Serving, Allocating, Taken
  <2>2. CASE currp # pEnd
    <3>1. /\ pc = "find" /\ pc' \in {"own", "insert"} /\ UNCHANGED <<requestedSize, currp, asked>>
      BY <1>9, <2>2 DEF takeBlock
    <3>2. prevp \in Listed \cup {Start} /\ currp \in Listed /\ requestedSize \in Nat /\ requestedSize > 0
      <4>1. pEnd # NULL /\ requestedSize \in Nat /\ asked \in Requests \cup {None}
        BY <1>1, <3>1, UpAndRunning, Layout DEF TypeOK
      <4>2. prevp \in Listed \cup {Start} /\ currp = Next_(prevp)
        BY <1>1, <3>1 DEF InCall
      <4>3. requestedSize > 0
        BY <1>1, <3>1, <4>1, HeapAssumption DEF InCall, Allocating
      <4> QED
        BY <1>1, <2>2, <4>1, <4>2, <4>3 DEF FreeListOrdered
    <3>3. /\ mem \in [Headers \cup {Start} -> HeaderType] /\ currp \in Headers
          /\ currp \in Nat /\ Size(currp) \in Nat
      BY <1>1, <3>2, HeaderFacts DEF TypeOK, Listed, Free
    <3>4. Size(currp)' = IF Splits(currp) THEN requestedSize ELSE Size(currp)
      <4>1. CASE Splits(currp)
        BY <1>9, <2>2, <3>2, <3>3, <4>1 DEF takeBlock, Size, header, HeaderType
      <4>2. CASE ~ Splits(currp)
        BY <1>9, <2>2, <3>2, <3>3, <4>2 DEF takeBlock, Size, header, HeaderType
      <4> QED
        BY <4>1, <4>2
    <3>5. Size(currp') = Size(currp) /\ Size(currp)' - requestedSize <= 128
      BY <3>1, <3>2, <3>3, <3>4 DEF Splits, Size
    <3>6. requestedSize = Need(asked)
      BY <3>1 DEF Serving, Allocating
    <3> QED
      BY <3>1, <3>5, <3>6 DEF Serving, Allocating, Taken, Size, Need
  <2> QED
    BY <2>1, <2>2
<1>10. CASE ownBlock
  BY <1>10 DEF Serving, Allocating, Taken, ownBlock, Return
<1>11. CASE walkToPlace
  BY <1>11 DEF Serving, Allocating, Taken, walkToPlace, globals, ghosts, Size
<1>12. CASE linkBlock
  <2>1. CASE currp = NULL
    BY <1>12, <2>1 DEF linkBlock, Return, Serving, Allocating, Taken
  <2>2. CASE currp # NULL
    <3>1. pc = "insert" /\ pc' = "own" /\ UNCHANGED <<requestedSize, currp, asked>>
      BY <1>12, <2>2 DEF linkBlock
    <3>2. iteratorp # currp /\ blockToInsert # currp /\ currp \in Headers
      BY <1>1, <2>2, <3>1, HeaderFacts DEF InCall, Listed, Detached, TypeOK
    <3>3. mem'[currp] = mem[currp]
      BY <1>1, <1>12, <3>2 DEF linkBlock, Linked, TypeOK
    <3> QED
      BY <3>1, <3>3, <2>2 DEF Serving, Allocating, Taken, Size
  <2> QED
    BY <2>1, <2>2
<1> QED
  BY <1>2, <1>3, <1>4, <1>5, <1>6, <1>7, <1>8, <1>9, <1>10, <1>11, <1>12 DEF Next, Code

LEMMA ServingAlways == Spec => []Serving
<1>1. Init => Serving
  BY DEF Init, Serving, Allocating, Taken
<1>2. Inv /\ Serving /\ [Next]_vars => Serving'
  BY ServingStep
<1> QED
  BY Invariant, <1>1, <1>2, PTL DEF Spec
-----------------------------------------------------------------------------
(* A step that leaves the owned blocks, their sizes and what was asked for *)
(* alone is invisible to clients.                                          *)
LEMMA Invisible ==
  ASSUME blocks' \ Free' = blocks \ Free,
         \A b \in blocks \ Free : mem'[b].size = mem[b].size,
         asked' = asked, asked = None => returnp' = returnp
  PROVE  UNCHANGED Abstract!vars
<1>1. [b \in blocks' \ Free' |-> Size(b)'] = [b \in blocks \ Free |-> Size(b)]
  BY DEF Size
<1> QED
  BY <1>1 DEF Abstract!vars

(* Entering RTOSMalloc is the allocator's Ask.                             *)
LEMMA MallocAsks ==
  ASSUME Inv, NEW n \in Requests, RTOSMalloc(n)
  PROVE  Abstract!Ask(n)
<1>1. asked = None /\ asked' = n /\ n # None
  BY HeapAssumption DEF Inv, InCall, RTOSMalloc
<1>2. [b \in blocks' \ Free' |-> Size(b)'] = [b \in blocks \ Free |-> Size(b)]
  BY DEF RTOSMalloc, Free, Size, globals
<1> QED
  BY <1>1, <1>2 DEF Abstract!Ask

(* A request that no run of free bytes can hold may be refused.            *)
LEMMA MayRefuse ==
  ASSUME Inv, asked # None, asked' = None, returnp' = NULL,
         blocks' = blocks, mem' = mem, pEnd # NULL,
         asked > 0 => \A b \in FreeSpace : ~ (b .. (b + Need(asked) - 1) \subseteq FreeSpace)
  PROVE  Abstract!Refuse
<1>1. Abstract!Gap = FreeSpace
  BY GapIsFree
<1>2. [b \in blocks' \ Free' |-> Size(b)'] = [b \in blocks \ Free |-> Size(b)]
  BY DEF Free, Size
<1> QED
  BY <1>1, <1>2 DEF Abstract!Refuse, Abstract!Span

(* The test of line 67 refuses only requests that are larger than all the  *)
(* free bytes together.                                                    *)
LEMMA CheckSizeRefines ==
  ASSUME Inv, Serving, checkSize
  PROVE  Abstract!Refuse \/ UNCHANGED Abstract!vars
<1>1. /\ TypeOK /\ SetUp /\ InCall /\ Accounting /\ pc = "check"
      /\ asked = requestedSize /\ asked \in Requests /\ asked # None /\ returnp = NULL
      /\ blocks' = blocks /\ mem' = mem /\ returnp' = returnp
      /\ asked \in Nat
  BY HeapAssumption DEF Inv, InCall, TypeOK, Serving, checkSize, globals
<1>2. CASE asked' = asked
  BY <1>1, <1>2, Invisible DEF Free
<1>3. CASE asked' # asked
  <2>1. ~ (asked < AllocatedBit /\ HasRoom(BlockSize(asked))) /\ asked' = None
    BY <1>1, <1>3 DEF checkSize
  <2>2. ASSUME asked > 0, NEW b \in FreeSpace, b .. (b + Need(asked) - 1) \subseteq FreeSpace
        PROVE  FALSE
    <3>1. b \in Nat /\ IsFiniteSet(FreeSpace) /\ Cardinality(FreeSpace) \in Nat
      BY Layout, FreeSpaceFinite, FS_CardinalityType DEF FreeSpace, Arena
    <3>2. Need(asked) \in Nat /\ Need(asked) >= asked + 64
      BY <1>1, <2>2 DEF Need
    <3>3. Need(asked) <= Cardinality(FreeSpace)
      <4> HIDE DEF Need
      <4>1. Cardinality(b .. (b + Need(asked) - 1)) = Need(asked)
        BY <3>1, <3>2, SpanSize
      <4>2. Cardinality(b .. (b + Need(asked) - 1)) <= Cardinality(FreeSpace)
        BY <2>2, <3>1, FS_Subset
      <4> QED
        BY <4>1, <4>2
    <3>4. Cardinality(FreeSpace) <= End
      <4>1. Base \in Int /\ End - 1 \in Int /\ Base > 0 /\ Base < End
        BY Layout
      <4>2. IsFiniteSet(Base .. (End - 1)) /\ Cardinality(Base .. (End - 1)) = End - Base
        <5>1. PICK last \in Int : last = End - 1
          BY <4>1
        <5>2. Base \in Int /\ Base <= last /\ End = last + 1
          BY <4>1, <5>1, Layout
        <5>3. IsFiniteSet(Base .. last) /\ Cardinality(Base .. last) = last - Base + 1
          BY <5>2, FS_Interval
        <5> QED
          BY <5>1, <5>2, <5>3
      <4>3. FreeSpace \in SUBSET (Base .. (End - 1))
        BY DEF FreeSpace, Arena
      <4>4. Cardinality(FreeSpace) <= Cardinality(Base .. (End - 1))
        BY <4>2, <4>3, FS_Subset
      <4> QED
        BY <3>1, <4>1, <4>2, <4>4, Layout
    <3>5. asked < AllocatedBit
      BY <1>1, <3>1, <3>2, <3>3, <3>4, Layout
    <3>6. BlockSize(asked) = Need(asked) /\ Need(asked) > 0
      BY <1>1, <2>2, <3>2, <3>5, NeedIsBlockSize
    <3> QED
      BY <1>1, <2>1, <3>3, <3>5, <3>6 DEF HasRoom, Accounting
  <2>3. pEnd # NULL
    BY <1>1, UpAndRunning, Layout
  <2> QED
    BY <1>1, <2>1, <2>2, <2>3, MayRefuse
<1> QED
  BY <1>2, <1>3

(* A run of free bytes lies in one free block, for no two of them touch.   *)
LEMMA RunInOneBlock ==
  ASSUME Inv, Listed = Free, NEW a \in FreeSpace, NEW n \in Nat,
         a .. (a + n - 1) \subseteq FreeSpace
  PROVE  \E b \in Free : n <= Size(b)
<1>1. TypeOK /\ Tiling /\ Coalesced
  BY DEF Inv
<1>2. \A b \in blocks : b \in Nat /\ Size(b) \in Nat /\ b + Size(b) \in Int
  BY <1>1, BlockInArena
<1>3. a \in Nat
  BY Layout DEF FreeSpace, Arena
<1>4. PICK b \in Free : b <= a /\ a < b + Size(b)
  BY DEF FreeSpace
<1>5. ASSUME n > Size(b) PROVE FALSE
  <2> DEFINE e == b + Size(b)
  <2>1. b \in blocks /\ e \in Int
    BY <1>2 DEF Free
  <2>2. e \in FreeSpace
    BY <1>2, <1>3, <1>4, <1>5, <2>1
  <2>3. PICK c \in Free : c <= e /\ e < c + Size(c)
    BY <2>2 DEF FreeSpace
  <2>4. e \in blocks
    BY <1>1, <2>1, <2>2, Layout DEF Tiling, FreeSpace, Arena
  <2>5. c \in blocks /\ c = e
    BY <1>1, <1>2, <2>3, <2>4 DEF Tiling, Free
  <2> QED
    BY <1>1, <2>3, <2>5 DEF Coalesced
<1>6. n \in Nat /\ Size(b) \in Nat
  BY <1>2, <1>4 DEF Free
<1> QED
  BY <1>4, <1>5, <1>6

(* The end of the walk refuses when no free block is large enough; taking  *)
(* and splitting a free block is invisible.                                *)
LEMMA TakeBlockRefines ==
  ASSUME Inv, Serving, takeBlock
  PROVE  Abstract!Refuse \/ UNCHANGED Abstract!vars
<1>1. /\ TypeOK /\ SetUp /\ InCall /\ FreeListOrdered /\ Tiling /\ pc = "find" /\ pEnd = End
      /\ returnp = NULL /\ requestedSize = Need(asked) /\ requestedSize \in Nat
      /\ asked \in Requests /\ asked # None /\ Listed = Free /\ pEnd # NULL
  <2>1. pc = "find" /\ TypeOK /\ SetUp /\ InCall
    BY DEF takeBlock, Inv
  <2> QED
    BY <2>1, UpAndRunning, Layout DEF Inv, InCall, TypeOK, Serving, Allocating, Listed, Detached
<1>2. CASE currp = pEnd
  <2>1. asked' = None /\ returnp' = NULL /\ mem' = mem /\ blocks' = blocks
    BY <1>1, <1>2 DEF takeBlock, globals
  <2>2. ASSUME NEW a \in FreeSpace, a .. (a + Need(asked) - 1) \subseteq FreeSpace
        PROVE  FALSE
    <3>1. PICK b \in Free : requestedSize <= Size(b)
      BY <1>1, <2>2, RunInOneBlock
    <3>2. b \in Nat /\ b < End /\ Size(b) \in Nat
      <4>1. b \in Headers /\ b # End
        BY <1>1, HeaderFacts DEF Free
      <4> QED
        BY <1>1, <4>1, HeaderFacts, Layout
    <3>3. TooSmall(b)
      BY <1>1, <1>2, <3>2 DEF InCall
    <3> QED
      BY <1>1, <3>1, <3>2, <3>3 DEF TooSmall, Size
  <2> QED
    BY <1>1, <2>1, <2>2, MayRefuse
<1>3. CASE currp # pEnd
  <2>1. /\ prevp \in Listed \cup {Start} /\ currp \in Listed /\ requestedSize > 0
    <3>1. prevp \in Listed \cup {Start} /\ currp = Next_(prevp)
      BY <1>1 DEF InCall
    <3>2. requestedSize > 0
      BY <1>1, HeapAssumption DEF InCall, Allocating
    <3> QED
      BY <1>1, <1>3, <3>1, <3>2 DEF FreeListOrdered
  <2>2. /\ mem \in [Headers \cup {Start} -> HeaderType]
        /\ \A b \in blocks : b \in Headers /\ b \in Nat /\ Size(b) \in Nat
        /\ prevp \in Headers \cup {Start} /\ currp \in blocks
    <3>1. mem \in [Headers \cup {Start} -> HeaderType] /\ blocks \subseteq Headers
      BY <1>1, HeaderFacts DEF TypeOK
    <3> QED
      BY <1>1, <2>1, <3>1, BlockInArena DEF Listed, Free
  <2>3. asked' = asked
    BY <1>3 DEF takeBlock
  <2>4. CASE ~ Splits(currp)
    <3>1. mem' = [mem EXCEPT ![prevp].next = mem[currp].next] /\ blocks' = blocks
      BY <1>3, <2>4 DEF takeBlock
    <3>2. \A b \in blocks : mem'[b].owned = mem[b].owned /\ mem'[b].size = mem[b].size
      BY <2>2, <3>1 DEF HeaderType
    <3>3. Free' = Free
      BY <3>1, <3>2 DEF Free
    <3> QED
      BY <1>1, <2>3, <3>1, <3>2, <3>3, Invisible DEF Free
  <2>5. CASE Splits(currp)
    <3> DEFINE rest == currp + requestedSize
    <3>1. /\ mem' = [mem EXCEPT ![prevp].next = mem[currp].next,
                                ![rest] = header(@.next, mem[currp].size - requestedSize, FALSE),
                                ![currp].size = requestedSize]
          /\ blocks' = blocks \cup {rest}
      BY <1>3, <2>5 DEF takeBlock
    <3>2. rest \notin blocks
      <4>1. Size(currp) - requestedSize > 0 /\ currp < rest /\ rest < currp + Size(currp)
        BY <1>1, <2>1, <2>2, <2>5 DEF Splits, Size
      <4> QED
        BY <1>1, <2>2, <4>1, OneBlock DEF Tiling
    <3>3. \A b \in blocks : mem'[b].owned = mem[b].owned
      BY <2>2, <3>1, <3>2 DEF HeaderType
    <3>4. \A b \in blocks \ {currp} : mem'[b].size = mem[b].size
      BY <2>2, <3>1, <3>2 DEF HeaderType
    <3>5. rest \in Free'
      <4>1. rest \in Headers
        <5>1. /\ rest % 64 = 0 /\ rest \in Nat
          <6>1. requestedSize % 64 = 0 /\ currp % 64 = 0
            BY <1>1, <2>2, HeaderFacts DEF InCall, Allocating, Aligned
          <6> QED
            BY <1>1, <2>2, <6>1
        <5>2. Base <= rest /\ rest <= End
          <6>1. currp + Size(currp) <= End /\ Base <= currp
            BY <1>1, <2>2, BlockInArena, HeaderFacts
          <6>2. requestedSize <= Size(currp)
            BY <1>1, <2>2, <2>5 DEF Splits, Size
          <6> QED
            BY <1>1, <2>2, <6>1, <6>2, Layout
        <5> QED
          BY <5>1, <5>2, Layout DEF Headers, Aligned
      <4> QED
        BY <2>2, <3>1, <3>2, <4>1 DEF Free, header
    <3>6. blocks' \ Free' = blocks \ Free
      BY <3>1, <3>3, <3>5 DEF Free
    <3>7. currp \in Free
      BY <1>1, <2>1
    <3> QED
      BY <1>1, <2>3, <3>4, <3>6, <3>7, Invisible
  <2> QED
    BY <2>4, <2>5
<1> QED
  BY <1>2, <1>3

(* Marking the block as the application's is the allocator's Grant.        *)
LEMMA OwnBlockGrants ==
  ASSUME Inv, Serving, ownBlock
  PROVE  Abstract!Grant
<1>1. /\ TypeOK /\ SetUp /\ InCall /\ Tiling /\ pc = "own" /\ pEnd # NULL
      /\ asked \in Requests /\ asked > 0 /\ requestedSize = Need(asked) /\ requestedSize \in Nat
      /\ currp \in Free /\ Size(currp) >= requestedSize /\ returnp = currp + 64
      /\ Size(currp) - requestedSize <= 128
  <2>1. pc = "own" /\ TypeOK /\ SetUp /\ InCall /\ currp # NULL
    BY DEF ownBlock, Inv, InCall
  <2> QED
    BY <2>1, UpAndRunning, Layout DEF Inv, InCall, TypeOK, Serving, Allocating, Taken
<1>2. /\ mem' = [mem EXCEPT ![currp].owned = TRUE, ![currp].next = NULL]
      /\ asked' = None /\ returnp' = returnp /\ blocks' = blocks
  BY DEF ownBlock
<1>3. /\ mem \in [Headers \cup {Start} -> HeaderType] /\ blocks \subseteq Headers
      /\ currp \in blocks /\ currp \in Nat /\ Size(currp) \in Nat
  <2>1. currp \in blocks
    BY <1>1 DEF Free
  <2> QED
    BY <1>1, <2>1, BlockInArena, HeaderFacts DEF TypeOK
<1>4. /\ \A b \in blocks : mem'[b].size = mem[b].size
      /\ \A b \in blocks \ {currp} : mem'[b].owned = mem[b].owned
      /\ mem'[currp].owned = TRUE
  BY <1>2, <1>3 DEF HeaderType
<1>5. blocks' \ Free' = (blocks \ Free) \cup {currp}
  BY <1>1, <1>2, <1>3, <1>4 DEF Free
<1>6. [b \in blocks' \ Free' |-> Size(b)']
        = [x \in (blocks \ Free) \cup {currp} |->
             IF x = currp THEN Size(currp) ELSE [b \in blocks \ Free |-> Size(b)][x]]
  BY <1>3, <1>4, <1>5 DEF Size
<1>7. Abstract!Gap = FreeSpace
  BY <1>1, GapIsFree DEF Inv
<1>8. currp \in FreeSpace /\ currp .. (currp + Size(currp) - 1) \subseteq FreeSpace
  <2>1. currp .. (currp + Size(currp) - 1) \subseteq Arena /\ Size(currp) > 0
    BY <1>1, <1>3, BlockInArena DEF Tiling
  <2> QED
    BY <1>1, <1>3, <2>1 DEF FreeSpace
<1>9. Size(currp) \in Need(asked) .. (Need(asked) + 128)
  BY <1>1, <1>3
<1>10. asked # None /\ asked > 0
  BY <1>1, HeapAssumption
<1> QED
  BY <1>1, <1>2, <1>6, <1>7, <1>8, <1>9, <1>10 DEF Abstract!Grant, Abstract!Span

(* Linking a block and merging it with its neighbours touches only blocks  *)
(* that are free.                                                          *)
LEMMA LinkBlockRefines ==
  ASSUME Inv, linkBlock
  PROVE  UNCHANGED Abstract!vars
<1> DEFINE after == mem[iteratorp].next
           left  == Touch(iteratorp, blockToInsert)
           right == Touch(blockToInsert, after) /\ after # pEnd
           home  == IF left THEN iteratorp ELSE blockToInsert
           gone  == (IF left THEN {blockToInsert} ELSE {}) \cup (IF right THEN {after} ELSE {})
<1>1. /\ TypeOK /\ SetUp /\ InCall /\ FreeListOrdered /\ pc = "insert" /\ pEnd # NULL
  <2>1. pc = "insert" /\ TypeOK /\ SetUp
    BY DEF linkBlock, Inv
  <2> QED
    BY <2>1, UpAndRunning, Layout DEF Inv
<1>2. /\ blocks' = blocks \ gone /\ asked' = asked /\ returnp' = returnp
  BY DEF linkBlock
<1>3. PICK hdr : mem' = Linked(home, hdr) /\ hdr.owned = mem[home].owned
  BY DEF linkBlock, header
<1>4. /\ blockToInsert \in Free /\ iteratorp \in Listed \cup {Start}
      /\ mem \in [Headers \cup {Start} -> HeaderType]
      /\ Start \notin Headers /\ blocks \subseteq Headers
  BY <1>1, HeaderFacts DEF InCall, TypeOK
<1>5. gone \subseteq Free
  BY <1>1, <1>4 DEF FreeListOrdered, Next_, Listed
<1>6. \A a \in blocks \ {blockToInsert, iteratorp} : mem'[a] = mem[a]
  BY <1>3, <1>4 DEF Linked
<1>7. \A a \in blocks : mem'[a].owned = mem[a].owned
  <2>1. home \in Headers \cup {Start} /\ iteratorp \in Headers \cup {Start}
        /\ blockToInsert \in Headers \cup {Start}
    BY <1>4 DEF Listed, Free
  <2>2. mem'[home].owned = mem[home].owned /\ mem'[iteratorp].owned = mem[iteratorp].owned
    <3>1. CASE iteratorp = home
      BY <1>3, <1>4, <2>1, <3>1 DEF Linked
    <3>2. CASE iteratorp # home
      <4> HIDE DEF home
      <4>1. mem' = [mem EXCEPT ![home] = hdr, ![iteratorp].next = home]
        BY <1>3, <3>2 DEF Linked
      <4>2. mem'[home] = hdr /\ mem'[iteratorp] = [mem[iteratorp] EXCEPT !.next = home]
        BY <1>4, <2>1, <3>2, <4>1
      <4>3. mem[iteratorp] \in HeaderType
        BY <1>4, <2>1
      <4> QED
        BY <1>3, <4>2, <4>3 DEF HeaderType
    <3> QED
      BY <3>1, <3>2
  <2>3. CASE home = blockToInsert
    BY <1>6, <2>2, <2>3
  <2>4. CASE home = iteratorp /\ home # blockToInsert
    BY <1>3, <1>4, <1>6, <2>1, <2>2, <2>4 DEF Linked
  <2> QED
    BY <2>3, <2>4
<1>8. blocks' \ Free' = blocks \ Free
  BY <1>2, <1>5, <1>7 DEF Free
<1>9. \A a \in blocks \ Free : mem'[a].size = mem[a].size
  BY <1>4, <1>6 DEF Listed
<1> QED
  BY <1>2, <1>8, <1>9, Invisible

(* Clearing the bit of a freed block is the allocator's Release.           *)
LEMMA FreeReleases ==
  ASSUME Inv, NEW p \in DOMAIN live \cup stale, RTOSFree(p)
  PROVE  \E b \in Arena : Abstract!Release(b)
<1> DEFINE h == p - 64
<1>1. /\ TypeOK /\ SetUp /\ InCall /\ Ownership /\ StaleCleared /\ asked = None
      /\ mem[h].owned
  BY DEF Inv, InCall, RTOSFree, Releasable
<1>2. /\ mem' = [mem EXCEPT ![h].owned = FALSE] /\ asked' = asked /\ returnp' = returnp
      /\ blocks' = blocks
  BY DEF RTOSFree, Freed
<1>3. p \in DOMAIN live
  BY <1>1 DEF StaleCleared
<1>4. h \in blocks \ Free
  BY <1>1, <1>3 DEF Ownership
<1>5. /\ mem \in [Headers \cup {Start} -> HeaderType] /\ blocks \subseteq Headers
  BY <1>1, HeaderFacts DEF TypeOK
<1>6. /\ \A b \in blocks : mem'[b].size = mem[b].size
      /\ \A b \in blocks \ {h} : mem'[b].owned = mem[b].owned
      /\ mem'[h].owned = FALSE
  BY <1>2, <1>4, <1>5 DEF HeaderType
<1>7. blocks' \ Free' = (blocks \ Free) \ {h}
  BY <1>2, <1>4, <1>6 DEF Free
<1>8. [b \in blocks' \ Free' |-> Size(b)']
        = [x \in (blocks \ Free) \ {h} |-> [b \in blocks \ Free |-> Size(b)][x]]
  BY <1>6, <1>7 DEF Size
<1>9. h \in Arena
  <2>1. h \in Headers /\ h # End
    BY <1>1, <1>4, HeaderFacts
  <2> QED
    BY <1>1, <2>1, HeaderFacts, Layout DEF Arena
<1> QED
  BY <1>1, <1>2, <1>4, <1>8, <1>9 DEF Abstract!Release
-----------------------------------------------------------------------------
(* Every step of the manager is a step of the abstract allocator or is     *)
(* invisible to its clients.                                               *)
LEMMA StepRefines ==
  ASSUME Inv, Serving, [Next]_vars
  PROVE  [Abstract!Next]_(Abstract!vars)
<1>1. CASE UNCHANGED vars
  <2>1. UNCHANGED <<mem, blocks, asked, returnp>>
    BY <1>1 DEF vars, globals, ghosts
  <2> QED
    BY <2>1, Invisible DEF Free
<1>2. ASSUME NEW n \in Requests, RTOSMalloc(n) PROVE Abstract!Next
  BY <1>2, MallocAsks DEF Abstract!Next
<1>3. ASSUME NEW p \in DOMAIN live \cup stale \cup {NULL}, RTOSFree(p) PROVE Abstract!Next
  <2>1. p \in DOMAIN live \cup stale
    BY <1>3 DEF RTOSFree
  <2> QED
    BY <1>3, <2>1, FreeReleases DEF Abstract!Next
<1>4. ASSUME NEW p \in DOMAIN live \cup stale \cup {NULL}, RTOSFreeIgnored(p)
      PROVE UNCHANGED Abstract!vars
  <2>1. UNCHANGED <<mem, blocks, asked, returnp>>
    BY <1>4 DEF RTOSFreeIgnored, vars, globals, ghosts
  <2> QED
    BY <2>1, Invisible DEF Free
<1>5. ASSUME initHeap PROVE UNCHANGED Abstract!vars
  <2>1. /\ mem \in [Headers \cup {Start} -> HeaderType] /\ Base \in Headers
        /\ blocks = {} /\ blocks' = {Base} /\ asked' = asked /\ returnp' = returnp
    <3>1. pc = "init" /\ blocks' = {Base} /\ asked' = asked /\ returnp' = returnp
      BY <1>5 DEF initHeap
    <3>2. blocks = {} /\ mem \in [Headers \cup {Start} -> HeaderType]
      BY <3>1 DEF Inv, SetUp, TypeOK
    <3>3. Base \in Headers
      BY Layout DEF Headers, Aligned
    <3> QED
      BY <3>1, <3>2, <3>3
  <2>2. mem'[Base] = header(End, End - Base, FALSE)
    BY <1>5, <2>1 DEF initHeap
  <2>3. blocks' \ Free' = {} /\ blocks \ Free = {}
    BY <2>1, <2>2 DEF Free, header
  <2> QED
    BY <2>1, <2>3, Invisible
<1>6. ASSUME walkToFit \/ walkToPlace PROVE UNCHANGED Abstract!vars
  <2>1. UNCHANGED <<mem, blocks, asked, returnp>>
    BY <1>6 DEF walkToFit, walkToPlace, globals, ghosts
  <2> QED
    BY <2>1, Invisible DEF Free
<1>7. ASSUME Code PROVE [Abstract!Next]_(Abstract!vars)
  BY <1>5, <1>6, <1>7, CheckSizeRefines, TakeBlockRefines, OwnBlockGrants, LinkBlockRefines
     DEF Code, Abstract!Next
<1> QED
  BY <1>1, <1>2, <1>3, <1>4, <1>7 DEF Next

(* The manager keeps the allocator's promises, for every arena and every   *)
(* sequence of calls: what malloc gives out overlaps nothing that is in    *)
(* use and is large enough, and malloc refuses only what fits in no gap    *)
(* (mem_man.c 38-114 and 187-260).                                         *)
THEOREM HeapImplementsAllocator == Spec => Implements
<1>1. Init => Abstract!Init
  <2> SUFFICES ASSUME Init PROVE Abstract!Init
    OBVIOUS
  <2>1. [b \in blocks \ Free |-> Size(b)] = [b \in {} |-> 0]
    BY DEF Init, Free
  <2> QED
    BY <2>1 DEF Init, Abstract!Init
<1>2. Inv /\ Serving /\ [Next]_vars => [Abstract!Next]_(Abstract!vars)
  BY StepRefines
<1> QED
  BY Invariant, ServingAlways, <1>1, <1>2, PTL DEF Spec, Implements, Abstract!Spec
=============================================================================
