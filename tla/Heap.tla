-------------------------------- MODULE Heap --------------------------------
(***************************************************************************)
(* The kernel's memory manager, Kernel/memory/mem_man.c: an address-       *)
(* ordered free list threaded through headers that precede every block of  *)
(* an arena of TOTAL_HEAP_SIZE bytes.  One action stands for the code      *)
(* between two loop tests; the loops take one step per iteration.  The     *)
(* kernel runs one system call at a time and no interrupt handler touches  *)
(* the heap, so one program counter is enough.                             *)
(*                                                                         *)
(* A header is [next, size, owned]: owned is the top bit of the size word. *)
(* The words of the arena that are no header are left out; a header that   *)
(* has been merged away keeps its words until a client gets the bytes.     *)
(***************************************************************************)
EXTENDS Integers, FiniteSets

CONSTANTS
  START_ADDRESS, END_ADDRESS,  \* the range sbrk_handler serves
  TOTAL_HEAP_SIZE,             \* what initHeap asks sbrk_handler for
  Start,                       \* the address of the static header `start'
  AllocatedBit,                \* the top bit of a size_t
  Requests                     \* the values of requestedSize

NULL == 0
None == -1

BYTE_ALIGNMENT == 64
heapStructSize == 64           \* 16 bytes of header, rounded up
heapMINIMUM_BLOCK_SIZE == 2 * heapStructSize

Aligned(a) == a % BYTE_ALIGNMENT = 0
AlignDown(a) == a - (a % BYTE_ALIGNMENT)

(* sbrk_handler, which initHeap calls once and no one else calls.          *)
sbrk_handler == IF START_ADDRESS + TOTAL_HEAP_SIZE <= END_ADDRESS
                THEN START_ADDRESS ELSE NULL

(* Where initHeap puts the first block and the end marker.                 *)
Base == IF Aligned(sbrk_handler) THEN sbrk_handler
        ELSE AlignDown(sbrk_handler + (BYTE_ALIGNMENT - 1))
End == AlignDown(sbrk_handler + TOTAL_HEAP_SIZE - heapStructSize)

Headers == {a \in Base .. End : Aligned(a)}
Arena == Base .. (End - 1)

(* The arena is inside the range sbrk_handler serves and holds a block;    *)
(* the static header lies below it, in the kernel's own memory; a size is  *)
(* never mistaken for an owned one.                                        *)
ASSUME HeapAssumption ==
  /\ START_ADDRESS \in Nat /\ END_ADDRESS \in Nat /\ TOTAL_HEAP_SIZE \in Nat
  /\ START_ADDRESS + TOTAL_HEAP_SIZE <= END_ADDRESS
  /\ TOTAL_HEAP_SIZE >= 4 * BYTE_ALIGNMENT
  /\ Start \in 1 .. (START_ADDRESS - 1)
  /\ AllocatedBit \in Nat /\ AllocatedBit > END_ADDRESS
  /\ Requests \subseteq 0 .. (2 * AllocatedBit - 1)

VARIABLES
  mem,                 \* the headers in memory
  pEnd,
  freeBytesRemaining,
  pc,                  \* idle, init, check, find, insert, own
  requestedSize,       \* RTOSMalloc's local variables
  prevp, currp,        \* currp is NULL while RTOSFree runs
  returnp,
  iteratorp,           \* addBlockToFreeList's
  blockToInsert,
  blocks,              \* ghost: the headers that delimit a block
  asked,               \* ghost: what the call in progress was asked for
  live,                \* ghost: [pointer a client holds -> what it asked for]
  stale                \* ghost: freed pointers whose header bytes are
                       \* not yet a client's again

globals == <<mem, pEnd, freeBytesRemaining>>
locals == <<requestedSize, prevp, currp, iteratorp, blockToInsert>>
ghosts == <<blocks, asked, live, stale>>
vars == <<globals, pc, locals, returnp, ghosts>>

header(next, size, owned) == [next |-> next, size |-> size, owned |-> owned]

Init ==
  /\ mem = [a \in Headers \cup {Start} |-> header(NULL, 0, FALSE)]
  /\ pEnd = NULL
  /\ freeBytesRemaining = 0
  /\ pc = "idle"
  /\ requestedSize = 0 /\ prevp = NULL /\ currp = NULL /\ returnp = NULL
  /\ iteratorp = NULL /\ blockToInsert = NULL
  /\ blocks = {} /\ asked = None /\ live = [p \in {} |-> 0] /\ stale = {}
-----------------------------------------------------------------------------
(* RTOSMalloc *)

Return ==
  /\ pc' = "idle"
  /\ requestedSize' = 0 /\ prevp' = NULL /\ currp' = NULL
  /\ iteratorp' = NULL /\ blockToInsert' = NULL

RTOSMalloc(n) ==
  /\ pc = "idle"
  /\ pc' = IF pEnd = NULL THEN "init" ELSE "check"
  /\ requestedSize' = n /\ asked' = n
  /\ returnp' = NULL
  /\ UNCHANGED <<globals, prevp, currp, iteratorp, blockToInsert, blocks, live, stale>>

(* One free block that takes up the arena but for the end marker.          *)
initHeap ==
  /\ pc = "init"
  /\ mem' = [mem EXCEPT ![Start] = header(Base, 0, FALSE),
                        ![End] = header(NULL, 0, FALSE),
                        ![Base] = header(End, End - Base, FALSE)]
  /\ pEnd' = End
  /\ freeBytesRemaining' = End - Base
  /\ blocks' = {Base}
  /\ pc' = "check"
  /\ UNCHANGED <<locals, returnp, asked, live, stale>>

(* Arithmetic on a size_t.                                                 *)
Wrap(x) == IF x < 2 * AllocatedBit THEN x ELSE x - 2 * AllocatedBit

RoundUp_Dropped(n) == n

RoundUp(n) ==
  LET up == Wrap(n + (BYTE_ALIGNMENT - (n % BYTE_ALIGNMENT))) IN
  IF Aligned(n) THEN n ELSE IF up > n THEN up ELSE 0

BlockSize_NoHeader(n) == RoundUp(n)

(* The bytes a block needs to serve a request of n bytes.                  *)
BlockSize(n) ==
  LET with == Wrap(n + heapStructSize) IN
  IF n > 0 /\ with > n THEN RoundUp(with) ELSE n

HasRoom_Strict(n) == n > 0 /\ n < freeBytesRemaining

HasRoom(n) == n > 0 /\ n <= freeBytesRemaining

checkSize ==
  LET size == BlockSize(requestedSize) IN
  /\ pc = "check"
  /\ \/ /\ requestedSize < AllocatedBit /\ HasRoom(size)
        /\ requestedSize' = size
        /\ prevp' = Start /\ currp' = mem[Start].next
        /\ pc' = "find"
        /\ UNCHANGED <<iteratorp, blockToInsert, asked>>
     \/ /\ ~ (requestedSize < AllocatedBit /\ HasRoom(size))
        /\ Return /\ asked' = None
  /\ UNCHANGED <<globals, returnp, blocks, live, stale>>

TooSmall_OrExact(b) == mem[b].size <= requestedSize

TooSmall(b) == mem[b].size < requestedSize

walkToFit_NoAdvance ==
  /\ pc = "find"
  /\ TooSmall(currp) /\ mem[currp].next # NULL
  /\ prevp' = currp
  /\ UNCHANGED <<globals, pc, requestedSize, currp, returnp, iteratorp, blockToInsert, ghosts>>

walkToFit ==
  /\ pc = "find"
  /\ TooSmall(currp) /\ mem[currp].next # NULL
  /\ prevp' = currp /\ currp' = mem[currp].next
  /\ UNCHANGED <<globals, pc, requestedSize, returnp, iteratorp, blockToInsert, ghosts>>

Splits(b) == mem[b].size - requestedSize > heapMINIMUM_BLOCK_SIZE

(* The walk has ended: at the end marker, or at the first block that fits, *)
(* which is unlinked and, if it is much too large, split.                  *)
takeBlock ==
  LET rest == currp + requestedSize IN
  /\ pc = "find"
  /\ ~ (TooSmall(currp) /\ mem[currp].next # NULL)
  /\ \/ /\ currp = pEnd
        /\ Return /\ asked' = None
        /\ UNCHANGED <<globals, returnp, blocks>>
     \/ /\ currp # pEnd
        /\ returnp' = mem[prevp].next + heapStructSize
        /\ \/ /\ ~ Splits(currp)
              /\ mem' = [mem EXCEPT ![prevp].next = mem[currp].next]
              /\ pc' = "own"
              /\ UNCHANGED <<iteratorp, blockToInsert, blocks>>
           \/ /\ Splits(currp)
              /\ mem' = [mem EXCEPT
                           ![prevp].next = mem[currp].next,
                           ![rest] = header(@.next, mem[currp].size - requestedSize, FALSE),
                           ![currp].size = requestedSize]
              /\ blocks' = blocks \cup {rest}
              /\ iteratorp' = Start /\ blockToInsert' = rest
              /\ pc' = "insert"
        /\ UNCHANGED <<pEnd, freeBytesRemaining, requestedSize, prevp, currp, asked>>
  /\ UNCHANGED <<live, stale>>

Handed(b) == b .. (b + mem[b].size - 1)

Charged_Requested(b) == requestedSize

Charged(b) == mem[b].size

(* The block is marked as the application's and its payload returned.      *)
ownBlock ==
  /\ pc = "own"
  /\ freeBytesRemaining' = freeBytesRemaining - Charged(currp)
  /\ mem' = [mem EXCEPT ![currp].owned = TRUE, ![currp].next = NULL]
  /\ live' = [p \in DOMAIN live \cup {returnp} |-> IF p = returnp THEN asked ELSE live[p]]
  /\ stale' = {p \in stale : p - heapStructSize \notin Handed(currp)}
  /\ asked' = None
  /\ Return
  /\ UNCHANGED <<pEnd, returnp, blocks>>
-----------------------------------------------------------------------------
(* addBlockToFreeList: called with a block that is in no list.             *)

Before_Never(i) == FALSE

Before(i) == mem[i].next < blockToInsert

walkToPlace ==
  /\ pc = "insert"
  /\ Before(iteratorp)
  /\ iteratorp' = mem[iteratorp].next
  /\ UNCHANGED <<globals, pc, requestedSize, prevp, currp, returnp, blockToInsert, ghosts>>

Touch_Never(a, b) == FALSE

Touch(a, b) == a + mem[a].size = b

(* The block linked in; the block before it is not when they have merged,  *)
(* for then its next pointer is already set.                               *)
Linked(home, hdr) ==
  IF iteratorp = home
  THEN [mem EXCEPT ![home] = hdr]
  ELSE [mem EXCEPT ![home] = hdr, ![iteratorp].next = home]

(* The block's place in the list has been found: merge it with the block   *)
(* before it, then with the one after it, and link what results.           *)
linkBlock ==
  LET after == mem[iteratorp].next
      left  == Touch(iteratorp, blockToInsert)
      right == Touch(blockToInsert, after) /\ after # pEnd
      home  == IF left THEN iteratorp ELSE blockToInsert
      size  == (IF left THEN mem[iteratorp].size ELSE 0)
                 + mem[blockToInsert].size
                 + (IF right THEN mem[after].size ELSE 0)
      next  == IF right THEN mem[after].next ELSE after
  IN
  /\ pc = "insert"
  /\ ~ Before(iteratorp)
  /\ mem' = Linked(home, header(next, size, mem[home].owned))
  /\ blocks' = blocks \ ((IF left THEN {blockToInsert} ELSE {})
                           \cup (IF right THEN {after} ELSE {}))
  /\ \/ /\ currp = NULL
        /\ Return
     \/ /\ currp # NULL
        /\ iteratorp' = NULL /\ blockToInsert' = NULL
        /\ pc' = "own"
        /\ UNCHANGED <<requestedSize, prevp, currp>>
  /\ UNCHANGED <<pEnd, freeBytesRemaining, returnp, asked, live, stale>>
-----------------------------------------------------------------------------
(* RTOSFree *)

Releasable(h) == mem[h].owned /\ mem[h].next = NULL

Freed_KeepsBit(h) == mem

Freed(h) == [mem EXCEPT ![h].owned = FALSE]

RTOSFree(p) ==
  LET h == p - heapStructSize IN
  /\ pc = "idle"
  /\ p \in DOMAIN live \cup stale
  /\ Releasable(h)
  /\ mem' = Freed(h)
  /\ freeBytesRemaining' = freeBytesRemaining + mem[h].size
  /\ iteratorp' = Start /\ blockToInsert' = h
  /\ pc' = "insert"
  /\ live' = [q \in DOMAIN live \ {p} |-> live[q]]
  /\ stale' = stale \cup {p}
  /\ UNCHANGED <<pEnd, requestedSize, prevp, currp, returnp, blocks, asked>>

(* A second free of a pointer, or a free of NULL, does nothing.            *)
RTOSFreeIgnored(p) ==
  /\ pc = "idle"
  /\ \/ p = NULL
     \/ p \in stale /\ ~ Releasable(p - heapStructSize)
  /\ UNCHANGED vars
-----------------------------------------------------------------------------
Code == initHeap \/ checkSize \/ walkToFit \/ takeBlock \/ ownBlock
          \/ walkToPlace \/ linkBlock

Next ==
  \/ \E n \in Requests : RTOSMalloc(n)
  \/ \E p \in DOMAIN live \cup stale \cup {NULL} : RTOSFree(p) \/ RTOSFreeIgnored(p)
  \/ Code

Spec == Init /\ [][Next]_vars

(* The kernel runs a system call to its end.                               *)
FairSpec == Spec /\ WF_vars(Code)
-----------------------------------------------------------------------------
Size(b) == mem[b].size
Next_(b) == mem[b].next

(* Blocks that are not the application's.                                  *)
Free == {b \in blocks : ~ mem[b].owned}

(* Those of them a call in progress has taken out of the list.             *)
Detached == IF pc \in {"insert", "own"} THEN {currp, blockToInsert} ELSE {}
Listed == Free \ Detached

HeaderType == [next : Headers \cup {NULL}, size : 0 .. (End - Base), owned : BOOLEAN]

(* Every header keeps a size and a link the arena can hold, and a call in  *)
(* progress holds its cursors where the loops of mem_man.c put them.       *)
TypeOK ==
  /\ mem \in [Headers \cup {Start} -> HeaderType]
  /\ pEnd \in {NULL, End}
  /\ freeBytesRemaining \in Int
  /\ pc \in {"idle", "init", "check", "find", "insert", "own"}
  /\ requestedSize \in Nat
  /\ prevp \in Headers \cup {Start, NULL} /\ currp \in Headers \cup {NULL}
  /\ returnp \in Arena \cup {NULL}
  /\ iteratorp \in Headers \cup {Start, NULL} /\ blockToInsert \in Headers \cup {NULL}
  /\ blocks \subseteq Headers \ {End}
  /\ asked \in Requests \cup {None}
  /\ live \in [DOMAIN live -> Requests] /\ DOMAIN live \subseteq Arena
  /\ stale \subseteq Arena

(* What malloc hands out stays inside the arena, overlaps nothing another  *)
(* client holds, and covers no header the manager relies on (lines 83-109: *)
(* the pointer, the split and the size handed out).                        *)
ClientsDisjoint ==
  \A p \in DOMAIN live :
    LET payload == p .. (p + live[p] - 1) IN
    /\ payload \subseteq Arena
    /\ \A q \in DOMAIN live \ {p} : payload \cap (q .. (q + live[q] - 1)) = {}
    /\ \A b \in blocks : payload \cap (b .. (b + 15)) = {}

(* freeBytesRemaining, which decides whether malloc looks for a block at   *)
(* all (line 67), is the number of bytes no client owns.                   *)
FreeSpace == {a \in Arena : \E b \in Free : b <= a /\ a < b + Size(b)}
Accounting == freeBytesRemaining = Cardinality(FreeSpace)

(* The list holds exactly the free blocks, in the order of their           *)
(* addresses, up to the end marker.                                        *)
FreeListOrdered ==
  pEnd # NULL =>
    \A b \in Listed \cup {Start} :
      /\ Next_(b) \in Listed \cup {pEnd}
      /\ b < Next_(b)
      /\ \A c \in Listed : b < c => Next_(b) <= c

(* No two free blocks touch: addBlockToFreeList (lines 231-251) merges     *)
(* both ways, so that fragmentation never outlives the clients.            *)
Coalesced == \A b, c \in Listed : b + Size(b) # c

(* A pointer that has been freed cannot be freed into the list again: its  *)
(* header says so until the bytes are a client's (lines 199-202).          *)
StaleIgnored == \A p \in stale : ~ Releasable(p - heapStructSize)

(* Whatever clients did, once all of them have freed everything the arena  *)
(* is one free block again.                                                *)
WholeAgain ==
  pc = "idle" /\ pEnd # NULL /\ DOMAIN live = {} =>
    /\ mem[Start].next = Base /\ mem[Base].next = End
    /\ mem[Base].size = End - Base
    /\ freeBytesRemaining = End - Base

(* The block that is taken is the lowest that fits (lines 68-76).          *)
FirstFit ==
  [][pc = "find" /\ pc' # "find" =>
       \A b \in Listed :
         mem[b].size < requestedSize \/ (returnp' # NULL /\ returnp' <= b + heapStructSize)]_vars

(* Every malloc and free comes back: neither list walk can go round in a   *)
(* circle (lines 73-76 and 223-225; the comment at 253-256).               *)
CallReturns == pc # "idle" ~> pc = "idle"
-----------------------------------------------------------------------------
(* What makes the properties above inductive.                              *)

(* The heap is set up by the first malloc, and its two ends stay put.      *)
SetUp ==
  IF pEnd = NULL
  THEN pc \in {"idle", "init"} /\ blocks = {} /\ DOMAIN live = {} /\ stale = {}
  ELSE /\ pc # "init"
       /\ Base \in blocks
       /\ mem[Start].size = 0 /\ ~ mem[Start].owned
       /\ mem[End].size = 0 /\ ~ mem[End].owned /\ mem[End].next = NULL

(* The blocks tile the arena.                                              *)
Tiling ==
  \A b \in blocks :
    /\ Size(b) > 0 /\ Aligned(Size(b))
    /\ b + Size(b) \in blocks \cup {End}
    /\ \A c \in blocks : b < c => b + Size(b) <= c

(* An owned block is some client's, and large enough for what it asked.    *)
Ownership ==
  /\ \A b \in blocks \ Free : Next_(b) = NULL /\ b + heapStructSize \in DOMAIN live
  /\ \A p \in DOMAIN live :
       LET b == p - heapStructSize IN
       b \in blocks \ Free /\ live[p] + heapStructSize <= Size(b)

StaleCleared ==
  \A p \in stale : p - heapStructSize \in Headers /\ ~ mem[p - heapStructSize].owned

(* Where a call in progress is.                                            *)
Allocating == pc \in {"find", "own"} \/ (pc = "insert" /\ currp # NULL)

Taken == pc \in {"insert", "own"} /\ currp # NULL

InCall ==
  /\ asked = None <=> pc = "idle" \/ (pc = "insert" /\ currp = NULL)
  /\ pc \in {"init", "check"} => asked = requestedSize
  /\ pc \in {"idle", "init", "check"} => currp = NULL
  /\ pc # "insert" => blockToInsert = NULL
  /\ Allocating =>
       asked > 0 /\ requestedSize >= asked + heapStructSize /\ Aligned(requestedSize)
  /\ pc = "find" =>
       /\ prevp \in Listed \cup {Start} /\ currp = Next_(prevp)
       /\ \A b \in Listed : b < currp => TooSmall(b)
  /\ pc = "own" => currp # NULL
  /\ Taken => currp \in Free /\ Size(currp) >= requestedSize /\ returnp = currp + heapStructSize
  /\ pc = "insert" =>
       /\ blockToInsert \in Free /\ blockToInsert # currp
       /\ iteratorp \in Listed \cup {Start} /\ iteratorp < blockToInsert

Inv == TypeOK /\ SetUp /\ Tiling /\ FreeListOrdered /\ Coalesced
         /\ Ownership /\ StaleCleared /\ InCall /\ Accounting
-----------------------------------------------------------------------------
(* The manager implements the abstract allocator.  The need of a request   *)
(* is computed here in its closed form.                                    *)
Need(n) == BYTE_ALIGNMENT * ((n + heapStructSize + BYTE_ALIGNMENT - 1) \div BYTE_ALIGNMENT)

Abstract == INSTANCE Allocator WITH
  Header <- heapStructSize,
  Slack <- heapMINIMUM_BLOCK_SIZE,
  extent <- [b \in blocks \ Free |-> Size(b)],
  pending <- asked,
  answer <- IF asked = None THEN returnp ELSE NULL

Implements == Abstract!Spec
=============================================================================
