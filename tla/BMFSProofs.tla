----------------------------- MODULE BMFSProofs -----------------------------
(* The disk image tool, proved for every size of the directory and of the  *)
(* image, and every order of runs.                                         *)
EXTENDS BMFS, FiniteSetTheorems, WellFoundedInduction, TLAPS

USE DEF End, Unused

Entries == [name : Names \cup {End, Unused}, start : Nat, blocks : Nat, size : Nat]

Types ==
  /\ formatted \in BOOLEAN /\ sound \in BOOLEAN
  /\ num_blocks \in 0 .. MaxBlocks
  /\ Directory \in [Slots -> Entries]
  /\ data \in [0 .. (MaxBlocks - 1) -> Names \cup {End}]

(* The slots before the end of the directory.                              *)
Live == {i \in Slots : \A j \in 0 .. i : Directory[j].name # End}

OneEach ==
  \A i, j \in Live : Directory[i].name = Directory[j].name /\ Directory[i].name \in Names => i = j

(* What is written of a file is in its blocks, and they are no other's.    *)
FilesWhole ==
  sound => /\ Apart /\ Inside
           /\ \A i \in Files : Directory[i].size <= Directory[i].blocks

(* No file is without blocks.                                              *)
Sized == \A i \in Files : Directory[i].blocks >= 1

Inv == Types /\ OneEach /\ FilesWhole /\ Sized /\ ReadsBack
-----------------------------------------------------------------------------
(* The files are the live slots that have a name.                          *)
FilesAreNamed == Files = {i \in Live : Directory[i].name \in Names}

LEMMA FilesAreLive ==
  /\ FilesAreNamed
  /\ Files = {i \in Live : Directory[i].name \in Names}
  /\ Files \subseteq Slots
  /\ \A name \in Names : findfile(name) = {i \in Files : Directory[i].name = name}
<1>1. \A name : findfile(name) = {i \in Live : Directory[i].name = name}
  BY DEF findfile, Live
<1>2. Files = {i \in Live : Directory[i].name \in Names}
  BY <1>1 DEF Files
<1> QED
  BY <1>1, <1>2 DEF Live, FilesAreNamed

LEMMA SlotFacts ==
  ASSUME Types, NEW i \in Slots
  PROVE  /\ Directory[i].name \in Names \cup {End, Unused}
         /\ Directory[i].start \in Nat /\ Directory[i].blocks \in Nat /\ Directory[i].size \in Nat
         /\ i \in Nat /\ i < SLOTS
BY BMFSAssumption DEF Types, Entries, Slots

(* The least of a set of numbers.                                          *)
LEMMA LeastOf ==
  ASSUME NEW T, T \subseteq Nat, T # {}
  PROVE  Min(T) \in T /\ \A n \in T : Min(T) <= n
<1> DEFINE R == OpToRel(<, Nat)
<1>1. PICK m \in T : \A n \in T : <<n, m>> \notin R
  BY NatLessThanWellFounded, WFMin
<1>2. \A n \in T : ~ (n < m)
  BY <1>1 DEF OpToRel
<1>3. \A n \in T : m <= n
  BY <1>2
<1> QED
  BY <1>3 DEF Min

(* The used entries are slots, and the first that is not one of them, if   *)
(* there is one, is the end of the directory.                              *)
LEMMA UsedEntries ==
  ASSUME Types
  PROVE  /\ num_used_entries \in Nat /\ 0 .. (num_used_entries - 1) \subseteq Slots
         /\ Ends # {} => /\ num_used_entries \in Ends
                         /\ \A i \in Ends : num_used_entries <= i
<1>1. Slots \subseteq Nat /\ Ends \subseteq Nat
  BY BMFSAssumption DEF Slots, Ends
<1>2. CASE Ends = {}
  BY <1>2, BMFSAssumption DEF num_used_entries, Slots
<1>3. CASE Ends # {}
  <2>1. /\ num_used_entries \in Ends /\ \A i \in Ends : num_used_entries <= i
    BY <1>1, <1>3, LeastOf DEF num_used_entries
  <2> QED
    BY <1>1, <2>1, BMFSAssumption DEF Slots, Ends
<1> QED
  BY <1>2, <1>3

(* Where a file is placed is a block, whichever order its neighbours have  *)
(* been sorted into.                                                       *)
LEMMA PlaceIsBlock ==
  ASSUME Types, NEW q \in Sorted, NEW n \in Sizes, NEW start \in Places(q, n)
  PROVE  start \in Nat
<1> DEFINE last(t) == IF t = 0 THEN 1 ELSE Directory[q[t]].start + Directory[q[t]].blocks
           next(t) == IF t = num_used_entries \/ Directory[q[t + 1]].name = Unused
                      THEN num_blocks - 1 ELSE Directory[q[t + 1]].start
           rooms == {t \in 0 .. num_used_entries : Fits(last(t), next(t), n)}
<1>1. rooms # {} /\ start = last(Min(rooms))
  BY DEF Places
<1>2. num_used_entries \in Nat /\ 0 .. (num_used_entries - 1) \subseteq Slots
  BY UsedEntries
<1>3. PICK t \in 0 .. num_used_entries : t = Min(rooms)
  <2> HIDE DEF last, next
  <2>1. rooms \subseteq Nat
    BY <1>2
  <2> QED
    BY <1>1, <2>1, LeastOf
<1>4. start = last(t)
  BY <1>1, <1>3
<1>5. Cardinality(0 .. (num_used_entries - 1)) = num_used_entries
  BY <1>2, FS_Interval
<1>6. q \in [1 .. num_used_entries -> 0 .. (num_used_entries - 1)]
  BY <1>5 DEF Sorted, SetToSeqs
<1>7. CASE t = 0
  BY <1>4, <1>7
<1>8. CASE t # 0
  <2>1. q[t] \in Slots
    <3>1. PICK u \in Nat : u = num_used_entries
      BY <1>2
    <3>2. t \in 1 .. u
      BY <1>3, <1>8, <3>1
    <3>3. q[t] \in 0 .. (u - 1)
      BY <1>6, <3>1, <3>2
    <3> QED
      BY <1>2, <3>1, <3>3
  <2> QED
    BY <1>4, <1>8, <2>1, SlotFacts
<1> QED
  BY <1>7, <1>8
-----------------------------------------------------------------------------
(* A directory that begins with its end has no files.                      *)
LEMMA ZeroedHasNone ==
  ASSUME Directory = Zeroed
  PROVE  Live = {} /\ Files = {}
<1>1. \A i \in Slots : 0 \in 0 .. i /\ 0 \in Slots /\ Directory[0].name = End
  BY BMFSAssumption DEF Slots, Zeroed
<1>2. Live = {}
  BY <1>1 DEF Live
<1> QED
  BY <1>2, FilesAreLive

(* Before and after a run that leaves the directory without entries.       *)
LEMMA EmptiedInv ==
  ASSUME Types', Directory' = Zeroed
  PROVE  Inv'
<1>1. \A i \in Slots : 0 \in 0 .. i /\ 0 \in Slots /\ Directory'[0].name = End
  BY BMFSAssumption DEF Slots, Zeroed
<1>2. Live' = {}
  BY <1>1 DEF Live
<1>3. Files' = {}
  <2>1. FilesAreNamed'
    BY FilesAreLive, PTL
  <2> QED
    BY <1>2, <2>1 DEF FilesAreNamed
<1>4. OneEach' /\ ReadsBack'
  BY <1>2, <1>3 DEF OneEach, ReadsBack
<1>5. FilesWhole' /\ Sized'
  BY <1>3 DEF FilesWhole, Apart, Inside, Sized
<1> QED
  BY <1>4, <1>5 DEF Inv

LEMMA ZeroedType == Zeroed \in [Slots -> Entries]
BY DEF Zeroed, Entries

LEMMA InitInv == Init => Inv
<1> SUFFICES ASSUME Init PROVE Inv
  OBVIOUS
<1>1. Live = {} /\ Files = {}
  BY ZeroedHasNone DEF Init
<1>2. Types
  <2>1. num_blocks \in 0 .. MaxBlocks
    BY BMFSAssumption DEF Init
  <2> QED
    BY <2>1, ZeroedType DEF Init, Types, NoData
<1>3. OneEach /\ ReadsBack
  BY <1>1 DEF OneEach, ReadsBack
<1>4. FilesWhole /\ Sized
  BY <1>1 DEF FilesWhole, Apart, Inside, Sized
<1> QED
  BY <1>2, <1>3, <1>4 DEF Inv

LEMMA InitializeInv ==
  ASSUME Inv, initialize
  PROVE  Inv'
<1>1. Types'
  <2>1. /\ formatted' \in BOOLEAN /\ sound' = TRUE
        /\ num_blocks' \in 0 .. MaxBlocks
        /\ Directory' = Zeroed /\ data' = NoData
    <3>1. 3 .. MaxBlocks \subseteq 0 .. MaxBlocks
      BY BMFSAssumption
    <3> QED
      BY <3>1 DEF initialize, minimumDiskSize
  <2> QED
    BY <2>1, ZeroedType DEF Types, NoData
<1>2. Directory' = Zeroed
  BY DEF initialize
<1> QED
  BY <1>1, <1>2, EmptiedInv

LEMMA FormatInv ==
  ASSUME Inv, format
  PROVE  Inv'
<1>1. Types' /\ Directory' = Zeroed
  BY ZeroedType DEF format, Inv, Types
<1> QED
  BY <1>1, EmptiedInv
-----------------------------------------------------------------------------
(* The entry a deletion marks keeps its place, so that no slot comes to    *)
(* life, and there is one file less.                                       *)
LEMMA DeleteInv ==
  ASSUME Inv, NEW name \in Names, delete(name)
  PROVE  Inv'
<1>1. PICK i \in findfile(name) : Directory' = [Directory EXCEPT ![i].name = Unused]
  BY DEF delete
<1>2. UNCHANGED <<formatted, num_blocks, data, sound>>
  BY DEF delete
<1>3. i \in Slots /\ Unused \notin Names /\ Types /\ End # Unused
  BY BMFSAssumption DEF findfile, Inv
<1>4. Types'
  BY <1>1, <1>2, <1>3 DEF Types, Entries
<1>5. \A j \in Slots : /\ j = i => Directory'[j].name = Unused
                       /\ j # i => Directory'[j] = Directory[j]
  BY <1>1, <1>3 DEF Types, Entries
<1>6. Live' \subseteq Live
  <2>1. ASSUME NEW j \in Live', NEW k \in 0 .. j PROVE Directory[k].name # End
    <3>1. k \in Slots /\ Directory'[k].name # End
      BY BMFSAssumption DEF Live, Slots
    <3>2. CASE k = i
      BY <3>2, <1>1, <1>3 DEF findfile
    <3> QED
      BY <3>1, <3>2, <1>5
  <2> QED
    BY <2>1 DEF Live
<1>7. OneEach'
  BY <1>3, <1>5, <1>6 DEF Inv, OneEach, Live
<1>8. /\ Files' \subseteq Files /\ i \notin Files'
      /\ \A j \in Files' : Directory'[j] = Directory[j]
  <2>0. FilesAreNamed'
    BY FilesAreLive, PTL
  <2>1. Files' = {j \in Live' : Directory'[j].name \in Names}
    BY <2>0 DEF FilesAreNamed
  <2>2. i \notin Files'
    BY <2>1, <1>3, <1>5
  <2>3. \A j \in Files' : j \in Slots /\ Directory'[j] = Directory[j]
    BY <2>1, <2>2, <1>5 DEF Live
  <2> QED
    BY <2>1, <2>2, <2>3, <1>6, FilesAreLive
<1>9. FilesWhole' /\ Sized' /\ ReadsBack'
  BY <1>2, <1>8 DEF Inv, FilesWhole, Sized, ReadsBack, Apart, Inside, Extent, DataArea
<1> QED
  BY <1>4, <1>7, <1>9 DEF Inv

(* What is written goes to the file's own blocks.                          *)
LEMMA WriteInv ==
  ASSUME Inv, NEW name \in Names, NEW n \in Sizes, write(name, n)
  PROVE  Inv'
<1>1. PICK i \in findfile(name) :
        /\ Directory[i].blocks >= n
        /\ data' = [b \in DOMAIN data |-> IF b \in Written(i, n) THEN name ELSE data[b]]
        /\ Directory' = [Directory EXCEPT ![i].size = n]
  BY DEF write, Room
<1>2. UNCHANGED <<formatted, num_blocks, sound>> /\ sound = TRUE
  BY DEF write, Followed, Inv, Types
<1>3. i \in Slots /\ Types /\ n \in Nat /\ Directory[i].name = name
  BY BMFSAssumption DEF findfile, Inv
<1>4. Types'
  BY <1>1, <1>2, <1>3 DEF Types, Entries
<1>5. \A j \in Slots :
        /\ Directory'[j].name = Directory[j].name
        /\ Directory'[j].start = Directory[j].start
        /\ Directory'[j].blocks = Directory[j].blocks
        /\ Directory'[j].size = IF j = i THEN n ELSE Directory[j].size
  BY <1>1, <1>3 DEF Types, Entries
<1>6. Live' = Live
  <2>1. \A j \in Slots : 0 .. j \subseteq Slots
    BY BMFSAssumption DEF Slots
  <2> QED
    BY <1>5, <2>1 DEF Live
<1>7. Files' = Files /\ i \in Files
  <2>0. FilesAreNamed'
    BY FilesAreLive, PTL
  <2>1. Files' = {j \in Live' : Directory'[j].name \in Names}
    BY <2>0 DEF FilesAreNamed
  <2> QED
    BY <2>1, <1>1, <1>3, <1>5, <1>6, FilesAreLive DEF Live
<1>8. OneEach'
  BY <1>5, <1>6 DEF Inv, OneEach, Live
<1>9. FilesWhole'
  <2>1. \A j \in Slots : Extent(j)' = Extent(j)
    BY <1>5 DEF Extent
  <2>2. Apart' /\ Inside'
    BY <2>1, <1>2, <1>7, FilesAreLive DEF Inv, FilesWhole, Apart, Inside, DataArea
  <2>3. \A j \in Files' : Directory'[j].size <= Directory'[j].blocks
    BY <1>1, <1>2, <1>3, <1>5, <1>7, FilesAreLive DEF Inv, FilesWhole
  <2> QED
    BY <2>2, <2>3 DEF FilesWhole
<1>11. Sized'
  BY <1>5, <1>7, FilesAreLive DEF Inv, Sized
<1>10. ReadsBack'
  <2> SUFFICES ASSUME NEW j \in Files,
                      NEW b \in Directory[j].start ..
                                 (Directory[j].start + Directory'[j].size - 1)
               PROVE  data'[b] = Directory[j].name
    BY <1>5, <1>7, FilesAreLive DEF ReadsBack
  <2>1. /\ j \in Slots
        /\ Directory[j].start \in Nat /\ Directory[j].blocks \in Nat /\ Directory[j].size \in Nat
        /\ Directory[i].start \in Nat /\ Directory[i].blocks \in Nat
    BY FilesAreLive, SlotFacts, <1>3
  <2>2. Extent(j) \subseteq DOMAIN data /\ Directory[j].size <= Directory[j].blocks
    <3>1. Extent(j) \subseteq DataArea /\ Directory[j].size <= Directory[j].blocks
      BY <1>2 DEF Inv, FilesWhole, Inside
    <3>2. DataArea \subseteq 0 .. (MaxBlocks - 1)
      BY <1>3, BMFSAssumption DEF DataArea, Types
    <3> QED
      BY <3>1, <3>2, <1>3 DEF Types
  <2>3. CASE j = i
    <3>1. b \in Written(i, n)
      BY <2>3, <1>5, <2>1 DEF Written
    <3>2. b \in Extent(i)
      BY <3>1, <1>1, <1>3, <2>1 DEF Written, Extent
    <3> QED
      BY <3>1, <3>2, <2>2, <2>3, <1>1, <1>3
  <2>4. CASE j # i
    <3>1. b \in Directory[j].start .. (Directory[j].start + Directory[j].size - 1)
      BY <2>1, <2>4, <1>5
    <3>2. b \in Extent(j)
      BY <3>1, <2>1, <2>2 DEF Extent
    <3>3. Written(i, n) \subseteq Extent(i)
      BY <1>1, <1>3, <2>1 DEF Written, Extent
    <3>4. b \notin Written(i, n)
      BY <3>2, <3>3, <1>2, <1>7, <2>4 DEF Inv, FilesWhole, Apart
    <3> QED
      BY <3>1, <3>2, <3>4, <2>2, <1>1, <1>2 DEF Inv, ReadsBack
  <2> QED
    BY <2>3, <2>4
<1> QED
  BY <1>4, <1>8, <1>9, <1>10, <1>11 DEF Inv
-----------------------------------------------------------------------------
(* Creation takes the first free slot.  Before it every entry is live, and *)
(* when it was the end of the directory the end moves one slot on, so that *)
(* no other slot comes to life.                                            *)
LEMMA FreeSlot ==
  ASSUME Types, NEW slot, free_entries # {}, slot = Min(free_entries)
  PROVE  /\ slot \in Slots /\ Directory[slot].name \in {End, Unused}
         /\ \A j \in 0 .. (slot - 1) : Directory[j].name # End
         /\ Directory[slot].name = End => slot = num_used_entries
<1>1. Slots \subseteq Nat /\ free_entries \subseteq Slots /\ Ends \subseteq Slots
  BY BMFSAssumption DEF Slots, free_entries, Ends
<1>2. slot \in free_entries
  BY <1>1, LeastOf
<1>3. /\ slot \in Slots /\ Directory[slot].name \in {End, Unused}
      /\ \A j \in 0 .. (slot - 1) : Directory[j].name # End
  BY <1>2 DEF free_entries
<1>4. ASSUME Directory[slot].name = End PROVE slot = num_used_entries
  <2>1. slot \in Ends
    BY <1>3, <1>4 DEF Ends
  <2>2. PICK m \in Nat : m = num_used_entries /\ m \in Ends /\ m <= slot
    BY <1>1, <2>1, UsedEntries
  <2>3. Directory[m].name = End
    BY <2>2 DEF Ends
  <2>4. slot \in Nat /\ m \notin 0 .. (slot - 1)
    BY <1>1, <1>3, <2>3
  <2> QED
    BY <2>2, <2>4
<1> QED
  BY <1>3, <1>4

LEMMA CreateInv ==
  ASSUME Inv, NEW name \in Names, NEW n \in Sizes, create(name, n)
  PROVE  Inv'
<1>0. PICK q \in Sorted : \E start \in Places(q, n) :
        Directory' = added(Min(free_entries), name, start, n)
  BY DEF create
<1>1. PICK start \in Places(q, n) : Directory' = added(Min(free_entries), name, start, n)
  BY <1>0
<1>2. /\ UNCHANGED <<formatted, num_blocks, data>> /\ sound = TRUE
      /\ sound' = (sound /\ Ends # {} /\ Apart' /\ Inside')
      /\ findfile(name) = {} /\ free_entries # {}
  BY DEF create, Followed, Inv, Types
<1>3. Types /\ start \in Nat /\ n \in Nat /\ name \notin {End, Unused}
  BY PlaceIsBlock, BMFSAssumption DEF Inv
<1>4. PICK slot : slot = Min(free_entries)
  OBVIOUS
<1>5. /\ slot \in Slots /\ Directory[slot].name \in {End, Unused}
      /\ \A j \in 0 .. (slot - 1) : Directory[j].name # End
      /\ Directory[slot].name = End => slot = num_used_entries
  BY <1>2, <1>3, <1>4, FreeSlot
<1>6. \A j \in Slots :
        /\ j = slot => Directory'[j] = [name |-> name, start |-> start, blocks |-> n, size |-> 0]
        /\ j # slot /\ ~ (slot = num_used_entries /\ j = slot + 1) => Directory'[j] = Directory[j]
        /\ j # slot /\ slot = num_used_entries /\ j = slot + 1 => Directory'[j].name = End
  BY <1>1, <1>3, <1>4 DEF added, Types, Entries
<1>7. Types'
  <2>1. Directory' \in [Slots -> Entries]
    <3>1. [name |-> name, start |-> start, blocks |-> n, size |-> 0] \in Entries
      BY <1>3 DEF Entries
    <3>2. \A j \in Slots : Directory[j] \in Entries /\ [Directory[j] EXCEPT !.name = End] \in Entries
      BY <1>3 DEF Types, Entries
    <3> QED
      BY <1>1, <1>4, <3>1, <3>2 DEF added
  <2>2. sound' \in BOOLEAN
    BY <1>2
  <2> QED
    BY <1>2, <1>3, <2>1, <2>2 DEF Types
<1>8. \A j \in Live' : j \in Slots /\ (j # slot => j \in Live /\ Directory'[j] = Directory[j])
  <2> SUFFICES ASSUME NEW j \in Live', j # slot
               PROVE  j \in Live /\ Directory'[j] = Directory[j]
    BY DEF Live
  <2>1. /\ j \in Slots /\ j \in Nat /\ slot \in Nat /\ 0 .. j \subseteq Slots
        /\ \A k \in 0 .. j : Directory'[k].name # End
    BY <1>5, BMFSAssumption DEF Live, Slots
  <2>2. slot = num_used_entries => slot + 1 \notin 0 .. j
    BY <2>1, <1>6
  <2>3. \A k \in 0 .. j : k # slot => Directory'[k] = Directory[k]
    BY <2>1, <2>2, <1>6
  <2>4. slot \in 0 .. j => Directory[slot].name # End
    <3>1. slot \in 0 .. j /\ j # slot => slot + 1 \in 0 .. j
      BY <2>1
    <3> QED
      BY <3>1, <2>2, <1>5
  <2>5. \A k \in 0 .. j : Directory[k].name # End
    BY <2>1, <2>3, <2>4
  <2>6. j \in 0 .. j
    BY <2>1
  <2> QED
    BY <2>1, <2>3, <2>5, <2>6 DEF Live
<1>9. OneEach'
  <2> SUFFICES ASSUME NEW i \in Live', NEW j \in Live',
                      Directory'[i].name = Directory'[j].name, Directory'[i].name \in Names
               PROVE  i = j
    BY DEF OneEach
  <2>1. \A k \in Live : Directory[k].name # name
    BY <1>2 DEF findfile, Live
  <2>2. CASE i # slot /\ j # slot
    BY <1>8, <2>2 DEF Inv, OneEach
  <2>3. CASE i = slot \/ j = slot
    <3>1. Directory'[slot].name = name
      BY <1>5, <1>6
    <3> QED
      BY <1>8, <2>1, <2>3, <3>1
  <2> QED
    BY <2>2, <2>3
<1>10. \A j \in Files' : \/ j = slot /\ Directory'[j].size = 0 /\ Directory'[j].blocks = n
                               /\ Directory'[j].start = start
                         \/ j \in Files /\ Directory'[j] = Directory[j]
  <2>0. FilesAreNamed'
    BY FilesAreLive, PTL
  <2>1. Files' = {j \in Live' : Directory'[j].name \in Names}
    BY <2>0 DEF FilesAreNamed
  <2>2. ASSUME NEW j \in Files', j = slot
        PROVE  Directory'[j].size = 0 /\ Directory'[j].blocks = n /\ Directory'[j].start = start
    BY <2>2, <1>5, <1>6
  <2>3. ASSUME NEW j \in Files', j # slot PROVE j \in Files /\ Directory'[j] = Directory[j]
    BY <2>1, <2>3, <1>8, FilesAreLive
  <2> QED
    BY <2>2, <2>3
<1>11. FilesWhole'
  <2> SUFFICES ASSUME sound' PROVE \A j \in Files' : Directory'[j].size <= Directory'[j].blocks
    BY <1>2 DEF FilesWhole
  <2> QED
    BY <1>2, <1>3, <1>10 DEF Inv, FilesWhole
<1>13. Sized'
  BY <1>3, <1>10, BMFSAssumption DEF Inv, Sized
<1>12. ReadsBack'
  <2> SUFFICES ASSUME NEW j \in Files',
                      NEW b \in Directory'[j].start ..
                                 (Directory'[j].start + Directory'[j].size - 1)
               PROVE  data'[b] = Directory'[j].name
    BY DEF ReadsBack
  <2>1. CASE j \in Files /\ Directory'[j] = Directory[j]
    BY <2>1, <1>2 DEF Inv, ReadsBack
  <2>2. CASE Directory'[j].size = 0 /\ Directory'[j].start = start
    BY <2>2, <1>3
  <2> QED
    BY <2>1, <2>2, <1>10
<1> QED
  BY <1>7, <1>9, <1>11, <1>12, <1>13 DEF Inv
-----------------------------------------------------------------------------
LEMMA NextInv == Inv /\ [Next]_vars => Inv'
<1> SUFFICES ASSUME Inv, [Next]_vars PROVE Inv'
  OBVIOUS
<1>1. CASE initialize
  BY <1>1, InitializeInv
<1>2. CASE format
  BY <1>2, FormatInv
<1>3. ASSUME NEW name \in Names, NEW n \in Sizes, create(name, n)
      PROVE  Inv'
  BY <1>3, CreateInv
<1>4. ASSUME NEW name \in Names, NEW n \in Sizes, write(name, n)
      PROVE  Inv'
  BY <1>4, WriteInv
<1>5. ASSUME NEW name \in Names, delete(name)
      PROVE  Inv'
  BY <1>5, DeleteInv
<1>6. CASE UNCHANGED vars
  BY <1>6 DEF vars, Inv, Types, OneEach, Live, FilesWhole, Sized, ReadsBack, Apart, Inside, Files,
              findfile, Extent, DataArea
<1> QED
  BY <1>1, <1>2, <1>3, <1>4, <1>5, <1>6 DEF Next

(* The invariant: no name at two live slots, and while files have been     *)
(* apart, what was written of each is inside its own blocks.               *)
THEOREM Invariant == Spec => []Inv
BY InitInv, NextInv, PTL DEF Spec

(* However entries are deleted and used again, no name is in the directory *)
(* twice (findfile, and lines 616-649 of create).                          *)
THEOREM NamesStayUnique == Spec => []NamesUnique
<1>1. Inv => NamesUnique
  <2> SUFFICES ASSUME Inv, NEW name \in Names
               PROVE  Cardinality(findfile(name)) <= 1
    BY DEF NamesUnique
  <2>1. \A i, j \in findfile(name) : i = j
    BY FilesAreLive DEF Inv, OneEach
  <2>2. CASE findfile(name) = {}
    BY <2>2, FS_EmptySet
  <2>3. CASE findfile(name) # {}
    <3>1. PICK i : findfile(name) = {i}
      BY <2>1, <2>3
    <3>2. Cardinality({i}) = 1
      BY FS_Singleton
    <3> QED
      BY <3>1, <3>2
  <2> QED
    BY <2>2, <2>3
<1> QED
  BY <1>1, Invariant, PTL

(* As long as files have been apart, each still holds what was written to  *)
(* it, whatever was written, deleted and created since (lines 752-797).    *)
THEOREM WrittenReadsBack == Spec => []ReadsBack
<1>1. Inv => ReadsBack
  BY DEF Inv
<1> QED
  BY <1>1, Invariant, PTL
-----------------------------------------------------------------------------
(* The search of create, as a fact about numbers: u entries in some order, *)
(* of which the files F come first, one behind the other.                  *)
LinedUp(u, F, first, from, to, top) ==
  /\ F \subseteq 1 .. u /\ from[0] = 1
  /\ \A t \in F : /\ first[t] \in Nat /\ from[t] \in Nat
                 /\ 1 <= first[t] /\ first[t] < from[t] /\ from[t] <= top
  /\ \A s \in F, t \in F : s < t => from[s] <= first[t]
  /\ \A s \in 1 .. u, t \in F : s < t => s \in F
  /\ \A t \in 0 .. u : to[t] = IF t + 1 \in F THEN first[t + 1] ELSE top

(* From s on, n blocks are free.                                           *)
FreeFrom(s, F, first, from, top, n) ==
  1 <= s /\ s + n <= top /\ \A t \in F : from[t] <= s \/ s + n <= first[t]

LowestFree(g, F, first, from, top, n) ==
  /\ FreeFrom(g, F, first, from, top, n)
  /\ \A s \in Nat : FreeFrom(s, F, first, from, top, n) => g <= s

FirstRoom(m, u, from, to, n) ==
  /\ m \in 0 .. u /\ Fits(from[m], to[m], n)
  /\ \A t \in 0 .. u : Fits(from[t], to[t], n) => m <= t

(* The room found first begins at the lowest block from which n are free.  *)
LEMMA FirstRoomIsLowest ==
  ASSUME NEW u \in Nat, NEW F, NEW first, NEW from, NEW to, NEW top \in Nat,
         NEW n \in Nat, n >= 1, NEW g \in Nat, NEW m,
         LinedUp(u, F, first, from, to, top),
         LowestFree(g, F, first, from, top, n),
         FirstRoom(m, u, from, to, n)
  PROVE  from[m] = g
<1> USE DEF LinedUp, LowestFree, FreeFrom, FirstRoom
<1>1. PICK h \in 0 .. u :
        /\ h + 1 \in F => g <= first[h + 1]
        /\ \A t \in 0 .. u : (t + 1 \in F => g <= first[t + 1]) => h <= t
  <2> DEFINE Stops == {t \in 0 .. u : t + 1 \in F => g <= first[t + 1]}
  <2>1. u \in Stops
    <3>1. u + 1 \notin F
      OBVIOUS
    <3> QED
      BY <3>1
  <2>2. Stops \subseteq Nat
    OBVIOUS
  <2>3. Min(Stops) \in Stops /\ \A t \in Stops : Min(Stops) <= t
    <3> HIDE DEF Stops
    <3> QED
      BY <2>1, <2>2, LeastOf
  <2> QED
    BY <2>3
<1>2. h # 0 => h \in F /\ from[h] <= g
  <2> SUFFICES ASSUME h # 0 PROVE h \in F /\ from[h] <= g
    OBVIOUS
  <2>1. h - 1 \in 0 .. u /\ (h - 1) + 1 = h /\ ~ (h <= h - 1)
    OBVIOUS
  <2>2. h \in F /\ ~ (g <= first[h])
    BY <1>1, <2>1
  <2> QED
    BY <2>2
<1>3. from[h] \in Nat /\ from[h] <= g
  BY <1>2
<1>4. Fits(from[h], to[h], n)
  <2>1. CASE h + 1 \in F
    <3>1. g <= first[h + 1] /\ to[h] = first[h + 1] /\ first[h + 1] \in Nat /\ first[h + 1] < from[h + 1]
          /\ from[h + 1] \in Nat
      BY <1>1, <2>1
    <3>2. g + n <= first[h + 1]
      BY <2>1, <3>1
    <3> QED
      BY <3>1, <3>2, <1>3 DEF Fits
  <2>2. CASE h + 1 \notin F
    BY <2>2, <1>3 DEF Fits
  <2> QED
    BY <2>1, <2>2
<1>5. m <= h
  BY <1>4
<1>6. /\ from[m] \in Nat /\ 1 <= from[m] /\ from[m] <= g
      /\ m # 0 => m \in F
  <2>1. CASE m = 0
    BY <2>1
  <2>2. CASE m # 0
    <3>1. m \in 1 .. u /\ h \in F /\ from[h] <= g
      BY <1>2, <1>5, <2>2
    <3>2. m \in F
      <4>1. m = h \/ m < h
        BY <1>5
      <4> QED
        BY <3>1, <4>1
    <3>3. m # h => from[m] <= first[h]
      BY <3>1, <3>2, <1>5
    <3> QED
      BY <3>1, <3>2, <3>3
  <2> QED
    BY <2>1, <2>2
<1>7. \A t \in F : t <= m => from[t] <= from[m]
  <2> SUFFICES ASSUME NEW t \in F, t <= m PROVE from[t] <= from[m]
    OBVIOUS
  <2>1. t \in Nat /\ t >= 1 /\ m \in F
    BY <1>6
  <2>2. CASE t = m
    BY <2>1, <2>2
  <2>3. CASE t < m
    BY <2>1, <2>3
  <2> QED
    BY <2>1, <2>2, <2>3
<1>8. /\ to[m] \in Nat /\ from[m] <= to[m] /\ to[m] <= top
      /\ \A t \in F : m < t => to[m] <= first[t]
  <2>1. CASE m + 1 \in F
    <3>1. to[m] = first[m + 1] /\ to[m] \in Nat /\ to[m] <= top
      BY <2>1
    <3>2. from[m] <= to[m]
      BY <1>6, <2>1, <3>1
    <3>3. ASSUME NEW t \in F, m < t PROVE to[m] <= first[t]
      <4>1. CASE t = m + 1
        BY <4>1, <3>1
      <4>2. CASE m + 1 < t
        BY <4>2, <2>1, <3>1
      <4> QED
        BY <3>3, <4>1, <4>2
    <3> QED
      BY <3>1, <3>2, <3>3
  <2>2. CASE m + 1 \notin F
    <3>1. to[m] = top
      BY <2>2
    <3>2. from[m] <= top
      BY <1>6
    <3>3. ASSUME NEW t \in F, m < t PROVE FALSE
      <4>1. m + 1 \in 1 .. u /\ (m + 1 = t \/ m + 1 < t)
        BY <3>3
      <4> QED
        BY <4>1, <2>2
    <3> QED
      BY <3>1, <3>2, <3>3
  <2> QED
    BY <2>1, <2>2
<1>9. from[m] + n <= to[m]
  BY <1>6, <1>8 DEF Fits
<1>10. \A t \in F : from[t] <= from[m] \/ from[m] + n <= first[t]
  <2> SUFFICES ASSUME NEW t \in F, ~ (t <= m) PROVE from[m] + n <= first[t]
    BY <1>7
  <2>1. t \in Nat /\ m \in Nat /\ m < t
    OBVIOUS
  <2>2. to[m] <= first[t] /\ first[t] \in Nat
    BY <2>1, <1>8
  <2> QED
    BY <2>2, <1>6, <1>8, <1>9
<1>11. g <= from[m]
  <2>1. from[m] + n <= top
    BY <1>6, <1>8, <1>9
  <2> QED
    BY <1>6, <1>10, <2>1
<1> QED
  <2>1. PICK k \in Nat : k = from[m]
    BY <1>6
  <2>2. k <= g
    BY <2>1, <1>6
  <2>3. g <= k
    BY <2>1, <1>11
  <2>4. k = g
    BY <2>2, <2>3
  <2> QED
    BY <2>1, <2>4

(* The used entries are the live slots, and a sorted sequence of them has  *)
(* each of them at one place.                                              *)
LEMMA SortedEntries ==
  ASSUME Types, Ends # {}, NEW q \in Sorted, NEW u, u = num_used_entries
  PROVE  /\ u \in Nat /\ 0 .. (u - 1) = Live
         /\ q \in [1 .. u -> 0 .. (u - 1)]
         /\ \A s, t \in 1 .. u : s # t => q[s] # q[t]
         /\ \A i \in 0 .. (u - 1) : \E t \in 1 .. u : i = q[t]
         /\ \A s, t \in 1 .. u : s < t => StartingBlockCmp(Directory[q[s]], Directory[q[t]])
<1>1. u \in Nat /\ u \in Ends /\ \A i \in Ends : u <= i
  BY UsedEntries
<1>2. 0 .. (u - 1) = Live
  <2>1. ASSUME NEW i \in 0 .. (u - 1) PROVE i \in Live
    <3>1. i \in Slots /\ 0 .. i \subseteq Slots
      BY <1>1, BMFSAssumption DEF Ends, Slots
    <3>2. \A j \in 0 .. i : ~ (u <= j)
      BY <1>1
    <3> QED
      BY <1>1, <3>1, <3>2 DEF Live, Ends
  <2>2. ASSUME NEW i \in Live PROVE i \in 0 .. (u - 1)
    <3>1. i \in Nat /\ u \notin 0 .. i
      BY <1>1, BMFSAssumption DEF Live, Slots, Ends
    <3> QED
      BY <1>1, <3>1
  <2> QED
    BY <2>1, <2>2
<1>3. /\ Cardinality(0 .. (u - 1)) = u /\ IsFiniteSet(0 .. (u - 1))
      /\ Cardinality(1 .. u) = u /\ IsFiniteSet(1 .. u)
  <2>1. Cardinality(0 .. (u - 1)) = u /\ IsFiniteSet(0 .. (u - 1))
    BY <1>1, FS_Interval
  <2>2. Cardinality(1 .. u) = u /\ IsFiniteSet(1 .. u)
    BY <1>1, FS_Interval
  <2> QED
    BY <2>1, <2>2
<1>4. /\ q \in [1 .. u -> 0 .. (u - 1)]
      /\ \A s, t \in 1 .. u : s # t => q[s] # q[t]
      /\ \A s, t \in 1 .. u : s < t => StartingBlockCmp(Directory[q[s]], Directory[q[t]])
  BY <1>3 DEF Sorted, SetToSeqs
<1>5. q \in Injection(1 .. u, 0 .. (u - 1))
  BY <1>4 DEF Injection, IsInjective
<1>6. q \in Surjection(1 .. u, 0 .. (u - 1))
  BY <1>3, <1>5, FS_Injection
<1>7. \A i \in 0 .. (u - 1) : \E t \in 1 .. u : i = q[t]
  BY <1>6 DEF Surjection
<1> QED
  BY <1>1, <1>2, <1>4, <1>7

FilesAt(q) == {t \in 1 .. num_used_entries : Directory[q[t]].name \in Names}

(* Files that do not overlap and are inside the data area lie one behind   *)
(* the other in sorted order, and no file follows a deleted entry.         *)
LEMMA FilesInOrder ==
  ASSUME Inv, sound, Ends # {}, NEW q \in Sorted
  PROVE  /\ \A t \in FilesAt(q) :
              /\ q[t] \in Files /\ Directory[q[t]].start \in Nat
              /\ Directory[q[t]].blocks \in Nat /\ 1 <= Directory[q[t]].start
              /\ 1 <= Directory[q[t]].blocks
              /\ Directory[q[t]].start + Directory[q[t]].blocks <= num_blocks - 1
         /\ \A s \in FilesAt(q), t \in FilesAt(q) : s < t =>
              Directory[q[s]].start + Directory[q[s]].blocks <= Directory[q[t]].start
         /\ \A s \in 1 .. num_used_entries, t \in FilesAt(q) : s < t => s \in FilesAt(q)
         /\ \A t \in 1 .. num_used_entries : t \in FilesAt(q) <=> Directory[q[t]].name # Unused
         /\ \A i \in Files : \E t \in FilesAt(q) : i = q[t]
<1>0. PICK u, F : u = num_used_entries /\ F = FilesAt(q)
  OBVIOUS
<1>1. /\ Types /\ Apart /\ Inside /\ Sized /\ num_blocks \in Nat
      /\ Unused \notin Names /\ End \notin Names
  BY BMFSAssumption DEF Inv, FilesWhole, Types
<1>2. /\ u \in Nat /\ 0 .. (u - 1) = Live
      /\ q \in [1 .. u -> 0 .. (u - 1)]
      /\ \A s, t \in 1 .. u : s # t => q[s] # q[t]
      /\ \A i \in 0 .. (u - 1) : \E t \in 1 .. u : i = q[t]
      /\ \A s, t \in 1 .. u : s < t => StartingBlockCmp(Directory[q[s]], Directory[q[t]])
  BY <1>0, <1>1, SortedEntries
<1>3. \A t \in 1 .. u : q[t] \in Live /\ q[t] \in Slots
  BY <1>2 DEF Live
<1>4. \A t \in F : t \in 1 .. u /\ q[t] \in Files
  BY <1>0, <1>3, FilesAreLive DEF FilesAt
<1>5. \A i \in Files : /\ Directory[i].start \in Nat /\ Directory[i].blocks \in Nat
                       /\ 1 <= Directory[i].blocks
  BY <1>1, FilesAreLive, SlotFacts DEF Sized
<1>6. \A i \in Files : /\ 1 <= Directory[i].start
                       /\ Directory[i].start + Directory[i].blocks <= num_blocks - 1
  <2> SUFFICES ASSUME NEW i \in Files
               PROVE  /\ 1 <= Directory[i].start
                      /\ Directory[i].start + Directory[i].blocks <= num_blocks - 1
    OBVIOUS
  <2>1. PICK x \in Nat, y \in Nat, z \in Nat :
          x = Directory[i].start /\ y = Directory[i].blocks /\ z = num_blocks
    BY <1>1, <1>5
  <2>2. x .. (x + y - 1) \subseteq 1 .. (z - 2) /\ 1 <= y
    BY <1>1, <1>5, <2>1 DEF Inside, Extent, DataArea
  <2>3. x \in 1 .. (z - 2) /\ x + y - 1 \in 1 .. (z - 2)
    BY <2>2
  <2>4. 1 <= x /\ x + y <= z - 1
    BY <2>3
  <2> QED
    BY <2>1, <2>4
<1>7. ASSUME NEW s \in F, NEW t \in F, s < t
      PROVE  Directory[q[s]].start + Directory[q[s]].blocks <= Directory[q[t]].start
  <2>1. /\ q[s] \in Files /\ q[t] \in Files /\ q[s] # q[t]
        /\ Directory[q[t]].name # Unused /\ StartingBlockCmp(Directory[q[s]], Directory[q[t]])
    <3>1. s \in 1 .. u /\ t \in 1 .. u /\ s # t /\ Directory[q[t]].name \in Names
      BY <1>0, <1>2, <1>7 DEF FilesAt
    <3> QED
      BY <3>1, <1>1, <1>2, <1>4, <1>7
  <2>2. PICK a \in Nat, b \in Nat, c \in Nat, d \in Nat :
          /\ a = Directory[q[s]].start /\ b = Directory[q[s]].blocks
          /\ c = Directory[q[t]].start /\ d = Directory[q[t]].blocks
    BY <1>5, <2>1
  <2>3. a <= c /\ 1 <= d
    BY <1>5, <2>1, <2>2 DEF StartingBlockCmp
  <2>4. (a .. (a + b - 1)) \cap (c .. (c + d - 1)) = {}
    BY <1>1, <2>1, <2>2 DEF Apart, Extent
  <2>5. c \notin a .. (a + b - 1)
    BY <2>3, <2>4
  <2>6. a + b <= c
    BY <2>3, <2>5
  <2> QED
    BY <2>2, <2>6
<1>8. \A t \in 1 .. u : t \in F <=> Directory[q[t]].name # Unused
  <2> SUFFICES ASSUME NEW t \in 1 .. u
               PROVE  Directory[q[t]].name \in Names <=> Directory[q[t]].name # Unused
    BY <1>0 DEF FilesAt
  <2>1. Directory[q[t]].name # End
    <3>1. q[t] \in 0 .. q[t]
      BY <1>2
    <3> QED
      BY <1>3, <3>1 DEF Live
  <2>2. Directory[q[t]].name \in Names \cup {End, Unused}
    BY <1>1, <1>3, SlotFacts
  <2> QED
    BY <1>1, <2>1, <2>2
<1>9. ASSUME NEW s \in 1 .. u, NEW t \in F, s < t PROVE s \in F
  BY <1>2, <1>4, <1>8, <1>9 DEF StartingBlockCmp
<1>10. ASSUME NEW i \in Files PROVE \E t \in F : i = q[t]
  <2>1. i \in 0 .. (u - 1) /\ Directory[i].name \in Names
    BY <1>2, FilesAreLive
  <2> QED
    BY <1>0, <1>2, <2>1 DEF FilesAt
<1> QED
  BY <1>0, <1>4, <1>5, <1>6, <1>7, <1>8, <1>9, <1>10

(* A run of blocks is a gap when every file ends before it or begins       *)
(* behind it.                                                              *)
LEMMA GapsAreRooms ==
  ASSUME Inv, sound, NEW n \in Nat, n >= 1, NEW s \in Nat
  PROVE  s \in Gaps(n) <=>
           /\ 1 <= s /\ s + n <= num_blocks - 1
           /\ \A i \in Files : \/ Directory[i].start + Directory[i].blocks <= s
                               \/ s + n <= Directory[i].start
<1>1. PICK z \in Nat : z = num_blocks
  BY BMFSAssumption DEF Inv, Types
<1>2. \A i \in Files : /\ Directory[i].start \in Nat /\ Directory[i].blocks \in Nat
                       /\ 1 <= Directory[i].blocks
  BY FilesAreLive, SlotFacts DEF Inv, Sized
<1>3. s .. (s + n - 1) \subseteq DataArea <=> 1 <= s /\ s + n <= num_blocks - 1
  <2>1. s \in s .. (s + n - 1) /\ s + n - 1 \in s .. (s + n - 1)
    OBVIOUS
  <2>2. s .. (s + n - 1) \subseteq 1 .. (z - 2) <=> 1 <= s /\ s + n <= z - 1
    BY <2>1
  <2> QED
    BY <1>1, <2>2 DEF DataArea
<1>4. ASSUME NEW i \in Files
      PROVE  (s .. (s + n - 1)) \cap Extent(i) = {} <=>
               \/ Directory[i].start + Directory[i].blocks <= s
               \/ s + n <= Directory[i].start
  <2>1. PICK a \in Nat, b \in Nat : a = Directory[i].start /\ b = Directory[i].blocks /\ 1 <= b
    BY <1>2
  <2>2. ASSUME (s .. (s + n - 1)) \cap (a .. (a + b - 1)) = {} PROVE a + b <= s \/ s + n <= a
    <3>1. s \in s .. (s + n - 1) /\ a \in a .. (a + b - 1)
      BY <2>1
    <3>2. s \notin a .. (a + b - 1) /\ a \notin s .. (s + n - 1)
      BY <2>2, <3>1
    <3> QED
      BY <3>2
  <2>3. ASSUME a + b <= s \/ s + n <= a PROVE (s .. (s + n - 1)) \cap (a .. (a + b - 1)) = {}
    BY <2>3
  <2>4. Extent(i) = a .. (a + b - 1)
    BY <2>1 DEF Extent
  <2> QED
    BY <2>1, <2>2, <2>3, <2>4
<1>5. s \in Gaps(n) <=> /\ s .. (s + n - 1) \subseteq DataArea
                       /\ \A i \in Files : (s .. (s + n - 1)) \cap Extent(i) = {}
  <2>1. s \in s .. (s + n - 1)
    OBVIOUS
  <2> QED
    BY <2>1 DEF Gaps
<1> QED
  BY <1>3, <1>4, <1>5

(* A new file gets the lowest gap that is large enough.                    *)
LEMMA CreateLowest ==
  ASSUME Inv, NEW name \in Names, NEW n \in Sizes, create(name, n), Ends # {}, Gaps(n) # {}
  PROVE  \E i \in Slots : Directory'[i].name = name /\ Directory'[i].start = Min(Gaps(n))
<1>0. PICK q \in Sorted : \E start \in Places(q, n) :
        Directory' = added(Min(free_entries), name, start, n)
  BY DEF create
<1>1. PICK start \in Places(q, n) : Directory' = added(Min(free_entries), name, start, n)
  BY <1>0
<1>2. /\ sound /\ free_entries # {} /\ Types /\ n \in Nat /\ n >= 1 /\ num_blocks \in Nat
  BY BMFSAssumption DEF create, Followed, Inv, Types
<1>3. PICK u, g, top, slot :
        /\ u = num_used_entries /\ g = Min(Gaps(n)) /\ top = num_blocks - 1
        /\ slot = Min(free_entries)
  OBVIOUS
<1>4. PICK F : F = FilesAt(q)
  OBVIOUS
<1>5. PICK first, from, to :
        /\ first = [t \in 1 .. u |-> Directory[q[t]].start]
        /\ from = [t \in 0 .. u |-> IF t = 0 THEN 1
                                  ELSE Directory[q[t]].start + Directory[q[t]].blocks]
        /\ to = [t \in 0 .. u |-> IF t + 1 \in F THEN Directory[q[t + 1]].start ELSE top]
  OBVIOUS
<1>6. /\ \A t \in F : /\ q[t] \in Files /\ Directory[q[t]].start \in Nat
                     /\ Directory[q[t]].blocks \in Nat /\ 1 <= Directory[q[t]].start
                     /\ 1 <= Directory[q[t]].blocks
                     /\ Directory[q[t]].start + Directory[q[t]].blocks <= top
      /\ \A s \in F, t \in F : s < t =>
           Directory[q[s]].start + Directory[q[s]].blocks <= Directory[q[t]].start
      /\ \A s \in 1 .. u, t \in F : s < t => s \in F
      /\ \A t \in 1 .. u : t \in F <=> Directory[q[t]].name # Unused
      /\ \A i \in Files : \E t \in F : i = q[t]
  <2>1. top = num_blocks - 1 /\ u = num_used_entries
    BY <1>3
  <2> QED
    BY <1>2, <1>4, <2>1, FilesInOrder
<1>7. u \in Nat /\ F \in SUBSET (1 .. u)
  BY <1>2, <1>3, <1>4, UsedEntries DEF FilesAt
<1>8. /\ \A t \in F : /\ t \in 1 .. u /\ t \in 0 .. u /\ t # 0
                     /\ first[t] = Directory[q[t]].start
                     /\ from[t] = Directory[q[t]].start + Directory[q[t]].blocks
      /\ from[0] = 1
      /\ \A t \in 0 .. u : to[t] = IF t + 1 \in F THEN first[t + 1] ELSE top
  <2>1. \A t \in F : t \in 1 .. u /\ t \in 0 .. u /\ t # 0
    BY <1>7
  <2>2. 0 \in 0 .. u
    BY <1>7
  <2>3. \A t \in F : /\ first[t] = Directory[q[t]].start
                   /\ from[t] = Directory[q[t]].start + Directory[q[t]].blocks
    BY <1>5, <2>1
  <2>4. from[0] = 1
    BY <1>5, <2>2
  <2>5. \A t \in 0 .. u : to[t] = IF t + 1 \in F THEN first[t + 1] ELSE top
    BY <1>5, <2>3
  <2> QED
    BY <2>1, <2>3, <2>4, <2>5
<1>9. /\ \A t \in F : /\ first[t] \in Nat /\ from[t] \in Nat
                     /\ 1 <= first[t] /\ first[t] < from[t] /\ from[t] <= top
      /\ \A s \in F, t \in F : s < t => from[s] <= first[t]
  <2>1. ASSUME NEW t \in F
        PROVE  /\ first[t] \in Nat /\ from[t] \in Nat
               /\ 1 <= first[t] /\ first[t] < from[t] /\ from[t] <= top
    <3>1. PICK a \in Nat, b \in Nat :
            /\ a = Directory[q[t]].start /\ b = Directory[q[t]].blocks
            /\ 1 <= a /\ 1 <= b /\ a + b <= top
      BY <1>6
    <3>2. first[t] = a /\ from[t] = a + b
      BY <1>8, <3>1
    <3> QED
      BY <3>1, <3>2
  <2>2. ASSUME NEW s \in F, NEW t \in F, s < t PROVE from[s] <= first[t]
    BY <1>6, <1>8, <2>2
  <2> QED
    BY <2>1, <2>2
<1>10. Gaps(n) \subseteq Nat /\ g \in Gaps(n) /\ \A s \in Gaps(n) : g <= s
  <2>1. Gaps(n) \subseteq Nat
    BY <1>2 DEF Gaps, DataArea
  <2> QED
    BY <2>1, <1>3, LeastOf
<1>11. \A s \in Nat : s \in Gaps(n) <=>
         /\ 1 <= s /\ s + n <= top
         /\ \A t \in F : from[t] <= s \/ s + n <= first[t]
  <2> SUFFICES ASSUME NEW s \in Nat
               PROVE  s \in Gaps(n) <=> /\ 1 <= s /\ s + n <= top
                                      /\ \A t \in F : from[t] <= s \/ s + n <= first[t]
    OBVIOUS
  <2>1. s \in Gaps(n) <=>
          /\ 1 <= s /\ s + n <= top
          /\ \A i \in Files : \/ Directory[i].start + Directory[i].blocks <= s
                              \/ s + n <= Directory[i].start
    BY <1>2, <1>3, GapsAreRooms
  <2>2. (\A i \in Files : \/ Directory[i].start + Directory[i].blocks <= s
                          \/ s + n <= Directory[i].start)
        <=> \A t \in F : from[t] <= s \/ s + n <= first[t]
    BY <1>6, <1>8
  <2> QED
    BY <2>1, <2>2
<1>12. top \in Nat
  <2>1. PICK z \in Nat : z = num_blocks
    BY <1>2
  <2>2. PICK h \in Nat : h = g /\ 1 <= h /\ h + n <= top
    BY <1>10, <1>11
  <2>3. top = z - 1
    BY <1>3, <2>1
  <2> QED
    BY <1>2, <2>1, <2>2, <2>3
<1>13. PICK m \in 0 .. u : /\ start = from[m] /\ Fits(from[m], to[m], n)
                          /\ \A t \in 0 .. u : Fits(from[t], to[t], n) => m <= t
  <2> DEFINE last(t) == IF t = 0 THEN 1 ELSE Directory[q[t]].start + Directory[q[t]].blocks
             next(t) == IF t = num_used_entries \/ Directory[q[t + 1]].name = Unused
                        THEN num_blocks - 1 ELSE Directory[q[t + 1]].start
             rooms == {t \in 0 .. num_used_entries : Fits(last(t), next(t), n)}
  <2>1. rooms # {} /\ start = last(Min(rooms))
    BY DEF Places
  <2>2. \A t \in 0 .. u : last(t) = from[t]
    BY <1>5
  <2>3. \A t \in 0 .. u : next(t) = to[t]
    <3> SUFFICES ASSUME NEW t \in 0 .. u PROVE next(t) = to[t]
      OBVIOUS
    <3>1. CASE t = u
      <4>1. t + 1 \notin F
        BY <3>1, <1>7
      <4> QED
        BY <3>1, <4>1, <1>3, <1>8
    <3>2. CASE t # u
      <4>1. t + 1 \in 1 .. u
        BY <3>2, <1>7
      <4>2. t + 1 \in F <=> Directory[q[t + 1]].name # Unused
        BY <4>1, <1>6
      <4> QED
        BY <3>2, <4>2, <1>3, <1>5
    <3> QED
      BY <3>1, <3>2
  <2> HIDE DEF last, next
  <2>4. rooms = {t \in 0 .. u : Fits(from[t], to[t], n)}
    BY <1>3, <2>2, <2>3
  <2>5. rooms \subseteq Nat
    BY <2>4, <1>7
  <2>6. PICK m \in rooms : m = Min(rooms) /\ \A t \in rooms : m <= t
    BY <2>1, <2>5, LeastOf
  <2>7. m \in 0 .. u /\ start = from[m]
    BY <2>1, <2>2, <2>4, <2>6
  <2> HIDE DEF rooms
  <2> QED
    BY <2>4, <2>6, <2>7
<1>14. start = g
  <2>1. g \in Nat /\ LowestFree(g, F, first, from, top, n)
    BY <1>10, <1>11 DEF LowestFree, FreeFrom
  <2>2. LinedUp(u, F, first, from, to, top)
    BY <1>6, <1>7, <1>8, <1>9 DEF LinedUp
  <2>3. FirstRoom(m, u, from, to, n)
    BY <1>13 DEF FirstRoom
  <2>4. from[m] = g
    BY <1>2, <1>7, <1>12, <2>1, <2>2, <2>3, FirstRoomIsLowest
  <2> QED
    BY <1>13, <2>4
<1>15. /\ slot \in Slots /\ Directory'[slot].name = name /\ Directory'[slot].start = start
  <2>1. slot \in Slots
    BY <1>2, <1>3, FreeSlot
  <2> QED
    BY <1>1, <1>3, <2>1 DEF added
<1> QED
  BY <1>3, <1>14, <1>15

(* When some gap between the files is large enough, the new file gets the  *)
(* lowest one, wherever deleted entries stand in the directory and         *)
(* whatever order they are sorted into (lines 634-683).                    *)
THEOREM LowestGapTaken == Spec => LowestGap
<1>1. Inv => \A name \in Names, n \in Sizes :
               create(name, n) /\ Ends # {} /\ Gaps(n) # {} =>
                 \E i \in Slots :
                   Directory'[i].name = name /\ Directory'[i].start = Min(Gaps(n))
  BY CreateLowest
<1> QED
  BY <1>1, Invariant, PTL DEF LowestGap
=============================================================================
