-------------------------------- MODULE BMFS --------------------------------
(***************************************************************************)
(* The disk image tool, Bootloader/BMFS/bmfs.c.  A run of the tool reads   *)
(* the directory, carries out one command and writes the directory back,   *)
(* so that an action is a run.  Space is counted in blocks (2 MiB); a      *)
(* block's contents are reduced to the file they were written for.         *)
(***************************************************************************)
EXTENDS Integers, SequencesExt, FiniteSetsExt

CONSTANTS
  SLOTS,       \* entries of the directory
  MaxBlocks,   \* bound: of an image
  Names,
  Sizes        \* blocks asked for, or written

End == "0x00"        \* as first character: the end of the directory
Unused == "0x01"     \* a deleted entry

ASSUME BMFSAssumption ==
  /\ SLOTS \in Nat \ {0} /\ MaxBlocks \in Nat \ (0 .. 2)
  /\ {End, Unused} \cap Names = {} /\ Sizes \subseteq Nat \ {0}

VARIABLES
  formatted,   \* DiskInfo holds the tag
  num_blocks,
  Directory,
  data,        \* [block -> the file written there, or End]
  sound        \* ghost: files have always been apart and in the data area

vars == <<formatted, num_blocks, Directory, data, sound>>

Slots == 0 .. (SLOTS - 1)
Zeroed == [i \in Slots |-> [name |-> End, start |-> 0, blocks |-> 0, size |-> 0]]
NoData == [b \in 0 .. (MaxBlocks - 1) |-> End]

(* An image of less than a block, that is no BMFS disk.                    *)
Init ==
  /\ formatted = FALSE /\ num_blocks = 0
  /\ Directory = Zeroed /\ data = NoData /\ sound = TRUE
-----------------------------------------------------------------------------
Ends == {i \in Slots : Directory[i].name = End}

findfile_ToUnused(name) ==
  {i \in Slots : Directory[i].name = name
                   /\ \A j \in 0 .. i : Directory[j].name \notin {End, Unused}}

(* The slot of a name, if there is one before the end of the directory.    *)
findfile(name) ==
  {i \in Slots : Directory[i].name = name /\ \A j \in 0 .. i : Directory[j].name # End}

Files == UNION {findfile(name) : name \in Names}
Extent(i) == Directory[i].start .. (Directory[i].start + Directory[i].blocks - 1)
DataArea == 1 .. (num_blocks - 2)

Apart == \A i, j \in Files : i # j => Extent(i) \cap Extent(j) = {}
Inside == \A i \in Files : Extent(i) \subseteq DataArea

minimumDiskSize == 3

(* The image is written over, and formatted unless the writing fails       *)
(* before; files that cannot be opened are found before that, and leave    *)
(* everything as it was.                                                   *)
initialize ==
  \/ /\ formatted' = TRUE /\ num_blocks' \in minimumDiskSize .. MaxBlocks
     /\ Directory' = Zeroed /\ data' = NoData /\ sound' = TRUE
  \/ /\ formatted' = FALSE /\ num_blocks' \in 0 .. MaxBlocks
     /\ Directory' = Zeroed /\ data' = NoData /\ sound' = TRUE

(* Without a tag, or when forced; any image will do, however small.        *)
format ==
  /\ formatted' = TRUE /\ Directory' = Zeroed /\ sound' = TRUE
  /\ UNCHANGED <<num_blocks, data>>
-----------------------------------------------------------------------------
(* create *)

(* The bound: once files overlap, or a full directory has been taken for   *)
(* an empty one, the image is only followed to its next formatting.        *)
Followed == formatted /\ sound

(* Nought when the directory has no end, being full.                       *)
num_used_entries == IF Ends = {} THEN 0 ELSE Min(Ends)

free_entries ==
  {i \in Slots : Directory[i].name \in {End, Unused}
                   /\ \A j \in 0 .. (i - 1) : Directory[j].name # End}

StartingBlockCmp_Unsorted(a, b) == TRUE

(* a may stand before b.  Deleted entries come last, in no certain order.  *)
StartingBlockCmp(a, b) ==
  b.name = Unused \/ (a.name # Unused /\ a.start <= b.start)

(* The used entries as qsort may leave them.                               *)
Sorted ==
  {q \in SetToSeqs(0 .. (num_used_entries - 1)) :
     \A i, j \in DOMAIN q : i < j => StartingBlockCmp(Directory[q[i]], Directory[q[j]])}

(* Whether n blocks fit from one block to another, by unsigned numbers.    *)
Fits(from, to, n) == to < from \/ to - from >= n

(* Where the search through the sorted entries finds room.                 *)
Places(q, n) ==
  LET prev_file_end(t) ==
        IF t = 0 THEN 1 ELSE Directory[q[t]].start + Directory[q[t]].blocks
      this_file_start(t) ==
        IF t = num_used_entries \/ Directory[q[t + 1]].name = Unused
        THEN num_blocks - 1 ELSE Directory[q[t + 1]].start
      rooms == {t \in 0 .. num_used_entries : Fits(prev_file_end(t), this_file_start(t), n)}
  IN IF rooms = {} THEN {} ELSE {prev_file_end(Min(rooms))}

added(slot, name, start, n) ==
  [i \in Slots |->
     IF i = slot THEN [name |-> name, start |-> start, blocks |-> n, size |-> 0]
     ELSE IF slot = num_used_entries /\ i = slot + 1 THEN [Directory[i] EXCEPT !.name = End]
     ELSE Directory[i]]

create(name, n) ==
  /\ Followed /\ findfile(name) = {} /\ free_entries # {}
  /\ \E q \in Sorted :
       \E start \in Places(q, n) :
         Directory' = added(Min(free_entries), name, start, n)
  /\ UNCHANGED <<formatted, num_blocks, data>>
  /\ sound' = (sound /\ Ends # {} /\ Apart' /\ Inside')

Room(i, n) == Directory[i].blocks >= n

Written_OneMore(i, n) == Directory[i].start .. (Directory[i].start + n)

(* The blocks of file i that n blocks are written to.                      *)
Written(i, n) == Directory[i].start .. (Directory[i].start + n - 1)

write(name, n) ==
  /\ Followed
  /\ \E i \in findfile(name) :
       /\ Room(i, n)
       /\ data' = [b \in DOMAIN data |-> IF b \in Written(i, n) THEN name ELSE data[b]]
       /\ Directory' = [Directory EXCEPT ![i].size = n]
  /\ UNCHANGED <<formatted, num_blocks, sound>>

delete(name) ==
  /\ Followed
  /\ \E i \in findfile(name) : Directory' = [Directory EXCEPT ![i].name = Unused]
  /\ UNCHANGED <<formatted, num_blocks, data, sound>>

Next ==
  \/ initialize \/ format
  \/ \E name \in Names :
       \/ \E n \in Sizes : create(name, n) \/ write(name, n)
       \/ delete(name)

Spec == Init /\ [][Next]_vars
-----------------------------------------------------------------------------
(* However entries are deleted and used again, no name is in the directory *)
(* twice (findfile, and lines 616-649 of create).                          *)
NamesUnique == \A name \in Names : Cardinality(findfile(name)) <= 1

(* When some gap between the files is large enough, the new file gets the  *)
(* lowest one, wherever deleted entries stand in the directory (lines      *)
(* 634-683).                                                               *)
Gaps(n) ==
  {s \in DataArea : s .. (s + n - 1) \subseteq DataArea \ UNION {Extent(i) : i \in Files}}
LowestGap ==
  [][\A name \in Names, n \in Sizes :
       create(name, n) /\ Ends # {} /\ Gaps(n) # {} =>
         \E i \in Slots :
           Directory'[i].name = name /\ Directory'[i].start = Min(Gaps(n))]_vars

(* As long as files have been apart, each still holds what was written to  *)
(* it, whatever was written, deleted and created since (lines 752-797).    *)
ReadsBack ==
  sound => \A i \in Files :
             \A b \in Directory[i].start .. (Directory[i].start + Directory[i].size - 1) :
               data[b] = Directory[i].name

(* BareMetal File System.md, line 20: create `can extract the location of  *)
(* free blocks by comparing against the blocks that are currently in use', *)
(* so that no two files share a block.                                     *)
FilesDisjoint == Apart
=============================================================================
