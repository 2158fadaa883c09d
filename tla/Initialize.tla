----------------------------- MODULE Initialize -----------------------------
(***************************************************************************)
(* `bmfs <disk> initialize <size> <mbr> <boot> <kernel>', which writes a   *)
(* disk image from nothing: lines 271-591 of Bootloader/BMFS/bmfs.c.  Any  *)
(* write may fail and any read of the boot loader or the kernel may break  *)
(* off.  A cell of the image is a unit that the master boot record, the    *)
(* disk information and the directory take one each of; an unsigned long   *)
(* long has WORD values.                                                   *)
(***************************************************************************)
EXTENDS Integers, SequencesExt, FiniteSetsExt

CONSTANTS
  SizeStrings,       \* the sizes given, as sequences of characters
  WORD, KILO,        \* 2^64 and 1024
  minimumDiskSize,
  Mbrs,              \* what the file with the boot record may be
  boot,              \* the boot loader: a file
  bufferSize,
  TAG, Old           \* `BMFS'; the image there was before

VARIABLES
  kernel,            \* the kernel's file, written by the packer
  size, mbr,         \* arguments
  pc,
  k,                 \* characters read of the size, or cells of a file
  diskSize, diskSizeFactor,
  ret,
  disk, position,    \* the image, and where it is written to
  broken             \* ghost: a read or a write has failed

arguments == <<size, mbr>>
vars == <<arguments, pc, k, diskSize, diskSizeFactor, ret, disk, position, broken>>

InitializeConstants ==
  /\ SizeStrings \subseteq Seq(STRING)
  /\ WORD \in Nat \ {0} /\ KILO \in Nat \ {0, 1} /\ minimumDiskSize \in Nat \ {0}
  /\ bufferSize \in Nat \ {0}
  /\ boot.bytes \in Seq(Nat) /\ TAG \in Nat /\ \A m \in Mbrs : m.bytes \in Seq(Nat)

Init ==
  /\ size \in SizeStrings /\ mbr \in Mbrs
  /\ pc = "start" /\ k = 0 /\ diskSize = 0 /\ diskSizeFactor = 0 /\ ret = 0
  /\ disk = Old /\ position = 0 /\ broken = FALSE

Goto(l) == pc' = l /\ k' = 0

(* No step follows an error but the closing of the files.                  *)
Fail == ret' = 1 /\ Goto("end")
-----------------------------------------------------------------------------
(* The size.                                                               *)

Digits == <<"0", "1", "2", "3", "4", "5", "6", "7", "8", "9">>
isdigit(ch) == Contains(Digits, ch)
Number(ch) == CHOOSE n \in 0 .. 9 : Digits[n + 1] = ch

Units == <<"K", "M", "G", "T", "P">>
isunit(ch) == Contains(Units, ch)
Factor(ch) == CHOOSE n \in 1 .. 5 : Units[n] = ch

initialize == pc = "start" /\ Goto("size")
              /\ UNCHANGED <<arguments, diskSize, diskSizeFactor, ret, disk, position, broken>>

(* `Make sure we don't overflow', or the first digits, zeros.              *)
TakesDigit_NoZero(d) == (d * 10) % WORD > d

TakesDigit(d) == (d * 10) % WORD > d \/ d = 0

readSize ==
  /\ pc = "size" /\ k < Len(size)
  /\ LET ch == size[k + 1] IN
     \/ /\ isdigit(ch) /\ TakesDigit(diskSize)
        /\ diskSize' = (diskSize * 10 + Number(ch)) % WORD
        /\ k' = k + 1 /\ UNCHANGED <<pc, diskSizeFactor, ret>>
     \/ /\ isunit(ch) /\ k > 0 /\ k + 1 = Len(size)
        /\ diskSizeFactor' = Factor(ch)
        /\ k' = k + 1 /\ UNCHANGED <<pc, diskSize, ret>>
     \/ /\ IF isdigit(ch) THEN ~ TakesDigit(diskSize)
           ELSE ~ isunit(ch) \/ k = 0 \/ k + 1 # Len(size)
        /\ Fail /\ UNCHANGED <<diskSize, diskSizeFactor>>
  /\ UNCHANGED <<arguments, disk, position, broken>>

LessOne_Forgotten(n) == n

LessOne(n) == n - 1

(* One power of 1024; an error does not end the loop.                      *)
scale ==
  /\ pc = "size" /\ k = Len(size)
  /\ diskSize > 0 /\ diskSizeFactor > 0
  /\ diskSizeFactor' = LessOne(diskSizeFactor)
  /\ LET larger == (diskSize * KILO) % WORD IN
     \/ larger > diskSize /\ diskSize' = larger /\ UNCHANGED ret
     \/ larger <= diskSize /\ ret' = 1 /\ UNCHANGED diskSize
  /\ UNCHANGED <<arguments, pc, k, disk, position, broken>>

checkSize ==
  /\ pc = "size" /\ k = Len(size)
  /\ diskSize = 0 \/ diskSizeFactor = 0
  /\ \/ ret = 0 /\ diskSize >= minimumDiskSize /\ Goto("open") /\ UNCHANGED ret
     \/ ~ (ret = 0 /\ diskSize >= minimumDiskSize) /\ Fail
  /\ UNCHANGED <<arguments, diskSize, diskSizeFactor, disk, position, broken>>
-----------------------------------------------------------------------------
(* The image.                                                              *)

(* What s written at an offset makes of the image, which it may lengthen.  *)
writeAt(img, offset, s) ==
  [c \in 1 .. Max({Len(img), offset + Len(s)}) |->
     IF c \in (offset + 1) .. (offset + Len(s)) THEN s[c - offset]
     ELSE IF c <= Len(img) THEN img[c] ELSE 0]

Zeros(n) == [c \in 1 .. n |-> 0]

OpensDisk_Early == pc = "open"

(* All files are opened before the image is.                               *)
OpensDisk == pc = "open" /\ mbr.kind = "file" /\ kernel.kind = "file"

(* A file that cannot be opened, or no memory for the buffer.              *)
openFails ==
  /\ pc = "open"
  /\ Fail
  /\ UNCHANGED <<arguments, diskSize, diskSizeFactor, disk, position, broken>>

(* fopen(diskname, "wb") makes the image empty.                            *)
openDisk ==
  /\ OpensDisk
  /\ disk' = <<>> /\ position' = 0
  /\ IF mbr.kind = "file" /\ kernel.kind = "file" THEN Goto("fill") /\ UNCHANGED ret ELSE Fail
  /\ UNCHANGED <<arguments, diskSize, diskSizeFactor, broken>>

writeFails ==
  /\ pc \in {"fill", "mbr"}
  /\ broken' = TRUE /\ Fail
  /\ UNCHANGED <<arguments, diskSize, diskSizeFactor, disk, position>>

fill ==
  /\ pc = "fill" /\ Len(disk) < diskSize
  /\ disk' = disk \o Zeros(Min({bufferSize, diskSize - Len(disk)}))
  /\ UNCHANGED <<arguments, pc, k, diskSize, diskSizeFactor, ret, position, broken>>

(* Disk information and directory.                                         *)
format ==
  /\ pc = "fill" /\ Len(disk) >= diskSize
  /\ disk' = writeAt(disk, 1, <<TAG, 0>>)
  /\ Goto("mbr")
  /\ UNCHANGED <<arguments, diskSize, diskSizeFactor, ret, position, broken>>

System == 3       \* byte 8192: where the boot loader begins

(* A boot record that is too short is an error.                            *)
writeMBR ==
  /\ pc = "mbr"
  /\ \/ mbr.bytes = <<>> /\ Fail /\ UNCHANGED <<disk, position>>
     \/ /\ mbr.bytes # <<>>
        /\ disk' = writeAt(disk, 0, <<mbr.bytes[1]>>)
        /\ position' = System /\ Goto("boot") /\ UNCHANGED ret
  /\ UNCHANGED <<arguments, diskSize, diskSizeFactor, broken>>

source == IF pc = "boot" THEN boot ELSE kernel

(* One fread and fwrite of the boot loader or the kernel; when the write   *)
(* fails the loop goes on.                                                 *)
copy ==
  /\ pc \in {"boot", "kernel"} /\ k < Len(source.bytes)
  /\ LET s == SubSeq(source.bytes, k + 1, Min({k + bufferSize, Len(source.bytes)})) IN
     /\ \/ disk' = writeAt(disk, position, s) /\ UNCHANGED <<ret, broken>>
        \/ ret' = 1 /\ broken' = TRUE /\ UNCHANGED disk
     /\ position' = position + Len(s)
     /\ k' = k + Len(s)
  /\ UNCHANGED <<arguments, pc, diskSize, diskSizeFactor>>

(* The end of a file, or an error reading it, which is looked for in the   *)
(* disk (lines 522, 550) and so not found.  The kernel follows the boot    *)
(* loader without a seek.                                                  *)
copied ==
  /\ pc \in {"boot", "kernel"}
  /\ broken' = (broken \/ k < Len(source.bytes))
  /\ Goto(IF pc = "boot" /\ ret = 0 THEN "kernel" ELSE "end")
  /\ UNCHANGED <<arguments, diskSize, diskSizeFactor, ret, disk, position>>

Step ==
  \/ initialize \/ readSize \/ scale \/ checkSize
  \/ openFails \/ openDisk \/ writeFails
  \/ fill \/ format \/ writeMBR \/ copy \/ copied

Spec == Init /\ [][Step]_vars
=============================================================================
