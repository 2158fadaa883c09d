-------------------------------- MODULE Boot --------------------------------
(***************************************************************************)
(* From the sources' binaries to the running program: the packer's file is *)
(* the kernel of the disk image (Image/Makefile), and the image is what    *)
(* the machine starts from.                                                *)
(***************************************************************************)
EXTENDS Integers, SequencesExt, FiniteSetsExt

CONSTANTS
  Paths, Contents, CommandLines, BUFFER_SIZE, Rooms, MaxChanges,    \* Packer
  SizeStrings, WORD, KILO, minimumDiskSize, Mbrs, boot, bufferSize, TAG, Old,
                                                                    \* Initialize
  KernelBinary, WINDOW, JUNK, bss, endOfKernel                      \* KernelStart

VARIABLES
  host, room, changes, array, packing, file_i, pos, target, packed, steady,
  size, mbr, imaging, k, diskSize, diskSizeFactor, ret, disk, position, broken,
  starting, memory, currentModule, moduleCount, i, loaded

P == INSTANCE Packer WITH pc <- packing, i <- file_i
D == INSTANCE Initialize WITH pc <- imaging, kernel <- target
payload == D!System + Len(boot.bytes)
K == INSTANCE KernelStart WITH pc <- starting

(* What is packed first is the kernel (Image/Makefile, lines 10-24).       *)
ASSUME BootAssumption ==
  /\ P!PackerConstants /\ D!InitializeConstants /\ K!KernelStartConstants
  /\ \A a \in CommandLines : a # <<>> => Contents[a[1]] = {P!file(KernelBinary)}

packer == <<host, room, changes, array, packing, file_i, pos, target, packed, steady>>
tool == <<size, mbr, imaging, k, diskSize, diskSizeFactor, ret, disk, position, broken>>
machine == <<starting, memory, currentModule, moduleCount, i, loaded>>
vars == <<packer, tool, machine>>

Init == P!Init /\ D!Init /\ K!Init

pack == P!Step /\ UNCHANGED <<tool, machine>>

write(p) == packing # "done" /\ P!change(p) /\ UNCHANGED <<tool, machine>>

(* make stops at an error; but called again it finds the packed kernel     *)
(* there, and newer than what it is made from.                             *)
Made == packing = "done" \/ (packing = "crashed" /\ target.kind = "file")

image == Made /\ D!Step /\ UNCHANGED <<packer, machine>>

start == imaging = "end" /\ ret = 0 /\ K!Step /\ UNCHANGED <<packer, tool>>

Code == pack \/ image \/ start

Next == Code \/ \E p \in Paths : write(p)

Spec == Init /\ [][Next]_vars

(* The programs, and the machine, go on by themselves.                     *)
FairSpec == Spec /\ WF_vars(Code)
-----------------------------------------------------------------------------
(* Two modules at most, and an image that the boot loader copies whole.    *)
Supported == Len(array) \in 2 .. 3 /\ Len(target.bytes) <= WINDOW

(* What the packer wrote the kernel reads, though its variables lie over   *)
(* it: unless a file changed in the packer's hand, or a disk failed or was *)
(* full, the kernel arrives at its call of the program, if that has any    *)
(* bytes, and each module is at its address with the bytes it had when it  *)
(* was packed (main.c 52-119, kernel.c 72-83, moduleLoader.c 8-31).        *)
ModulesArrive ==
  steady /\ ~ broken /\ Supported =>
    /\ starting = "lost" => packed[2] = <<>>
    /\ starting = "started" => \A n \in 2 .. Len(array) : loaded[n - 2] = packed[n]

(* An initialize that fails without a disk error leaves the image there    *)
(* was: nothing is opened for writing before all that can be wrong with    *)
(* the arguments has been seen, a boot record that is too short apart      *)
(* (bmfs.c 433-435).                                                       *)
OldImageKept ==
  imaging = "end" /\ ret # 0 /\ ~ broken /\ ~ (mbr.kind = "file" /\ mbr.bytes = <<>>)
    => disk = Old

(* What a size string means: so many digits, and a power of 1024.          *)
HasUnit(s) == s # <<>> /\ D!isunit(s[Len(s)])
DigitCount(s) == IF HasUnit(s) THEN Len(s) - 1 ELSE Len(s)
Power(s) == IF HasUnit(s) THEN D!Factor(s[Len(s)]) ELSE 0
Valid(s) == DigitCount(s) > 0 /\ \A n \in 1 .. DigitCount(s) : D!isdigit(s[n])
Bytes(s) ==
  LET value[n \in 0 .. DigitCount(s)] ==
        IF n = 0 THEN 0 ELSE 10 * value[n - 1] + D!Number(s[n])
      scaled[n \in 0 .. Power(s)] ==
        IF n = 0 THEN value[DigitCount(s)] ELSE KILO * scaled[n - 1]
  IN scaled[Power(s)]

(* A size that an unsigned long long can hold is never taken for too large *)
(* nor read as another, leading zeros and units included, and what is no   *)
(* size is refused (lines 299-387).                                        *)
SizeRead ==
  [][imaging = "size" /\ imaging' # "size" =>
       IF ~ Valid(size) THEN imaging' = "end"
       ELSE Bytes(size) < WORD =>
              /\ imaging' = "open" <=> Bytes(size) >= minimumDiskSize
              /\ imaging' = "open" => diskSize = Bytes(size)]_vars

(* Making an image and starting from it comes to an end, in one way or     *)
(* another; but a directory among the files is read for ever.              *)
Settles ==
  <>(\/ packing \in {"usage", "failed", "crashed"} \/ P!Spins
     \/ imaging = "end" /\ ret # 0
     \/ starting \in {"started", "lost"})
=============================================================================
