------------------------------- MODULE Packer -------------------------------
(***************************************************************************)
(* The module packer, Toolchain/ModulePacker/main.c, which puts the kernel *)
(* and the modules behind it in one file: the kernel, their number, and of *)
(* each its size and its bytes.  Other programs may write the files it     *)
(* reads meanwhile, and the disk it writes to may fill up.  A cell of a    *)
(* file is a byte or, where the packer writes one, an integer.             *)
(***************************************************************************)
EXTENDS Integers, SequencesExt, FiniteSetsExt, HostFiles

CONSTANTS
  Paths,
  Contents,      \* [Paths -> what there may be: file(s), Missing, Directory]
  CommandLines,  \* the paths given, each a sequence, the kernel first
  BUFFER_SIZE,   \* cells that one fread asks for
  Rooms,         \* cells the disk may have room for
  MaxChanges     \* bound: of the files, by others

PackerConstants ==
  /\ BUFFER_SIZE \in Nat \ {0} /\ Rooms \subseteq Nat /\ MaxChanges \in Nat
  /\ DOMAIN Contents = Paths /\ \A p \in Paths : Contents[p] \subseteq HostEntry
  /\ CommandLines \subseteq Seq(Paths)

VARIABLES
  host,          \* [Paths -> file(s), Missing or Directory]
  room, changes,
  array,         \* fileArray.array
  pc,            \* the next step of the packer, or how it ended
  i,             \* the file in hand, from 1
  pos,           \* how much of it has been read
  target,        \* the output file
  packed,        \* ghost: what was read of each file when it was closed
  steady         \* ghost: no file changed in hand, and every write had room

environment == <<host, room, changes, array>>
vars == <<environment, pc, i, pos, target, packed, steady>>

Init ==
  /\ host \in {h \in [Paths -> UNION {Contents[p] : p \in Paths}] :
                 \A p \in Paths : h[p] \in Contents[p]}
  /\ room \in Rooms /\ changes = 0
  /\ array \in CommandLines
  /\ pc = "parse_opt" /\ i = 1 /\ pos = 0
  /\ target = Missing /\ packed = <<>> /\ steady = TRUE

Source == host[array[i]]
-----------------------------------------------------------------------------
(* What becomes of the target, written to without a look at the result.    *)
fwrite(s) ==
  LET all == target.bytes \o s IN
  /\ target' = file(SubSeq(all, 1, Min({room, Len(all)})))
  /\ steady' = (steady /\ Len(all) <= room)

parse_opt ==
  /\ pc = "parse_opt"
  /\ pc' = IF array = <<>> THEN "usage" ELSE "checkFiles"
  /\ UNCHANGED <<environment, i, pos, target, packed, steady>>

(* access() is content with a directory.                                   *)
checkFiles ==
  /\ pc = "checkFiles"
  /\ \/ Source = Missing /\ pc' = "failed" /\ UNCHANGED i
     \/ Source # Missing /\ i < Len(array) /\ i' = i + 1 /\ UNCHANGED pc
     \/ Source # Missing /\ i = Len(array) /\ i' = 1 /\ pc' = "target"
  /\ UNCHANGED <<environment, pos, target, packed, steady>>

openTarget ==
  /\ pc = "target"
  /\ \/ pc' = "failed" /\ UNCHANGED target
     \/ pc' = "source" /\ target' = file(<<>>)
  /\ UNCHANGED <<environment, i, pos, packed, steady>>

(* A file that has gone since it was checked gives NULL to feof.           *)
openSource ==
  /\ pc = "source"
  /\ pos' = 0
  /\ pc' = IF Source = Missing THEN "crashed" ELSE IF i = 1 THEN "write_file" ELSE "write_size"
  /\ steady' = (steady /\ Source # Missing)
  /\ UNCHANGED <<environment, i, target, packed>>

(* The size is asked for again by name.                                    *)
write_size ==
  /\ pc = "write_size"
  /\ fwrite(<<Len(Source.bytes)>>)
  /\ pc' = "write_file"
  /\ UNCHANGED <<environment, i, pos, packed>>

extraBinaries == Len(array) - 1

(* One fread and fwrite.  A short count means the end, and the file is     *)
(* closed; but a directory gives neither bytes nor an end.                 *)
write_file ==
  /\ pc = "write_file" /\ Source.kind = "file"
  /\ LET chunk == SubSeq(Source.bytes, pos + 1, Min({pos + BUFFER_SIZE, Len(Source.bytes)}))
         end   == Len(chunk) < BUFFER_SIZE
     IN /\ fwrite(IF end /\ i = 1 THEN Append(chunk, extraBinaries) ELSE chunk)
        /\ pos' = pos + Len(chunk)
        /\ packed' = IF end THEN Append(packed, Source.bytes) ELSE packed
        /\ i' = IF end THEN i + 1 ELSE i
        /\ pc' = IF ~ end THEN pc ELSE IF i = Len(array) THEN "done" ELSE "source"
  /\ UNCHANGED environment

Step ==
  parse_opt \/ checkFiles \/ openTarget \/ openSource \/ write_size \/ write_file

Reading == pc = "write_file" /\ (i > 1 \/ pos > 0)

(* Another program writes a file, or removes one that is not open.         *)
change(p) ==
  /\ changes < MaxChanges /\ changes' = changes + 1
  /\ \E c \in Contents[p] \ {host[p]} :
       /\ pc \in {"write_size", "write_file"} /\ p = array[i] => {c.kind, Source.kind} = {"file"}
       /\ host' = [host EXCEPT ![p] = c]
  /\ steady' = (steady /\ ~ (Reading /\ p = array[i]))
  /\ UNCHANGED <<room, array, pc, i, pos, target, packed>>

Spins == pc = "write_file" /\ Source.kind = "directory"

Next == Step \/ \E p \in Paths : change(p)

Spec == Init /\ [][Next]_vars
=============================================================================
