----------------------------- MODULE HostFiles -----------------------------
(***************************************************************************)
(* What a path may lead to on the machine that builds the image: a file    *)
(* and its cells, nothing, or a directory.                                 *)
(***************************************************************************)
LOCAL INSTANCE Naturals
LOCAL INSTANCE Sequences

HostEntry == [kind : {"file", "missing", "directory"}, bytes : Seq(Nat)]
file(s) == [kind |-> "file", bytes |-> s]
Missing == [kind |-> "missing", bytes |-> <<>>]
Directory == [kind |-> "directory", bytes |-> <<>>]
=============================================================================
