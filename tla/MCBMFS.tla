------------------------------- MODULE MCBMFS -------------------------------
(* A directory that three files fill, on an image of three blocks of data.  *)
EXTENDS BMFS

MCNames == {"a", "b", "c"}
MCSizes == {1, 2}
=============================================================================
