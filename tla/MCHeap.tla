------------------------------- MODULE MCHeap -------------------------------
(* A small arena for Heap: the sizes are chosen so that blocks are split,  *)
(* merged on either side, handed out whole, and refused.                   *)
EXTENDS Heap

\* 64 - 0 bytes: one granule of payload, two, four, nothing, and numbers
\* that only the overflow tests stop.
MCRequests == {0, 1, 65, 256, 65535}
=============================================================================
