----------------------------- MODULE MCProgram -----------------------------
(* A manager with granules of two bytes, one for the header, and an arena  *)
(* that the requests may exhaust, the more so after restarts.              *)
EXTENDS Program

MCArena == 0 .. 9
MCNeed(n) == 2 * ((n + 3) \div 2)
=============================================================================
