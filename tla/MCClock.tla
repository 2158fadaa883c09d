------------------------------ MODULE MCClock ------------------------------
(* Every hour, and minutes and seconds about to carry or not.              *)
EXTENDS Clock

MCSome == {0, 8, 9, 35, 58, 59}
MCStarts == {3600 * h + 60 * m + s : h \in 0 .. 23, m \in MCSome, s \in MCSome}
=============================================================================
