------------------------------ MODULE Writing ------------------------------
(***************************************************************************)
(* What programs and the keyboard handler write, and the terminal they     *)
(* write it to: modules Console and SharedCursor take it up.               *)
(***************************************************************************)
EXTENDS Terminal

CONSTANTS
  Strings,      \* what programs write
  Message       \* `ERROR: buffer overflow'

VARIABLE tty
=============================================================================
