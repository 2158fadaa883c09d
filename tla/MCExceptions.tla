---------------------------- MODULE MCExceptions ----------------------------
(* CTRL, and the shift key that ends an exception.                         *)
EXTENDS Exceptions

MCModifiers == {"LSHIFT", "CTRL"}
MCLetters == {"a"}
=============================================================================
