----------------------------- MODULE MCKeyboard -----------------------------
(* Keyboards of few keys.                                                  *)
EXTENDS Keyboard

\* A letter, a key without a shifted character, one whose code is past
\* the end of asciiMap, both shifts, CTRL and CAPS.
MCCodes == {"a", "space", "F1", "LSHIFT", "RSHIFT", "CTRL", "CAPS"}
\* The driver tells apart 0, the letters and the rest, in asciiMap or not.
MCBytes == {NUL, "a", "A", " "}
\* As few as the races need.
MCFewCodes == {"a", "F1", "LSHIFT"}
MCUnmapped == {"F1"}
MCLetters == {"a"}

MCMap ==
  [k \in Codes \ Unmapped |->
     CASE k = "a" -> <<"a", "A">> [] k = "space" -> <<" ", NUL>>
       [] OTHER -> <<NUL, NUL>>]
=============================================================================
