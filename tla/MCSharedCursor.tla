--------------------------- MODULE MCSharedCursor ---------------------------
(* A screen of lines of three characters.                                 *)
EXTENDS SharedCursor

MCStrings == {<<"a">>, <<"a", "b">>}
MCMessage == <<"!", "!">>
=============================================================================
