----------------------------- MODULE MCConsole -----------------------------
(* A screen of two lines of two characters, each two pixels wide, that a   *)
(* program may divide into two columns.                                    *)
EXTENDS Console

MCStrings == {<<"a">>}
MCMessage == <<"a", "a">>
\* On a column, off a column, and back.
MCCursors == {<<2, 1>>, <<1, 1>>, <<-1, -1>>}
MCMargins == {<<0, 2>>, <<2, 4>>}
=============================================================================
