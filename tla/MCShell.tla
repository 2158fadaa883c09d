------------------------------ MODULE MCShell ------------------------------
(* A screen of four lines of three characters and commands of up to five   *)
(* letters, so that a command may begin on the last line and end, after    *)
(* scrolling, on the next.                                                 *)
EXTENDS Shell

MCLetters == {"1", "2", SPACE}
MCCode == "1" :> 49 @@ "2" :> 50 @@ SPACE :> 32
MCWelcome == <<"w", ENTER>>
MCCommands == <<
  [name |-> <<"1">>,      desc |-> <<"d">>,      cmdptr |-> "help"],
  [name |-> <<"2">>,      desc |-> <<"d", "d">>, cmdptr |-> "clean"],
  [name |-> <<"1", "1">>, desc |-> <<>>,         cmdptr |-> "fault"]>>
MCOutput == "clean" :> <<CLEAR>> \o MCWelcome
MCListing == <<"l", ENTER, ENTER>>
MCprintMem == <<"2">>
MCDump == <<"o", "o", "o", "o", ENTER>>
MCComplaint == <<"n">>
=============================================================================
