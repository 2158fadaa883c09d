------------------------------- MODULE MCBoot -------------------------------
(* A kernel of as many cells as one read of the packer takes, a program    *)
(* that may be shorter or longer and one that may be missing.  Bytes are   *)
(* numbers from 20 on, so that one taken for a count is too large.         *)
EXTENDS Boot, HostFiles

MCPaths == {"kernel", "code", "data"}
MCKernel == <<20, 21>>
MCContents ==
  [p \in MCPaths |->
     CASE p = "kernel" -> {file(MCKernel)}
       [] p = "code" -> {file(<<30>>), file(<<30, 31, 32>>), Missing, Directory}
       [] p = "data" -> {file(<<40, 41>>), file(<<>>)}]
MCCommandLines ==
  {<<>>, <<"kernel">>, <<"kernel", "code">>, <<"kernel", "data">>, <<"kernel", "code", "data">>,
   <<"kernel", "data", "data", "data">>}
MCSizes ==
  {<<"1", "6">>, <<"0", "1", "6">>, <<"0", "0", "5", "K">>, <<"1", "M">>, <<"9">>, <<"1", "G">>,
   <<"9", "9">>, <<"0", "K">>, <<"K">>, <<"2", "K", "0">>, <<"1", "x">>, <<>>, <<"3", "M">>}
MCMbrs == {file(<<10>>), file(<<>>), Missing}
MCBootFile == file(<<11, 12>>)
MCOld == <<19>>
=============================================================================
