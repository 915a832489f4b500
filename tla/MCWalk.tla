------------------------------- MODULE MCWalk --------------------------------
(* A directory with a file in it, beside a file whose path comes before that      *)
(* file's; bin, which may be a directory to skip, with a file in it, or a file;    *)
(* and z, which comes last and may be a link.                                     *)
EXTENDS Walk

MCPaths == {<< >>, <<"a">>, <<"a", "b">>, <<"a.txt">>, <<"bin">>, <<"bin", "x">>, <<"z">>}

(* "a" < "a.txt" < "bin" < "z", but "a.txt" < "a/b".                              *)
MCNameRank == [a |-> 1, b |-> 1, bin |-> 3, x |-> 1, z |-> 4] @@ ("a.txt" :> 2)
MCPathRank ==
  [p \in MCPaths |->
     CASE p = << >>          -> 0
       [] p = <<"a">>        -> 1
       [] p = <<"a.txt">>    -> 2
       [] p = <<"a", "b">>   -> 3
       [] p = <<"bin">>      -> 4
       [] p = <<"bin", "x">> -> 5
       [] OTHER              -> 6]

MCKindsAt ==
  [p \in MCPaths |->
     CASE p = << >>        -> {"absent", "file", "dir", "locked", "link"}
       [] p = <<"a">>      -> {"absent", "file", "dir", "locked"}
       [] p = <<"bin">>    -> {"absent", "file", "dir", "locked"}
       [] p = <<"bin", "x">> -> {"absent", "file"}
       [] p = <<"z">>      -> {"absent", "file", "link"}
       [] OTHER            -> {"absent", "file"}]
=============================================================================
