---------------------------- MODULE MCRulePacks -----------------------------
(* One file of each kind, and every choice of up to two rule directories, and   *)
(* of three in which the second is not the only one to go wrong.                *)
EXTENDS RulePacks

CONSTANTS f1, f2, f3, f4

MCContent ==
  [f \in {f1, f2, f3, f4} |->
     CASE f = f1 -> "parses"
       [] f = f2 -> "parse error"
       [] f = f3 -> "no grammar"
       [] OTHER  -> "unreadable"]

MCDirChoices ==
  (UNION {[1..n -> DirKinds] : n \in 1..2}) \cup {<<"ok", "broken", "broken">>, <<"ok", "bad", "bad">>}
=============================================================================
