--------------------------- MODULE MCDepsCatalog ----------------------------
(* Four manifests, one of each kind. *)
EXTENDS DepsCatalog

CONSTANTS m1, m2, m3, m4

MCContent ==
  [m \in {m1, m2, m3, m4} |->
     CASE m = m1 -> "match"
       [] m = m2 -> "nomatch"
       [] m = m3 -> "malformed"
       [] OTHER  -> "unreadable"]
=============================================================================
