---------------------------- MODULE MCUnionFind -----------------------------
(* All the graphs on five findings: long enough a chain for path halving to     *)
(* skip a node and for a root to be joined twice.                               *)
EXTENDS UnionFind
=============================================================================
