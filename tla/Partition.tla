----------------------------- MODULE Partition ------------------------------
(***************************************************************************)
(* What correlate.Link promises: findings that are linked, directly or        *)
(* through others, end up in one cluster, and no others do.  The abstract      *)
(* machine merges the two classes of a link, in whatever order the links come; *)
(* the result is the partition into connected components, whatever the order.  *)
(***************************************************************************)
EXTENDS FiniteSets, Connected

CONSTANTS Nodes

VARIABLES
  links,        \* the pairs of findings that shouldLink accepts
  pending,      \* those not yet merged
  classes       \* the partition so far

(* The partition that is right for these links. *)
Components(edges) == ComponentsOf(Nodes, edges)

ClassOf(x) == CHOOSE C \in classes : x \in C

Init ==
  /\ links \in SUBSET (Nodes \X Nodes)
  /\ pending = links
  /\ classes = {{x} : x \in Nodes}

Merge(e) ==
  /\ pending' = pending \ {e}
  /\ classes' = (classes \ {ClassOf(e[1]), ClassOf(e[2])}) \cup {ClassOf(e[1]) \cup ClassOf(e[2])}
  /\ UNCHANGED links

Next == \E e \in pending : Merge(e)

vars == <<links, pending, classes>>

Spec == Init /\ [][Next]_vars /\ WF_vars(Next)
=============================================================================
