------------------------------ MODULE Connected -------------------------------
(* What correlate.Link computes, without its loops: the classes of a graph.      *)

(* No edge leads out of S or into it. *)
Closed(S, edges) == \A e \in edges : e[1] \in S <=> e[2] \in S

(* The connected components: the least non-empty sets that no edge leaves. *)
ComponentsOf(nodes, edges) ==
  {S \in SUBSET nodes :
     /\ S # {} /\ Closed(S, edges)
     /\ \A T \in SUBSET S : T # {} /\ Closed(T, edges) => T = S}
=============================================================================
