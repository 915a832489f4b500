----------------------------- MODULE UnionFind ------------------------------
(***************************************************************************)
(* correlate.Link (internal/correlate/correlate.go): the union-find over the  *)
(* indices of the findings, with path halving and with the smaller root as    *)
(* the parent, and the grouping by root.  shouldLink is not transitive; which *)
(* pairs it accepts is chosen once, in any way.                               *)
(***************************************************************************)
EXTENDS Integers, Sequences

CONSTANT N      \* how many findings there are; Link returns at once for none

ASSUME NAssumption == N \in Nat \ {0}

Nodes == 0..(N - 1)

VARIABLES
  links,        \* the pairs i < j with shouldLink(findings[i], findings[j])
  parent,       \* the forest
  i, j,         \* the two loops over pairs; i is the loop over findings when grouping
  pc,           \* "scan", inside one of the three calls of find, or "done"
  x,            \* the local variable of find
  ri,           \* what find(i) has returned
  groups        \* groups[r]: the findings whose root is r, in order

vars == <<links, parent, i, j, pc, x, ri, groups>>

Pairs == {e \in Nodes \X Nodes : e[1] < e[2]}
Finds == {"find i", "find j", "find root"}

Init ==
  /\ links \in SUBSET Pairs
  /\ parent = [y \in Nodes |-> y]
  /\ i = 0 /\ j = 1
  /\ pc = "scan"
  /\ x = 0 /\ ri = 0
  /\ groups = [y \in Nodes |-> << >>]

(* Fault: the inner loop restarts at the first finding. *)
NextPairFromZero ==
  /\ pc' = "scan"
  /\ i' = IF j < N - 1 THEN i ELSE i + 1
  /\ j' = IF j < N - 1 THEN j + 1 ELSE 0

(* The increments of the two for loops. *)
NextPair ==
  /\ pc' = "scan"
  /\ i' = IF j < N - 1 THEN i ELSE i + 1
  /\ j' = IF j < N - 1 THEN j + 1 ELSE i + 2

(* shouldLink says no. *)
Skip ==
  /\ pc = "scan" /\ i < N - 1
  /\ <<i, j>> \notin links
  /\ NextPair
  /\ UNCHANGED <<links, parent, x, ri, groups>>

(* union(i, j) starts with find(i). *)
StartUnion ==
  /\ pc = "scan" /\ i < N - 1
  /\ <<i, j>> \in links
  /\ pc' = "find i" /\ x' = i
  /\ UNCHANGED <<links, parent, i, j, ri, groups>>

(* Fault: find does not move on. *)
HalveInPlace ==
  /\ pc \in Finds
  /\ parent[x] # x
  /\ parent' = [parent EXCEPT ![x] = parent[parent[x]]]
  /\ UNCHANGED <<links, i, j, pc, x, ri, groups>>

(* for parent[i] != i { parent[i] = parent[parent[i]]; i = parent[i] } *)
Halve ==
  /\ pc \in Finds
  /\ parent[x] # x
  /\ parent' = [parent EXCEPT ![x] = parent[parent[x]]]
  /\ x' = parent[parent[x]]
  /\ UNCHANGED <<links, i, j, pc, ri, groups>>

FoundI ==
  /\ pc = "find i" /\ parent[x] = x
  /\ pc' = "find j" /\ ri' = x /\ x' = j
  /\ UNCHANGED <<links, parent, i, j, groups>>

(* Fault: the findings themselves are joined, not their roots. *)
JoinLeaves ==
  /\ pc = "find j" /\ parent[x] = x
  /\ parent' = [parent EXCEPT ![j] = i]
  /\ NextPair
  /\ UNCHANGED <<links, x, ri, groups>>

(* Fault: the root of j always becomes the parent. *)
JoinUnordered ==
  /\ pc = "find j" /\ parent[x] = x
  /\ parent' = [parent EXCEPT ![ri] = x]
  /\ NextPair
  /\ UNCHANGED <<links, x, ri, groups>>

(* find(j) has returned x: the smaller of the two roots becomes the parent.   *)
Join ==
  /\ pc = "find j" /\ parent[x] = x
  /\ parent' = IF ri < x THEN [parent EXCEPT ![x] = ri] ELSE [parent EXCEPT ![ri] = x]
  /\ NextPair
  /\ UNCHANGED <<links, x, ri, groups>>

(* All pairs are done: group the findings by root, starting with the first.   *)
StartGrouping ==
  /\ pc = "scan" /\ i >= N - 1
  /\ pc' = "find root" /\ i' = 0 /\ x' = 0
  /\ UNCHANGED <<links, parent, j, ri, groups>>

(* Fault: findings are grouped by parent, without find. *)
GroupByParent ==
  /\ pc = "find root"
  /\ groups' = [groups EXCEPT ![parent[i]] = Append(@, i)]
  /\ i' = i + 1 /\ x' = i + 1
  /\ pc' = IF i = N - 1 THEN "done" ELSE "find root"
  /\ UNCHANGED <<links, parent, j, ri>>

(* groups[r] = append(groups[r], f), and on to the next finding. *)
AddToGroup ==
  /\ pc = "find root" /\ parent[x] = x
  /\ groups' = [groups EXCEPT ![x] = Append(@, i)]
  /\ i' = i + 1 /\ x' = i + 1
  /\ pc' = IF i = N - 1 THEN "done" ELSE "find root"
  /\ UNCHANGED <<links, parent, j, ri>>

Terminating == pc = "done" /\ UNCHANGED vars

Link == Skip \/ StartUnion \/ Halve \/ FoundI \/ Join \/ StartGrouping \/ AddToGroup

Next == Link \/ Terminating

(* Sequential code goes on as long as it can. *)
Spec == Init /\ [][Next]_vars /\ WF_vars(Link)
-----------------------------------------------------------------------------
TypeOK ==
  /\ links \subseteq Pairs
  /\ parent \in [Nodes -> Nodes]
  /\ i \in 0..N /\ j \in 1..N
  /\ pc \in {"scan", "done"} \cup Finds
  /\ x \in 0..N /\ ri \in Nodes
  /\ groups \in [Nodes -> Seq(Nodes)]

(* No parent is above its child, so the forest has no cycle for find to run     *)
(* round: joining roots in the other order, or joining findings, can make one.  *)
Downhill == \A y \in Nodes : parent[y] <= y

(* The root of each finding, read off the forest. *)
root[y \in Nodes] == IF parent[y] = y THEN y ELSE root[parent[y]]

(* The pairs whose turn in the loops has come. *)
Seen(e) == pc \in {"find root", "done"} \/ e[1] < i \/ (e[1] = i /\ e[2] < j)

Abstract ==
  INSTANCE Partition WITH
    pending <- {e \in links : ~Seen(e)},
    classes <- {{y \in Nodes : root[y] = r} : r \in {root[y] : y \in Nodes}}

(* Every union merges two classes of the partition, path halving moves nobody   *)
(* from one class to another, and all the links get merged.                     *)
ImplementsPartition == Abstract!Spec

Members(s) == {s[k] : k \in DOMAIN s}

(* The clusters are the connected components of shouldLink: findings linked     *)
(* through others share a cluster, the rest do not, every finding is in one     *)
(* cluster, once, and a cluster is headed by its first finding.                 *)
ClustersAreComponents ==
  pc = "done" =>
    /\ {Members(groups[r]) : r \in {y \in Nodes : groups[y] # << >>}} = Abstract!Components(links)
    /\ \A r \in Nodes : \A k, l \in DOMAIN groups[r] :
         /\ k < l => groups[r][k] < groups[r][l]
         /\ r <= groups[r][k]

(* Link ends. *)
Termination == <>(pc = "done")
=============================================================================
