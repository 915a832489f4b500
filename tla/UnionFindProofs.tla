-------------------------- MODULE UnionFindProofs ---------------------------
(***************************************************************************)
(* Types, the shape of the forest, the clusters and the refinement of         *)
(* Partition, for any number of findings and any relation.                   *)
(***************************************************************************)
EXTENDS UnionFind, TLAPS

(* Where the loops are: the pair at hand is a pair of findings, i before j, and  *)
(* find stands on a finding.                                                    *)
Positions ==
  /\ pc = "scan" => i <= N - 1
  /\ (pc = "scan" /\ i < N - 1) \/ pc \in {"find i", "find j"} => i < j /\ j < N
  /\ pc = "find root" => i <= N - 1
  /\ pc \in Finds => x \in Nodes

(* The inductive invariant: the positions keep the typing, and the typing of x     *)
(* and ri is what Downhill needs of a join.                                       *)
IInv == TypeOK /\ Positions /\ Downhill

(* The next pair of a pair of findings. *)
LEMMA NextPairMoves ==
  ASSUME i \in Nat, j \in Nat, i < j, j < N, NextPair
  PROVE  /\ pc' = "scan" /\ i' \in 0..N /\ j' \in 1..N
         /\ i' <= N - 1
         /\ i' < N - 1 => i' < j' /\ j' < N
BY NAssumption DEF NextPair

(* The findings of a pair are findings. *)
LEMMA PairOfNodes ==
  ASSUME i \in Nat, j \in Nat, i < j, j < N
  PROVE  i \in Nodes /\ j \in Nodes /\ i \in 0..N /\ j \in 0..N
BY NAssumption DEF Nodes

(* A finding, and the index after it, are indices of find and of the loops. *)
LEMMA IndexAfter ==
  ASSUME NEW y \in Nodes
  PROVE  /\ y \in 0..N /\ y + 1 \in 0..N
         /\ y # N - 1 => y + 1 <= N - 1 /\ y + 1 \in Nodes
BY NAssumption DEF Nodes

(* The first finding is one. *)
LEMMA FirstNode == 0 \in Nodes /\ 0 \in 0..N /\ 0 <= N - 1
BY NAssumption DEF Nodes

(* A new call of Link starts well. *)
LEMMA Initially == Init => IInv
<1> SUFFICES ASSUME Init PROVE IInv
  OBVIOUS
<1> USE NAssumption
<1>1. parent \in [Nodes -> Nodes] /\ Downhill
  BY DEF Init, Downhill, Nodes
<1>2. groups \in [Nodes -> Seq(Nodes)]
  BY DEF Init
<1>3. TypeOK
  BY <1>1, <1>2 DEF Init, TypeOK, Nodes, Finds
<1>4. Positions
  BY DEF Init, Positions, Finds
<1> QED BY <1>1, <1>3, <1>4 DEF IInv

(* Every step keeps the inductive invariant. *)
LEMMA Preserved == IInv /\ [Next]_vars => IInv'
<1> SUFFICES ASSUME IInv, [Next]_vars PROVE IInv'
  OBVIOUS
<1> USE NAssumption
<1>1. /\ TypeOK /\ Positions /\ Downhill
      /\ i \in Nat /\ j \in Nat
  BY DEF IInv, TypeOK
<1>2. CASE Skip
  <2>1. i < j /\ j < N
    BY <1>1, <1>2 DEF Skip, Positions
  <2>2. NextPair /\ UNCHANGED <<links, parent, x, ri, groups>>
    BY <1>2 DEF Skip
  <2>3. TypeOK'
    BY <1>1, <2>1, <2>2, NextPairMoves DEF TypeOK
  <2>4. Positions'
    BY <1>1, <2>1, <2>2, NextPairMoves DEF Positions, Finds
  <2>5. Downhill'
    BY <1>1, <2>2 DEF Downhill
  <2> QED BY <2>3, <2>4, <2>5 DEF IInv
<1>3. CASE StartUnion
  <2>1. i < j /\ j < N
    BY <1>1, <1>3 DEF StartUnion, Positions
  <2>2. i \in Nodes /\ i \in 0..N
    BY <1>1, <2>1, PairOfNodes
  <2>3. pc' = "find i" /\ x' = i /\ UNCHANGED <<links, parent, i, j, ri, groups>>
    BY <1>3 DEF StartUnion
  <2>4. TypeOK'
    BY <1>1, <2>2, <2>3 DEF TypeOK, Finds
  <2>5. Positions'
    BY <2>1, <2>2, <2>3 DEF Positions
  <2>6. Downhill'
    BY <1>1, <2>3 DEF Downhill
  <2> QED BY <2>4, <2>5, <2>6 DEF IInv
<1>4. CASE Halve
  <2>1. x \in Nodes /\ parent[x] \in Nodes /\ parent[parent[x]] \in Nodes
    BY <1>1, <1>4 DEF Halve, Positions, TypeOK
  <2>2. parent[parent[x]] <= x
    <3>1. parent[parent[x]] <= parent[x] /\ parent[x] <= x
      BY <1>1, <2>1 DEF Downhill
    <3> QED BY <3>1, <2>1 DEF Nodes
  <2>3. TypeOK'
    <3>1. x' \in 0..N
      BY <1>4, <2>1 DEF Halve, Nodes
    <3>2. parent' \in [Nodes -> Nodes]
      BY <1>1, <1>4, <2>1 DEF Halve, TypeOK
    <3>3. UNCHANGED <<links, i, j, pc, ri, groups>>
      BY <1>4 DEF Halve
    <3> QED BY <1>1, <3>1, <3>2, <3>3 DEF TypeOK
  <2>4. Positions'
    BY <1>1, <1>4, <2>1 DEF Halve, Positions
  <2>5. Downhill'
    BY <1>1, <1>4, <2>1, <2>2 DEF Halve, Downhill, TypeOK
  <2> QED BY <2>3, <2>4, <2>5 DEF IInv
<1>5. CASE FoundI
  <2>1. i < j /\ j < N /\ x \in Nodes
    BY <1>1, <1>5 DEF FoundI, Positions, Finds
  <2>2. j \in Nodes /\ j \in 0..N
    BY <1>1, <2>1, PairOfNodes
  <2>3. pc' = "find j" /\ ri' = x /\ x' = j /\ UNCHANGED <<links, parent, i, j, groups>>
    BY <1>5 DEF FoundI
  <2>4. TypeOK'
    BY <1>1, <2>1, <2>2, <2>3 DEF TypeOK, Finds
  <2>5. Positions'
    BY <2>1, <2>2, <2>3 DEF Positions
  <2>6. Downhill'
    BY <1>1, <2>3 DEF Downhill
  <2> QED BY <2>4, <2>5, <2>6 DEF IInv
<1>6. CASE Join
  <2>1. i < j /\ j < N /\ x \in Nodes /\ ri \in Nodes
    BY <1>1, <1>6 DEF Join, Positions, TypeOK, Finds
  <2>2. /\ NextPair /\ UNCHANGED <<links, x, ri, groups>>
        /\ parent' = IF ri < x THEN [parent EXCEPT ![x] = ri] ELSE [parent EXCEPT ![ri] = x]
    BY <1>6 DEF Join
  <2>3. parent' \in [Nodes -> Nodes]
    BY <1>1, <2>1, <2>2 DEF TypeOK
  <2>4. TypeOK'
    BY <1>1, <2>1, <2>2, <2>3, NextPairMoves DEF TypeOK
  <2>5. Positions'
    BY <1>1, <2>1, <2>2, NextPairMoves DEF Positions, Finds
  <2>6. Downhill'
    <3> SUFFICES ASSUME NEW y \in Nodes PROVE parent'[y] <= y
      BY DEF Downhill
    <3>1. parent[y] <= y
      BY <1>1 DEF Downhill
    <3>2. CASE ri < x
      BY <1>1, <2>1, <2>2, <3>1, <3>2 DEF TypeOK, Nodes
    <3>3. CASE x <= ri
      BY <1>1, <2>1, <2>2, <3>1, <3>3 DEF TypeOK, Nodes
    <3> QED BY <2>1, <3>2, <3>3 DEF Nodes
  <2> QED BY <2>4, <2>5, <2>6 DEF IInv
<1>7. CASE StartGrouping
  <2>1. pc' = "find root" /\ i' = 0 /\ x' = 0 /\ UNCHANGED <<links, parent, j, ri, groups>>
    BY <1>7 DEF StartGrouping
  <2>2. TypeOK'
    BY <1>1, <2>1, FirstNode DEF TypeOK, Finds
  <2>3. Positions'
    BY <2>1, FirstNode DEF Positions
  <2>4. Downhill'
    BY <1>1, <2>1 DEF Downhill
  <2> QED BY <2>2, <2>3, <2>4 DEF IInv
<1>8. CASE AddToGroup
  <2>1. i <= N - 1 /\ x \in Nodes
    BY <1>1, <1>8 DEF AddToGroup, Positions, Finds
  <2>2. i \in Nodes
    BY <1>1, <2>1 DEF Nodes
  <2>3. /\ UNCHANGED <<links, parent, j, ri>>
        /\ i' = i + 1 /\ x' = i + 1
        /\ groups' = [groups EXCEPT ![x] = Append(@, i)]
        /\ pc' \in {"find root", "done"}
        /\ pc' = "find root" => i # N - 1
    BY <1>8 DEF AddToGroup
  <2>4. groups' \in [Nodes -> Seq(Nodes)]
    <3>1. Append(groups[x], i) \in Seq(Nodes)
      BY <1>1, <2>1, <2>2 DEF TypeOK
    <3> QED BY <1>1, <2>1, <2>3, <3>1 DEF TypeOK
  <2>5. TypeOK'
    BY <1>1, <2>2, <2>3, <2>4, IndexAfter DEF TypeOK, Finds
  <2>6. Positions'
    <3>1. pc' = "find root" => i' <= N - 1 /\ x' \in Nodes
      BY <2>2, <2>3, IndexAfter
    <3> QED BY <2>3, <3>1 DEF Positions, Finds
  <2>7. Downhill'
    BY <1>1, <2>3 DEF Downhill
  <2> QED BY <2>5, <2>6, <2>7 DEF IInv
<1>9. CASE Terminating \/ UNCHANGED vars
  BY <1>1, <1>9 DEF Terminating, vars, IInv, TypeOK, Positions, Downhill
<1> QED BY <1>2, <1>3, <1>4, <1>5, <1>6, <1>7, <1>8, <1>9 DEF Next, Link

(* The inductive invariant holds of Link, for every number of findings. *)
THEOREM Invariance == Spec => []IInv
BY Initially, Preserved, PTL DEF Spec

(* Types, for every number of findings: no index of Link leaves its slice.       *)
THEOREM TypeCorrect == Spec => []TypeOK
<1>1. IInv => TypeOK
  BY DEF IInv
<1> QED BY <1>1, Invariance, PTL

(* Downhill, for every number of findings and whatever shouldLink says: the       *)
(* parent of a finding is never after it, so find has no cycle to run round.      *)
THEOREM ForestGoesDownhill == Spec => []Downhill
<1>1. IInv => Downhill
  BY DEF IInv
<1> QED BY <1>1, Invariance, PTL
-----------------------------------------------------------------------------
(* The clusters are the components of shouldLink.  Connectedness is told by the   *)
(* sets that nothing leads out of: a set of findings tells the two ends of no      *)
(* link that was seen apart if and only if it tells no finding from its parent.     *)
Forests == [Nodes -> Nodes]
ForestClosed(f, S) == \A y \in Nodes : y \in S <=> f[y] \in S

(* c gives each finding of the forest f a root: its own if it is one, the one of   *)
(* its parent, and one that no closed set tells it from.                          *)
Labelling(f, c) ==
  /\ c \in Forests
  /\ \A y \in Nodes : f[y] = y => c[y] = y
  /\ \A y \in Nodes : c[f[y]] = c[y]
  /\ \A y \in Nodes : f[c[y]] = c[y] /\ c[y] <= y
  /\ \A S \in SUBSET Nodes : ForestClosed(f, S) => \A y \in Nodes : y \in S <=> c[y] \in S

(* root, as it is defined, of any forest. *)
RootsOf(f) == CHOOSE r : r = [y \in Nodes |-> IF f[y] = y THEN y ELSE r[f[y]]]

(* There is one way to label a forest, and root is it. *)
LEMMA RootIsTheLabelling ==
  ASSUME NEW f \in Forests, NEW c, Labelling(f, c)
  PROVE  RootsOf(f) = c
<1> DEFINE r == RootsOf(f)
<1>1. c = [y \in Nodes |-> IF f[y] = y THEN y ELSE c[f[y]]]
  BY DEF Labelling, Forests
<1>2. r = [y \in Nodes |-> IF f[y] = y THEN y ELSE r[f[y]]]
  BY <1>1 DEF RootsOf
<1> HIDE DEF r
<1>3. /\ \A y \in Nodes : r[y] = r[f[y]]
      /\ \A y \in Nodes : f[y] = y => r[y] = y
  BY <1>2
<1>4. ASSUME NEW y \in Nodes PROVE r[y] = c[y]
  <2> DEFINE S == {z \in Nodes : r[z] = r[y]}
  <2>1. ForestClosed(f, S)
    BY <1>3 DEF ForestClosed, Forests
  <2>2. S \in SUBSET Nodes /\ y \in S
    OBVIOUS
  <2>3. c[y] \in S
    BY <2>1, <2>2 DEF Labelling
  <2>4. r[c[y]] = c[y]
    BY <1>3 DEF Labelling, Forests
  <2> QED BY <2>3, <2>4
<1>5. r = c
  BY <1>1, <1>2, <1>4
<1> QED BY <1>5 DEF r

LEMMA RootNow == root = RootsOf(parent)
BY DEF root, RootsOf

LEMMA RootNext == root' = RootsOf(parent')
BY DEF root, RootsOf

Halved(f, z) == [f EXCEPT ![z] = f[f[z]]]
Hung(f, high, low) == [f EXCEPT ![high] = low]

(* Path halving: the closed sets, and with them the roots, stay. *)
LEMMA HalvingKeepsRoots ==
  ASSUME NEW f \in Forests, NEW c, Labelling(f, c), \A y \in Nodes : f[y] <= y,
         NEW z \in Nodes, f[z] # z,
         NEW g, g = Halved(f, z)
  PROVE  /\ \A S : ForestClosed(g, S) <=> ForestClosed(f, S)
         /\ Labelling(g, c)
<1>1. /\ f[z] \in Nodes /\ f[f[z]] \in Nodes
      /\ g \in Forests
      /\ \A y \in Nodes : g[y] = IF y = z THEN f[f[z]] ELSE f[y]
  BY DEF Forests, Halved
<1>2. f[f[z]] # z
  <2>1. f[f[z]] <= f[z] /\ f[z] <= z
    BY <1>1
  <2> QED BY <1>1, <2>1 DEF Nodes
<1>3. ASSUME NEW S PROVE ForestClosed(g, S) <=> ForestClosed(f, S)
  <2>1. ForestClosed(f, S) => ForestClosed(g, S)
    BY <1>1 DEF ForestClosed
  <2>2. ASSUME ForestClosed(g, S) PROVE ForestClosed(f, S)
    <3>1. g[f[z]] = f[f[z]]
      BY <1>1
    <3>2. f[z] \in S <=> f[f[z]] \in S
      BY <1>1, <2>2, <3>1 DEF ForestClosed
    <3>3. z \in S <=> f[f[z]] \in S
      BY <1>1, <2>2 DEF ForestClosed
    <3> QED BY <1>1, <2>2, <3>2, <3>3 DEF ForestClosed
  <2> QED BY <2>1, <2>2
<1>4. \A y \in Nodes : g[y] = y => f[y] = y
  BY <1>1, <1>2
<1>5. \A y \in Nodes : f[y] = y => g[y] = y
  BY <1>1
<1>6. \A y \in Nodes : c[g[y]] = c[y]
  BY <1>1 DEF Labelling
<1>7. \A y \in Nodes : c[y] \in Nodes
  BY DEF Labelling, Forests
<1> QED BY <1>1, <1>3, <1>4, <1>5, <1>6, <1>7 DEF Labelling

(* A union: the roots high and low become one, and so do their trees. *)
Relabelled(c, low, high) == [y \in Nodes |-> IF c[y] = high THEN low ELSE c[y]]

LEMMA JoiningMergesRoots ==
  ASSUME NEW f \in Forests, NEW c, Labelling(f, c),
         NEW low \in Nodes, NEW high \in Nodes, low <= high, f[low] = low, f[high] = high,
         NEW g, g = Hung(f, high, low)
  PROVE  /\ \A S : ForestClosed(g, S) <=> ForestClosed(f, S) /\ (low \in S <=> high \in S)
         /\ Labelling(g, Relabelled(c, low, high))
<1> DEFINE d == Relabelled(c, low, high)
<1>1. /\ g \in Forests
      /\ \A y \in Nodes : g[y] = IF y = high THEN low ELSE f[y]
      /\ \A y \in Nodes : f[y] \in Nodes
  BY DEF Forests, Hung
<1>2. /\ c \in Forests
      /\ \A y \in Nodes : f[y] = y => c[y] = y
      /\ \A y \in Nodes : c[f[y]] = c[y]
      /\ \A y \in Nodes : f[c[y]] = c[y] /\ c[y] <= y
      /\ \A S \in SUBSET Nodes : ForestClosed(f, S) => \A y \in Nodes : y \in S <=> c[y] \in S
  BY DEF Labelling
<1>3. c[low] = low /\ c[high] = high /\ \A y \in Nodes : c[y] \in Nodes
  BY <1>2 DEF Forests
<1>4. /\ d \in Forests
      /\ \A y \in Nodes : d[y] = IF c[y] = high THEN low ELSE c[y]
  BY <1>3 DEF Relabelled, Forests
<1> HIDE DEF d
<1>5. ASSUME NEW S PROVE ForestClosed(g, S) <=> ForestClosed(f, S) /\ (low \in S <=> high \in S)
  BY <1>1 DEF ForestClosed
<1>6. \A y \in Nodes : g[y] = y => d[y] = y
  BY <1>1, <1>2, <1>3, <1>4
<1>7. \A y \in Nodes : d[g[y]] = d[y]
  BY <1>1, <1>2, <1>3, <1>4
<1>8. ASSUME NEW y \in Nodes PROVE g[d[y]] = d[y] /\ d[y] <= y
  <2>1. CASE c[y] = high
    <3>1. d[y] = low /\ high <= y
      BY <1>2, <1>4, <2>1
    <3>2. g[low] = low
      BY <1>1
    <3> QED BY <3>1, <3>2 DEF Nodes
  <2>2. CASE c[y] # high
    BY <1>1, <1>2, <1>3, <1>4, <2>2
  <2> QED BY <2>1, <2>2
<1>9. ASSUME NEW S \in SUBSET Nodes, ForestClosed(g, S), NEW y \in Nodes
      PROVE  y \in S <=> d[y] \in S
  <2>1. ForestClosed(f, S) /\ (low \in S <=> high \in S)
    BY <1>5, <1>9
  <2>2. y \in S <=> c[y] \in S
    BY <1>2, <2>1
  <2> QED BY <1>4, <2>1, <2>2
<1>10. Labelling(g, d)
  BY <1>4, <1>6, <1>7, <1>8, <1>9 DEF Labelling
<1> QED BY <1>5, <1>10 DEF d
-----------------------------------------------------------------------------
SeenLinks == {e \in links : Seen(e)}

(* The forest connects what the links seen so far connect. *)
Tells(f, edges) == \A S \in SUBSET Nodes : ForestClosed(f, S) <=> Abstract!Closed(S, edges)
Telling == Tells(parent, SeenLinks)

(* What find has done: it stays in the tree it began in. *)
FindInv ==
  /\ pc \in {"find i", "find j"} => <<i, j>> \in links
  /\ pc = "find i" => root[x] = root[i]
  /\ pc = "find j" => parent[ri] = ri /\ root[i] = ri /\ root[x] = root[j]
  /\ pc = "find root" => root[x] = root[i]

(* The findings that are in a group. *)
Grouped == {y \in Nodes : pc \in {"find root", "done"} /\ y < i}

(* g holds the findings Y under their roots c, in order. *)
Gathered(c, g, Y) ==
  \A r \in Nodes :
    /\ Members(g[r]) = {y \in Y : c[y] = r}
    /\ \A k, l \in DOMAIN g[r] : k < l => g[r][k] < g[r][l]

GroupInv == (pc = "done" => i = N) /\ Gathered(root, groups, Grouped)

ClusterInv ==
  /\ IInv
  /\ Labelling(parent, root)
  /\ Telling
  /\ FindInv
  /\ GroupInv

(* A root that is found is the root. *)
LEMMA AtRoot ==
  ASSUME Labelling(parent, root), NEW y \in Nodes, parent[y] = y
  PROVE  root[y] = y
BY DEF Labelling

(* Steps that leave the forest alone leave the roots alone. *)
LEMMA ForestStays ==
  ASSUME UNCHANGED parent
  PROVE  root' = root /\ (Labelling(parent, root) => Labelling(parent', root'))
<1>1. root' = root
  BY RootNow, RootNext
<1> QED BY <1>1 DEF Labelling

(* The pair at hand is the one that the loops leave behind when they go on. *)
LEMMA LoopsGoOn ==
  ASSUME NEW n \in Nat, NEW a \in Nat, NEW b \in Nat, a < b, b < n,
         NEW c, NEW d,
         c = (IF b < n - 1 THEN a ELSE a + 1), d = (IF b < n - 1 THEN b + 1 ELSE a + 2),
         NEW k \in Nat, NEW l \in Nat, k < l, l < n
  PROVE  (k < c \/ (k = c /\ l < d)) <=> (k < a \/ (k = a /\ l < b)) \/ (k = a /\ l = b)
<1>1. CASE b < n - 1
  BY <1>1
<1>2. CASE ~(b < n - 1)
  BY <1>2
<1> QED BY <1>1, <1>2

LEMMA Indices == ASSUME IInv PROVE i \in Nat /\ j \in Nat /\ N \in Nat
BY NAssumption DEF IInv, TypeOK

OverPairs == pc \in {"scan", "find i", "find j"}

LEMMA SeenNext ==
  ASSUME IInv, i < j, j < N, OverPairs, NextPair, UNCHANGED links
  PROVE  /\ SeenLinks' = SeenLinks \cup ({<<i, j>>} \cap links)
         /\ <<i, j>> \notin SeenLinks
<1>1. ASSUME NEW e \in links
      PROVE  Seen(e)' <=> Seen(e) \/ e = <<i, j>>
  <2>1. e \in Nodes \X Nodes /\ e[1] < e[2]
    BY DEF IInv, TypeOK, Pairs
  <2>2. e = <<e[1], e[2]>> /\ e[1] \in Nodes /\ e[2] \in Nodes
    BY <2>1
  <2>3. \A y \in Nodes : y \in Nat /\ y < N
    BY Indices DEF Nodes
  <2>4. e[1] \in Nat /\ e[2] \in Nat /\ e[2] < N
    BY <2>2, <2>3
  <2>5. /\ i' = (IF j < N - 1 THEN i ELSE i + 1)
        /\ j' = (IF j < N - 1 THEN j + 1 ELSE i + 2)
        /\ pc' = "scan"
    BY DEF NextPair
  <2>6. Seen(e) <=> e[1] < i \/ (e[1] = i /\ e[2] < j)
    BY DEF Seen, OverPairs
  <2>7. Seen(e)' <=> e[1] < i' \/ (e[1] = i' /\ e[2] < j')
    BY <2>5 DEF Seen
  <2>8. (e[1] < i' \/ (e[1] = i' /\ e[2] < j'))
          <=> (e[1] < i \/ (e[1] = i /\ e[2] < j)) \/ (e[1] = i /\ e[2] = j)
    BY <2>1, <2>4, <2>5, Indices, LoopsGoOn
  <2>9. e = <<i, j>> <=> e[1] = i /\ e[2] = j
    BY <2>2
  <2> QED BY <2>6, <2>7, <2>8, <2>9
<1>2. ~Seen(<<i, j>>)
  <2>1. ~(i < i) /\ ~(j < j)
    BY Indices
  <2> QED BY <2>1 DEF Seen, OverPairs
<1> QED BY <1>1, <1>2 DEF SeenLinks

LEMMA ClusterInvInitially == Init => ClusterInv
<1> SUFFICES ASSUME Init PROVE ClusterInv
  OBVIOUS
<1>1. IInv
  BY Initially
<1>2. parent = [y \in Nodes |-> y] /\ parent \in Forests
  BY DEF Init, Forests
<1>3. Labelling(parent, parent)
  <2>1. \A y \in Nodes : y <= y
    BY NAssumption DEF Nodes
  <2> QED BY <1>2, <2>1 DEF Labelling
<1>4. root = parent
  BY <1>2, <1>3, RootNow, RootIsTheLabelling
<1>5. Telling
  <2>1. SeenLinks = {}
    <3>1. \A e \in links : e \in Nodes \X Nodes /\ e[1] < e[2]
      BY DEF Init, Pairs
    <3>2. \A e \in links : ~(e[1] < 0) /\ ~(e[1] = 0 /\ e[2] < 1)
      BY <3>1, NAssumption DEF Nodes
    <3> QED BY <3>2 DEF Init, SeenLinks, Seen
  <2> QED BY <1>2, <2>1 DEF Telling, Tells, ForestClosed, Abstract!Closed
<1>6. FindInv
  BY DEF Init, FindInv
<1>7. GroupInv
  BY DEF Init, GroupInv, Gathered, Grouped, Members
<1> QED BY <1>1, <1>3, <1>4, <1>5, <1>6, <1>7 DEF ClusterInv

(* A finding goes to the end of the group of its root. *)
LEMMA AppendGathers ==
  ASSUME NEW c, NEW g \in [Nodes -> Seq(Nodes)], NEW Y, Gathered(c, g, Y),
         NEW n \in Nodes, \A y \in Y : y < n, c[n] \in Nodes,
         NEW h, h = [g EXCEPT ![c[n]] = Append(@, n)]
  PROVE  Gathered(c, h, Y \cup {n})
<1> SUFFICES ASSUME NEW r \in Nodes
             PROVE  /\ Members(h[r]) = {y \in Y \cup {n} : c[y] = r}
                    /\ \A k, l \in DOMAIN h[r] : k < l => h[r][k] < h[r][l]
  BY DEF Gathered
<1>1. /\ Members(g[r]) = {y \in Y : c[y] = r}
      /\ \A k, l \in DOMAIN g[r] : k < l => g[r][k] < g[r][l]
  BY DEF Gathered
<1>2. CASE c[n] # r
  <2>1. h[r] = g[r]
    BY <1>2
  <2>2. {y \in Y \cup {n} : c[y] = r} = {y \in Y : c[y] = r}
    BY <1>2
  <2> QED BY <1>1, <2>1, <2>2
<1>3. CASE c[n] = r
  <2> DEFINE s == g[r]
             t == Append(s, n)
  <2>1. h[r] = t /\ s \in Seq(Nodes)
    BY <1>3
  <2> HIDE DEF s
  <2>2. /\ Len(s) \in Nat /\ DOMAIN s = 1..Len(s) /\ DOMAIN t = 1..(Len(s) + 1)
        /\ t[Len(s) + 1] = n
        /\ \A k \in 1..Len(s) : t[k] = s[k]
    BY <2>1
  <2> HIDE DEF t
  <2>3. Members(t) = Members(s) \cup {n}
    <3>1. ASSUME NEW y PROVE y \in Members(t) <=> y \in Members(s) \/ y = n
      <4>1. \A k \in DOMAIN t : k \in DOMAIN s \/ k = Len(s) + 1
        BY <2>2
      <4>2. \A k \in DOMAIN s : k \in DOMAIN t
        BY <2>2
      <4>3. Len(s) + 1 \in DOMAIN t
        BY <2>2
      <4> QED BY <2>2, <4>1, <4>2, <4>3 DEF Members
    <3> QED BY <3>1
  <2>4. {y \in Y \cup {n} : c[y] = r} = {y \in Y : c[y] = r} \cup {n}
    BY <1>3
  <2>5. ASSUME NEW k \in DOMAIN t, NEW l \in DOMAIN t, k < l PROVE t[k] < t[l]
    <3>1. k \in 1..Len(s) /\ (l \in 1..Len(s) \/ l = Len(s) + 1)
      BY <2>2, <2>5
    <3>2. CASE l \in 1..Len(s)
      <4>1. s[k] < s[l]
        BY <1>1, <2>2, <2>5, <3>1, <3>2 DEF s
      <4> QED BY <2>2, <3>1, <3>2, <4>1
    <3>3. CASE l = Len(s) + 1
      <4>1. s[k] \in Members(s)
        BY <2>2, <3>1 DEF Members
      <4>2. s[k] < n
        BY <1>1, <4>1 DEF s
      <4> QED BY <2>2, <3>1, <3>3, <4>2
    <3> QED BY <3>1, <3>2, <3>3
  <2>6. Members(s) = {y \in Y : c[y] = r}
    BY <1>1 DEF s
  <2> QED BY <2>1, <2>3, <2>4, <2>5, <2>6
<1> QED BY <1>2, <1>3

LEMMA OneLinkMore ==
  ASSUME NEW S, NEW edges, NEW a, NEW b
  PROVE  Abstract!Closed(S, edges \cup {<<a, b>>}) <=> Abstract!Closed(S, edges) /\ (a \in S <=> b \in S)
<1>1. <<a, b>>[1] = a /\ <<a, b>>[2] = b
  OBVIOUS
<1>2. ASSUME Abstract!Closed(S, edges \cup {<<a, b>>})
      PROVE  Abstract!Closed(S, edges) /\ (a \in S <=> b \in S)
  <2>1. <<a, b>> \in edges \cup {<<a, b>>}
    OBVIOUS
  <2> QED BY <1>1, <1>2, <2>1, Zenon DEF Abstract!Closed
<1>3. ASSUME Abstract!Closed(S, edges), a \in S <=> b \in S
      PROVE  Abstract!Closed(S, edges \cup {<<a, b>>})
  BY <1>1, <1>3, Zenon DEF Abstract!Closed
<1> QED BY <1>2, <1>3

(* A link between two findings joins the sets that closed sets tell apart. *)
LEMMA JoiningTells ==
  ASSUME NEW f \in Forests, NEW c, Labelling(f, c), NEW edges, Tells(f, edges),
         NEW a \in Nodes, NEW b \in Nodes, NEW low, NEW high,
         {low, high} = {c[a], c[b]},
         NEW g, \A S : ForestClosed(g, S) <=> ForestClosed(f, S) /\ (low \in S <=> high \in S)
  PROVE  Tells(g, edges \cup {<<a, b>>})
<1> SUFFICES ASSUME NEW S \in SUBSET Nodes
             PROVE  ForestClosed(g, S) <=> Abstract!Closed(S, edges \cup {<<a, b>>})
  BY DEF Tells
<1>1. Abstract!Closed(S, edges \cup {<<a, b>>}) <=> Abstract!Closed(S, edges) /\ (a \in S <=> b \in S)
  BY OneLinkMore
<1>2. ForestClosed(f, S) => (a \in S <=> c[a] \in S) /\ (b \in S <=> c[b] \in S)
  BY DEF Labelling
<1>3. (low \in S <=> high \in S) <=> (c[a] \in S <=> c[b] \in S)
  OBVIOUS
<1> QED BY <1>1, <1>2, <1>3 DEF Tells

(* No link is seen, and no finding grouped, while one stays inside a pair. *)
LEMMA StayingInPair ==
  ASSUME UNCHANGED <<links, i, j>>, pc \in {"scan", "find i", "find j"}, pc' \in {"find i", "find j"}
  PROVE  SeenLinks' = SeenLinks /\ Grouped' = Grouped
BY DEF SeenLinks, Seen, Grouped

(* A union makes one root of the roots of the pair, and the pair is seen. *)
JoinedPair(low, high) ==
  /\ i \in Nodes /\ j \in Nodes /\ <<i, j>> \in links /\ <<i, j>> \notin SeenLinks
  /\ low <= high /\ {low, high} = {root[i], root[j]}
  /\ parent[low] = low /\ parent[high] = high /\ root[low] = low /\ root[high] = high
  /\ \A S : ForestClosed(parent', S) <=> ForestClosed(parent, S) /\ (low \in S <=> high \in S)
  /\ root' = Relabelled(root, low, high) /\ Labelling(parent', root')
  /\ SeenLinks' = SeenLinks \cup {<<i, j>>}

LEMMA JoinMerges ==
  ASSUME ClusterInv, Join, IInv'
  PROVE  \E low, high \in Nodes : JoinedPair(low, high)
<1>1. /\ pc = "find j" /\ parent[x] = x /\ NextPair
      /\ parent' = IF ri < x THEN [parent EXCEPT ![x] = ri] ELSE [parent EXCEPT ![ri] = x]
      /\ UNCHANGED links
  BY DEF Join
<1>2. /\ IInv /\ Labelling(parent, root) /\ parent \in Forests
      /\ i < j /\ j < N /\ OverPairs /\ x \in Nodes
      /\ ri \in Nodes /\ parent[ri] = ri /\ root[i] = ri /\ root[x] = root[j]
      /\ <<i, j>> \in links
  BY <1>1 DEF ClusterInv, IInv, Positions, OverPairs, Finds, FindInv, TypeOK, Forests
<1>3. root[x] = x
  BY <1>1, <1>2, AtRoot
<1>4. SeenLinks' = SeenLinks \cup {<<i, j>>} /\ <<i, j>> \notin SeenLinks
  BY <1>1, <1>2, SeenNext
<1>5. i \in Nodes /\ j \in Nodes
  BY <1>2, Indices, PairOfNodes
<1>6. PICK low \in Nodes, high \in Nodes :
        /\ low <= high /\ {low, high} = {ri, x}
        /\ parent' = Hung(parent, high, low)
  <2>1. CASE ri < x
    <3>1. ri <= x
      BY <1>2, <2>1 DEF Nodes
    <3> QED BY <1>1, <1>2, <2>1, <3>1 DEF Hung
  <2>2. CASE ~(ri < x)
    <3>1. x <= ri
      BY <1>2, <2>2 DEF Nodes
    <3> QED BY <1>1, <1>2, <2>2, <3>1 DEF Hung
  <2> QED BY <2>1, <2>2
<1>7. parent[low] = low /\ parent[high] = high
  <2>1. low \in {ri, x} /\ high \in {ri, x}
    BY <1>6
  <2>2. parent[ri] = ri /\ parent[x] = x
    BY <1>1, <1>2
  <2> QED BY <2>1, <2>2
<1>8. root[low] = low /\ root[high] = high
  BY <1>2, <1>7, AtRoot
<1>9. /\ \A S : ForestClosed(parent', S) <=> ForestClosed(parent, S) /\ (low \in S <=> high \in S)
      /\ Labelling(parent', Relabelled(root, low, high))
  <2>1. low <= high /\ parent' = Hung(parent, high, low) /\ Labelling(parent, root) /\ parent \in Forests
    BY <1>2, <1>6
  <2> QED BY <1>7, <2>1, JoiningMergesRoots
<1>10. root' = Relabelled(root, low, high)
  <2>1. parent' \in Forests
    BY DEF IInv, TypeOK, Forests
  <2> QED BY <1>9, <2>1, RootNext, RootIsTheLabelling
<1>11. {low, high} = {root[i], root[j]} /\ low <= high
  BY <1>2, <1>3, <1>6
<1>12. JoinedPair(low, high)
  BY <1>2, <1>4, <1>5, <1>7, <1>8, <1>9, <1>10, <1>11 DEF JoinedPair
<1> QED BY <1>12

(* No other step changes a root or is done with a link. *)
LEMMA RootsStay ==
  ASSUME ClusterInv, [Next]_vars, ~Join, IInv'
  PROVE  /\ UNCHANGED links /\ root' = root /\ SeenLinks' = SeenLinks
         /\ Labelling(parent', root') /\ Telling'
<1>1. /\ IInv /\ Labelling(parent, root) /\ Telling /\ parent \in Forests /\ links \subseteq Pairs
  BY DEF ClusterInv, IInv, TypeOK, Forests
<1>2. CASE Halve
  <2>1. /\ pc \in Finds /\ parent[x] # x
        /\ parent' = Halved(parent, x)
        /\ UNCHANGED <<links, i, j, pc>>
    BY <1>2 DEF Halve, Halved
  <2>2. x \in Nodes /\ \A y \in Nodes : parent[y] <= y
    BY <1>1, <2>1 DEF IInv, Positions, Downhill
  <2>3. /\ \A S : ForestClosed(parent', S) <=> ForestClosed(parent, S)
        /\ Labelling(parent', root)
    <3>1. parent[x] # x /\ parent' = Halved(parent, x)
      BY <2>1
    <3> QED BY <1>1, <2>2, <3>1, HalvingKeepsRoots
  <2>4. root' = root
    <3>1. parent' \in Forests
      BY DEF IInv, TypeOK, Forests
    <3> QED BY <2>3, <3>1, RootNext, RootIsTheLabelling
  <2>5. SeenLinks' = SeenLinks
    BY <2>1 DEF SeenLinks, Seen
  <2> QED BY <1>1, <2>1, <2>3, <2>4, <2>5 DEF Telling, Tells
<1>3. CASE Skip \/ StartUnion \/ FoundI \/ StartGrouping \/ AddToGroup \/ Terminating \/ UNCHANGED vars
  <2>1. UNCHANGED <<links, parent>>
    BY <1>3 DEF Skip, StartUnion, FoundI, StartGrouping, AddToGroup, Terminating, vars
  <2>2. root' = root /\ Labelling(parent', root')
    BY <1>1, <2>1, ForestStays
  <2>3. SeenLinks' = SeenLinks
    <3>1. CASE Skip
      <4>1. NextPair /\ OverPairs /\ <<i, j>> \notin links /\ i < j /\ j < N
        BY <1>1, <3>1 DEF Skip, OverPairs, IInv, Positions
      <4> QED BY <1>1, <2>1, <4>1, SeenNext
    <3>2. CASE StartUnion \/ FoundI
      BY <3>2 DEF StartUnion, FoundI, SeenLinks, Seen
    <3>3. CASE StartGrouping
      <4>1. pc = "scan" /\ i >= N - 1 /\ pc' = "find root" /\ UNCHANGED links
        BY <3>3 DEF StartGrouping
      <4>2. ASSUME NEW e \in links PROVE e[1] < i
        <5>1. e[1] \in Nodes /\ e[2] \in Nodes /\ e[1] < e[2]
          BY <1>1 DEF Pairs
        <5>2. e[1] < N - 1
          BY <1>1, <5>1, Indices DEF Nodes
        <5>3. i >= N - 1
          BY <4>1
        <5> QED BY <1>1, <5>1, <5>2, <5>3, Indices DEF Nodes
      <4> QED BY <4>1, <4>2 DEF SeenLinks, Seen
    <3>4. CASE AddToGroup
      <4>1. pc = "find root" /\ pc' \in {"find root", "done"} /\ UNCHANGED links
        BY <3>4 DEF AddToGroup
      <4> QED BY <4>1 DEF SeenLinks, Seen
    <3>5. CASE Terminating \/ UNCHANGED vars
      BY <3>5 DEF Terminating, vars, SeenLinks, Seen
    <3> QED BY <1>3, <3>1, <3>2, <3>3, <3>4, <3>5
  <2> QED BY <1>1, <2>1, <2>2, <2>3 DEF Telling
<1> QED BY <1>2, <1>3 DEF Next, Link

(* Every step keeps what is known of the finds. *)
LEMMA FindInvPreserved ==
  ASSUME ClusterInv, [Next]_vars, IInv'
  PROVE  FindInv'
<1>1. IInv /\ Labelling(parent, root) /\ FindInv
  BY DEF ClusterInv
<1>2. ~Join => UNCHANGED links /\ root' = root
  BY RootsStay
<1>3. CASE Skip \/ Join \/ Terminating
  BY <1>1, <1>2, <1>3 DEF Skip, Join, NextPair, Terminating, vars, FindInv
<1>4. CASE StartUnion
  BY <1>4 DEF StartUnion, FindInv
<1>5. CASE Halve
  <2>1. /\ pc \in Finds /\ parent[x] # x
        /\ parent' = [parent EXCEPT ![x] = parent[parent[x]]]
        /\ x' = parent[parent[x]]
        /\ UNCHANGED <<links, i, j, pc, ri>>
    BY <1>5 DEF Halve
  <2>2. x \in Nodes /\ parent[x] \in Nodes
    BY <1>1, <2>1 DEF IInv, Positions, TypeOK
  <2>3. root[x'] = root[x] /\ root' = root
    BY <1>1, <1>2, <1>5, <2>1, <2>2 DEF Labelling, Halve, Join
  <2>4. ASSUME pc = "find j" PROVE parent'[ri] = ri
    BY <1>1, <2>1, <2>4 DEF FindInv, IInv, TypeOK
  <2> QED BY <1>1, <2>1, <2>3, <2>4 DEF FindInv
<1>6. CASE FoundI
  <2>1. /\ pc = "find i" /\ parent[x] = x /\ pc' = "find j" /\ ri' = x /\ x' = j
        /\ UNCHANGED <<links, parent, i, j, groups>>
    BY <1>6 DEF FoundI
  <2>2. x \in Nodes
    BY <1>1, <2>1 DEF IInv, Positions, Finds
  <2>3. root[x] = x /\ root' = root
    BY <1>1, <2>1, <2>2, AtRoot, ForestStays
  <2> QED BY <1>1, <2>1, <2>3 DEF FindInv
<1>7. CASE StartGrouping \/ AddToGroup
  <2>1. x' = i' /\ pc' \in {"find root", "done"}
    BY <1>7 DEF StartGrouping, AddToGroup
  <2> QED BY <2>1 DEF FindInv
<1>8. CASE UNCHANGED vars
  BY <1>1, <1>8, ForestStays DEF vars, FindInv
<1> QED BY <1>3, <1>4, <1>5, <1>6, <1>7, <1>8 DEF Next, Link

(* Every step keeps what is known of the groups. *)
LEMMA GroupInvPreserved ==
  ASSUME ClusterInv, [Next]_vars, IInv'
  PROVE  GroupInv'
<1>1. /\ IInv /\ Labelling(parent, root) /\ FindInv /\ GroupInv
      /\ groups \in [Nodes -> Seq(Nodes)]
  BY DEF ClusterInv, IInv, TypeOK
<1>2. ~Join => root' = root
  BY RootsStay
<1>3. CASE Skip \/ StartUnion \/ FoundI \/ StartGrouping \/ Join
  <2>1. /\ pc \notin {"find root", "done"} /\ UNCHANGED groups /\ pc' # "done"
        /\ pc' = "find root" => i' = 0
    BY <1>3 DEF Skip, StartUnion, FoundI, StartGrouping, Join, NextPair
  <2>2. Grouped = {} /\ Grouped' = {}
    <3>1. \A y \in Nodes : ~(y < 0)
      BY NAssumption DEF Nodes
    <3> QED BY <2>1, <3>1 DEF Grouped
  <2> QED BY <1>1, <2>1, <2>2 DEF GroupInv, Gathered
<1>4. CASE Halve
  <2>1. UNCHANGED <<i, pc, groups>> /\ ~Join
    BY <1>4 DEF Halve, Join
  <2> QED BY <1>1, <1>2, <2>1 DEF GroupInv, Grouped
<1>5. CASE AddToGroup
  <2>1. /\ pc = "find root" /\ parent[x] = x
        /\ groups' = [groups EXCEPT ![x] = Append(@, i)]
        /\ i' = i + 1
        /\ pc' = IF i = N - 1 THEN "done" ELSE "find root"
        /\ ~Join
    BY <1>5 DEF AddToGroup, Join
  <2>2. i <= N - 1 /\ x \in Nodes
    BY <1>1, <2>1 DEF IInv, Positions, Finds
  <2>3. i \in Nodes
    BY <1>1, <2>2, Indices DEF Nodes
  <2>4. root[i] = x
    BY <1>1, <2>1, <2>2, AtRoot DEF FindInv
  <2>5. pc' \in {"find root", "done"} /\ (pc' = "done" => i = N - 1)
    BY <2>1
  <2>6. Grouped' = Grouped \cup {i}
    <3>1. \A y \in Nodes : y < i + 1 <=> y < i \/ y = i
      BY <2>3 DEF Nodes
    <3> QED BY <2>1, <2>3, <2>5, <3>1 DEF Grouped
  <2>7. Gathered(root', groups', Grouped')
    <3>1. Gathered(root, groups, Grouped)
      BY <1>1 DEF GroupInv
    <3>2. \A y \in Grouped : y < i
      BY DEF Grouped
    <3>3. groups' = [groups EXCEPT ![root[i]] = Append(@, i)] /\ root[i] \in Nodes
      BY <2>1, <2>2, <2>4
    <3>4. Gathered(root, groups', Grouped \cup {i})
      BY <1>1, <2>3, <3>1, <3>2, <3>3, AppendGathers
    <3> QED BY <1>2, <2>1, <2>6, <3>4
  <2>8. i = N - 1 => i + 1 = N
    BY Indices, <1>1
  <2> QED BY <2>1, <2>5, <2>7, <2>8 DEF GroupInv
<1>6. CASE Terminating \/ UNCHANGED vars
  <2>1. UNCHANGED <<i, pc, groups, parent>>
    BY <1>6 DEF Terminating, vars
  <2>2. root' = root
    BY <2>1, ForestStays
  <2> QED BY <1>1, <2>1, <2>2 DEF GroupInv, Grouped
<1> QED BY <1>3, <1>4, <1>5, <1>6 DEF Next, Link

(* Every step keeps the inductive invariant of the clusters. *)
LEMMA ClusterInvPreserved == ClusterInv /\ [Next]_vars => ClusterInv'
<1> SUFFICES ASSUME ClusterInv, [Next]_vars PROVE ClusterInv'
  OBVIOUS
<1>1. IInv'
  BY Preserved DEF ClusterInv
<1>2. FindInv' /\ GroupInv'
  BY <1>1, FindInvPreserved, GroupInvPreserved
<1>3. Labelling(parent', root') /\ Telling'
  <2>1. CASE Join
    <3>1. PICK low \in Nodes, high \in Nodes : JoinedPair(low, high)
      BY <1>1, <2>1, JoinMerges
    <3>2. /\ i \in Nodes /\ j \in Nodes /\ {low, high} = {root[i], root[j]}
          /\ \A S : ForestClosed(parent', S) <=> ForestClosed(parent, S) /\ (low \in S <=> high \in S)
          /\ SeenLinks' = SeenLinks \cup {<<i, j>>} /\ Labelling(parent', root')
      BY <3>1 DEF JoinedPair
    <3>3. parent \in Forests /\ Labelling(parent, root) /\ Tells(parent, SeenLinks)
      BY DEF ClusterInv, IInv, TypeOK, Forests, Telling
    <3>4. Tells(parent', SeenLinks \cup {<<i, j>>})
      BY <3>2, <3>3, JoiningTells
    <3> QED BY <3>2, <3>4 DEF Telling
  <2>2. CASE ~Join
    BY <1>1, <2>2, RootsStay
  <2> QED BY <2>1, <2>2
<1> QED BY <1>1, <1>2, <1>3 DEF ClusterInv

(* The inductive invariant of the clusters holds of Link. *)
THEOREM ClusterInvariance == Spec => []ClusterInv
BY ClusterInvInitially, ClusterInvPreserved, PTL DEF Spec
-----------------------------------------------------------------------------
(* The classes of a labelling. *)
Class(c, r) == {y \in Nodes : c[y] = r}
Classes(c) == {Class(c, r) : r \in {c[y] : y \in Nodes}}

(* A class of roots is a component: nothing leads out of it, and a closed set that  *)
(* has one of its findings has its root and so all of them.                        *)
LEMMA ClassesAreComponents ==
  ASSUME NEW f \in Forests, NEW c, Labelling(f, c), NEW edges, Tells(f, edges)
  PROVE  Classes(c) = Abstract!Components(edges)
<1>1. \A S \in SUBSET Nodes : ForestClosed(f, S) <=> Abstract!Closed(S, edges)
  BY DEF Tells
<1>2. \A S \in SUBSET Nodes : Abstract!Closed(S, edges) => \A y \in Nodes : y \in S <=> c[y] \in S
  BY <1>1 DEF Labelling
<1>3. \A r : Class(c, r) \in SUBSET Nodes /\ Abstract!Closed(Class(c, r), edges)
  <2>1. ASSUME NEW r PROVE ForestClosed(f, Class(c, r))
    BY DEF Labelling, ForestClosed, Class, Forests
  <2>2. \A r : Class(c, r) \in SUBSET Nodes
    BY DEF Class
  <2> QED BY <1>1, <2>1, <2>2
<1>4. ASSUME NEW y \in Nodes, NEW S \in SUBSET Nodes, y \in S, Abstract!Closed(S, edges)
      PROVE  Class(c, c[y]) \subseteq S
  BY <1>2, <1>4 DEF Class
<1>5. ASSUME NEW y \in Nodes PROVE Class(c, c[y]) \in Abstract!Components(edges)
  <2> DEFINE C == Class(c, c[y])
  <2>1. C \in SUBSET Nodes /\ Abstract!Closed(C, edges) /\ y \in C
    BY <1>3 DEF Class
  <2>2. ASSUME NEW T \in SUBSET C, T # {}, Abstract!Closed(T, edges) PROVE T = C
    <3>1. PICK z \in T : TRUE
      BY <2>2
    <3>2. z \in Nodes /\ c[z] = c[y] /\ T \in SUBSET Nodes
      BY <2>1, <3>1 DEF Class
    <3>3. C \subseteq T
      BY <1>4, <2>2, <3>1, <3>2
    <3> QED BY <3>3
  <2> HIDE DEF C
  <2> QED BY <2>1, <2>2 DEF Abstract!Components, Abstract!ComponentsOf, C
<1>6. ASSUME NEW S \in Abstract!Components(edges) PROVE S \in Classes(c)
  <2>1. /\ S \in SUBSET Nodes /\ S # {} /\ Abstract!Closed(S, edges)
        /\ \A T \in SUBSET S : T # {} /\ Abstract!Closed(T, edges) => T = S
    BY <1>6 DEF Abstract!Components, Abstract!ComponentsOf
  <2>2. PICK y \in Nodes : y \in S
    BY <2>1
  <2>3. Class(c, c[y]) \in SUBSET S /\ y \in Class(c, c[y])
    BY <1>4, <2>1, <2>2 DEF Class
  <2>4. Class(c, c[y]) = S
    BY <1>3, <2>1, <2>3
  <2> QED BY <2>2, <2>4 DEF Classes
<1> QED BY <1>5, <1>6 DEF Classes

LEMMA NonEmptySequence ==
  ASSUME NEW T, NEW s \in Seq(T)
  PROVE  s # << >> <=> \E k \in DOMAIN s : TRUE
<1>1. Len(s) \in Nat /\ DOMAIN s = 1..Len(s)
  OBVIOUS
<1>2. s = << >> <=> Len(s) = 0
  OBVIOUS
<1>3. Len(s) # 0 => 1 \in 1..Len(s)
  BY <1>1
<1>4. \A k \in 1..Len(s) : Len(s) # 0
  BY <1>1
<1> QED BY <1>1, <1>2, <1>3, <1>4

(* What ClusterInv says when Link returns. *)
LEMMA ClustersAtTheEnd == ASSUME ClusterInv PROVE ClustersAreComponents
<1> SUFFICES ASSUME pc = "done"
             PROVE  /\ {Members(groups[r]) : r \in {y \in Nodes : groups[y] # << >>}} = Abstract!Components(links)
                    /\ \A r \in Nodes : \A k, l \in DOMAIN groups[r] :
                         /\ k < l => groups[r][k] < groups[r][l]
                         /\ r <= groups[r][k]
  BY DEF ClustersAreComponents
<1>1. /\ groups \in [Nodes -> Seq(Nodes)] /\ parent \in Forests
      /\ Labelling(parent, root) /\ root \in Forests
      /\ \A y \in Nodes : root[y] <= y
  BY DEF ClusterInv, IInv, TypeOK, Forests, Labelling
<1>2. Grouped = Nodes
  <2>1. i = N
    BY DEF ClusterInv, GroupInv
  <2>2. \A y \in Nodes : y < N
    BY NAssumption DEF Nodes
  <2> QED BY <2>1, <2>2 DEF Grouped
<1>3. \A r \in Nodes :
        /\ Members(groups[r]) = Class(root, r)
        /\ \A k, l \in DOMAIN groups[r] : k < l => groups[r][k] < groups[r][l]
  BY <1>2 DEF ClusterInv, GroupInv, Gathered, Class
<1>4. {Members(groups[r]) : r \in {y \in Nodes : groups[y] # << >>}} = Classes(root)
  <2>1. ASSUME NEW r \in Nodes PROVE groups[r] # << >> <=> \E y \in Nodes : root[y] = r
    <3>1. groups[r] \in Seq(Nodes)
      BY <1>1
    <3>2. groups[r] # << >> <=> \E k \in DOMAIN groups[r] : TRUE
      BY <3>1, NonEmptySequence
    <3>3. groups[r] # << >> <=> \E y : y \in Members(groups[r])
      BY <3>2 DEF Members
    <3> QED BY <1>3, <3>3 DEF Class
  <2>2. \A y \in Nodes : root[y] \in Nodes
    BY <1>1 DEF Forests
  <2> QED BY <1>3, <2>1, <2>2 DEF Classes
<1>5. Classes(root) = Abstract!Components(links)
  <2>1. SeenLinks = links
    BY DEF SeenLinks, Seen
  <2>2. Tells(parent, links)
    BY <2>1 DEF ClusterInv, Telling
  <2> QED BY <1>1, <2>2, ClassesAreComponents
<1>6. ASSUME NEW r \in Nodes, NEW k \in DOMAIN groups[r] PROVE r <= groups[r][k]
  <2>1. groups[r][k] \in Class(root, r)
    BY <1>3 DEF Members
  <2> QED BY <1>1, <2>1 DEF Class
<1> QED BY <1>3, <1>4, <1>5, <1>6

(* ClustersAreComponents, for every number of findings and whatever shouldLink    *)
(* says of each pair: the clusters Link returns are the connected components of     *)
(* the links, each in the order of the findings and with its first one at its head. *)
THEOREM ClustersCorrect == Spec => []ClustersAreComponents
BY ClusterInvariance, ClustersAtTheEnd, PTL
-----------------------------------------------------------------------------
(* The step that merges: two classes become one. *)
LEMMA MergingClasses ==
  ASSUME NEW c \in Forests, NEW low \in Nodes, NEW high \in Nodes, c[low] = low, c[high] = high,
         NEW a, NEW b, {a, b} = {low, high}
  PROVE  Classes(Relabelled(c, low, high))
           = (Classes(c) \ {Class(c, a), Class(c, b)}) \cup {Class(c, a) \cup Class(c, b)}
<1> DEFINE d == Relabelled(c, low, high)
<1>1. \A y \in Nodes : d[y] = IF c[y] = high THEN low ELSE c[y]
  BY DEF Relabelled
<1> HIDE DEF d
<1>2. {Class(c, a), Class(c, b)} = {Class(c, low), Class(c, high)}
  BY DEF Class
<1>3. Class(c, a) \cup Class(c, b) = Class(c, low) \cup Class(c, high)
  BY <1>2
<1>4. Class(d, low) = Class(c, low) \cup Class(c, high)
  BY <1>1 DEF Class
<1>5. \A r : r # low /\ r # high => Class(d, r) = Class(c, r)
  BY <1>1 DEF Class
<1>6. ASSUME NEW z \in Nodes
      PROVE  Class(d, d[z]) \in (Classes(c) \ {Class(c, a), Class(c, b)}) \cup {Class(c, a) \cup Class(c, b)}
  <2>1. CASE d[z] = low
    BY <1>3, <1>4, <2>1
  <2>2. CASE d[z] # low
    <3>1. d[z] = c[z] /\ c[z] # low /\ c[z] # high
      BY <1>1, <2>2
    <3>2. Class(d, d[z]) = Class(c, c[z])
      BY <1>5, <3>1
    <3>3. z \in Class(c, c[z]) /\ z \notin Class(c, low) /\ z \notin Class(c, high)
      BY <3>1 DEF Class
    <3>4. Class(c, c[z]) \in Classes(c)
      BY DEF Classes
    <3>5. Class(c, c[z]) \notin {Class(c, low), Class(c, high)}
      BY <3>3
    <3> QED BY <1>2, <3>2, <3>4, <3>5
  <2> QED BY <2>1, <2>2
<1>7. Class(c, a) \cup Class(c, b) \in Classes(d)
  <2>1. d[low] = low
    BY <1>1
  <2> QED BY <1>3, <1>4, <2>1 DEF Classes
<1>8. ASSUME NEW z \in Nodes, Class(c, c[z]) \notin {Class(c, a), Class(c, b)}
      PROVE  Class(c, c[z]) \in Classes(d)
  <2>1. c[z] # low /\ c[z] # high
    BY <1>2, <1>8
  <2>2. d[z] = c[z] /\ Class(d, d[z]) = Class(c, c[z])
    BY <1>1, <1>5, <2>1
  <2> QED BY <2>2 DEF Classes
<1>9. Classes(d) \subseteq (Classes(c) \ {Class(c, a), Class(c, b)}) \cup {Class(c, a) \cup Class(c, b)}
  BY <1>6 DEF Classes
<1>10. (Classes(c) \ {Class(c, a), Class(c, b)}) \subseteq Classes(d)
  BY <1>8 DEF Classes
<1> QED BY <1>7, <1>9, <1>10 DEF d

(* A finding is in one class. *)
LEMMA TheClassOf ==
  ASSUME NEW c, NEW y \in Nodes
  PROVE  (CHOOSE C \in Classes(c) : y \in C) = Class(c, c[y])
<1>1. Class(c, c[y]) \in Classes(c) /\ y \in Class(c, c[y])
  BY DEF Classes, Class
<1>2. \A C \in Classes(c) : y \in C => C = Class(c, c[y])
  BY DEF Classes, Class
<1> QED BY <1>1, <1>2

(* Where no link is done with and no root changes, the partition stutters. *)
LEMMA PartitionStutters ==
  ASSUME UNCHANGED links, root' = root, SeenLinks' = SeenLinks
  PROVE  UNCHANGED (Abstract!vars)
<1>1. {e \in links : ~Seen(e)} = links \ SeenLinks
  BY DEF SeenLinks
<1>2. {e \in links : ~Seen(e)}' = (links \ SeenLinks)'
  BY DEF SeenLinks
<1> QED BY <1>1, <1>2 DEF Abstract!vars

(* The partition starts with every finding alone and every link to come. *)
LEMMA PartitionStarts == Init => Abstract!Init
<1> SUFFICES ASSUME Init PROVE Abstract!Init
  OBVIOUS
<1>1. ClusterInv
  BY ClusterInvInitially
<1>2. \A y \in Nodes : root[y] = y
  BY <1>1, AtRoot DEF Init, ClusterInv
<1>3. {{y \in Nodes : root[y] = r} : r \in {root[y] : y \in Nodes}} = {{y} : y \in Nodes}
  <2>1. \A r \in Nodes : {y \in Nodes : root[y] = r} = {r}
    BY <1>2
  <2>2. {root[y] : y \in Nodes} = Nodes
    BY <1>2
  <2> QED BY <2>1, <2>2
<1>4. {e \in links : ~Seen(e)} = links
  <2>1. \A e \in links : e[1] \in Nodes /\ e[2] \in Nodes /\ e[1] < e[2]
    BY DEF Init, Pairs
  <2>2. \A e \in links : ~(e[1] < 0) /\ ~(e[1] = 0 /\ e[2] < 1)
    BY <2>1, NAssumption DEF Nodes
  <2> QED BY <2>2 DEF Init, Seen
<1>5. links \in SUBSET (Nodes \X Nodes)
  BY DEF Init, Pairs
<1> QED BY <1>3, <1>4, <1>5 DEF Abstract!Init

(* A union is a merge of the partition. *)
LEMMA JoinIsMerge == ASSUME ClusterInv, Join, IInv' PROVE Abstract!Next
<1>1. PICK low \in Nodes, high \in Nodes : JoinedPair(low, high)
  BY JoinMerges
<1>2. /\ i \in Nodes /\ j \in Nodes /\ <<i, j>> \in links /\ <<i, j>> \notin SeenLinks
      /\ {root[i], root[j]} = {low, high} /\ root[low] = low /\ root[high] = high
      /\ root' = Relabelled(root, low, high)
      /\ SeenLinks' = SeenLinks \cup {<<i, j>>}
  BY <1>1 DEF JoinedPair
<1>3. root \in Forests
  BY DEF ClusterInv, Labelling
<1>4. UNCHANGED links
  BY DEF Join
<1>5. {e \in links : ~Seen(e)}' = {e \in links : ~Seen(e)} \ {<<i, j>>}
  <2>1. {e \in links : ~Seen(e)} = links \ SeenLinks
    BY DEF SeenLinks
  <2>2. {e \in links : ~Seen(e)}' = links' \ SeenLinks'
    BY DEF SeenLinks
  <2> QED BY <1>2, <1>4, <2>1, <2>2
<1>6. Classes(root)' = (Classes(root) \ {Class(root, root[i]), Class(root, root[j])})
                         \cup {Class(root, root[i]) \cup Class(root, root[j])}
  BY <1>2, <1>3, MergingClasses
<1>7. /\ Abstract!ClassOf(i) = Class(root, root[i])
      /\ Abstract!ClassOf(j) = Class(root, root[j])
  BY <1>2, TheClassOf DEF Abstract!ClassOf, Classes, Class
<1>8. <<i, j>>[1] = i /\ <<i, j>>[2] = j
  OBVIOUS
<1>9. PICK e \in {e \in links : ~Seen(e)} : e = <<i, j>>
  BY <1>2 DEF SeenLinks
<1>10. Abstract!Merge(e)
  BY <1>4, <1>5, <1>6, <1>7, <1>8, <1>9 DEF Abstract!Merge, Classes, Class
<1> QED BY <1>10 DEF Abstract!Next

(* The safety half of ImplementsPartition, for every number of findings: Link      *)
(* starts as the partition does, and each of its steps merges the classes of one    *)
(* link that was still to come, or changes no class; path halving never does.       *)
THEOREM RefinesPartition == Spec => Abstract!Init /\ [][Abstract!Next]_(Abstract!vars)
<1>1. ClusterInv /\ [Next]_vars => [Abstract!Next]_(Abstract!vars)
  <2> SUFFICES ASSUME ClusterInv, [Next]_vars PROVE [Abstract!Next]_(Abstract!vars)
    OBVIOUS
  <2>1. IInv'
    BY Preserved DEF ClusterInv
  <2>2. CASE Join
    BY <2>1, <2>2, JoinIsMerge
  <2>3. CASE ~Join
    BY <2>1, <2>3, RootsStay, PartitionStutters
  <2> QED BY <2>2, <2>3
<1> QED BY <1>1, PartitionStarts, ClusterInvariance, PTL DEF Spec
=============================================================================
