-------------------------- MODULE CorrelateProofs ---------------------------
(***************************************************************************)
(* Correlation and the reports are right for every pool of findings: each        *)
(* finding has one story, none is played down, the priority follows the class,   *)
(* and the reports agree.                                                     *)
(***************************************************************************)
EXTENDS Reports, FiniteSetTheorems, SequenceTheorems, TLAPS

(* The values of the axes, for whatever finding. *)
LEMMA AxisValues ==
  ASSUME NEW f
  PROVE  /\ Longevity(f) \in {20, 50, 70, 75}
         /\ Exposure(f) \in {10, 50, 70, 80, 90}
         /\ Agility(f) \in {50, 70, 80}
<1>1. Longevity(f) \in {20, 50, 70, 75}
  BY DEF Longevity
<1>2. Exposure(f) \in {10, 50, 70, 80, 90}
  BY DEF Exposure
<1>3. Agility(f) \in {50, 70, 80}
  BY DEF Agility
<1> QED BY <1>1, <1>2, <1>3

(* What the axes leave to the score: 52 to 89 when vulnerability is 100, 12 to 49 *)
(* when it is 0, and 32 to 69 in between.                                         *)
LEMMA WeightedSum ==
  ASSUME NEW l \in {20, 50, 70, 75}, NEW e \in {10, 50, 70, 80, 90}, NEW a \in {50, 70, 80}
  PROVE  /\ (40 * 100 + 25 * l + 25 * e + 10 * a) \div 100 \in 52..89
         /\ (40 * 50 + 25 * l + 25 * e + 10 * a) \div 100 \in 32..69
         /\ (40 * 0 + 25 * l + 25 * e + 10 * a) \div 100 \in 12..49
<1> DEFINE rest == 25 * l + 25 * e + 10 * a
<1>1. rest \in Int /\ rest >= 1250 /\ rest <= 4925
  OBVIOUS
<1>2. \A n \in Int : n >= 5250 /\ n <= 8925 => n \div 100 \in 52..89
  OBVIOUS
<1>3. \A n \in Int : n >= 3250 /\ n <= 6925 => n \div 100 \in 32..69
  OBVIOUS
<1>4. \A n \in Int : n >= 1250 /\ n <= 4925 => n \div 100 \in 12..49
  OBVIOUS
<1>5. /\ 40 * 100 + 25 * l + 25 * e + 10 * a = 4000 + rest
      /\ 40 * 50 + 25 * l + 25 * e + 10 * a = 2000 + rest
      /\ 40 * 0 + 25 * l + 25 * e + 10 * a = rest
  OBVIOUS
<1> HIDE DEF rest
<1>6. (4000 + rest) \div 100 \in 52..89
  BY <1>1, <1>2
<1>7. (2000 + rest) \div 100 \in 32..69
  BY <1>1, <1>3
<1>8. rest \div 100 \in 12..49
  BY <1>1, <1>4
<1> QED BY <1>5, <1>6, <1>7, <1>8

(* The bounds of each class, over all findings. *)
LEMMA ScoreBounds ==
  ASSUME NEW f, NEW class
  PROVE  /\ class = "broken" => Score(f, class) \in 52..89
         /\ class = "safe" => Score(f, class) \in 12..49
         /\ class \notin {"broken", "safe"} => Score(f, class) \in 32..69
<1>1. CASE class = "broken"
  <2>1. Vulnerability(class) = 100
    BY <1>1 DEF Vulnerability
  <2>2. Score(f, class) \in 52..89
    BY <2>1, AxisValues, WeightedSum DEF Score
  <2> QED BY <1>1, <2>2
<1>2. CASE class = "safe"
  <2>1. Vulnerability(class) = 0
    BY <1>2 DEF Vulnerability
  <2>2. Score(f, class) \in 12..49
    BY <2>1, AxisValues, WeightedSum DEF Score
  <2> QED BY <1>2, <2>2
<1>3. CASE class \notin {"broken", "safe"}
  <2>1. Vulnerability(class) = 50
    BY <1>3 DEF Vulnerability
  <2>2. Score(f, class) \in 32..69
    BY <2>1, AxisValues, WeightedSum DEF Score
  <2> QED BY <1>3, <2>2
<1> QED BY <1>1, <1>2, <1>3

(* The bands the bounds fall into. *)
LEMMA Bands ==
  ASSUME NEW s \in Nat
  PROVE  /\ s \in 52..89 => Priority(s) \in {"medium", "high", "critical"}
         /\ s \in 12..49 => Priority(s) \in {"low", "medium"}
         /\ s \in 32..69 => Priority(s) \in {"low", "medium", "high"}
BY DEF Priority

(* The claim of ClassBoundsPriority for one asset. *)
LEMMA OneAsset ==
  ASSUME NEW f, NEW class
  PROVE  LET p == Priority(Score(f, class)) IN
         /\ class = "broken" => Rank(p) >= Rank("medium")
         /\ class = "safe" => Rank(p) <= Rank("medium")
         /\ p = "critical" => class = "broken"
<1> DEFINE p == Priority(Score(f, class))
<1>1. class = "broken" => p \in {"medium", "high", "critical"}
  BY ScoreBounds, Bands
<1>2. class = "safe" => p \in {"low", "medium"}
  BY ScoreBounds, Bands
<1>3. class \notin {"broken", "safe"} => p \in {"low", "medium", "high"}
  BY ScoreBounds, Bands
<1> HIDE DEF p
<1>4. Rank("low") = 1 /\ Rank("medium") = 2 /\ Rank("high") = 3 /\ Rank("critical") = 4
  BY DEF Rank
<1>5. class = "broken" => Rank(p) >= Rank("medium")
  BY <1>1, <1>4
<1>6. class = "safe" => Rank(p) <= Rank("medium")
  BY <1>2, <1>4
<1>7. p = "critical" => class = "broken"
  BY <1>2, <1>3
<1> QED BY <1>5, <1>6, <1>7 DEF p
-----------------------------------------------------------------------------
(* Priorities are there once the assets are scored, each by the formula.        *)
ScoredByFormula ==
  scored = IF stage = "scored"
           THEN [k \in DOMAIN assets |-> Priority(Score(assets[k].finding, assets[k].class))]
           ELSE << >>

(* The inductive invariant of this module. *)
LEMMA ScoredByFormulaInvariant == Spec => []ScoredByFormula
<1>1. Init => ScoredByFormula
  BY DEF Init, ScoredByFormula
<1>2. ScoredByFormula /\ [Next]_vars => ScoredByFormula'
  <2> SUFFICES ASSUME ScoredByFormula, [Next]_vars PROVE ScoredByFormula'
    OBVIOUS
  <2>1. CASE LinkFindings
    BY <2>1 DEF LinkFindings, ScoredByFormula
  <2>2. CASE NextAsset
    BY <2>2 DEF NextAsset, ScoredByFormula
  <2>3. CASE ScoreAll
    BY <2>3 DEF ScoreAll, ScoredByFormula
  <2>4. CASE Terminating \/ UNCHANGED vars
    BY <2>4 DEF Terminating, vars, ScoredByFormula
  <2> QED BY <2>1, <2>2, <2>3, <2>4 DEF Next
<1> QED BY <1>1, <1>2, PTL DEF Spec

(* ClassBoundsPriority: whatever the findings and however they are correlated,   *)
(* score.Score puts every broken asset at medium or above, every safe one at      *)
(* medium or below, and nothing but a broken one at critical.                     *)
THEOREM PriorityFollowsClass == Spec => []ClassBoundsPriority
<1>1. ScoredByFormula => ClassBoundsPriority
  <2> SUFFICES ASSUME ScoredByFormula, NEW k \in DOMAIN scored
               PROVE  /\ assets[k].class = "broken" => Rank(scored[k]) >= Rank("medium")
                      /\ assets[k].class = "safe" => Rank(scored[k]) <= Rank("medium")
                      /\ scored[k] = "critical" => assets[k].class = "broken"
    BY DEF ClassBoundsPriority
  <2>1. scored[k] = Priority(Score(assets[k].finding, assets[k].class))
    BY DEF ScoredByFormula
  <2> QED BY <2>1, OneAsset
<1> QED BY <1>1, ScoredByFormulaInvariant, PTL
-----------------------------------------------------------------------------
(* Links go both ways. *)
LEMMA LinkSymmetric ==
  ASSUME NEW a, NEW b, ShouldLink(a, b)
  PROVE  ShouldLink(b, a)
<1>1. {a, b} = {b, a} /\ {a.source, b.source} = {b.source, a.source}
  OBVIOUS
<1>2. PrimitiveParamLink(a, b) => PrimitiveParamLink(b, a)
  <2>1. {Detail(a), Detail(b)} = {Detail(b), Detail(a)}
    OBVIOUS
  <2> QED BY <2>1 DEF PrimitiveParamLink, SamePrimitive
<1>3. ImportDepLink(a, b) => ImportDepLink(b, a)
  BY <1>1, Zenon DEF ImportDepLink
<1>4. PathProximityLink(a, b) => PathProximityLink(b, a)
  BY <1>1 DEF PathProximityLink
<1> QED BY <1>2, <1>3, <1>4 DEF ShouldLink

(* Connected components: no edge leaves one, ... *)
LEMMA ComponentsClosed ==
  ASSUME NEW nodes, NEW edges, NEW C \in ComponentsOf(nodes, edges)
  PROVE  C \in SUBSET nodes /\ C # {} /\ Closed(C, edges)
BY DEF ComponentsOf

(* ... two that have a node in common are one, ... *)
LEMMA ComponentsDisjoint ==
  ASSUME NEW nodes, NEW edges,
         NEW C \in ComponentsOf(nodes, edges), NEW D \in ComponentsOf(nodes, edges), NEW x \in C \cap D
  PROVE  C = D
<1>1. Closed(C \cap D, edges)
  BY ComponentsClosed DEF Closed
<1>2. C \cap D = C
  BY <1>1 DEF ComponentsOf
<1>3. C \cap D = D
  BY <1>1 DEF ComponentsOf
<1> QED BY <1>2, <1>3

(* ... and every node is in one. *)
LEMMA ComponentsCover ==
  ASSUME NEW nodes, NEW edges \in SUBSET (nodes \X nodes), NEW x \in nodes
  PROVE  \E C \in ComponentsOf(nodes, edges) : x \in C
<1> DEFINE C == {y \in nodes : \A S \in SUBSET nodes : Closed(S, edges) /\ x \in S => y \in S}
<1>1. x \in C /\ C \in SUBSET nodes
  OBVIOUS
<1>2. Closed(C, edges)
  <2> SUFFICES ASSUME NEW e \in edges PROVE e[1] \in C <=> e[2] \in C
    BY DEF Closed
  <2>1. e[1] \in nodes /\ e[2] \in nodes
    OBVIOUS
  <2>2. \A S : Closed(S, edges) => (e[1] \in S <=> e[2] \in S)
    BY DEF Closed
  <2> QED BY <2>1, <2>2
<1>3. ASSUME NEW T \in SUBSET C, T # {}, Closed(T, edges)
      PROVE  T = C
  <2>1. Closed(C \ T, edges)
    BY <1>2, <1>3 DEF Closed
  <2>2. C \ T \in SUBSET nodes /\ T \in SUBSET nodes
    BY <1>1
  <2>3. CASE x \in T
    BY <1>3, <2>2, <2>3
  <2>4. CASE x \notin T
    <3>1. x \in C \ T
      BY <1>1, <2>4
    <3>2. C \subseteq C \ T
      BY <2>1, <2>2, <3>1
    <3> QED BY <1>3, <3>2
  <2> QED BY <2>3, <2>4
<1> HIDE DEF C
<1>4. C \in ComponentsOf(nodes, edges)
  BY <1>1, <1>2, <1>3 DEF ComponentsOf
<1> QED BY <1>1, <1>4

Components == ComponentsOf(found, Links)

LEMMA LinksInFound == Links \in SUBSET (found \X found)
BY DEF Links

(* Findings that shouldLink links are in one cluster. *)
LEMMA LinkedTogether ==
  ASSUME found \in SUBSET DOMAIN Pool, NEW f \in found, NEW g \in found, ShouldLink(Pool[f], Pool[g]),
         NEW C \in Components
  PROVE  f \in C <=> g \in C
<1>0. f \in Nat /\ g \in Nat
  BY PoolAssumption
<1>1. Closed(C, Links)
  BY ComponentsClosed DEF Components
<1>2. CASE f < g
  <2>1. <<f, g>> \in Links
    BY <1>2 DEF Links
  <2> QED BY <1>1, <2>1 DEF Closed
<1>3. CASE g < f
  <2>1. <<g, f>> \in Links
    BY <1>3, LinkSymmetric DEF Links
  <2> QED BY <1>1, <2>1 DEF Closed
<1>4. CASE f = g
  BY <1>4
<1> QED BY <1>0, <1>2, <1>3, <1>4

(* What findings that share an identifier have in common. *)
LEMMA AlikeByIdentifier ==
  ASSUME NEW f \in DOMAIN Pool, NEW g \in DOMAIN Pool, Pool[f].id = Pool[g].id
  PROVE  /\ Pool[f].source = Pool[g].source /\ Pool[f].rule = Pool[g].rule /\ Pool[f].dir = Pool[g].dir
         /\ Pool[f].prim = Pool[g].prim /\ Pool[f].keySize = Pool[g].keySize
         /\ Pool[f].curve = Pool[g].curve /\ Pool[f].package = Pool[g].package
         /\ Pool[f].module = Pool[g].module
<1>1. Pool[f] \in Finding /\ Pool[g] \in Finding
  BY PoolAssumption
<1>2. \A field \in Identified : Pool[f][field] = Pool[g][field]
  BY IdAssumption
<1> QED BY <1>1, <1>2 DEF Identified, Finding

(* Findings that share an identifier are of one primitive and one class, and belong    *)
(* together unless the primitive is not known.                                    *)
LEMMA SameIdentifier ==
  ASSUME NEW f \in DOMAIN Pool, NEW g \in DOMAIN Pool, Pool[f].id = Pool[g].id
  PROVE  /\ Pool[f].prim = Pool[g].prim /\ ClassOf(Pool[f]) = ClassOf(Pool[g])
         /\ Canonical(Pool[f].prim) \in {"", "UNKNOWN"} \/ ShouldLink(Pool[f], Pool[g])
<1>1. Pool[f] \in Finding /\ Pool[g] \in Finding
  BY PoolAssumption
<1>3. Pool[f].prim = Pool[g].prim /\ Pool[f].keySize = Pool[g].keySize /\ Pool[f].curve = Pool[g].curve
  BY AlikeByIdentifier
<1>4. ClassOf(Pool[f]) = ClassOf(Pool[g]) /\ Detail(Pool[f]) = Detail(Pool[g])
  BY <1>3 DEF ClassOf, Detail
<1>5. Canonical(Pool[f].prim) \in {"", "UNKNOWN"} \/ PrimitiveParamLink(Pool[f], Pool[g])
  BY <1>3, <1>4 DEF PrimitiveParamLink, SamePrimitive
<1> QED BY <1>3, <1>4, <1>5 DEF ShouldLink
-----------------------------------------------------------------------------
(* What Materialize returns is an asset, whatever the members. *)
LEMMA MaterializeType ==
  ASSUME NEW members \in SUBSET DOMAIN Pool, NEW c \in members, NEW s \in members
  PROVE  Materialize(members, c, s) \in Asset
<1>1. Pool[c] \in Finding /\ Pool[s] \in Finding
  BY PoolAssumption
<1>2. [Pool[c] EXCEPT !.conf = IF ShouldRaiseConfidence(members) THEN "high" ELSE @] \in Finding
  BY <1>1 DEF Finding, Confidences
<1>3. ClassOf(Pool[s]) \in QuantumClasses
  BY DEF ClassOf, QuantumClasses
<1>4. Canonical(Pool[s].prim) \in {Canonical(Pool[k].prim) : k \in DOMAIN Pool}
  OBVIOUS
<1>5. Related(members, c) \in SUBSET DOMAIN Pool
  BY DEF Related
<1> QED BY <1>2, <1>3, <1>4, <1>5 DEF Materialize, Asset

LEMMA PriorityType == ASSUME NEW score PROVE Priority(score) \in Priorities
BY DEF Priority, Priorities

(* Every state is a state of the variables, for whatever findings. *)
THEOREM TypeCorrect == Spec => []TypeOK
<1>1. Init => TypeOK
  BY DEF Init, TypeOK
<1>2. TypeOK /\ [Next]_vars => TypeOK'
  <2> SUFFICES ASSUME TypeOK, [Next]_vars PROVE TypeOK'
    OBVIOUS
  <2> USE DEF TypeOK
  <2>1. CASE LinkFindings
    <3>1. \A C \in ComponentsOf(found, Links) : C \in (SUBSET found) \ {{}}
      <4> SUFFICES ASSUME NEW C \in ComponentsOf(found, Links) PROVE C \in (SUBSET found) \ {{}}
        OBVIOUS
      <4>1. C \in SUBSET found /\ C # {}
        BY ComponentsClosed
      <4> QED BY <4>1
    <3> QED BY <2>1, <3>1 DEF LinkFindings
  <2>2. CASE NextAsset
    <3>1. PICK members \in unsorted : \E c \in PickCanonical(members), s \in Strongest(members) :
            /\ unsorted' = unsorted \ {members}
            /\ clusters' = Append(clusters, members)
            /\ assets' = Append(assets, Materialize(members, c, s))
      BY <2>2 DEF NextAsset
    <3>2. PICK c \in PickCanonical(members), s \in Strongest(members) :
            /\ unsorted' = unsorted \ {members}
            /\ clusters' = Append(clusters, members)
            /\ assets' = Append(assets, Materialize(members, c, s))
      BY <3>1
    <3>3. members \in (SUBSET found) \ {{}} /\ members \in SUBSET DOMAIN Pool
      OBVIOUS
    <3>4. Materialize(members, c, s) \in Asset
      <4>1. c \in members /\ s \in members
        BY DEF PickCanonical, Strongest
      <4> QED BY <3>3, <4>1, MaterializeType
    <3>5. clusters' \in Seq((SUBSET found) \ {{}})
      BY <3>2, <3>3, AppendProperties
    <3>6. assets' \in Seq(Asset)
      BY <3>2, <3>4, AppendProperties
    <3>7. found' = found /\ stage' = stage /\ scored' = scored
      BY <2>2 DEF NextAsset
    <3> QED BY <3>2, <3>5, <3>6, <3>7
  <2>3. CASE ScoreAll
    <3>1. DOMAIN assets = 1..Len(assets) /\ Len(assets) \in Nat
      OBVIOUS
    <3>2. scored' \in Seq(Priorities)
      BY <2>3, <3>1, PriorityType DEF ScoreAll
    <3> QED BY <2>3, <3>2 DEF ScoreAll
  <2>4. CASE Terminating \/ UNCHANGED vars
    BY <2>4 DEF Terminating, vars
  <2> QED BY <2>1, <2>2, <2>3, <2>4 DEF Next
<1> QED BY <1>1, <1>2, PTL DEF Spec
-----------------------------------------------------------------------------
(* An asset that Materialize makes of a cluster. *)
Made(asset, members) ==
  \E c \in PickCanonical(members), s \in Strongest(members) : asset = Materialize(members, c, s)

(* An asset is made of each component, and of no component twice. *)
MadeInv ==
  /\ stage = "findings" => unsorted = {} /\ clusters = << >>
  /\ stage # "findings" => Components = unsorted \cup Range(clusters)
  /\ stage = "scored" => unsorted = {}
  /\ Len(assets) = Len(clusters)
  /\ \A k \in DOMAIN clusters : Made(assets[k], clusters[k]) /\ clusters[k] \notin unsorted
  /\ \A k, l \in DOMAIN clusters : clusters[k] = clusters[l] => k = l

(* The assets are in the order of the canonical findings, and no cluster that is to     *)
(* come belongs before one of them.                                               *)
OrderInv ==
  /\ \A k, l \in DOMAIN assets : k < l => ~Earlier(assets[l].finding, assets[k].finding)
  /\ \A k \in DOMAIN assets : \A members \in unsorted : \A c \in PickCanonical(members) :
       ~Earlier(Pool[c], assets[k].finding)
  /\ stage = "findings" => assets = << >>

(* What an asset mentions are the members of its cluster, by their identifiers. *)
LEMMA MentionsItsMembers ==
  ASSUME NEW members \in SUBSET DOMAIN Pool, NEW asset, Made(asset, members)
  PROVE  Mentions(asset) = {Pool[m].id : m \in members}
<1>1. PICK c \in PickCanonical(members), s \in Strongest(members) : asset = Materialize(members, c, s)
  BY DEF Made
<1>2. c \in members /\ Pool[c] \in Finding
  BY PoolAssumption DEF PickCanonical
<1>3. asset.finding.id = Pool[c].id /\ asset.related = {m \in members : Pool[m].id # Pool[c].id}
  BY <1>1, <1>2 DEF Materialize, Related, Finding
<1> QED BY <1>2, <1>3 DEF Mentions

(* The order of the assets is that of their canonical findings. *)
LEMMA MadeOfCanonical ==
  ASSUME NEW members \in SUBSET DOMAIN Pool, NEW c \in members, NEW s \in members
  PROVE  LET f == Materialize(members, c, s).finding
         IN  f.path = Pool[c].path /\ f.line = Pool[c].line /\ f.id = Pool[c].id /\ f.prim = Pool[c].prim
<1>1. Pool[c] \in Finding
  BY PoolAssumption
<1> QED BY <1>1 DEF Materialize, Finding

LEMMA MadeInvariance == Spec => [](MadeInv /\ OrderInv)
<1>1. Init => MadeInv /\ OrderInv
  BY DEF Init, MadeInv, OrderInv
<1>2. TypeOK /\ MadeInv /\ OrderInv /\ [Next]_vars => (MadeInv /\ OrderInv)'
  <2> SUFFICES ASSUME TypeOK, MadeInv, OrderInv, [Next]_vars PROVE (MadeInv /\ OrderInv)'
    OBVIOUS
  <2>0. /\ clusters \in Seq((SUBSET found) \ {{}}) /\ assets \in Seq(Asset)
        /\ Len(clusters) \in Nat /\ Len(assets) = Len(clusters)
        /\ DOMAIN clusters = 1..Len(clusters) /\ DOMAIN assets = DOMAIN clusters
    BY DEF TypeOK, MadeInv
  <2>1. CASE LinkFindings
    <3>1. /\ stage = "findings" /\ stage' = "clusters" /\ unsorted' = Components
          /\ found' = found /\ clusters' = clusters /\ assets' = assets
      BY <2>1 DEF LinkFindings, Components
    <3>2. clusters = << >> /\ assets = << >>
      BY <3>1 DEF MadeInv, OrderInv
    <3>3. Components' = Components
      BY <3>1 DEF Components, Links
    <3>4. Range(clusters) = {} /\ DOMAIN clusters = {} /\ DOMAIN assets = {}
      BY <3>2 DEF Range
    <3> QED BY <3>1, <3>2, <3>3, <3>4 DEF MadeInv, OrderInv
  <2>2. CASE NextAsset
    <3>1. PICK members \in unsorted : \E c \in PickCanonical(members), s \in Strongest(members) :
            /\ NextInOrder(members, c)
            /\ unsorted' = unsorted \ {members}
            /\ clusters' = Append(clusters, members)
            /\ assets' = Append(assets, Materialize(members, c, s))
      BY <2>2 DEF NextAsset
    <3>2. PICK c \in PickCanonical(members), s \in Strongest(members) :
            /\ NextInOrder(members, c)
            /\ unsorted' = unsorted \ {members}
            /\ clusters' = Append(clusters, members)
            /\ assets' = Append(assets, Materialize(members, c, s))
      BY <3>1
    <3>3. stage = "clusters" /\ stage' = stage /\ found' = found /\ Components' = Components
      BY <2>2 DEF NextAsset, Components, Links
    <3> DEFINE n == Len(clusters)
               new == Materialize(members, c, s)
    <3>4. members \in (SUBSET found) \ {{}} /\ members \in SUBSET DOMAIN Pool /\ c \in members /\ s \in members
      BY DEF TypeOK, PickCanonical, Strongest
    <3>5. new \in Asset /\ Made(new, members)
      BY <3>4, MaterializeType DEF Made
    <3>6. /\ Len(clusters') = n + 1 /\ DOMAIN clusters' = 1..(n + 1)
          /\ \A k \in 1..n : clusters'[k] = clusters[k]
          /\ clusters'[n + 1] = members
      <4>1. clusters' \in Seq((SUBSET found) \ {{}}) /\ Len(clusters') = n + 1
        BY <2>0, <3>2, <3>4, AppendProperties
      <4>2. \A k \in 1..n : clusters'[k] = clusters[k]
        BY <2>0, <3>2, <3>4, AppendProperties
      <4>3. clusters'[n + 1] = members
        BY <2>0, <3>2, <3>4, AppendProperties
      <4>4. DOMAIN clusters' = 1..(n + 1)
        BY <4>1
      <4> QED BY <4>1, <4>2, <4>3, <4>4
    <3>7. /\ Len(assets') = n + 1 /\ DOMAIN assets' = 1..(n + 1)
          /\ \A k \in 1..n : assets'[k] = assets[k]
          /\ assets'[n + 1] = new
      <4>1. assets' \in Seq(Asset) /\ Len(assets') = n + 1
        BY <2>0, <3>2, <3>5, AppendProperties
      <4>2. \A k \in 1..Len(assets) : assets'[k] = assets[k]
        BY <2>0, <3>2, <3>5, AppendProperties
      <4>3. assets'[Len(assets) + 1] = new
        BY <2>0, <3>2, <3>5, AppendProperties
      <4>4. DOMAIN assets' = 1..(n + 1)
        BY <4>1
      <4> QED BY <2>0, <4>1, <4>2, <4>3, <4>4
    <3>8. n \in Nat /\ DOMAIN clusters = 1..n /\ DOMAIN assets = 1..n
      BY <2>0
    <3> HIDE DEF n, new
    <3>9. \A k \in 1..(n + 1) : k \in 1..n \/ k = n + 1
      BY <3>8
    <3>10. Range(clusters') = Range(clusters) \cup {members}
      BY <3>6, <3>8, <3>9 DEF Range
    <3>11. Components' = unsorted' \cup Range(clusters')
      <4>1. Components = unsorted \cup Range(clusters)
        BY <3>3 DEF MadeInv
      <4> QED BY <3>2, <3>3, <3>10, <4>1
    <3>12. \A k \in DOMAIN clusters' : Made(assets'[k], clusters'[k]) /\ clusters'[k] \notin unsorted'
      BY <3>2, <3>5, <3>6, <3>7, <3>8, <3>9 DEF MadeInv
    <3>13. \A k, l \in DOMAIN clusters' : clusters'[k] = clusters'[l] => k = l
      <4>1. \A k \in 1..n : clusters[k] # members
        BY <3>8 DEF MadeInv
      <4> QED BY <3>6, <3>8, <3>9, <4>1 DEF MadeInv
    <3>14. MadeInv'
      <4>1. (\A k \in DOMAIN clusters : Made(assets[k], clusters[k]) /\ clusters[k] \notin unsorted)'
        BY <3>12 DEF Made
      <4> QED BY <3>3, <3>6, <3>7, <3>11, <3>13, <4>1 DEF MadeInv
    <3>15. new.finding.path = Pool[c].path /\ new.finding.line = Pool[c].line /\ new.finding.id = Pool[c].id
      BY <3>4, MadeOfCanonical DEF new
    <3>16. \A k \in 1..n : ~Earlier(new.finding, assets'[k].finding)
      BY <3>7, <3>8, <3>15 DEF OrderInv, Earlier
    <3>17. \A k, l \in 1..(n + 1) : k < l => k \in 1..n
      BY <3>8
    <3>18. \A k, l \in DOMAIN assets' : k < l => ~Earlier(assets'[l].finding, assets'[k].finding)
      BY <3>7, <3>8, <3>9, <3>16, <3>17 DEF OrderInv
    <3>19. \A others \in unsorted' : \A d \in PickCanonical(others) : ~Earlier(Pool[d], new.finding)
      BY <3>2, <3>15 DEF NextInOrder, Earlier
    <3>20. \A k \in DOMAIN assets' : \A others \in unsorted' : \A d \in PickCanonical(others) :
             ~Earlier(Pool[d], assets'[k].finding)
      BY <3>2, <3>7, <3>8, <3>9, <3>19 DEF OrderInv
    <3>21. OrderInv'
      BY <3>3, <3>18, <3>20 DEF OrderInv
    <3> QED BY <3>14, <3>21
  <2>3. CASE ScoreAll
    <3>1. /\ unsorted = {} /\ found' = found /\ unsorted' = unsorted /\ clusters' = clusters /\ assets' = assets
          /\ stage = "clusters" /\ stage' = "scored"
      BY <2>3 DEF ScoreAll
    <3>2. Components' = Components
      BY <3>1 DEF Components, Links
    <3> QED BY <3>1, <3>2 DEF MadeInv, OrderInv
  <2>4. CASE Terminating \/ UNCHANGED vars
    <3>1. UNCHANGED vars
      BY <2>4 DEF Terminating
    <3>2. Components' = Components
      BY <3>1 DEF Components, Links, vars
    <3> QED BY <3>1, <3>2 DEF MadeInv, OrderInv, vars
  <2> QED BY <2>1, <2>2, <2>3, <2>4 DEF Next
<1> QED BY TypeCorrect, <1>1, <1>2, PTL DEF Spec
-----------------------------------------------------------------------------
(* What the invariants say of one asset. *)
LEMMA OneAssetMade ==
  ASSUME TypeOK, MadeInv, NEW k \in DOMAIN assets
  PROVE  /\ k \in DOMAIN clusters /\ clusters[k] \in Components
         /\ clusters[k] \in SUBSET found /\ clusters[k] \in SUBSET DOMAIN Pool
         /\ Made(assets[k], clusters[k])
         /\ Mentions(assets[k]) = {Pool[m].id : m \in clusters[k]}
<1>1. DOMAIN assets = DOMAIN clusters
  BY DEF TypeOK, MadeInv
<1>2. clusters[k] \in Range(clusters)
  BY <1>1 DEF Range
<1>3. stage # "findings"
  <2>1. clusters # << >>
    BY <1>1
  <2> QED BY <2>1 DEF MadeInv
<1>4. clusters[k] \in Components
  BY <1>2, <1>3 DEF MadeInv
<1>5. clusters[k] \in SUBSET found /\ found \in SUBSET DOMAIN Pool
  BY <1>4, ComponentsClosed DEF Components, TypeOK
<1>6. Made(assets[k], clusters[k])
  BY <1>1 DEF MadeInv
<1>7. Mentions(assets[k]) = {Pool[m].id : m \in clusters[k]}
  BY <1>5, <1>6, MentionsItsMembers
<1> QED BY <1>1, <1>4, <1>5, <1>6, <1>7

(* A finding whose primitive is known is a member of any cluster that has its       *)
(* identifier.                                                                    *)
LEMMA MemberByIdentifier ==
  ASSUME found \in SUBSET DOMAIN Pool, NEW C \in Components, NEW f \in found,
         Canonical(Pool[f].prim) \notin {"", "UNKNOWN"}
  PROVE  Pool[f].id \in {Pool[m].id : m \in C} <=> f \in C
<1>1. ASSUME NEW m \in C, Pool[f].id = Pool[m].id
      PROVE  f \in C
  <2>1. m \in found
    BY ComponentsClosed DEF Components
  <2>2. ShouldLink(Pool[f], Pool[m])
    BY <1>1, <2>1, SameIdentifier
  <2> QED BY <2>1, <2>2, LinkedTogether
<1> QED BY <1>1

(* Findings that share an identifier link with the same others. *)
LEMMA TwinsLinkAlike ==
  ASSUME NEW f \in DOMAIN Pool, NEW t \in DOMAIN Pool, NEW g, Pool[f].id = Pool[t].id, ShouldLink(Pool[f], g)
  PROVE  ShouldLink(Pool[t], g)
<1> DEFINE a == Pool[f]
           b == Pool[t]
<1>1. /\ a.source = b.source /\ a.rule = b.rule /\ a.dir = b.dir /\ a.prim = b.prim /\ a.keySize = b.keySize
      /\ a.curve = b.curve /\ a.package = b.package /\ a.module = b.module
  BY AlikeByIdentifier
<1>2. ShouldLink(a, g)
  OBVIOUS
<1> HIDE DEF a, b
<1>3. Detail(a) = Detail(b) /\ InferredPackage(a) = InferredPackage(b)
  BY <1>1 DEF Detail, InferredPackage
<1>4. PrimitiveParamLink(a, g) => PrimitiveParamLink(b, g)
  BY <1>1, <1>3 DEF PrimitiveParamLink, SamePrimitive
<1>5. PathProximityLink(a, g) => PathProximityLink(b, g)
  BY <1>1 DEF PathProximityLink
<1> DEFINE Imports(src, dep) ==
             /\ src.source = "source-code" /\ dep.source = "dependency"
             /\ dep.module # << >>
             /\ \/ /\ InferredPackage(src) # << >>
                   /\ \/ IsPrefix(dep.module, InferredPackage(src))
                      \/ IsPrefix(InferredPackage(src), dep.module)
                \/ SamePrimitive(src, dep)
<1>6. \A p, q : ImportDepLink(p, q) <=> Imports(p, q) \/ Imports(q, p)
  BY DEF ImportDepLink
<1>7. (Imports(a, g) => Imports(b, g)) /\ (Imports(g, a) => Imports(g, b))
  BY <1>1, <1>3 DEF SamePrimitive
<1> HIDE DEF Imports
<1>8. ImportDepLink(a, g) => ImportDepLink(b, g)
  BY <1>6, <1>7
<1>9. ShouldLink(b, g)
  BY <1>2, <1>4, <1>5, <1>8 DEF ShouldLink
<1> QED BY <1>9 DEF b

(* Every finding has one story, whatever the findings and however they are linked.    *)
THEOREM OneStory == Spec => []OneStoryEach
<1>1. TypeOK /\ MadeInv => OneStoryEach
  <2> SUFFICES ASSUME TypeOK, MadeInv, stage = "scored"
               PROVE  /\ \A f \in found : \E k \in DOMAIN assets : Pool[f].id \in Mentions(assets[k])
                      /\ \A f \in found : \A k, l \in DOMAIN assets :
                           Pool[f].id \in Mentions(assets[k]) \cap Mentions(assets[l]) =>
                             k = l \/ Canonical(Pool[f].prim) \in {"", "UNKNOWN"}
                      /\ \A f, g \in found : ShouldLink(Pool[f], Pool[g]) =>
                           \A k \in DOMAIN assets :
                             Pool[f].id \in Mentions(assets[k]) <=> Pool[g].id \in Mentions(assets[k])
                      /\ \A k \in DOMAIN assets : Mentions(assets[k]) \subseteq {Pool[f].id : f \in found}
    BY DEF OneStoryEach
  <2>0. /\ found \in SUBSET DOMAIN Pool /\ DOMAIN assets = DOMAIN clusters
        /\ Components = Range(clusters)
    <3>1. DOMAIN assets = DOMAIN clusters
      BY DEF TypeOK, MadeInv
    <3>2. Components = unsorted \cup Range(clusters) /\ unsorted = {}
      BY DEF MadeInv
    <3> QED BY <3>1, <3>2 DEF TypeOK
  <2>1. ASSUME NEW f \in found
        PROVE  \E k \in DOMAIN assets : Pool[f].id \in Mentions(assets[k])
    <3>1. PICK C \in Components : f \in C
      BY LinksInFound, ComponentsCover DEF Components
    <3>2. PICK k \in DOMAIN clusters : clusters[k] = C
      BY <2>0 DEF Range
    <3> QED BY <2>0, <3>1, <3>2, OneAssetMade
  <2>2. ASSUME NEW f \in found, NEW k \in DOMAIN assets, NEW l \in DOMAIN assets,
               Pool[f].id \in Mentions(assets[k]) \cap Mentions(assets[l]),
               Canonical(Pool[f].prim) \notin {"", "UNKNOWN"}
        PROVE  k = l
    <3>1. f \in clusters[k] /\ f \in clusters[l]
      <4>1. clusters[k] \in Components /\ Mentions(assets[k]) = {Pool[m].id : m \in clusters[k]}
        BY OneAssetMade
      <4>2. clusters[l] \in Components /\ Mentions(assets[l]) = {Pool[m].id : m \in clusters[l]}
        BY OneAssetMade
      <4>3. Pool[f].id \in Mentions(assets[k]) /\ Pool[f].id \in Mentions(assets[l])
        BY <2>2
      <4>4. f \in clusters[k]
        BY <2>0, <2>2, <4>1, <4>3, MemberByIdentifier
      <4>5. f \in clusters[l]
        BY <2>0, <2>2, <4>2, <4>3, MemberByIdentifier
      <4> QED BY <4>4, <4>5
    <3>2. clusters[k] = clusters[l]
      BY <3>1, OneAssetMade, ComponentsDisjoint DEF Components
    <3> QED BY <2>0, <3>2 DEF MadeInv
  <2>3. ASSUME NEW f \in found, NEW g \in found, ShouldLink(Pool[f], Pool[g]), NEW k \in DOMAIN assets
        PROVE  Pool[f].id \in Mentions(assets[k]) <=> Pool[g].id \in Mentions(assets[k])
    <3>1. clusters[k] \in Components /\ Mentions(assets[k]) = {Pool[m].id : m \in clusters[k]}
      BY OneAssetMade
    <3>2. ASSUME NEW p \in found, NEW q \in found, ShouldLink(Pool[p], Pool[q]), Pool[p].id \in Mentions(assets[k])
          PROVE  Pool[q].id \in Mentions(assets[k])
      <4>1. PICK m \in clusters[k] : Pool[m].id = Pool[p].id
        BY <3>1, <3>2
      <4>2. m \in found
        BY OneAssetMade
      <4>3. ShouldLink(Pool[m], Pool[q])
        BY <2>0, <3>2, <4>1, <4>2, TwinsLinkAlike
      <4>4. q \in clusters[k]
        BY <2>0, <3>1, <4>1, <4>2, <4>3, LinkedTogether
      <4> QED BY <3>1, <4>4
    <3>3. ShouldLink(Pool[g], Pool[f])
      BY <2>3, LinkSymmetric
    <3> QED BY <2>3, <3>2, <3>3
  <2>4. ASSUME NEW k \in DOMAIN assets
        PROVE  Mentions(assets[k]) \subseteq {Pool[f].id : f \in found}
    BY OneAssetMade
  <2> QED BY <2>1, <2>2, <2>3, <2>4
<1> QED BY TypeCorrect, MadeInvariance, <1>1, PTL

(* No class is played down, ... *)
THEOREM NothingPlayedDown == Spec => []NeverUnderstated
<1>1. TypeOK /\ MadeInv => NeverUnderstated
  <2> SUFFICES ASSUME TypeOK, MadeInv, NEW k \in DOMAIN assets, NEW f \in found,
                      Pool[f].id \in Mentions(assets[k])
               PROVE  ClassRank(assets[k].class) >= ClassRank(ClassOf(Pool[f]))
    BY DEF NeverUnderstated
  <2>1. PICK m \in clusters[k] : Pool[m].id = Pool[f].id
    BY OneAssetMade
  <2>2. m \in DOMAIN Pool /\ f \in DOMAIN Pool
    BY OneAssetMade DEF TypeOK
  <2>3. ClassOf(Pool[m]) = ClassOf(Pool[f])
    BY <2>1, <2>2, SameIdentifier
  <2>4. PICK s \in Strongest(clusters[k]) : assets[k].class = ClassOf(Pool[s])
    BY OneAssetMade DEF Made, Materialize
  <2>5. ~(ClassRank(ClassOf(Pool[m])) > ClassRank(ClassOf(Pool[s])))
    BY <2>4 DEF Strongest, Stronger
  <2>6. \A class : ClassRank(class) \in Nat
    BY DEF ClassRank
  <2> QED BY <2>3, <2>4, <2>5, <2>6
<1> QED BY TypeCorrect, MadeInvariance, <1>1, PTL

(* ... and no confidence is raised that no finding earned. *)
THEOREM HighIsEarned == Spec => []ConfidenceEarned
<1>1. TypeOK /\ MadeInv => ConfidenceEarned
  <2> SUFFICES ASSUME TypeOK, MadeInv, NEW k \in DOMAIN assets, assets[k].finding.conf = "high"
               PROVE  \E f \in found : Pool[f].id \in Mentions(assets[k]) /\ Pool[f].conf = "high"
    BY DEF ConfidenceEarned
  <2>1. PICK c \in PickCanonical(clusters[k]), s \in Strongest(clusters[k]) :
          assets[k] = Materialize(clusters[k], c, s)
    BY OneAssetMade DEF Made
  <2>2. clusters[k] \in SUBSET found /\ c \in clusters[k] /\ Pool[c] \in Finding
    BY OneAssetMade, PoolAssumption DEF PickCanonical
  <2>3. Pool[c].conf = "high" \/ ShouldRaiseConfidence(clusters[k])
    BY <2>1, <2>2 DEF Materialize, Finding
  <2>4. \E m \in clusters[k] : Pool[m].conf = "high"
    BY <2>2, <2>3 DEF ShouldRaiseConfidence
  <2> QED BY <2>2, <2>4, OneAssetMade
<1> QED BY TypeCorrect, MadeInvariance, <1>1, PTL
-----------------------------------------------------------------------------
(* Two findings that WriteCBOM may put either way. *)
Level(a, b) == ~Earlier(a, b) /\ ~Earlier(b, a)

(* Each component that is written is that of an asset level with the one that has its  *)
(* place in the scan, and what is left is not earlier.                            *)
SortedAgain ==
  /\ left \in SUBSET DOMAIN assets
  /\ written.cbom \in Seq({Component(assets[j]) : j \in DOMAIN assets})
  /\ Len(written.cbom) = Cardinality(DOMAIN assets \ left)
  /\ \A k \in DOMAIN written.cbom : \E j \in DOMAIN assets :
       written.cbom[k] = Component(assets[j]) /\ Level(Subject(j), Subject(k))
  /\ \A j \in DOMAIN assets \ left, l \in left : ~Earlier(Subject(l), Subject(j))

WrittenInv ==
  written # << >> =>
    /\ stage = "scored"
    /\ written = [sarif |-> SARIF, markdown |-> Markdown, cbom |-> written.cbom]
    /\ SortedAgain

(* Earlier orders findings by numbers, so findings that are level are between the same *)
(* ones.                                                                        *)
Placed(a) == a.path \in Nat /\ a.line \in Nat /\ a.id \in Nat

LEMMA EarlierIsAnOrder ==
  ASSUME NEW a, NEW b, NEW c, Placed(a), Placed(b), Placed(c)
  PROVE  /\ ~Earlier(a, a)
         /\ Earlier(a, b) /\ ~Earlier(c, b) => Earlier(a, c)
         /\ Earlier(a, b) /\ ~Earlier(a, c) => Earlier(c, b)
<1> DEFINE Before(p, l, i, q, m, j) == p < q \/ (p = q /\ l < m) \/ (p = q /\ l = m /\ i < j)
<1>1. \A p, l, i, q, m, j, r, n, k \in Nat :
        /\ ~Before(p, l, i, p, l, i)
        /\ Before(p, l, i, q, m, j) /\ ~Before(r, n, k, q, m, j) => Before(p, l, i, r, n, k)
        /\ Before(p, l, i, q, m, j) /\ ~Before(p, l, i, r, n, k) => Before(r, n, k, q, m, j)
  OBVIOUS
<1>2. \A x, y : Earlier(x, y) <=> Before(x.path, x.line, x.id, y.path, y.line, y.id)
  BY DEF Earlier
<1> HIDE DEF Before
<1> QED BY <1>1, <1>2 DEF Placed

LEMMA LevelIsAlike ==
  ASSUME NEW a, NEW b, Placed(a), Placed(b), Level(a, b)
  PROVE  a.path = b.path /\ a.line = b.line /\ a.id = b.id
BY DEF Level, Earlier, Placed

LEMMA SubjectsPlaced ==
  ASSUME TypeOK, NEW k \in DOMAIN assets
  PROVE  Subject(k) \in Finding /\ Placed(Subject(k))
<1>1. assets[k] \in Asset
  BY DEF TypeOK
<1>2. assets[k].finding \in Finding
  BY <1>1 DEF Asset
<1> QED BY <1>2 DEF Subject, Finding, Placed

LEMMA CountOfInterval ==
  ASSUME NEW n \in Nat
  PROVE  IsFiniteSet(1..n) /\ Cardinality(1..n) = n
<1>1. 1 \in Int /\ n \in Int
  OBVIOUS
<1>2. IsFiniteSet(1..n) /\ Cardinality(1..n) = IF 1 > n THEN 0 ELSE n - 1 + 1
  BY <1>1, FS_Interval
<1> QED BY <1>2

(* Sorting what is in order: when m of the assets have been written, none of them after *)
(* one that is left, the next one is level with the asset at m + 1.                  *)
LEMMA NextIsLevel ==
  ASSUME TypeOK, OrderInv, NEW L \in SUBSET DOMAIN assets, NEW k \in L,
         \A l \in L : ~Earlier(Subject(l), Subject(k)),
         \A j \in DOMAIN assets \ L, l \in L : ~Earlier(Subject(l), Subject(j))
  PROVE  LET m == Cardinality(DOMAIN assets \ L)
         IN  m \in Nat /\ m + 1 \in DOMAIN assets /\ Level(Subject(k), Subject(m + 1))
<1> DEFINE n == Len(assets)
           C == DOMAIN assets \ L
           m == Cardinality(C)
<1>1. n \in Nat /\ DOMAIN assets = 1..n
  BY DEF TypeOK
<1>2. IsFiniteSet(1..n) /\ Cardinality(1..n) = n
  BY <1>1, CountOfInterval
<1>3. IsFiniteSet(C) /\ m \in Nat /\ m <= n
  <2>1. C \in SUBSET (1..n)
    BY <1>1
  <2> QED BY <1>2, <2>1, FS_Subset, FS_CardinalityType
<1>4. m # n
  <2> SUFFICES ASSUME m = n PROVE FALSE
    OBVIOUS
  <2>1. C \in SUBSET (1..n)
    BY <1>1
  <2>2. 1..n = C
    BY <1>2, <1>3, <2>1, FS_Subset
  <2> QED BY <1>1, <2>2
<1>5. m + 1 \in DOMAIN assets
  BY <1>1, <1>3, <1>4
<1>6. \A i, j \in DOMAIN assets : i <= j => ~Earlier(Subject(j), Subject(i))
  <2>1. \A i, j \in DOMAIN assets : i < j => ~Earlier(Subject(j), Subject(i))
    BY DEF OrderInv, Subject
  <2>2. \A i \in DOMAIN assets : ~Earlier(Subject(i), Subject(i))
    BY SubjectsPlaced, EarlierIsAnOrder
  <2>3. \A i, j \in DOMAIN assets : i <= j => i < j \/ i = j
    BY <1>1
  <2> QED BY <2>1, <2>2, <2>3
<1>7. \A i \in C : i \in DOMAIN assets /\ ~Earlier(Subject(k), Subject(i))
  OBVIOUS
<1>8. \A i \in L : i \in DOMAIN assets /\ ~Earlier(Subject(i), Subject(k))
  OBVIOUS
<1>9. \A i \in DOMAIN assets : i \in C \/ i \in L
  OBVIOUS
<1>10. k \in DOMAIN assets /\ k \notin C
  OBVIOUS
<1>11. C \in SUBSET (1..n)
  BY <1>1
<1> HIDE DEF C, m, n
<1>12. ASSUME Earlier(Subject(k), Subject(m + 1))
       PROVE  FALSE
  <2>1. \A i \in DOMAIN assets : ~Earlier(Subject(k), Subject(i)) => ~(m + 1 <= i)
    <3> SUFFICES ASSUME NEW i \in DOMAIN assets, m + 1 <= i PROVE Earlier(Subject(k), Subject(i))
      OBVIOUS
    <3>1. ~Earlier(Subject(i), Subject(m + 1))
      BY <1>5, <1>6
    <3> QED BY <1>5, <1>10, <1>12, <3>1, SubjectsPlaced, EarlierIsAnOrder
  <2>2. \A i \in C : i \in 1..m
    BY <1>1, <1>3, <1>7, <2>1
  <2>3. k \in 1..m
    <3>1. ~Earlier(Subject(k), Subject(k))
      BY <1>10, SubjectsPlaced, EarlierIsAnOrder
    <3> QED BY <1>1, <1>3, <1>10, <2>1, <3>1
  <2>4. C \in SUBSET (1..m)
    BY <2>2
  <2>5. IsFiniteSet(1..m) /\ Cardinality(1..m) = m
    BY <1>3, CountOfInterval
  <2>6. 1..m = C
    BY <2>4, <2>5, FS_Subset DEF m
  <2> QED BY <1>10, <2>3, <2>6
<1>13. ASSUME Earlier(Subject(m + 1), Subject(k))
       PROVE  FALSE
  <2>1. \A i \in DOMAIN assets : i <= m + 1 => i \in C
    <3> SUFFICES ASSUME NEW i \in DOMAIN assets, i <= m + 1, i \in L PROVE FALSE
      BY <1>9
    <3>1. ~Earlier(Subject(m + 1), Subject(i))
      BY <1>5, <1>6
    <3>2. Earlier(Subject(i), Subject(k))
      BY <1>5, <1>10, <1>13, <3>1, SubjectsPlaced, EarlierIsAnOrder
    <3> QED BY <1>8, <3>2
  <2>2. 1..(m + 1) \in SUBSET C
    BY <1>1, <1>3, <1>5, <2>1
  <2>3. Cardinality(1..(m + 1)) <= Cardinality(C)
    BY <1>3, <2>2, FS_Subset
  <2>4. Cardinality(1..(m + 1)) = m + 1
    BY <1>3, CountOfInterval
  <2> QED BY <1>3, <2>3, <2>4 DEF m
<1> QED BY <1>3, <1>5, <1>12, <1>13 DEF Level, m, C

(* Writing the reports changes nothing that Spec is about. *)
LEMMA ReportsAfterScan == ReportsSpec => Spec
<1>1. ReportsInit => Init
  BY DEF ReportsInit
<1>2. [ReportsNext]_<<vars, written, left>> => [Next]_vars
  BY DEF ReportsNext, WriteReports, WriteComponent
<1> QED BY <1>1, <1>2, PTL DEF ReportsSpec, Spec

(* What WriteComponent does to the components. *)
LEMMA OneComponentMore ==
  ASSUME NEW T, NEW s \in Seq(T), NEW x \in T
  PROVE  /\ Append(s, x) \in Seq(T) /\ Len(Append(s, x)) = Len(s) + 1
         /\ DOMAIN Append(s, x) = 1..(Len(s) + 1)
         /\ \A k \in 1..Len(s) : Append(s, x)[k] = s[k]
         /\ Append(s, x)[Len(s) + 1] = x
<1>1. Append(s, x) \in Seq(T) /\ Len(Append(s, x)) = Len(s) + 1
  BY AppendProperties
<1>2. DOMAIN Append(s, x) = 1..(Len(s) + 1)
  BY <1>1
<1>3. \A k \in 1..Len(s) : Append(s, x)[k] = s[k]
  BY AppendProperties
<1>4. Append(s, x)[Len(s) + 1] = x
  BY AppendProperties
<1> QED BY <1>1, <1>2, <1>3, <1>4

LEMMA CardinalityOfMore ==
  ASSUME NEW D, IsFiniteSet(D), NEW L \in SUBSET D, NEW k \in L
  PROVE  Cardinality(D \ (L \ {k})) = Cardinality(D \ L) + 1
<1>1. D \ (L \ {k}) = (D \ L) \cup {k} /\ k \notin D \ L
  OBVIOUS
<1>2. IsFiniteSet(D \ L)
  <2>1. D \ L \in SUBSET D
    OBVIOUS
  <2> QED BY <2>1, FS_Subset
<1> QED BY <1>1, <1>2, FS_AddElement

LEMMA SortingAgain ==
  ASSUME TypeOK, OrderInv, SortedAgain, NEW k \in left, NextComponent(k), left' = left \ {k},
         written'.cbom = Append(written.cbom, Component(assets[k])), UNCHANGED vars
  PROVE  SortedAgain'
<1> DEFINE D == DOMAIN assets
           s == written.cbom
           m == Cardinality(D \ left)
           T == {Component(assets[j]) : j \in D}
<1>1. assets' = assets /\ D' = D /\ T' = T
  BY DEF vars
<1>2. \A j : Subject(j)' = Subject(j)
  BY <1>1 DEF Subject
<1>3. IsFiniteSet(D) /\ left \in SUBSET D /\ k \in D
  <2>1. Len(assets) \in Nat /\ D = 1..Len(assets)
    BY DEF TypeOK
  <2> QED BY <2>1, CountOfInterval DEF SortedAgain
<1>4. m \in Nat /\ m + 1 \in D /\ Level(Subject(k), Subject(m + 1))
  <2>1. \A l \in left : ~Earlier(Subject(l), Subject(k))
    BY DEF NextComponent
  <2>2. \A j \in DOMAIN assets \ left, l \in left : ~Earlier(Subject(l), Subject(j))
    BY DEF SortedAgain
  <2> QED BY <1>3, <2>1, <2>2, NextIsLevel
<1>5. s \in Seq(T) /\ Component(assets[k]) \in T /\ Len(s) = m
  BY <1>3 DEF SortedAgain
<1>6. /\ s' \in Seq(T) /\ Len(s') = m + 1 /\ DOMAIN s' = 1..(m + 1)
      /\ \A i \in 1..m : s'[i] = s[i]
      /\ s'[m + 1] = Component(assets[k])
  <2>1. s' = Append(s, Component(assets[k]))
    OBVIOUS
  <2> HIDE DEF s, m, T
  <2> QED BY <1>5, <2>1, OneComponentMore
<1>7. Cardinality(D \ left') = m + 1
  BY <1>3, CardinalityOfMore
<1>8. \A i \in DOMAIN s : \E j \in D : s[i] = Component(assets[j]) /\ Level(Subject(j), Subject(i))
  BY DEF SortedAgain
<1>9. DOMAIN s = 1..m
  BY <1>5
<1>10. \A j \in D \ left', l \in left' : ~Earlier(Subject(l), Subject(j))
  BY DEF SortedAgain, NextComponent
<1> HIDE DEF D, s, m, T
<1>11. \A i \in 1..(m + 1) : \E j \in D : s'[i] = Component(assets[j]) /\ Level(Subject(j), Subject(i))
  <2> TAKE i \in 1..(m + 1)
  <2>1. CASE i = m + 1
    BY <1>3, <1>4, <1>6, <2>1
  <2>2. CASE i # m + 1
    <3>1. i \in 1..m
      BY <1>4, <2>2
    <3> QED BY <1>6, <1>8, <1>9, <3>1
  <2> QED BY <2>1, <2>2
<1>12. left' \in SUBSET D
  BY <1>3
<1> USE DEF D, s, T
<1>13. (left \in SUBSET D)' /\ (s \in Seq(T))' /\ (Len(s) = Cardinality(D \ left))'
  BY <1>1, <1>6, <1>7, <1>12
<1>14. (\A i \in DOMAIN s : \E j \in D : s[i] = Component(assets[j]) /\ Level(Subject(j), Subject(i)))'
  BY <1>1, <1>2, <1>6, <1>11 DEF Level, Subject
<1>15. (\A j \in D \ left, l \in left : ~Earlier(Subject(l), Subject(j)))'
  BY <1>1, <1>2, <1>10 DEF Subject
<1> QED BY <1>13, <1>14, <1>15 DEF SortedAgain

LEMMA OnlyTheComponents ==
  \A r, s, m, c, d : r = [sarif |-> s, markdown |-> m, cbom |-> c] =>
                      [r EXCEPT !.cbom = d] = [sarif |-> s, markdown |-> m, cbom |-> d]
OBVIOUS

LEMMA WrittenInvariance == ReportsSpec => []WrittenInv
<1>1. ReportsInit => WrittenInv
  BY DEF ReportsInit, WrittenInv
<1>2. TypeOK /\ OrderInv /\ WrittenInv /\ [ReportsNext]_<<vars, written, left>> => WrittenInv'
  <2> SUFFICES ASSUME TypeOK, OrderInv, WrittenInv, [ReportsNext]_<<vars, written, left>> PROVE WrittenInv'
    OBVIOUS
  <2>1. CASE Next /\ UNCHANGED <<written, left>>
    <3>1. CASE written = << >>
      BY <2>1, <3>1 DEF WrittenInv
    <3>2. CASE written # << >>
      <4>1. UNCHANGED vars
        BY <2>1, <3>2 DEF WrittenInv, Next, LinkFindings, NextAsset, ScoreAll, Terminating
      <4>2. stage' = stage /\ SARIF' = SARIF /\ Markdown' = Markdown
        BY <4>1 DEF vars, SARIF, SARIFRules, SARIFResult, Subject, Markdown, PriorityCounts
      <4>3. SortedAgain' = SortedAgain
        BY <2>1, <4>1 DEF vars, SortedAgain, Subject
      <4> QED BY <2>1, <4>2, <4>3 DEF WrittenInv
    <3> QED BY <3>1, <3>2
  <2>2. CASE WriteReports
    <3>1. /\ stage' = "scored" /\ assets' = assets /\ SARIF' = SARIF /\ Markdown' = Markdown
          /\ written' = [sarif |-> SARIF, markdown |-> Markdown, cbom |-> << >>] /\ left' = DOMAIN assets
      BY <2>2 DEF WriteReports, vars, SARIF, SARIFRules, SARIFResult, Subject, Markdown, PriorityCounts
    <3>2. written'.cbom = << >>
      BY <3>1
    <3>3. DOMAIN assets \ left' = {} /\ Cardinality({}) = 0
      BY <3>1, FS_EmptySet
    <3>4. SortedAgain'
      BY <3>1, <3>2, <3>3 DEF SortedAgain
    <3> QED BY <3>1, <3>2, <3>4 DEF WrittenInv
  <2>3. CASE WriteComponent
    <3>1. PICK k \in left : /\ NextComponent(k) /\ left' = left \ {k}
                            /\ written' = [written EXCEPT !.cbom = Append(@, Component(assets[k]))]
      BY <2>3 DEF WriteComponent
    <3>2. CASE written = << >>
      BY <3>1, <3>2 DEF WrittenInv
    <3>3. CASE written # << >>
      <4>1. UNCHANGED vars
        BY <2>3 DEF WriteComponent
      <4>2. stage' = stage /\ SARIF' = SARIF /\ Markdown' = Markdown
        BY <4>1 DEF vars, SARIF, SARIFRules, SARIFResult, Subject, Markdown, PriorityCounts
      <4>3. /\ stage = "scored" /\ written = [sarif |-> SARIF, markdown |-> Markdown, cbom |-> written.cbom]
            /\ SortedAgain
        BY <3>3 DEF WrittenInv
      <4>4. /\ written'.cbom = Append(written.cbom, Component(assets[k]))
            /\ written' = [sarif |-> SARIF, markdown |-> Markdown, cbom |-> written'.cbom]
        <5>1. written' = [sarif |-> SARIF, markdown |-> Markdown, cbom |-> Append(written.cbom, Component(assets[k]))]
          <6>1. [written EXCEPT !.cbom = Append(written.cbom, Component(assets[k]))] =
                [sarif |-> SARIF, markdown |-> Markdown, cbom |-> Append(written.cbom, Component(assets[k]))]
            <7> DEFINE c == written.cbom
                       d == Append(written.cbom, Component(assets[k]))
            <7>1. written = [sarif |-> SARIF, markdown |-> Markdown, cbom |-> c]
              BY <4>3
            <7> HIDE DEF c, d
            <7>2. [written EXCEPT !.cbom = d] = [sarif |-> SARIF, markdown |-> Markdown, cbom |-> d]
              BY <7>1, OnlyTheComponents
            <7> QED BY <7>2 DEF d
          <6>2. written' = [written EXCEPT !.cbom = Append(written.cbom, Component(assets[k]))]
            BY <3>1
          <6> QED BY <6>1, <6>2
        <5> QED BY <5>1
      <4>5. SortedAgain'
        BY <3>1, <4>1, <4>3, <4>4, SortingAgain
      <4> QED BY <4>2, <4>3, <4>4, <4>5 DEF WrittenInv
    <3> QED BY <3>2, <3>3
  <2>4. CASE UNCHANGED <<vars, written, left>>
    <3>1. stage' = stage /\ SARIF' = SARIF /\ Markdown' = Markdown /\ written' = written /\ SortedAgain' = SortedAgain
      BY <2>4 DEF vars, SARIF, SARIFRules, SARIFResult, Subject, Markdown, PriorityCounts, SortedAgain
    <3> QED BY <3>1 DEF WrittenInv
  <2> QED BY <2>1, <2>2, <2>3, <2>4 DEF ReportsNext
<1> QED BY TypeCorrect, MadeInvariance, ReportsAfterScan, <1>1, <1>2, PTL DEF ReportsSpec
-----------------------------------------------------------------------------
(* What ReportsAgree says, part by part, when every component is written.        *)
AllWritten == TypeOK /\ MadeInv /\ OrderInv /\ ScoredByFormula /\ WrittenInv /\ written # << >> /\ left = {}

LEMMA AsManyOfEach ==
  ASSUME AllWritten
  PROVE  /\ Len(assets) \in Nat /\ DOMAIN assets = 1..Len(assets)
         /\ DOMAIN scored = DOMAIN assets /\ DOMAIN written.cbom = DOMAIN assets
         /\ DOMAIN written.sarif.results = DOMAIN assets /\ DOMAIN written.markdown.rows = DOMAIN assets
<1>1. Len(assets) \in Nat /\ DOMAIN assets = 1..Len(assets)
  BY DEF AllWritten, TypeOK
<1>2. stage = "scored" /\ written.sarif = SARIF /\ written.markdown = Markdown
  BY DEF AllWritten, WrittenInv
<1>3. DOMAIN scored = DOMAIN assets
  BY <1>2 DEF AllWritten, ScoredByFormula
<1>4. /\ written.cbom \in Seq({Component(assets[j]) : j \in DOMAIN assets})
      /\ Len(written.cbom) = Cardinality(DOMAIN assets)
  BY DEF AllWritten, WrittenInv, SortedAgain
<1>5. DOMAIN written.cbom = DOMAIN assets
  BY <1>1, <1>4, CountOfInterval
<1>6. DOMAIN SARIF.results = DOMAIN assets /\ DOMAIN Markdown.rows = DOMAIN assets
  BY DEF SARIF, Markdown
<1> QED BY <1>1, <1>2, <1>3, <1>5, <1>6

(* Assets with one identifier are of one primitive. *)
LEMMA OnePrimitive ==
  ASSUME TypeOK, MadeInv, NEW j \in DOMAIN assets, NEW k \in DOMAIN assets, Subject(j).id = Subject(k).id
  PROVE  Subject(j).prim = Subject(k).prim
<1>1. ASSUME NEW i \in DOMAIN assets
      PROVE  \E c \in DOMAIN Pool : Subject(i).id = Pool[c].id /\ Subject(i).prim = Pool[c].prim
  <2>1. clusters[i] \in SUBSET DOMAIN Pool /\ Made(assets[i], clusters[i])
    BY OneAssetMade
  <2>2. PICK c \in PickCanonical(clusters[i]), s \in Strongest(clusters[i]) :
          assets[i] = Materialize(clusters[i], c, s)
    BY <2>1 DEF Made
  <2>3. c \in clusters[i] /\ s \in clusters[i]
    BY DEF PickCanonical, Strongest
  <2> QED BY <2>1, <2>2, <2>3, MadeOfCanonical DEF Subject
<1>2. PICK c \in DOMAIN Pool : Subject(j).id = Pool[c].id /\ Subject(j).prim = Pool[c].prim
  BY <1>1
<1>3. PICK d \in DOMAIN Pool : Subject(k).id = Pool[d].id /\ Subject(k).prim = Pool[d].prim
  BY <1>1
<1> QED BY <1>2, <1>3, AlikeByIdentifier

(* What a component says of the finding it is about. *)
LEMMA ComponentSays ==
  ASSUME NEW a PROVE Component(a).ref[3] = a.finding.id /\ Component(a).name[1] = a.finding.prim
BY DEF Component

LEMMA SameSubject ==
  ASSUME AllWritten, NEW k \in DOMAIN assets
  PROVE  written.cbom[k].ref[3] = Subject(k).id /\ written.cbom[k].name[1] = Subject(k).prim
<1>1. TypeOK /\ MadeInv /\ k \in DOMAIN written.cbom
  BY AsManyOfEach DEF AllWritten
<1>2. PICK j \in DOMAIN assets : written.cbom[k] = Component(assets[j]) /\ Level(Subject(j), Subject(k))
  BY <1>1 DEF AllWritten, WrittenInv, SortedAgain
<1>3. written.cbom[k].ref[3] = Subject(j).id /\ written.cbom[k].name[1] = Subject(j).prim
  BY <1>2, ComponentSays DEF Subject
<1>4. Subject(j).id = Subject(k).id
  BY <1>1, <1>2, SubjectsPlaced, LevelIsAlike
<1>5. Subject(j).prim = Subject(k).prim
  BY <1>1, <1>4, OnePrimitive
<1> QED BY <1>3, <1>4, <1>5

(* One result and its row. *)
LEMMA RowAndResult ==
  ASSUME AllWritten, NEW k \in DOMAIN assets
  PROVE  LET result == written.sarif.results[k]
             row == written.markdown.rows[k]
         IN  /\ result = SARIFResult(k)
             /\ row.path = Subject(k).path /\ row.line = Subject(k).line /\ row.prim = Subject(k).prim
             /\ row.priority = scored[k] /\ row.class = assets[k].class
<1>1. written.sarif = SARIF /\ written.markdown = Markdown
  BY DEF AllWritten, WrittenInv
<1>2. SARIF.results[k] = SARIFResult(k)
  BY DEF SARIF
<1>3. LET row == Markdown.rows[k]
      IN  /\ row.path = Subject(k).path /\ row.line = Subject(k).line /\ row.prim = Subject(k).prim
          /\ row.priority = scored[k] /\ row.class = assets[k].class
  BY DEF Markdown
<1> QED BY <1>1, <1>2, <1>3

LEMMA ResultSays ==
  ASSUME NEW k
  PROVE  /\ SARIFResult(k).id = Subject(k).id /\ SARIFResult(k).path = Subject(k).path
         /\ SARIFResult(k).priority = scored[k] /\ SARIFResult(k).class = assets[k].class
         /\ SARIFResult(k).rule = RuleID(Subject(k)) /\ SARIFResult(k).level = PriorityToLevel(scored[k])
         /\ SARIFResult(k).region = Region(Subject(k))
BY DEF SARIFResult

LEMMA RegionInLine ==
  ASSUME NEW f \in Finding
  PROVE  Region(f) = << >> \/ (Region(f)[1] = f.line /\ Region(f)[2] > 0)
<1>1. f.column \in Nat
  BY DEF Finding
<1>2. Max({f.column, 1}) > 0
  <2>1. \E x \in {f.column, 1} : \A y \in {f.column, 1} : x >= y
    BY <1>1
  <2>2. Max({f.column, 1}) >= 1 /\ Max({f.column, 1}) \in {f.column, 1}
    BY <1>1, <2>1 DEF Max
  <2> QED BY <1>1, <2>2
<1> QED BY <1>2 DEF Region

(* --fail-on and the levels of SARIF draw the line in the same place. *)
LEMMA LevelsAndThresholds ==
  ASSUME NEW p \in Priorities
  PROVE  /\ PriorityToLevel(p) = "error" <=> MeetsFailOn(p, "high")
         /\ PriorityToLevel(p) # "note" <=> MeetsFailOn(p, "medium")
<1>1. Rank("low") = 1 /\ Rank("medium") = 2 /\ Rank("high") = 3 /\ Rank("critical") = 4
  BY DEF Rank
<1>2. /\ PriorityToLevel("low") = "note" /\ PriorityToLevel("medium") = "warning"
      /\ PriorityToLevel("high") = "error" /\ PriorityToLevel("critical") = "error"
  BY DEF PriorityToLevel
<1>3. /\ MeetsFailOn(p, "high") <=> Rank(p) >= 3
      /\ MeetsFailOn(p, "medium") <=> Rank(p) >= 2
  BY <1>1 DEF MeetsFailOn, Priorities
<1>4. p = "low" \/ p = "medium" \/ p = "high" \/ p = "critical"
  BY DEF Priorities
<1> QED BY <1>1, <1>2, <1>3, <1>4

(* Where nothing is scored, nothing was found. *)
LEMMA NothingScored ==
  ASSUME TypeOK, MadeInv, stage = "scored", assets = << >>
  PROVE  found = {}
<1>1. clusters = << >> /\ Range(clusters) = {}
  <2>1. clusters \in Seq((SUBSET found) \ {{}}) /\ Len(clusters) = 0
    BY DEF TypeOK, MadeInv
  <2>2. clusters = << >>
    BY <2>1, EmptySeq
  <2> QED BY <2>2 DEF Range
<1>2. Components = {}
  BY <1>1 DEF MadeInv
<1>3. \A f \in found : FALSE
  BY <1>2, LinksInFound, ComponentsCover DEF Components
<1> QED BY <1>3

(* ReportsAgree: whatever is found, the SARIF results, the CBOM components and the rows *)
(* of the Markdown report are about the same assets in the same order, and the levels   *)
(* in SARIF are those of --fail-on, although WriteCBOM sorts once more, with a sort     *)
(* that is not stable.                                                            *)
THEOREM ReportsTellOneStory == ReportsSpec => []ReportsAgree
<1>1. TypeOK /\ MadeInv /\ OrderInv /\ ScoredByFormula /\ WrittenInv => ReportsAgree
  <2> SUFFICES ASSUME AllWritten PROVE ReportsAgree
    BY DEF AllWritten, ReportsAgree
  <2> DEFINE D == DOMAIN assets
             results == written.sarif.results
             rows == written.markdown.rows
  <2>1. /\ TypeOK /\ MadeInv /\ OrderInv /\ stage = "scored"
        /\ written.sarif = SARIF /\ written.markdown = Markdown
    BY DEF AllWritten, WrittenInv
  <2>2. DOMAIN results = D /\ DOMAIN rows = D /\ DOMAIN written.cbom = D /\ DOMAIN scored = D
    BY AsManyOfEach
  <2>3. \A k \in D : /\ results[k].id = Subject(k).id /\ results[k].path = Subject(k).path
                     /\ results[k].priority = scored[k] /\ results[k].class = assets[k].class
                     /\ results[k].rule = RuleID(Subject(k)) /\ results[k].level = PriorityToLevel(scored[k])
                     /\ results[k].region = Region(Subject(k))
    BY RowAndResult, ResultSays
  <2>4. \A k \in D : /\ rows[k].path = Subject(k).path /\ rows[k].line = Subject(k).line
                     /\ rows[k].prim = Subject(k).prim
                     /\ rows[k].priority = scored[k] /\ rows[k].class = assets[k].class
    BY RowAndResult
  <2>5. \A k \in D : Subject(k) \in Finding /\ Placed(Subject(k))
    BY <2>1, SubjectsPlaced
  <2>6. \A k \in D : scored[k] \in Priorities
    BY <2>1, <2>2 DEF TypeOK
  <2>7. \A k \in D : written.cbom[k].ref[3] = results[k].id /\ written.cbom[k].name[1] = rows[k].prim
    BY <2>3, <2>4, SameSubject
  <2>8. \A k \in D : <<rows[k].path, rows[k].priority, rows[k].class>> =
                     <<results[k].path, results[k].priority, results[k].class>>
    BY <2>3, <2>4
  <2>9. \A k \in D : results[k].rule \in DOMAIN written.sarif.rules
    BY <2>1, <2>3 DEF SARIF, SARIFRules
  <2>10. \A k \in D : results[k].region = << >>
                      \/ (results[k].region[1] = rows[k].line /\ results[k].region[2] > 0)
    BY <2>3, <2>4, <2>5, RegionInLine
  <2>11. \A k, l \in D : k < l => rows[k].path < rows[l].path
                                  \/ (rows[k].path = rows[l].path /\ rows[k].line <= rows[l].line)
    <3> SUFFICES ASSUME NEW k \in D, NEW l \in D, k < l
                 PROVE  Subject(k).path < Subject(l).path
                        \/ (Subject(k).path = Subject(l).path /\ Subject(k).line <= Subject(l).line)
      BY <2>4
    <3>1. ~Earlier(Subject(l), Subject(k))
      BY <2>1 DEF OrderInv, Subject
    <3> QED BY <2>5, <3>1 DEF Placed, Earlier
  <2>12. \A p \in Priorities :
           written.markdown.counts[p] = Cardinality({k \in D : results[k].priority = p})
    <3> TAKE p \in Priorities
    <3>1. written.markdown.counts[p] = Cardinality({k \in DOMAIN scored : scored[k] = p})
      BY <2>1 DEF Markdown, PriorityCounts
    <3>2. {k \in DOMAIN scored : scored[k] = p} = {k \in D : results[k].priority = p}
      BY <2>2, <2>3
    <3> QED BY <3>1, <3>2
  <2>13. written.markdown.reported = Len(results)
    <3>1. Len(assets) \in Nat /\ D = 1..Len(assets) /\ Len(results) = Len(assets)
      <4>1. Len(assets) \in Nat /\ D = 1..Len(assets)
        BY AsManyOfEach
      <4>2. results = [k \in 1..Len(assets) |-> SARIFResult(k)]
        BY <2>1, <4>1 DEF SARIF
      <4> QED BY <4>1, <4>2
    <3>2. written.markdown.reported = IF scored # << >> THEN Len(scored) ELSE Cardinality(found)
      BY <2>1 DEF Markdown
    <3>3. scored \in Seq(Priorities) /\ assets \in Seq(Asset)
      BY <2>1 DEF TypeOK
    <3>4. Len(scored) = Len(assets)
      BY <2>2, <3>1, <3>3
    <3>5. CASE scored = << >>
      <4>1. Len(assets) = 0 /\ assets = << >>
        BY <3>3, <3>4, <3>5, EmptySeq
      <4>2. found = {} /\ Cardinality({}) = 0
        BY <2>1, <4>1, NothingScored, FS_EmptySet
      <4> QED BY <3>1, <3>2, <3>5, <4>1, <4>2
    <3> QED BY <3>1, <3>2, <3>4, <3>5
  <2>14. \A k \in D : /\ results[k].level = "error" <=> MeetsFailOn(scored[k], "high")
                      /\ results[k].level # "note" <=> MeetsFailOn(scored[k], "medium")
    BY <2>3, <2>6, LevelsAndThresholds
  <2> HIDE DEF D, results, rows
  <2>15. /\ (\E k \in DOMAIN results : results[k].level = "error")
              <=> (\E k \in DOMAIN scored : MeetsFailOn(scored[k], "high"))
         /\ (\E k \in DOMAIN results : results[k].level # "note")
              <=> (\E k \in DOMAIN scored : MeetsFailOn(scored[k], "medium"))
    BY <2>2, <2>14
  <2> QED BY <2>2, <2>7, <2>8, <2>9, <2>10, <2>11, <2>12, <2>13, <2>15 DEF ReportsAgree, results, rows
<1> QED BY TypeCorrect, MadeInvariance, ScoredByFormulaInvariant, ReportsAfterScan, WrittenInvariance, <1>1, PTL
=============================================================================
