----------------------------- MODULE Correlate ------------------------------
(***************************************************************************)
(* From findings to scored assets: correlate.AllLinks (internal/correlate/     *)
(* correlate.go) and score.All, on the sorted findings of a scan.  Which        *)
(* findings Link puts together is computed here as the connected components of *)
(* shouldLink; module UnionFind shows that its union-find computes those.  A    *)
(* finding is its index in the pool, a cluster is the set of its members.       *)
(***************************************************************************)
EXTENDS Risk, Connected, FiniteSets, SequencesExt

CONSTANTS
  Pool,         \* the findings considered, as sortFindings orders them
  Modules       \* the import paths and module paths in them, as sequences of names

Finding ==
  [id : Nat, path : Nat, dir : Seq(STRING), marks : SUBSET Marks, line : Nat, column : Nat,
   source : Sources, type : AssetTypes, prim : STRING, keySize : Nat, curve : STRING,
   signs : BOOLEAN, rule : Modules, package : Modules, module : Modules, conf : Confidences]

ASSUME PoolAssumption == Pool \in Seq(Finding)

(* model.FindingID: the identifier is a hash of the detector, the rule, the path, the *)
(* line, the primitive and the parameters, so findings that share one are alike in    *)
(* what follows from these.  The column and the confidence are not hashed.           *)
Identified ==
  {"source", "rule", "path", "dir", "line", "prim", "keySize", "curve", "package", "module"}

ASSUME IdAssumption ==
  \A k, l \in DOMAIN Pool :
    Pool[k].id = Pool[l].id => \A field \in Identified : Pool[k][field] = Pool[l][field]

VARIABLES
  found,        \* Result.Findings: some of the pool, in its order
  stage,        \* what has been computed: "findings", "clusters" or "scored"
  unsorted,     \* the clusters that Link has still to put in order
  clusters,     \* the clusters of Link so far
  assets,       \* Result.Assets so far
  scored        \* the priorities in Result.Scored

vars == <<found, stage, unsorted, clusters, assets, scored>>

Init ==
  /\ found \in SUBSET DOMAIN Pool
  /\ stage = "findings"
  /\ unsorted = {}
  /\ clusters = << >>
  /\ assets = << >>
  /\ scored = << >>
-----------------------------------------------------------------------------
(* shouldLink and its three keys. *)

SamePrimitive(a, b) ==
  /\ Canonical(a.prim) = Canonical(b.prim)
  /\ Canonical(a.prim) \notin {"", "UNKNOWN"}

(* fingerprint: the key size if there is one, or else the curve.                *)
Detail(f) == IF f.keySize # 0 THEN <<f.keySize, "">> ELSE <<0, f.curve>>
Bare == <<0, "">>

PrimitiveParamLink(a, b) ==
  /\ SamePrimitive(a, b)
  /\ Detail(a) = Detail(b) \/ Bare \in {Detail(a), Detail(b)}

(* The package parameter of the rule, or what the identifier of a Go rule says. *)
InferredPackage(f) ==
  IF f.package # << >> THEN f.package
  ELSE IF IsPrefix(<<"go", "crypto">>, f.rule) /\ Len(f.rule) > 2
       THEN <<"crypto", f.rule[3]>>
       ELSE << >>

ImportDepLink(a, b) ==
  \E src, dep \in {a, b} :
    /\ src.source = "source-code" /\ dep.source = "dependency"
    /\ dep.module # << >>
    /\ \/ /\ InferredPackage(src) # << >>
          /\ \/ IsPrefix(dep.module, InferredPackage(src))
             \/ IsPrefix(InferredPackage(src), dep.module)
       \/ SamePrimitive(src, dep)

(* path.Dir of a directory: the top is its own parent. *)
Parent(dir) == IF dir = << >> THEN dir ELSE Front(dir)

PathProximityLink(a, b) ==
  /\ {a.source, b.source} = {"certificate", "configuration"}
  /\ Canonical(a.prim) = Canonical(b.prim)
  /\ a.dir = b.dir \/ Parent(a.dir) = b.dir \/ Parent(b.dir) = a.dir

ShouldLink(a, b) == PrimitiveParamLink(a, b) \/ ImportDepLink(a, b) \/ PathProximityLink(a, b)
-----------------------------------------------------------------------------
SourceRank(f) ==
  CASE f.source = "source-code"   -> 4
    [] f.source = "certificate"   -> 3
    [] f.source = "configuration" -> 2
    [] OTHER                      -> 1

(* Path, then line, then identifier. *)
Earlier(a, b) ==
  \/ a.path < b.path
  \/ a.path = b.path /\ a.line < b.line
  \/ a.path = b.path /\ a.line = b.line /\ a.id < b.id

MoreTelling(a, b) ==
  SourceRank(a) > SourceRank(b) \/ (SourceRank(a) = SourceRank(b) /\ Earlier(a, b))

(* pickCanonical: those that are alike in all this are in an order that sort.Slice, *)
(* which is not stable, is free to choose.                                        *)
PickCanonical(members) ==
  {k \in members : \A l \in members : ~MoreTelling(Pool[l], Pool[k])}

ClassRank(class) ==
  CASE class = "broken"   -> 4
    [] class = "weakened" -> 3
    [] class = "unknown"  -> 2
    [] OTHER              -> 1

(* By class, and in the order of the members: identifier, then path. *)
Stronger(a, b) ==
  \/ ClassRank(ClassOf(a)) > ClassRank(ClassOf(b))
  \/ /\ ClassRank(ClassOf(a)) = ClassRank(ClassOf(b))
     /\ a.id < b.id \/ (a.id = b.id /\ a.path < b.path)

(* Fault: the weakest member gives the class. *)
WeakestMember(members) ==
  {k \in members : \A l \in members : ~Stronger(Pool[k], Pool[l])}

Strongest(members) ==
  {k \in members : \A l \in members : ~Stronger(Pool[l], Pool[k])}

(* Fault: any finding in source code makes the confidence high. *)
RaisesForAnySource(members) ==
  /\ \E k \in members : Pool[k].source = "source-code"
  /\ \E k \in members : Pool[k].source = "dependency"

ShouldRaiseConfidence(members) ==
  /\ \E k \in members : Pool[k].source = "source-code" /\ Pool[k].conf = "high"
  /\ \E k \in members : Pool[k].source = "dependency"

(* Fault: the first member is left out, canonical or not. *)
RelatedButFirst(members, canonical) == members \ {Min(members)}

(* The members whose identifiers are listed.  One whose identifier is that of the  *)
(* canonical member is left out.                                                *)
Related(members, canonical) == {k \in members : Pool[k].id # Pool[canonical].id}

(* Materialize: the canonical member, with the class, rationale and             *)
(* recommendation of the strongest (all three hang on its primitive).           *)
Materialize(members, canonical, strongest) ==
  [finding |-> [Pool[canonical] EXCEPT !.conf =
                  IF ShouldRaiseConfidence(members) THEN "high" ELSE @],
   class   |-> ClassOf(Pool[strongest]),
   advice  |-> Canonical(Pool[strongest].prim),
   related |-> Related(members, canonical)]
-----------------------------------------------------------------------------
(* The stages of Run after the findings are sorted. *)

(* Link up to the grouping. *)
Links ==
  {e \in {<<k, l>> : k \in found, l \in found} : e[1] < e[2] /\ ShouldLink(Pool[e[1]], Pool[e[2]])}

LinkFindings ==
  /\ stage = "findings" /\ stage' = "clusters"
  /\ unsorted' = ComponentsOf(found, Links)
  /\ UNCHANGED <<found, clusters, assets, scored>>

(* Fault: clusters stay in the order of their first findings. *)
FirstFindingsInOrder(members, canonical) ==
  \A others \in unsorted : Min(members) <= Min(others)

(* A cluster that may be next in the order of the canonical members. *)
NextInOrder(members, canonical) ==
  \A others \in unsorted : \A k \in PickCanonical(others) : ~Earlier(Pool[k], Pool[canonical])

(* The next cluster that Link returns, and what AllLinks makes of it.           *)
NextAsset ==
  /\ stage = "clusters"
  /\ \E members \in unsorted : \E canonical \in PickCanonical(members), strongest \in Strongest(members) :
       /\ NextInOrder(members, canonical)
       /\ unsorted' = unsorted \ {members}
       /\ clusters' = Append(clusters, members)
       /\ assets' = Append(assets, Materialize(members, canonical, strongest))
  /\ UNCHANGED <<found, stage, scored>>

ScoreAll ==
  /\ stage = "clusters" /\ unsorted = {}
  /\ stage' = "scored"
  /\ scored' = [k \in DOMAIN assets |-> Priority(Score(assets[k].finding, assets[k].class))]
  /\ UNCHANGED <<found, unsorted, clusters, assets>>

Terminating == stage = "scored" /\ UNCHANGED vars

Next == LinkFindings \/ NextAsset \/ ScoreAll \/ Terminating

Spec == Init /\ [][Next]_vars
-----------------------------------------------------------------------------
Asset ==
  [finding : Finding, class : QuantumClasses, advice : {Canonical(Pool[k].prim) : k \in DOMAIN Pool},
   related : SUBSET DOMAIN Pool]

TypeOK ==
  /\ found \in SUBSET DOMAIN Pool
  /\ stage \in {"findings", "clusters", "scored"}
  /\ unsorted \in SUBSET ((SUBSET found) \ {{}})
  /\ clusters \in Seq((SUBSET found) \ {{}})
  /\ assets \in Seq(Asset)
  /\ scored \in Seq(Priorities)

(* The identifiers an asset accounts for: its own and those it relates to.       *)
Mentions(asset) == {asset.finding.id} \cup {Pool[k].id : k \in asset.related}

(* Every finding is accounted for, by one asset alone when its primitive is known, *)
(* and findings that belong together by the same one; an asset mentions nothing    *)
(* that was not found.                                                            *)
OneStoryEach ==
  stage = "scored" =>
    /\ \A f \in found : \E k \in DOMAIN assets : Pool[f].id \in Mentions(assets[k])
    /\ \A f \in found : \A k, l \in DOMAIN assets :
         Pool[f].id \in Mentions(assets[k]) \cap Mentions(assets[l]) =>
           k = l \/ Canonical(Pool[f].prim) \in {"", "UNKNOWN"}
    /\ \A f, g \in found : ShouldLink(Pool[f], Pool[g]) =>
         \A k \in DOMAIN assets : Pool[f].id \in Mentions(assets[k]) <=> Pool[g].id \in Mentions(assets[k])
    /\ \A k \in DOMAIN assets : Mentions(assets[k]) \subseteq {Pool[f].id : f \in found}

(* Correlation never plays a finding down: the asset that accounts for it has a   *)
(* class at least as bad as the finding has on its own.                          *)
NeverUnderstated ==
  \A k \in DOMAIN assets : \A f \in found :
    Pool[f].id \in Mentions(assets[k]) => ClassRank(assets[k].class) >= ClassRank(ClassOf(Pool[f]))

(* High confidence is earned: some finding behind the asset has it by itself.     *)
ConfidenceEarned ==
  \A k \in DOMAIN assets :
    assets[k].finding.conf = "high" =>
      \E f \in found : Pool[f].id \in Mentions(assets[k]) /\ Pool[f].conf = "high"

(* The priority never contradicts the class, whatever the path heuristics say:   *)
(* what is broken is at least medium, and what is safe at most medium; only what  *)
(* is broken is critical.                                                        *)
ClassBoundsPriority ==
  \A k \in DOMAIN scored :
    /\ assets[k].class = "broken" => Rank(scored[k]) >= Rank("medium")
    /\ assets[k].class = "safe" => Rank(scored[k]) <= Rank("medium")
    /\ scored[k] = "critical" => assets[k].class = "broken"
=============================================================================
