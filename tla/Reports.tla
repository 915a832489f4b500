------------------------------- MODULE Reports --------------------------------
(***************************************************************************)
(* What the reports say of the scored assets of a scan (internal/report):     *)
(* SARIF for code scanning, a CBOM in CycloneDX, and Markdown for people.  The  *)
(* JSON report is Result itself.  Each field is modelled that another one       *)
(* depends on; texts are left out, and a name made of parts is the sequence of  *)
(* its parts.                                                                *)
(***************************************************************************)
EXTENDS Correlate

VARIABLES
  written,      \* the reports, or << >> before they are written
  left          \* the assets that WriteCBOM has still to put in order

(* The finding that stands for the k-th asset. *)
Subject(k) == assets[k].finding

PriorityToLevel(priority) ==
  CASE priority \in {"critical", "high"} -> "error"
    [] priority = "medium" -> "warning"
    [] OTHER -> "note"

Unspecified == <<"cryptarium", "unspecified">>
RuleID(f) == IF f.rule = << >> THEN Unspecified ELSE f.rule

(* collectSARIFRules: the first asset of a rule describes it.  They are sorted by    *)
(* the identifier, which is the key of the map, so their order is left out.         *)
SARIFRules ==
  [id \in {RuleID(Subject(k)) : k \in DOMAIN assets} |->
     LET k == Min({j \in DOMAIN assets : RuleID(Subject(j)) = id})
     IN  [description |-> <<Subject(k).prim, assets[k].class>>, help |-> assets[k].advice,
          level |-> PriorityToLevel(scored[k])]]

(* scoredToSARIFResult.  A region needs a line, and its columns begin at 1.          *)
Region(f) == IF f.line > 0 THEN <<f.line, Max({f.column, 1})>> ELSE << >>

SARIFResult(k) ==
  [rule |-> RuleID(Subject(k)), level |-> PriorityToLevel(scored[k]), id |-> Subject(k).id,
   confidence |-> Subject(k).conf, class |-> assets[k].class, priority |-> scored[k],
   path |-> Subject(k).path, region |-> Region(Subject(k))]

SARIF == [rules |-> SARIFRules, results |-> [k \in DOMAIN assets |-> SARIFResult(k)]]

(* primitiveKind goes by the name as it was found, not by the canonical one.         *)
PrimitiveKind(prim) ==
  CASE prim \in {"AES", "ChaCha20", "3DES", "DES"} -> "ae"
    [] prim \in {"SHA-1", "SHA-256", "SHA-384", "SHA-512", "MD5"} -> "hash"
    [] prim = "RSA" -> "pke"
    [] prim \in {"ECDSA", "EdDSA", "DSA", "ML-DSA", "SLH-DSA"} -> "signature"
    [] prim \in {"DH", "ECDH", "ML-KEM"} -> "kem"
    [] OTHER -> "other"

(* nistLevel *)
SecurityLevel(class) == IF class = "safe" THEN 1 ELSE 0

(* assetToComponent *)
Component(a) ==
  [ref |-> <<"crypto", a.finding.type, a.finding.id>>, name |-> <<a.finding.prim, Detail(a.finding)>>,
   type |-> a.finding.type, primitive |-> PrimitiveKind(a.finding.prim), parameter |-> Detail(a.finding),
   signs |-> a.finding.signs, level |-> SecurityLevel(a.class)]

(* priorityCounts *)
PriorityCounts == [p \in Priorities |-> Cardinality({k \in DOMAIN scored : scored[k] = p})]

(* WriteMarkdown, with a row for each asset. *)
Markdown ==
  [reported |-> IF scored # << >> THEN Len(scored) ELSE Cardinality(found),
   counts |-> PriorityCounts,
   rows |-> [k \in DOMAIN assets |->
               [priority |-> scored[k], class |-> assets[k].class, path |-> Subject(k).path,
                line |-> Subject(k).line, prim |-> Subject(k).prim, advice |-> assets[k].advice,
                related |-> Cardinality(assets[k].related)]]]
-----------------------------------------------------------------------------
ReportsInit == Init /\ written = << >> /\ left = {}

(* Write gives WriteCBOM all the assets, ... *)
WriteReports ==
  /\ stage = "scored" /\ written = << >>
  /\ written' = [sarif |-> SARIF, markdown |-> Markdown, cbom |-> << >>]
  /\ left' = DOMAIN assets
  /\ UNCHANGED vars

(* ... which sorts them again: the next one is one that no other is earlier than.   *)
NextComponent(k) == \A l \in left : ~Earlier(Subject(l), Subject(k))

WriteComponent ==
  /\ \E k \in left :
       /\ NextComponent(k)
       /\ left' = left \ {k}
       /\ written' = [written EXCEPT !.cbom = Append(@, Component(assets[k]))]
  /\ UNCHANGED vars

ReportsNext ==
  \/ Next /\ UNCHANGED <<written, left>>
  \/ WriteReports
  \/ WriteComponent

ReportsSpec == ReportsInit /\ [][ReportsNext]_<<vars, written, left>>
-----------------------------------------------------------------------------
(* The reports of one scan tell one story.  The k-th SARIF result, CBOM component    *)
(* and row of the Markdown report are about the same asset, in the order of the       *)
(* paths, although WriteCBOM sorts and the others do not.  Each asset is counted once *)
(* under its priority.  No SARIF result is without the description of its rule, or in  *)
(* another line than Markdown says, and an error in SARIF is what --fail-on high       *)
(* exits 1 for.                                                                    *)
ReportsAgree ==
  written # << >> /\ left = {} =>
    LET results == written.sarif.results
        rows == written.markdown.rows
    IN  /\ DOMAIN results = DOMAIN written.cbom /\ DOMAIN rows = DOMAIN results
        /\ \A k \in DOMAIN results :
             /\ written.cbom[k].ref[3] = results[k].id
             /\ written.cbom[k].name[1] = rows[k].prim
             /\ <<rows[k].path, rows[k].priority, rows[k].class>> =
                <<results[k].path, results[k].priority, results[k].class>>
             /\ results[k].rule \in DOMAIN written.sarif.rules
             /\ results[k].region = << >> \/ (results[k].region[1] = rows[k].line /\ results[k].region[2] > 0)
        /\ \A k, l \in DOMAIN rows :
             k < l => rows[k].path < rows[l].path
                      \/ (rows[k].path = rows[l].path /\ rows[k].line <= rows[l].line)
        /\ \A p \in Priorities :
             written.markdown.counts[p] = Cardinality({k \in DOMAIN results : results[k].priority = p})
        /\ written.markdown.reported = Len(results)
        /\ (\E k \in DOMAIN results : results[k].level = "error")
             <=> (\E k \in DOMAIN scored : MeetsFailOn(scored[k], "high"))
        /\ (\E k \in DOMAIN results : results[k].level # "note")
             <=> (\E k \in DOMAIN scored : MeetsFailOn(scored[k], "medium"))
=============================================================================
