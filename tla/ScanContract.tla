---------------------------- MODULE ScanContract ----------------------------
(***************************************************************************)
(* What pipeline.Run promises its caller, with no goroutine in sight: it    *)
(* answers once, and the answer is either a failure, allowed only when the  *)
(* scan was interrupted or could not start, or one listing of everything    *)
(* the detectors report, in the documented order.  The number of workers    *)
(* and the order in which the jobs ran do not occur in this module.         *)
(***************************************************************************)
EXTENDS Integers, Sequences, FiniteSets, Functions

CONSTANTS
  Reports,          \* the occurrences of findings: one per finding a job emits
  ReportOf,         \* ReportOf[o] is the finding at occurrence o
  Complaints,       \* the occurrences of warnings
  ComplaintOf,      \* ComplaintOf[o] is the text of the warning, by its rank
  Precedes(_, _)    \* the documented order of findings, as a strict order

VARIABLES
  mayFail,          \* the context was cancelled, or the tree cannot be walked
  outcome           \* what Run has returned, if it has

(* `list' holds the values val[o] of all the occurrences o \in occ, each once. *)
Lists(list, occ, val) ==
  \E p \in Bijection(DOMAIN list, occ) : \A i \in DOMAIN list : list[i] = val[p[i]]

NoOutcome == [kind |-> "none", findings |-> << >>, warnings |-> << >>]
Failure   == [kind |-> "failed", findings |-> << >>, warnings |-> << >>]

InOrder(s) == \A i, j \in DOMAIN s : i < j => ~Precedes(s[j], s[i])
Ascending(s) == \A i, j \in DOMAIN s : i < j => s[i] <= s[j]

IsAnswer(r) ==
  /\ r.kind = "ok"
  /\ Lists(r.findings, Reports, ReportOf)
  /\ InOrder(r.findings)
  /\ Lists(r.warnings, Complaints, ComplaintOf)
  /\ Ascending(r.warnings)

Answers ==
  LET listings(occ, val) ==
        {[i \in 1..Cardinality(occ) |-> val[p[i]]] : p \in Bijection(1..Cardinality(occ), occ)}
  IN  {r \in [kind : {"ok"}, findings : listings(Reports, ReportOf),
              warnings : listings(Complaints, ComplaintOf)] : IsAnswer(r)}

Init == mayFail \in BOOLEAN /\ outcome = NoOutcome

Interrupt == mayFail' = TRUE /\ UNCHANGED outcome

Fail ==
  /\ outcome = NoOutcome
  /\ mayFail
  /\ outcome' = Failure
  /\ UNCHANGED mayFail

Succeed ==
  /\ outcome = NoOutcome
  /\ outcome' \in Answers
  /\ UNCHANGED mayFail

Next == Interrupt \/ Fail \/ Succeed

vars == <<mayFail, outcome>>

Spec == Init /\ [][Next]_vars /\ WF_vars(Fail \/ Succeed)
=============================================================================
