----------------------------- MODULE DetectCall ------------------------------
(***************************************************************************)
(* One call of Detect of a detector that keeps nothing between calls.  The   *)
(* modules Certs, Config and SourceRules say what each does with the content; *)
(* here is what they share: the context is looked at once, the file is read    *)
(* whole, and the call returns findings, an error, or both.                    *)
(***************************************************************************)
EXTENDS Integers, Sequences, FiniteSets

CONSTANTS Jobs        \* pairs of a detector and a file that it handles

VARIABLES
  job,          \* what Detect is called with
  pc,           \* "read", "structure", "scan" or "returned"
  at,           \* the block, line or rule that is next
  within,       \* the name or call in it that is next
  findings,     \* what has been found so far
  problems,     \* the blocks or rules that were refused so far
  error         \* what the returned error is about, or "nil"

vars == <<job, pc, at, within, findings, problems, error>>

File == job.file

(* A finding of what is at a place of the file.  A size that is not known is 0. *)
Found(place, rule, prim, size, conf) ==
  [place |-> place, rule |-> rule, prim |-> prim, size |-> size, conf |-> conf]

Init ==
  /\ job \in Jobs
  /\ pc = "read"
  /\ at = 1
  /\ within = 1
  /\ findings = << >>
  /\ problems = {}
  /\ error = "nil"

(* The detector is in its loop over the content. *)
Scanning(detector) == pc = "scan" /\ job.detector = detector

Return(e) == pc' = "returned" /\ error' = e

(* ctx.Done() before the file is read, or os.ReadFile fails. *)
ReturnUnread ==
  /\ pc = "read"
  /\ \E e \in {"cancelled", "unreadable"} : Return(e)
  /\ UNCHANGED <<job, at, within, findings, problems>>

ReadFile ==
  /\ pc = "read"
  /\ pc' = IF job.detector = "config" THEN "structure" ELSE "scan"
  /\ UNCHANGED <<job, at, within, findings, problems, error>>

Terminating == pc = "returned" /\ UNCHANGED vars

(* A loop over the names or calls in S, in order: k is the next one, ... *)
NextOf(S, k) == k \in S /\ k >= within /\ \A j \in S : j >= within => k <= j

(* ... or there is none. *)
NoneLeft(S) == \A k \in S : k < within
=============================================================================
