------------------------------ MODULE Pipeline ------------------------------
(***************************************************************************)
(* pipeline.Run (internal/pipeline/pipeline.go): walk the tree, start one   *)
(* goroutine per (file, detector) pair, let at most `workers' of them run   *)
(* Detect at a time, gather findings and warnings under a mutex, wait for   *)
(* all of them, look at the context once more, sort and return.            *)
(*                                                                         *)
(* Strings are ranks: a path, a rule identifier, a finding identifier or    *)
(* a warning text is the natural number of its place in string order.       *)
(***************************************************************************)
EXTENDS Integers, Sequences, FiniteSets, Functions

CONSTANTS
  Files,                \* the sequence of files Walk returns, in path order
  Detectors,            \* the sequence of active detectors
  Handles,              \* the pairs <<file, detector>> with d.Handles(f)
  Emits,                \* Emits[<<f, d>>]: the findings Detect returns
  Complains,            \* Complains[<<f, d>>]: its error as a warning, or NoWarning
  ConcurrencyChoices,   \* the values of Options.Concurrency considered
  NumCPU                \* runtime.NumCPU()

(* A finding: the five fields the comparator of sortFindings reads, and a    *)
(* body that stands for all the others.                                      *)
Finding == [path : Nat, line : Nat, column : Nat, rule : Nat, id : Nat, body : Nat]

NoWarning == 0
CtxWarning == 1         \* "path: context canceled", the error of a cut Detect
NoJob == 0

ASSUME FilesAssumption == Files \in Seq(Nat)
ASSUME DetectorsAssumption == Detectors \in Seq(STRING)
ASSUME HandlesAssumption == Handles \subseteq (Nat \X STRING)
ASSUME EmitsAssumption == Emits \in [Handles -> Seq(Finding)]
ASSUME ComplainsAssumption == Complains \in [Handles -> Nat]
ASSUME ConcurrencyAssumption == ConcurrencyChoices \subseteq Int
ASSUME NumCPUAssumption == NumCPU \in Nat \ {0}

(* for _, f := range files { for _, d := range detectors { if d.Handles(f) } } *)
Pairs ==
  [k \in 1..(Len(Files) * Len(Detectors)) |->
     <<Files[((k - 1) \div Len(Detectors)) + 1],
       Detectors[((k - 1) % Len(Detectors)) + 1]>>]

(* The jobs are named by their place in Pairs, so jobs are launched in       *)
(* ascending order of their names.                                           *)
Jobs == {k \in DOMAIN Pairs : Pairs[k] \in Handles}

VARIABLES
  opt,          \* Options: root and Concurrency, chosen once
  tree,         \* whether collector.Walk can read the tree, chosen once
  ctx,          \* the context: "live" or "cancelled"
  run,          \* where Run itself is
  next,         \* the first job of the range over jobs not yet considered
  pc,           \* where the goroutine of each job is
  sem,          \* tokens in the channel sem
  wg,           \* the counter of the wait group
  mu,           \* the job whose goroutine holds mu, or NoJob
  got,          \* the values Detect returned, per job
  view,         \* the slice header a goroutine has read to append to
  findings,     \* the shared slice findings
  warnings,     \* the shared slice warnings
  result        \* what Run returned

vars == <<opt, tree, ctx, run, next, pc, sem, wg, mu, got, view, findings, warnings, result>>
mainVars == <<opt, tree, run, next, result>>
sharedVars == <<findings, warnings>>

workers == IF opt.concurrency <= 0 THEN NumCPU ELSE opt.concurrency

NoResult == [kind |-> "none", findings |-> << >>, warnings |-> << >>]
Failed   == [kind |-> "failed", findings |-> << >>, warnings |-> << >>]
Nothing  == [list |-> << >>, warning |-> NoWarning]
Cut      == [list |-> << >>, warning |-> CtxWarning]
-----------------------------------------------------------------------------
Init ==
  /\ opt \in [root : {"", "dir"}, concurrency : ConcurrencyChoices]
  /\ tree \in {"readable", "broken"}
  /\ ctx \in {"live", "cancelled"}
  /\ run = "start"
  /\ next = 1
  /\ pc = [j \in Jobs |-> "unborn"]
  /\ sem = 0
  /\ wg = 0
  /\ mu = NoJob
  /\ got = [j \in Jobs |-> Nothing]
  /\ view = [j \in Jobs |-> << >>]
  /\ findings = << >>
  /\ warnings = << >>
  /\ result = NoResult

(* The caller cancels the context; nothing revives it. *)
Cancel ==
  /\ ctx = "live"
  /\ ctx' = "cancelled"
  /\ UNCHANGED <<mainVars, pc, sem, wg, mu, got, view, sharedVars>>

(* opt.Root == "" is refused before anything is done. *)
RefuseEmptyRoot ==
  /\ run = "start"
  /\ opt.root = ""
  /\ run' = "returned"
  /\ result' = Failed
  /\ UNCHANGED <<opt, tree, ctx, next, pc, sem, wg, mu, got, view, sharedVars>>

(* collector.Walk reports an unreadable entry or a cancelled context. *)
WalkFails ==
  /\ run = "start"
  /\ opt.root # ""
  /\ tree = "broken" \/ ctx = "cancelled"
  /\ run' = "returned"
  /\ result' = Failed
  /\ UNCHANGED <<opt, tree, ctx, next, pc, sem, wg, mu, got, view, sharedVars>>

(* Walk looks at the context at every entry, the root first, so it returns    *)
(* files only when the context lived through its last look.                   *)
WalkReturns ==
  /\ run = "start"
  /\ opt.root # ""
  /\ tree = "readable"
  /\ ctx = "live"
  /\ run' = "launch"
  /\ UNCHANGED <<opt, tree, ctx, next, pc, sem, wg, mu, got, view, sharedVars, result>>

(* Fault: wg.Add(1) forgotten. *)
LaunchWithoutAdd ==
  /\ run = "launch"
  /\ next \in DOMAIN Pairs
  /\ next' = next + 1
  /\ pc' = IF next \in Jobs THEN [pc EXCEPT ![next] = "select"] ELSE pc
  /\ UNCHANGED <<opt, tree, ctx, run, sem, wg, mu, got, view, sharedVars, result>>

(* One round of the loop over jobs: wg.Add(1) and the go statement.  A pair   *)
(* its detector does not handle was never made a job.                         *)
Launch ==
  /\ run = "launch"
  /\ next \in DOMAIN Pairs
  /\ next' = next + 1
  /\ IF next \in Jobs
     THEN wg' = wg + 1 /\ pc' = [pc EXCEPT ![next] = "select"]
     ELSE UNCHANGED <<wg, pc>>
  /\ UNCHANGED <<opt, tree, ctx, run, sem, mu, got, view, sharedVars, result>>

(* Fault: wg.Wait forgotten. *)
NoWait ==
  /\ run = "launch"
  /\ next \notin DOMAIN Pairs
  /\ run' = "waited"
  /\ UNCHANGED <<opt, tree, ctx, next, pc, sem, wg, mu, got, view, sharedVars, result>>

(* wg.Wait returns once the counter is zero. *)
WaitReturns ==
  /\ run = "launch"
  /\ next \notin DOMAIN Pairs
  /\ wg = 0
  /\ run' = "waited"
  /\ UNCHANGED <<opt, tree, ctx, next, pc, sem, wg, mu, got, view, sharedVars, result>>

(* if err := ctx.Err(); err != nil { return nil, err } *)
ReturnCancelled ==
  /\ run = "waited"
  /\ ctx = "cancelled"
  /\ run' = "returned"
  /\ result' = Failed
  /\ UNCHANGED <<opt, tree, ctx, next, pc, sem, wg, mu, got, view, sharedVars>>

(* Fault: the context is not looked at after the wait. *)
SkipCtxCheck ==
  /\ run = "waited"
  /\ run' = "sort"
  /\ UNCHANGED <<opt, tree, ctx, next, pc, sem, wg, mu, got, view, sharedVars, result>>

PassCtxCheck ==
  /\ run = "waited"
  /\ ctx = "live"
  /\ run' = "sort"
  /\ UNCHANGED <<opt, tree, ctx, next, pc, sem, wg, mu, got, view, sharedVars, result>>

(* Fault: the comparator stops at the rule. *)
KeyWithoutID(f) == <<f.path, f.line, f.column, f.rule, 0>>

Key(f) == <<f.path, f.line, f.column, f.rule, f.id>>

(* The comparator of sortFindings: the first key that differs decides. *)
Less(a, b) ==
  \E i \in 1..5 :
    /\ Key(a)[i] < Key(b)[i]
    /\ \A h \in 1..(i - 1) : Key(a)[h] = Key(b)[h]

(* sort.Slice promises an order, not stability: any rearrangement of s in     *)
(* which no element is less than one before it.                               *)
Rearrangements(s) ==
  {[i \in DOMAIN s |-> s[p[i]]] : p \in Bijection(DOMAIN s, DOMAIN s)}

Arrangements(s, Before(_, _)) ==
  {t \in Rearrangements(s) : \A i, j \in DOMAIN t : i < j => ~Before(t[j], t[i])}

(* Fault: sort.Strings(warnings) forgotten. *)
SortFindingsOnly ==
  /\ run = "sort"
  /\ \E f \in Arrangements(findings, Less) :
       /\ findings' = f
       /\ result' = [kind |-> "ok", findings |-> f, warnings |-> warnings]
  /\ run' = "returned"
  /\ UNCHANGED <<opt, tree, ctx, next, pc, sem, wg, mu, got, view, warnings>>

(* sortFindings, sort.Strings, then the pure stages AllLinks and score.All.   *)
SortAndReturn ==
  /\ run = "sort"
  /\ \E f \in Arrangements(findings, Less), w \in Arrangements(warnings, <) :
       /\ findings' = f
       /\ warnings' = w
       /\ result' = [kind |-> "ok", findings |-> f, warnings |-> w]
  /\ run' = "returned"
  /\ UNCHANGED <<opt, tree, ctx, next, pc, sem, wg, mu, got, view>>
-----------------------------------------------------------------------------
(* The goroutine of job j.  Its deferred calls run in reverse order: mu is    *)
(* unlocked, then the token is taken back out of sem, then wg.Done.           *)

Goto(j, from, to) == pc[j] = from /\ pc' = [pc EXCEPT ![j] = to]

(* case <-ctx.Done(): return -- the goroutine holds no token. *)
GiveUp(j) ==
  /\ Goto(j, "select", "finish")
  /\ ctx = "cancelled"
  /\ UNCHANGED <<mainVars, ctx, sem, wg, mu, got, view, sharedVars>>

(* Fault: the channel sem is never full. *)
TakeTokenUnbounded(j) ==
  /\ Goto(j, "select", "detect")
  /\ sem' = sem + 1
  /\ UNCHANGED <<mainVars, ctx, wg, mu, got, view, sharedVars>>

(* case sem <- struct{}{}: also possible when the context is cancelled.       *)
TakeToken(j) ==
  /\ Goto(j, "select", "detect")
  /\ sem < workers
  /\ sem' = sem + 1
  /\ UNCHANGED <<mainVars, ctx, wg, mu, got, view, sharedVars>>

(* Every detector looks at the context once, on entry. *)
DetectCut(j) ==
  /\ Goto(j, "detect", "lock")
  /\ ctx = "cancelled"
  /\ got' = [got EXCEPT ![j] = Cut]
  /\ UNCHANGED <<mainVars, ctx, sem, wg, mu, view, sharedVars>>

(* Fault: a file whose detector reports an error is tried again, for ever. *)
DetectRetries(j) ==
  /\ pc[j] = "detect"
  /\ ctx = "live"
  /\ got' = [got EXCEPT ![j] = [list |-> Emits[Pairs[j]], warning |-> Complains[Pairs[j]]]]
  /\ pc' = IF Complains[Pairs[j]] = NoWarning THEN [pc EXCEPT ![j] = "lock"] ELSE pc
  /\ UNCHANGED <<mainVars, ctx, sem, wg, mu, view, sharedVars>>

DetectReturns(j) ==
  /\ Goto(j, "detect", "lock")
  /\ ctx = "live"
  /\ got' = [got EXCEPT ![j] = [list    |-> Emits[Pairs[j]],
                                warning |-> Complains[Pairs[j]]]]
  /\ UNCHANGED <<mainVars, ctx, sem, wg, mu, view, sharedVars>>

(* Fault: the append is not protected by mu. *)
NoLock(j) ==
  /\ Goto(j, "lock", "load")
  /\ mu' = j
  /\ UNCHANGED <<mainVars, ctx, sem, wg, got, view, sharedVars>>

LockMu(j) ==
  /\ Goto(j, "lock", "load")
  /\ mu = NoJob
  /\ mu' = j
  /\ UNCHANGED <<mainVars, ctx, sem, wg, got, view, sharedVars>>

(* findings = append(findings, got...) reads the slice ... *)
LoadFindings(j) ==
  /\ Goto(j, "load", "store")
  /\ view' = [view EXCEPT ![j] = findings]
  /\ UNCHANGED <<mainVars, ctx, sem, wg, mu, got, sharedVars>>

(* ... and assigns it. *)
StoreFindings(j) ==
  /\ Goto(j, "store", "warn")
  /\ findings' = view[j] \o got[j].list
  /\ UNCHANGED <<mainVars, ctx, sem, wg, mu, got, view, warnings>>

(* if err != nil { warnings = append(...) }, then the deferred mu.Unlock.     *)
WarnAndUnlock(j) ==
  /\ Goto(j, "warn", "release")
  /\ warnings' = IF got[j].warning = NoWarning
                 THEN warnings
                 ELSE Append(warnings, got[j].warning)
  /\ mu' = NoJob
  /\ UNCHANGED <<mainVars, ctx, sem, wg, got, view, findings>>

(* The deferred <-sem. *)
ReleaseToken(j) ==
  /\ Goto(j, "release", "finish")
  /\ sem > 0
  /\ sem' = sem - 1
  /\ UNCHANGED <<mainVars, ctx, wg, mu, got, view, sharedVars>>

(* The deferred wg.Done. *)
Done(j) ==
  /\ Goto(j, "finish", "gone")
  /\ wg' = wg - 1
  /\ UNCHANGED <<mainVars, ctx, sem, mu, got, view, sharedVars>>

Goroutine(j) ==
  \/ GiveUp(j) \/ TakeToken(j) \/ DetectCut(j) \/ DetectReturns(j)
  \/ LockMu(j) \/ LoadFindings(j) \/ StoreFindings(j) \/ WarnAndUnlock(j)
  \/ ReleaseToken(j) \/ Done(j)

Main ==
  \/ RefuseEmptyRoot \/ WalkFails \/ WalkReturns \/ Launch \/ WaitReturns
  \/ ReturnCancelled \/ PassCtxCheck \/ SortAndReturn

(* Run has returned and its goroutines are gone: nothing is left to do. *)
Terminating ==
  /\ run = "returned"
  /\ \A j \in Jobs : pc[j] \in {"unborn", "gone"}
  /\ UNCHANGED vars

Next == Main \/ Cancel \/ (\E j \in Jobs : Goroutine(j)) \/ Terminating

(* The Go scheduler runs every goroutine that can run.  Nobody has to cancel. *)
Spec ==
  /\ Init
  /\ [][Next]_vars
  /\ WF_vars(Main)
  /\ \A j \in Jobs : WF_vars(Goroutine(j))
-----------------------------------------------------------------------------
(* Types: every variable keeps to its domain; the counters are those of Go,   *)
(* bounded here by the jobs there are.                                        *)
Stages == {"start", "launch", "waited", "sort", "returned"}
Places == {"unborn", "select", "detect", "lock", "load", "store", "warn",
           "release", "finish", "gone"}

TypeOK ==
  /\ opt \in [root : {"", "dir"}, concurrency : ConcurrencyChoices]
  /\ tree \in {"readable", "broken"}
  /\ ctx \in {"live", "cancelled"}
  /\ run \in Stages
  /\ next \in Nat \ {0}
  /\ pc \in [Jobs -> Places]
  /\ sem \in 0..workers
  /\ wg \in Nat
  /\ mu \in Jobs \cup {NoJob}
  /\ got \in [Jobs -> [list : Seq(Finding), warning : Nat]]
  /\ view \in [Jobs -> Seq(Finding)]
  /\ findings \in Seq(Finding)
  /\ warnings \in Seq(Nat)
  /\ result \in [kind : {"none", "failed", "ok"}, findings : Seq(Finding), warnings : Seq(Nat)]

(* The goroutines that hold a token of sem, and those that still owe wg.Done. *)
Holders == {j \in Jobs : pc[j] \in {"detect", "lock", "load", "store", "warn", "release"}}
Owing   == {j \in Jobs : pc[j] \notin {"unborn", "gone"}}

(* Concurrency is bounded as asked: never more than `workers' goroutines are   *)
(* between taking a token of sem and giving it back (Detect among them).       *)
BoundedConcurrency == Cardinality(Holders) <= workers

(* wg.Wait lets Run go on only when no goroutine can touch findings or         *)
(* warnings any more: after it, and until Run returns, none is alive.          *)
NoStragglers ==
  run \in {"waited", "sort", "returned"} => \A j \in Jobs : pc[j] \in {"unborn", "gone"}

(* What a goroutine is about to assign is based on the slice as it is: no      *)
(* append of another goroutine comes between its read and its assignment.      *)
NoLostAppend == \A j \in Jobs : pc[j] = "store" => view[j] = findings

(* Cancellation never passes for success: when Run reports success, every job  *)
(* was launched and ran its Detect to the end, and what each of them found is  *)
(* in the result.  A context cancelled half way leaves jobs that gave up.      *)
NoPartialResult ==
  result.kind = "ok" =>
    \A j \in Jobs :
      /\ pc[j] = "gone"
      /\ got[j] = [list |-> Emits[Pairs[j]], warning |-> Complains[Pairs[j]]]
      /\ \A k \in DOMAIN got[j].list :
           \E i \in DOMAIN result.findings : result.findings[i] = got[j].list[k]

(* Once Run has returned, nothing writes the slices its result holds: the      *)
(* arrays behind Result.Findings and Result.Warnings are the caller's.         *)
ResultIsFinal ==
  [][run = "returned" => UNCHANGED <<findings, warnings, result>>]_vars

(* Run returns whatever is cancelled and whenever: no goroutine waits for ever *)
(* on sem or mu, and wg.Wait ends.                                             *)
Termination == <>(run = "returned" /\ \A j \in Jobs : pc[j] \in {"unborn", "gone"})

(* The occurrences of findings and of warnings over all the jobs.              *)
Reports == UNION {{<<j, k>> : k \in DOMAIN Emits[Pairs[j]]} : j \in Jobs}
Complaints == {j \in Jobs : Complains[Pairs[j]] # NoWarning}

Contract ==
  INSTANCE ScanContract WITH
    Reports     <- Reports,
    ReportOf    <- [o \in Reports |-> Emits[Pairs[o[1]]][o[2]]],
    Complaints  <- Complaints,
    ComplaintOf <- [j \in Complaints |-> Complains[Pairs[j]]],
    Precedes    <- Less,
    mayFail     <- ctx = "cancelled" \/ tree = "broken" \/ opt.root = "",
    outcome     <- result

(* Run keeps its promise: it answers once, with all the findings in the        *)
(* documented order, whatever the interleaving and the number of workers.      *)
ImplementsContract == Contract!Spec

(* Findings that tie in all that sortFindings looks at are the same finding. *)
TiesAreEqual ==
  \A o, q \in Reports :
    LET a == Emits[Pairs[o[1]]][o[2]]
        b == Emits[Pairs[q[1]]][q[2]]
    IN  /\ a.path = b.path /\ a.line = b.line /\ a.column = b.column
        /\ a.rule = b.rule /\ a.id = b.id
        => a = b

(* DESIGN section 9: identical output regardless of the worker count and of    *)
(* the order in which the jobs ran.  Where ties are equal there is one answer   *)
(* that ScanContract allows, and every successful Run gives it.                *)
Deterministic == TiesAreEqual /\ result.kind = "ok" => Contract!Answers = {result}
=============================================================================
