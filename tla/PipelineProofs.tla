--------------------------- MODULE PipelineProofs ---------------------------
(* Theorems about Pipeline, for every tree, every set of detectors and every   *)
(* number of workers.                                                          *)
EXTENDS Pipeline, FiniteSetTheorems, TLAPS

(* What job j reports when its Detect is not cut. *)
Full(j) == [list |-> Emits[Pairs[j]], warning |-> Complains[Pairs[j]]]

(* sem and wg count what they are meant to count. *)
TokensCounted == sem = Cardinality(Holders)
DebtsCounted  == wg = Cardinality(Owing)

(* mu is held by exactly the goroutine that is between Lock and Unlock. *)
LockHeld == \A j \in Jobs : pc[j] \in {"load", "store", "warn"} <=> mu = j

(* Jobs are launched in order, and all of them before wg.Wait returns. *)
LaunchedInOrder ==
  /\ \A j \in Jobs : pc[j] = "unborn" <=> next <= j
  /\ run = "start" => next = 1
  /\ run \in {"waited", "sort"} => \A j \in Jobs : pc[j] # "unborn"

(* A goroutine that is past Detect or has given up, while nothing was ever     *)
(* cancelled, is one that ran Detect to the end.                               *)
CutOnlyWhenCancelled ==
  ctx = "live" =>
    \A j \in Jobs :
      pc[j] \in {"lock", "load", "store", "warn", "release", "finish", "gone"} => got[j] = Full(j)

(* Before Detect has returned there is nothing to append. *)
NothingYet ==
  \A j \in Jobs : pc[j] \in {"unborn", "select", "detect"} => got[j] = Nothing

(* What a goroutine has assigned stays in findings. *)
KeptIn(list, all) == \A k \in DOMAIN list : \E i \in DOMAIN all : all[i] = list[k]

AppendsKept ==
  \A j \in Jobs : pc[j] \in {"warn", "release", "finish", "gone"} => KeptIn(got[j].list, findings)

(* The check of the context after wg.Wait is what makes the sort final. *)
CompleteBeforeSort ==
  run = "sort" => \A j \in Jobs : pc[j] = "gone" /\ got[j] = Full(j)

ResultWhenReturned == result.kind = "none" <=> run # "returned"

IInv ==
  /\ TypeOK
  /\ TokensCounted
  /\ DebtsCounted
  /\ LockHeld
  /\ LaunchedInOrder
  /\ CutOnlyWhenCancelled
  /\ NothingYet
  /\ AppendsKept
  /\ CompleteBeforeSort
  /\ ResultWhenReturned
  /\ NoStragglers
  /\ NoLostAppend
  /\ NoPartialResult
-----------------------------------------------------------------------------
(* The jobs are finitely many positive integers, and each has its reports. *)
LEMMA JobsFinite ==
  /\ Len(Files) * Len(Detectors) \in Nat
  /\ Jobs \subseteq 1..(Len(Files) * Len(Detectors))
  /\ IsFiniteSet(Jobs)
  /\ NoJob \notin Jobs
<1>1. Len(Files) \in Nat /\ Len(Detectors) \in Nat
  BY FilesAssumption, DetectorsAssumption
<1>2. \A m, n \in Nat : m * n \in Nat
  OBVIOUS
<1>3. Len(Files) * Len(Detectors) \in Nat
  BY <1>1, <1>2
<1>4. Jobs \subseteq 1..(Len(Files) * Len(Detectors))
  BY DEF Jobs, Pairs
<1>5. IsFiniteSet(1..(Len(Files) * Len(Detectors)))
  BY <1>3, FS_Interval
<1>6. IsFiniteSet(Jobs)
  BY <1>4, <1>5, FS_Subset
<1> QED
  BY <1>3, <1>4, <1>6 DEF NoJob

(* What a job's Detect returns, when it returns, has the right type. *)
LEMMA JobReports ==
  \A j \in Jobs : /\ j \in DOMAIN Pairs
                  /\ Emits[Pairs[j]] \in Seq(Finding)
                  /\ Complains[Pairs[j]] \in Nat
                  /\ Full(j) \in [list : Seq(Finding), warning : Nat]
BY EmitsAssumption, ComplainsAssumption DEF Jobs, Full

(* sort.Slice rearranges: what was in the slice is in it still. *)
LEMMA RearrangementKeeps ==
  ASSUME NEW T, NEW s \in Seq(T), NEW t \in Rearrangements(s)
  PROVE  /\ t \in Seq(T)
         /\ DOMAIN t = DOMAIN s
         /\ \A i \in DOMAIN s : \E k \in DOMAIN t : t[k] = s[i]
<1>1. PICK p \in Bijection(DOMAIN s, DOMAIN s) : t = [i \in DOMAIN s |-> s[p[i]]]
  BY DEF Rearrangements
<1>2. /\ p \in [DOMAIN s -> DOMAIN s]
      /\ \A i \in DOMAIN s : \E k \in DOMAIN s : p[k] = i
  BY <1>1 DEF Bijection, Injection, Surjection
<1>3. DOMAIN s = 1..Len(s) /\ Len(s) \in Nat
  OBVIOUS
<1>4. t \in [1..Len(s) -> T]
  BY <1>1, <1>2, <1>3
<1>5. t \in Seq(T)
  BY <1>3, <1>4
<1> QED
  BY <1>1, <1>2, <1>5
-----------------------------------------------------------------------------
(* An integer option that is not zero or negative is a positive number. *)
LEMMA PositiveOrNot == \A c \in Int : c <= 0 \/ c \in Nat \ {0}
OBVIOUS

(* Whatever Options.Concurrency is, there is a worker. *)
LEMMA WorkersPositive ==
  ASSUME opt \in [root : {"", "dir"}, concurrency : ConcurrencyChoices]
  PROVE  workers \in Nat \ {0}
<1>1. opt.concurrency \in ConcurrencyChoices
  OBVIOUS
<1>2. opt.concurrency \in Int
  BY <1>1, ConcurrencyAssumption
<1> QED
  BY <1>2, PositiveOrNot, NumCPUAssumption DEF workers

(* Run starts in the inductive invariant. *)
LEMMA InitIInv == Init => IInv
<1> SUFFICES ASSUME Init PROVE IInv
  OBVIOUS
<1>1. workers \in Nat \ {0}
  BY WorkersPositive DEF Init
<1>2. TypeOK
  <2>1. /\ opt \in [root : {"", "dir"}, concurrency : ConcurrencyChoices]
        /\ tree \in {"readable", "broken"}
        /\ ctx \in {"live", "cancelled"}
        /\ run \in Stages
        /\ pc \in [Jobs -> Places]
        /\ mu \in Jobs \cup {NoJob}
    BY DEF Init, Places, Stages
  <2>2. sem \in 0..workers
    <3>1. \A w \in Nat : 0 \in 0..w
      OBVIOUS
    <3> QED
      BY <1>1, <3>1 DEF Init
  <2>3. << >> \in Seq(Finding) /\ << >> \in Seq(Nat)
    OBVIOUS
  <2>4. /\ got \in [Jobs -> [list : Seq(Finding), warning : Nat]]
        /\ view \in [Jobs -> Seq(Finding)]
        /\ findings \in Seq(Finding)
        /\ warnings \in Seq(Nat)
    BY <2>3 DEF Init, Nothing, NoWarning
  <2>5. result \in [kind : {"none", "failed", "ok"}, findings : Seq(Finding), warnings : Seq(Nat)]
    BY <2>3 DEF Init, NoResult
  <2>6. next \in Nat \ {0} /\ wg \in Nat
    <3>1. 1 \in Nat \ {0} /\ 0 \in Nat
      OBVIOUS
    <3> QED
      BY <3>1 DEF Init
  <2> QED
    BY <2>1, <2>2, <2>4, <2>5, <2>6 DEF TypeOK
<1>3. Holders = {} /\ Owing = {}
  BY DEF Init, Holders, Owing
<1>4. TokensCounted /\ DebtsCounted
  BY <1>3, FS_EmptySet DEF Init, TokensCounted, DebtsCounted
<1>5. LockHeld
  BY JobsFinite DEF Init, LockHeld
<1>6. LaunchedInOrder
  <2>1. \A j \in Jobs : 1 <= j
    BY JobsFinite
  <2> QED
    BY <2>1 DEF Init, LaunchedInOrder
<1>7. CutOnlyWhenCancelled /\ NothingYet /\ AppendsKept /\ CompleteBeforeSort
  BY DEF Init, CutOnlyWhenCancelled, NothingYet, AppendsKept, CompleteBeforeSort
<1>8. ResultWhenReturned /\ NoStragglers /\ NoLostAppend /\ NoPartialResult
  BY DEF Init, ResultWhenReturned, NoStragglers, NoLostAppend, NoPartialResult, NoResult
<1> QED
  BY <1>2, <1>4, <1>5, <1>6, <1>7, <1>8 DEF IInv

(* Steps that leave the goroutines, the counters and the slices alone. *)
QuietStep == Cancel \/ RefuseEmptyRoot \/ WalkFails \/ WalkReturns

(* They keep the inductive invariant. *)
LEMMA QuietSteps ==
  ASSUME IInv, QuietStep
  PROVE  IInv'
<1>1. UNCHANGED <<opt, tree, next, pc, sem, wg, mu, got, view, findings, warnings>>
  BY DEF QuietStep, Cancel, RefuseEmptyRoot, WalkFails, WalkReturns, mainVars, sharedVars
<1>2. /\ ctx' = ctx \/ ctx' = "cancelled"
      /\ \/ UNCHANGED <<run, result>>
         \/ run = "start" /\ run' = "returned" /\ result' = Failed
         \/ run = "start" /\ run' = "launch" /\ result' = result
  BY DEF QuietStep, Cancel, RefuseEmptyRoot, WalkFails, WalkReturns, mainVars, sharedVars
<1>3. Failed \in [kind : {"none", "failed", "ok"}, findings : Seq(Finding), warnings : Seq(Nat)]
  BY DEF Failed
<1>4. Failed.kind = "failed"
  BY DEF Failed
<1>5. TypeOK'
  BY <1>1, <1>2, <1>3 DEF IInv, TypeOK, Stages, workers
<1>6. TokensCounted' /\ DebtsCounted' /\ LockHeld' /\ NothingYet'
  BY <1>1 DEF IInv, TokensCounted, DebtsCounted, LockHeld, Holders, Owing, NothingYet
<1>7. LaunchedInOrder'
  BY <1>1, <1>2 DEF IInv, LaunchedInOrder
<1>8. CutOnlyWhenCancelled' /\ AppendsKept' /\ CompleteBeforeSort' /\ NoLostAppend'
  BY <1>1, <1>2 DEF IInv, CutOnlyWhenCancelled, AppendsKept, CompleteBeforeSort, NoLostAppend, KeptIn
<1>9. ResultWhenReturned'
  BY <1>2, <1>4 DEF IInv, ResultWhenReturned
<1>10. NoStragglers'
  <2>1. CASE run = "start"
    <3>1. \A j \in Jobs : pc[j] = "unborn"
      BY <2>1, JobsFinite DEF IInv, LaunchedInOrder
    <3> QED
      BY <1>1, <3>1 DEF NoStragglers
  <2>2. CASE run # "start"
    BY <1>1, <1>2, <2>2 DEF IInv, NoStragglers
  <2> QED
    BY <2>1, <2>2
<1>11. NoPartialResult'
  BY <1>1, <1>2, <1>4 DEF IInv, NoPartialResult
<1> QED
  BY <1>5, <1>6, <1>7, <1>8, <1>9, <1>10, <1>11 DEF IInv

(* wg.Add comes before the goroutine exists: the debts stay counted. *)
LEMMA LaunchStep ==
  ASSUME IInv, Launch
  PROVE  IInv'
<1>1. UNCHANGED <<opt, tree, ctx, run, sem, mu, got, view, findings, warnings, result>>
  BY DEF Launch, sharedVars
<1>2. run = "launch" /\ next \in Nat /\ next' = next + 1 /\ next' \in Nat \ {0}
  <2>1. run = "launch" /\ next' = next + 1
    BY DEF Launch
  <2>2. next \in Nat \ {0}
    BY DEF IInv, TypeOK
  <2> QED
    BY <2>1, <2>2
<1>3. Jobs \subseteq Nat
  BY JobsFinite
<1>4. CASE next \notin Jobs
  <2>1. UNCHANGED <<wg, pc>>
    BY <1>4 DEF Launch
  <2>2. TypeOK'
    BY <1>1, <1>2, <2>1 DEF IInv, TypeOK, workers
  <2>3. LaunchedInOrder'
    <3>1. \A j \in Jobs : next <= j <=> next + 1 <= j
      BY <1>2, <1>3, <1>4
    <3> QED
      BY <1>1, <1>2, <2>1, <3>1 DEF IInv, LaunchedInOrder
  <2>4. TokensCounted' /\ DebtsCounted' /\ LockHeld' /\ CutOnlyWhenCancelled' /\ NothingYet' /\ AppendsKept'
    BY <1>1, <2>1 DEF IInv, TokensCounted, DebtsCounted, LockHeld, Holders, Owing,
       CutOnlyWhenCancelled, NothingYet, AppendsKept, KeptIn
  <2>5. CompleteBeforeSort' /\ ResultWhenReturned' /\ NoStragglers' /\ NoLostAppend' /\ NoPartialResult'
    BY <1>1, <2>1 DEF IInv, CompleteBeforeSort, ResultWhenReturned, NoStragglers, NoLostAppend, NoPartialResult
  <2> QED
    BY <2>2, <2>3, <2>4, <2>5 DEF IInv
<1>5. CASE next \in Jobs
  <2>1. wg' = wg + 1 /\ pc' = [pc EXCEPT ![next] = "select"]
    BY <1>5 DEF Launch
  <2>2. pc \in [Jobs -> Places] /\ wg \in Nat
    BY DEF IInv, TypeOK
  <2>3. pc[next] = "unborn"
    BY <1>2, <1>5 DEF IInv, LaunchedInOrder
  <2>4. TypeOK'
    <3>1. pc' \in [Jobs -> Places]
      BY <2>1, <2>2 DEF Places
    <3>2. wg' \in Nat
      BY <2>1, <2>2
    <3> QED
      BY <1>1, <1>2, <3>1, <3>2 DEF IInv, TypeOK, workers
  <2>5. LaunchedInOrder'
    <3>1. \A j \in Jobs : j # next => (next <= j <=> next + 1 <= j)
      BY <1>2, <1>3
    <3>2. ~(next + 1 <= next)
      BY <1>2
    <3> QED
      BY <1>1, <1>2, <2>1, <2>2, <3>1, <3>2 DEF IInv, LaunchedInOrder
  <2>6. TokensCounted'
    <3>1. Holders' = Holders
      BY <2>1, <2>2, <2>3 DEF Holders
    <3> QED
      BY <1>1, <3>1 DEF IInv, TokensCounted
  <2>7. DebtsCounted'
    <3>1. Owing' = Owing \cup {next} /\ next \notin Owing
      BY <1>5, <2>1, <2>2, <2>3 DEF Owing
    <3>2. IsFiniteSet(Owing)
      BY JobsFinite, FS_Subset DEF Owing
    <3> QED
      BY <2>1, <3>1, <3>2, FS_AddElement DEF IInv, DebtsCounted
  <2>8. LockHeld' /\ CutOnlyWhenCancelled' /\ NothingYet' /\ AppendsKept' /\ NoLostAppend'
    BY <1>1, <2>1, <2>2, <2>3 DEF IInv, LockHeld, CutOnlyWhenCancelled, NothingYet, AppendsKept, KeptIn,
       NoLostAppend
  <2>9. CompleteBeforeSort' /\ ResultWhenReturned' /\ NoStragglers' /\ NoPartialResult'
    BY <1>1, <1>2 DEF IInv, CompleteBeforeSort, ResultWhenReturned, NoStragglers, NoPartialResult
  <2> QED
    BY <2>4, <2>5, <2>6, <2>7, <2>8, <2>9 DEF IInv
<1> QED
  BY <1>4, <1>5

(* The counter is zero: every goroutine that was started is gone. *)
LEMMA WaitStep ==
  ASSUME IInv, WaitReturns
  PROVE  IInv'
<1>1. UNCHANGED <<opt, tree, ctx, next, pc, sem, wg, mu, got, view, findings, warnings, result>>
  BY DEF WaitReturns, sharedVars
<1>2. run = "launch" /\ run' = "waited" /\ wg = 0 /\ next \notin DOMAIN Pairs
  BY DEF WaitReturns
<1>3. \A j \in Jobs : pc[j] \in {"unborn", "gone"}
  <2>1. IsFiniteSet(Owing)
    BY JobsFinite, FS_Subset DEF Owing
  <2>2. Owing = {}
    BY <1>2, <2>1, FS_EmptySet DEF IInv, DebtsCounted
  <2> QED
    BY <2>2 DEF Owing
<1>4. \A j \in Jobs : pc[j] # "unborn"
  <2>1. next \in Nat \ {0}
    BY DEF IInv, TypeOK
  <2>2. DOMAIN Pairs = 1..(Len(Files) * Len(Detectors))
    BY DEF Pairs
  <2>3. \A j \in Jobs : ~(next <= j)
    <3>1. \A k \in Nat : \A j \in 1..k : next \in Nat \ {0} /\ next <= j => next \in 1..k
      OBVIOUS
    <3> QED
      BY <1>2, <2>1, <2>2, <3>1, JobsFinite
  <2> QED
    BY <2>3 DEF IInv, LaunchedInOrder
<1>5. TypeOK'
  BY <1>1, <1>2 DEF IInv, TypeOK, Stages, workers
<1>6. /\ TokensCounted' /\ DebtsCounted' /\ LockHeld'
      /\ CutOnlyWhenCancelled' /\ NothingYet' /\ AppendsKept' /\ NoLostAppend'
  BY <1>1 DEF IInv, TokensCounted, DebtsCounted, LockHeld, Holders, Owing,
     CutOnlyWhenCancelled, NothingYet, AppendsKept, KeptIn, NoLostAppend
<1>7. LaunchedInOrder'
  BY <1>1, <1>2, <1>4 DEF IInv, LaunchedInOrder
<1>8. CompleteBeforeSort' /\ ResultWhenReturned' /\ NoPartialResult'
  BY <1>1, <1>2 DEF IInv, CompleteBeforeSort, ResultWhenReturned, NoPartialResult
<1>9. NoStragglers'
  BY <1>1, <1>3 DEF NoStragglers
<1> QED
  BY <1>5, <1>6, <1>7, <1>8, <1>9 DEF IInv

(* The context is looked at after the wait: alive then, it was alive all along. *)
LEMMA CheckSteps ==
  ASSUME IInv, ReturnCancelled \/ PassCtxCheck
  PROVE  IInv'
<1>1. UNCHANGED <<opt, tree, ctx, next, pc, sem, wg, mu, got, view, findings, warnings>>
  BY DEF ReturnCancelled, PassCtxCheck, sharedVars
<1>2. /\ run = "waited"
      /\ \/ run' = "returned" /\ result' = Failed
         \/ run' = "sort" /\ result' = result /\ ctx = "live"
  BY DEF ReturnCancelled, PassCtxCheck
<1>3. Failed \in [kind : {"none", "failed", "ok"}, findings : Seq(Finding), warnings : Seq(Nat)]
  BY DEF Failed
<1>4. Failed.kind = "failed"
  BY DEF Failed
<1>5. \A j \in Jobs : pc[j] = "gone"
  BY <1>2 DEF IInv, NoStragglers, LaunchedInOrder
<1>6. TypeOK'
  BY <1>1, <1>2, <1>3 DEF IInv, TypeOK, Stages, workers
<1>7. /\ TokensCounted' /\ DebtsCounted' /\ LockHeld'
      /\ CutOnlyWhenCancelled' /\ NothingYet' /\ AppendsKept' /\ NoLostAppend'
  BY <1>1 DEF IInv, TokensCounted, DebtsCounted, LockHeld, Holders, Owing,
     CutOnlyWhenCancelled, NothingYet, AppendsKept, KeptIn, NoLostAppend
<1>8. LaunchedInOrder' /\ NoStragglers'
  BY <1>1, <1>2, <1>5 DEF IInv, LaunchedInOrder, NoStragglers
<1>9. CompleteBeforeSort'
  BY <1>1, <1>2, <1>5 DEF IInv, CompleteBeforeSort, CutOnlyWhenCancelled
<1>10. ResultWhenReturned' /\ NoPartialResult'
  BY <1>1, <1>2, <1>4 DEF IInv, ResultWhenReturned, NoPartialResult
<1> QED
  BY <1>6, <1>7, <1>8, <1>9, <1>10 DEF IInv

(* Sorting rearranges complete slices into the result. *)
LEMMA SortStep ==
  ASSUME IInv, SortAndReturn
  PROVE  IInv'
<1>1. UNCHANGED <<opt, tree, ctx, next, pc, sem, wg, mu, got, view>>
  BY DEF SortAndReturn
<1>2. run = "sort" /\ run' = "returned"
  BY DEF SortAndReturn
<1>3. PICK f \in Arrangements(findings, Less), w \in Arrangements(warnings, <) :
        /\ findings' = f
        /\ warnings' = w
        /\ result' = [kind |-> "ok", findings |-> f, warnings |-> w]
  BY DEF SortAndReturn
<1>4. findings \in Seq(Finding) /\ warnings \in Seq(Nat)
  BY DEF IInv, TypeOK
<1>5. /\ findings' \in Seq(Finding)
      /\ \A i \in DOMAIN findings : \E k \in DOMAIN findings' : findings'[k] = findings[i]
  <2>1. f \in Rearrangements(findings)
    BY DEF Arrangements
  <2>2. /\ f \in Seq(Finding)
        /\ \A i \in DOMAIN findings : \E k \in DOMAIN f : f[k] = findings[i]
    BY <1>4, <2>1, RearrangementKeeps
  <2> QED
    BY <1>3, <2>2
<1>6. warnings' \in Seq(Nat)
  <2>1. w \in Rearrangements(warnings)
    BY DEF Arrangements
  <2> QED
    BY <1>3, <1>4, <2>1, RearrangementKeeps
<1>7. result'.kind = "ok" /\ result'.findings = findings'
  BY <1>3
<1>8. result' \in [kind : {"none", "failed", "ok"}, findings : Seq(Finding), warnings : Seq(Nat)]
  BY <1>3, <1>5, <1>6
<1>9. \A j \in Jobs : pc[j] = "gone" /\ got[j] = Full(j)
  BY <1>2 DEF IInv, CompleteBeforeSort
<1>10. \A j \in Jobs : KeptIn(got[j].list, findings')
  <2> SUFFICES ASSUME NEW j \in Jobs, NEW k \in DOMAIN got[j].list
               PROVE  \E i \in DOMAIN findings' : findings'[i] = got[j].list[k]
    BY DEF KeptIn
  <2>1. PICK i \in DOMAIN findings : findings[i] = got[j].list[k]
    BY <1>9 DEF IInv, AppendsKept, KeptIn
  <2> QED
    BY <1>5, <2>1
<1>11. TypeOK'
  BY <1>1, <1>2, <1>5, <1>6, <1>8 DEF IInv, TypeOK, Stages, workers
<1>12. TokensCounted' /\ DebtsCounted' /\ LockHeld' /\ CutOnlyWhenCancelled' /\ NothingYet'
  BY <1>1 DEF IInv, TokensCounted, DebtsCounted, LockHeld, Holders, Owing, CutOnlyWhenCancelled,
     NothingYet
<1>13. AppendsKept'
  BY <1>1, <1>10 DEF AppendsKept
<1>14. LaunchedInOrder' /\ NoStragglers' /\ NoLostAppend'
  BY <1>1, <1>2, <1>9 DEF IInv, LaunchedInOrder, NoStragglers, NoLostAppend
<1>15. CompleteBeforeSort' /\ ResultWhenReturned'
  BY <1>2, <1>7 DEF CompleteBeforeSort, ResultWhenReturned
<1>16. NoPartialResult'
  BY <1>1, <1>7, <1>9, <1>10 DEF NoPartialResult, KeptIn, Full
<1> QED
  BY <1>11, <1>12, <1>13, <1>14, <1>15, <1>16 DEF IInv

-----------------------------------------------------------------------------
(* While a goroutine can step, Run is launching or waiting, and the step does  *)
(* not concern it.                                                             *)
LEMMA GoroutineFrame ==
  ASSUME IInv, NEW j \in Jobs, Goroutine(j)
  PROVE  /\ UNCHANGED <<opt, tree, ctx, run, next, result>>
         /\ Owing \cup {j} = Owing
         /\ LaunchedInOrder' /\ CompleteBeforeSort' /\ ResultWhenReturned'
         /\ NoStragglers' /\ NoPartialResult'
<1>1. UNCHANGED <<opt, tree, ctx, run, next, result>>
  BY DEF Goroutine, GiveUp, TakeToken, DetectCut, DetectReturns, LockMu, LoadFindings, StoreFindings,
     WarnAndUnlock, ReleaseToken, Done, mainVars
<1>2. PICK to \in Places \ {"unborn"} : pc' = [pc EXCEPT ![j] = to]
  BY DEF Goroutine, GiveUp, TakeToken, DetectCut, DetectReturns, LockMu, LoadFindings, StoreFindings,
     WarnAndUnlock, ReleaseToken, Done, Goto, Places
<1>3. pc[j] \notin {"unborn", "gone"}
  BY DEF Goroutine, GiveUp, TakeToken, DetectCut, DetectReturns, LockMu, LoadFindings, StoreFindings,
     WarnAndUnlock, ReleaseToken, Done, Goto
<1>4. run \notin {"waited", "sort", "returned"}
  BY <1>3 DEF IInv, NoStragglers
<1>5. result.kind = "none"
  BY <1>4 DEF IInv, ResultWhenReturned
<1>6. pc \in [Jobs -> Places]
  BY DEF IInv, TypeOK
<1>7. LaunchedInOrder'
  BY <1>1, <1>2, <1>3, <1>4, <1>6 DEF IInv, LaunchedInOrder
<1>8. CompleteBeforeSort' /\ ResultWhenReturned' /\ NoStragglers' /\ NoPartialResult'
  BY <1>1, <1>4, <1>5 DEF CompleteBeforeSort, ResultWhenReturned, NoStragglers, NoPartialResult
<1> QED
  BY <1>1, <1>3, <1>7, <1>8 DEF Owing

(* Moving a goroutine between two places changes the two counts only if the    *)
(* move crosses the boundary that the count is about.                          *)
LEMMA Counts ==
  ASSUME IInv, NEW j \in Jobs, NEW from, NEW to \in Places, Goto(j, from, to)
  PROVE  /\ pc[j] = from
         /\ pc' = [pc EXCEPT ![j] = to]
         /\ pc' \in [Jobs -> Places]
         /\ IsFiniteSet(Holders) /\ IsFiniteSet(Owing)
         /\ {from, to} \cap {"unborn", "gone"} = {} => Owing' = Owing
         /\ {from, to} \subseteq {"detect", "lock", "load", "store", "warn", "release"} => Holders' = Holders
         /\ {from, to} \cap {"detect", "lock", "load", "store", "warn", "release"} = {} => Holders' = Holders
<1>1. pc[j] = from /\ pc' = [pc EXCEPT ![j] = to]
  BY DEF Goto
<1>2. pc \in [Jobs -> Places]
  BY DEF IInv, TypeOK
<1>3. IsFiniteSet(Holders) /\ IsFiniteSet(Owing)
  BY JobsFinite, FS_Subset DEF Holders, Owing
<1>4. {from, to} \cap {"unborn", "gone"} = {} => Owing' = Owing
  BY <1>1, <1>2 DEF Owing
<1>5. {from, to} \subseteq {"detect", "lock", "load", "store", "warn", "release"} => Holders' = Holders
  BY <1>1, <1>2 DEF Holders
<1>6. {from, to} \cap {"detect", "lock", "load", "store", "warn", "release"} = {} => Holders' = Holders
  BY <1>1, <1>2 DEF Holders
<1> QED
  BY <1>1, <1>2, <1>3, <1>4, <1>5, <1>6

(* A goroutine that gives up holds no token, and only a cancelled context lets it. *)
LEMMA GiveUpStep ==
  ASSUME IInv, NEW j \in Jobs, GiveUp(j)
  PROVE  IInv'
<1>1. UNCHANGED <<opt, tree, ctx, run, next, sem, wg, mu, got, view, findings, warnings, result>>
  BY DEF GiveUp, mainVars, sharedVars
<1>2. /\ pc[j] = "select"
      /\ pc' = [pc EXCEPT ![j] = "finish"]
      /\ pc' \in [Jobs -> Places]
      /\ Owing' = Owing /\ Holders' = Holders
  BY Counts DEF GiveUp, Places
<1>3. TypeOK'
  BY <1>1, <1>2 DEF IInv, TypeOK, workers
<1>4. TokensCounted' /\ DebtsCounted'
  BY <1>1, <1>2 DEF IInv, TokensCounted, DebtsCounted
<1>5. LockHeld' /\ NoLostAppend'
  BY <1>1, <1>2 DEF IInv, LockHeld, NoLostAppend
<1>6. CutOnlyWhenCancelled' /\ NothingYet'
  BY <1>1, <1>2 DEF IInv, GiveUp, CutOnlyWhenCancelled, NothingYet
<1>7. AppendsKept'
  <2>1. got[j].list = << >>
    BY <1>2 DEF IInv, NothingYet, Nothing
  <2> QED
    BY <1>1, <1>2, <2>1 DEF IInv, AppendsKept, KeptIn
<1> QED
  BY <1>3, <1>4, <1>5, <1>6, <1>7, GoroutineFrame DEF IInv, Goroutine

(* A token is taken and a holder is added. *)
LEMMA TakeTokenStep ==
  ASSUME IInv, NEW j \in Jobs, TakeToken(j)
  PROVE  IInv'
<1>1. UNCHANGED <<opt, tree, ctx, run, next, wg, mu, got, view, findings, warnings, result>>
  BY DEF TakeToken, mainVars, sharedVars
<1>2. /\ pc[j] = "select"
      /\ pc' = [pc EXCEPT ![j] = "detect"]
      /\ pc' \in [Jobs -> Places]
      /\ IsFiniteSet(Holders)
      /\ Owing' = Owing
  BY Counts DEF TakeToken, Places
<1>3. sem' \in 0..workers
  <2>1. sem \in 0..workers /\ workers \in Nat \ {0}
    BY WorkersPositive DEF IInv, TypeOK
  <2>2. sem < workers /\ sem' = sem + 1
    BY DEF TakeToken
  <2> QED
    BY <2>1, <2>2
<1>4. TypeOK'
  BY <1>1, <1>2, <1>3 DEF IInv, TypeOK, workers
<1>5. TokensCounted'
  <2>1. Holders' = Holders \cup {j} /\ j \notin Holders
    BY <1>2 DEF Holders, IInv, TypeOK
  <2>2. Cardinality(Holders \cup {j}) = Cardinality(Holders) + 1
    BY <1>2, <2>1, FS_AddElement
  <2> QED
    BY <2>1, <2>2 DEF TakeToken, IInv, TokensCounted
<1>6. DebtsCounted'
  BY <1>1, <1>2 DEF IInv, DebtsCounted
<1>7. LockHeld' /\ NoLostAppend'
  BY <1>1, <1>2 DEF IInv, LockHeld, NoLostAppend
<1>8. CutOnlyWhenCancelled' /\ NothingYet' /\ AppendsKept'
  BY <1>1, <1>2 DEF IInv, CutOnlyWhenCancelled, NothingYet, AppendsKept, KeptIn
<1> QED
  BY <1>4, <1>5, <1>6, <1>7, <1>8, GoroutineFrame DEF IInv, Goroutine

(* Detect runs to its end, or the context is cancelled and stays so. *)
LEMMA DetectSteps ==
  ASSUME IInv, NEW j \in Jobs, DetectCut(j) \/ DetectReturns(j)
  PROVE  IInv'
<1>1. UNCHANGED <<opt, tree, ctx, run, next, sem, wg, mu, view, findings, warnings, result>>
  BY DEF DetectCut, DetectReturns, mainVars, sharedVars
<1>2. /\ pc[j] = "detect"
      /\ pc' = [pc EXCEPT ![j] = "lock"]
      /\ pc' \in [Jobs -> Places]
      /\ Owing' = Owing /\ Holders' = Holders
  BY Counts DEF DetectCut, DetectReturns, Places
<1>3. \/ ctx = "cancelled" /\ got' = [got EXCEPT ![j] = Cut]
      \/ got' = [got EXCEPT ![j] = Full(j)]
  BY DEF DetectCut, DetectReturns, Full
<1>4. got \in [Jobs -> [list : Seq(Finding), warning : Nat]]
  BY DEF IInv, TypeOK
<1>5. got' \in [Jobs -> [list : Seq(Finding), warning : Nat]]
  <2>1. Cut \in [list : Seq(Finding), warning : Nat]
    BY DEF Cut, CtxWarning
  <2> QED
    BY <1>3, <1>4, <2>1, JobReports
<1>6. TypeOK'
  BY <1>1, <1>2, <1>5 DEF IInv, TypeOK, workers
<1>7. TokensCounted' /\ DebtsCounted'
  BY <1>1, <1>2 DEF IInv, TokensCounted, DebtsCounted
<1>8. LockHeld' /\ NoLostAppend'
  BY <1>1, <1>2 DEF IInv, LockHeld, NoLostAppend
<1>9. CutOnlyWhenCancelled'
  BY <1>1, <1>2, <1>3, <1>4 DEF IInv, CutOnlyWhenCancelled
<1>10. \A k \in Jobs : k # j => pc'[k] = pc[k] /\ got'[k] = got[k]
  BY <1>2, <1>3, <1>4
<1>11. pc'[j] = "lock"
  BY <1>2
<1>12. NothingYet'
  BY <1>10, <1>11 DEF IInv, NothingYet
<1>13. AppendsKept'
  BY <1>1, <1>10, <1>11 DEF IInv, AppendsKept, KeptIn
<1> QED
  BY <1>6, <1>7, <1>8, <1>9, <1>12, <1>13, GoroutineFrame DEF IInv, Goroutine

(* mu goes to one goroutine, and nobody else is in the section it guards. *)
LEMMA LockStep ==
  ASSUME IInv, NEW j \in Jobs, LockMu(j)
  PROVE  IInv'
<1>1. UNCHANGED <<opt, tree, ctx, run, next, sem, wg, got, view, findings, warnings, result>>
  BY DEF LockMu, mainVars, sharedVars
<1>2. /\ pc[j] = "lock"
      /\ pc' = [pc EXCEPT ![j] = "load"]
      /\ pc' \in [Jobs -> Places]
      /\ Owing' = Owing /\ Holders' = Holders
  BY Counts DEF LockMu, Places
<1>3. mu = NoJob /\ mu' = j /\ NoJob \notin Jobs
  BY JobsFinite DEF LockMu
<1>4. TypeOK'
  BY <1>1, <1>2, <1>3 DEF IInv, TypeOK, workers
<1>5. TokensCounted' /\ DebtsCounted'
  BY <1>1, <1>2 DEF IInv, TokensCounted, DebtsCounted
<1>6. LockHeld' /\ NoLostAppend'
  BY <1>1, <1>2, <1>3 DEF IInv, LockHeld, NoLostAppend
<1>7. CutOnlyWhenCancelled' /\ NothingYet' /\ AppendsKept'
  BY <1>1, <1>2 DEF IInv, CutOnlyWhenCancelled, NothingYet, AppendsKept, KeptIn
<1> QED
  BY <1>4, <1>5, <1>6, <1>7, GoroutineFrame DEF IInv, Goroutine

(* What a goroutine reads under mu is the slice as it is. *)
LEMMA LoadStep ==
  ASSUME IInv, NEW j \in Jobs, LoadFindings(j)
  PROVE  IInv'
<1>1. UNCHANGED <<opt, tree, ctx, run, next, sem, wg, mu, got, findings, warnings, result>>
  BY DEF LoadFindings, mainVars, sharedVars
<1>2. /\ pc[j] = "load"
      /\ pc' = [pc EXCEPT ![j] = "store"]
      /\ pc' \in [Jobs -> Places]
      /\ Owing' = Owing /\ Holders' = Holders
  BY Counts DEF LoadFindings, Places
<1>3. view' = [view EXCEPT ![j] = findings] /\ view' \in [Jobs -> Seq(Finding)]
  BY DEF LoadFindings, IInv, TypeOK
<1>4. TypeOK'
  BY <1>1, <1>2, <1>3 DEF IInv, TypeOK, workers
<1>5. TokensCounted' /\ DebtsCounted'
  BY <1>1, <1>2 DEF IInv, TokensCounted, DebtsCounted
<1>6. LockHeld'
  BY <1>1, <1>2 DEF IInv, LockHeld
<1>7. NoLostAppend'
  BY <1>1, <1>2, <1>3 DEF IInv, TypeOK, NoLostAppend
<1>8. CutOnlyWhenCancelled' /\ NothingYet' /\ AppendsKept'
  BY <1>1, <1>2 DEF IInv, CutOnlyWhenCancelled, NothingYet, AppendsKept, KeptIn
<1> QED
  BY <1>4, <1>5, <1>6, <1>7, <1>8, GoroutineFrame DEF IInv, Goroutine

(* Appending to a slice keeps what is in it. *)
LEMMA AppendedKept ==
  ASSUME NEW T, NEW s \in Seq(T), NEW t \in Seq(T)
  PROVE  /\ s \o t \in Seq(T)
         /\ KeptIn(t, s \o t)
         /\ \A r : KeptIn(r, s) => KeptIn(r, s \o t)
<1>1. s \o t \in Seq(T) /\ Len(s \o t) = Len(s) + Len(t) /\ Len(s) \in Nat /\ Len(t) \in Nat
  OBVIOUS
<1>2. \A i \in DOMAIN s : i \in DOMAIN (s \o t) /\ (s \o t)[i] = s[i]
  OBVIOUS
<1>3. \A i \in DOMAIN t : Len(s) + i \in DOMAIN (s \o t) /\ (s \o t)[Len(s) + i] = t[i]
  OBVIOUS
<1> QED
  BY <1>1, <1>2, <1>3 DEF KeptIn

(* Only the holder of mu is at this point, and what it read is still findings. *)
LEMMA StoreStep ==
  ASSUME IInv, NEW j \in Jobs, StoreFindings(j)
  PROVE  IInv'
<1>1. UNCHANGED <<opt, tree, ctx, run, next, sem, wg, mu, got, view, warnings, result>>
  BY DEF StoreFindings, mainVars
<1>2. /\ pc[j] = "store"
      /\ pc' = [pc EXCEPT ![j] = "warn"]
      /\ pc' \in [Jobs -> Places]
      /\ Owing' = Owing /\ Holders' = Holders
  BY Counts DEF StoreFindings, Places
<1>3. findings' = findings \o got[j].list
  BY <1>2 DEF StoreFindings, IInv, NoLostAppend
<1>4. findings \in Seq(Finding) /\ got[j].list \in Seq(Finding)
  BY DEF IInv, TypeOK
<1>5. /\ findings' \in Seq(Finding)
      /\ KeptIn(got[j].list, findings')
      /\ \A r : KeptIn(r, findings) => KeptIn(r, findings')
  BY <1>3, <1>4, AppendedKept
<1>6. TypeOK'
  BY <1>1, <1>2, <1>5 DEF IInv, TypeOK, workers
<1>7. TokensCounted' /\ DebtsCounted'
  BY <1>1, <1>2 DEF IInv, TokensCounted, DebtsCounted
<1>8. LockHeld'
  BY <1>1, <1>2 DEF IInv, LockHeld
<1>9. NoLostAppend'
  BY <1>1, <1>2 DEF IInv, LockHeld, NoLostAppend
<1>10. CutOnlyWhenCancelled' /\ NothingYet'
  BY <1>1, <1>2 DEF IInv, CutOnlyWhenCancelled, NothingYet
<1>11. AppendsKept'
  BY <1>1, <1>2, <1>5 DEF IInv, AppendsKept
<1> QED
  BY <1>6, <1>7, <1>8, <1>9, <1>10, <1>11, GoroutineFrame DEF IInv, Goroutine

(* The warning is appended and mu is free again. *)
LEMMA WarnStep ==
  ASSUME IInv, NEW j \in Jobs, WarnAndUnlock(j)
  PROVE  IInv'
<1>1. UNCHANGED <<opt, tree, ctx, run, next, sem, wg, got, view, findings, result>>
  BY DEF WarnAndUnlock, mainVars
<1>2. /\ pc[j] = "warn"
      /\ pc' = [pc EXCEPT ![j] = "release"]
      /\ pc' \in [Jobs -> Places]
      /\ Owing' = Owing /\ Holders' = Holders
  BY Counts DEF WarnAndUnlock, Places
<1>3. mu = j /\ mu' = NoJob /\ NoJob \notin Jobs
  BY <1>2, JobsFinite DEF WarnAndUnlock, IInv, LockHeld
<1>4. warnings' \in Seq(Nat)
  <2>1. warnings \in Seq(Nat) /\ got[j].warning \in Nat
    BY DEF IInv, TypeOK
  <2> QED
    BY <2>1 DEF WarnAndUnlock
<1>5. TypeOK'
  BY <1>1, <1>2, <1>3, <1>4 DEF IInv, TypeOK, workers
<1>6. TokensCounted' /\ DebtsCounted'
  BY <1>1, <1>2 DEF IInv, TokensCounted, DebtsCounted
<1>7. LockHeld' /\ NoLostAppend'
  BY <1>1, <1>2, <1>3 DEF IInv, LockHeld, NoLostAppend
<1>8. CutOnlyWhenCancelled' /\ NothingYet' /\ AppendsKept'
  BY <1>1, <1>2 DEF IInv, CutOnlyWhenCancelled, NothingYet, AppendsKept, KeptIn
<1> QED
  BY <1>5, <1>6, <1>7, <1>8, GoroutineFrame DEF IInv, Goroutine

(* A token is returned and a holder is gone. *)
LEMMA ReleaseStep ==
  ASSUME IInv, NEW j \in Jobs, ReleaseToken(j)
  PROVE  IInv'
<1>1. UNCHANGED <<opt, tree, ctx, run, next, wg, mu, got, view, findings, warnings, result>>
  BY DEF ReleaseToken, mainVars, sharedVars
<1>2. /\ pc[j] = "release"
      /\ pc' = [pc EXCEPT ![j] = "finish"]
      /\ pc' \in [Jobs -> Places]
      /\ IsFiniteSet(Holders)
      /\ Owing' = Owing
  BY Counts DEF ReleaseToken, Places
<1>3. sem' \in 0..workers
  <2>1. sem \in 0..workers /\ workers \in Nat \ {0}
    BY WorkersPositive DEF IInv, TypeOK
  <2>2. sem > 0 /\ sem' = sem - 1
    BY DEF ReleaseToken
  <2> QED
    BY <2>1, <2>2
<1>4. TypeOK'
  BY <1>1, <1>2, <1>3 DEF IInv, TypeOK, workers
<1>5. TokensCounted'
  <2>1. Holders' = Holders \ {j} /\ j \in Holders
    BY <1>2 DEF Holders, IInv, TypeOK
  <2>2. Cardinality(Holders \ {j}) = Cardinality(Holders) - 1
    BY <1>2, <2>1, FS_RemoveElement
  <2> QED
    BY <2>1, <2>2 DEF ReleaseToken, IInv, TokensCounted
<1>6. DebtsCounted'
  BY <1>1, <1>2 DEF IInv, DebtsCounted
<1>7. LockHeld' /\ NoLostAppend'
  BY <1>1, <1>2 DEF IInv, LockHeld, NoLostAppend
<1>8. CutOnlyWhenCancelled' /\ NothingYet' /\ AppendsKept'
  BY <1>1, <1>2 DEF IInv, CutOnlyWhenCancelled, NothingYet, AppendsKept, KeptIn
<1> QED
  BY <1>4, <1>5, <1>6, <1>7, <1>8, GoroutineFrame DEF IInv, Goroutine

(* wg.Done pays a debt: the counter is above zero before it. *)
LEMMA DoneStep ==
  ASSUME IInv, NEW j \in Jobs, Done(j)
  PROVE  IInv'
<1>1. UNCHANGED <<opt, tree, ctx, run, next, sem, mu, got, view, findings, warnings, result>>
  BY DEF Done, mainVars, sharedVars
<1>2. /\ pc[j] = "finish"
      /\ pc' = [pc EXCEPT ![j] = "gone"]
      /\ pc' \in [Jobs -> Places]
      /\ IsFiniteSet(Owing)
      /\ Holders' = Holders
  BY Counts DEF Done, Places
<1>3. DebtsCounted' /\ wg' \in Nat
  <2>1. Owing' = Owing \ {j} /\ j \in Owing
    BY <1>2 DEF Owing, IInv, TypeOK
  <2>2. Cardinality(Owing \ {j}) = Cardinality(Owing) - 1 /\ IsFiniteSet(Owing \ {j})
    BY <1>2, <2>1, FS_RemoveElement
  <2>3. wg' = Cardinality(Owing \ {j})
    BY <2>2 DEF Done, IInv, DebtsCounted
  <2> QED
    BY <2>1, <2>2, <2>3, FS_CardinalityType DEF DebtsCounted
<1>4. TypeOK'
  BY <1>1, <1>2, <1>3 DEF IInv, TypeOK, workers
<1>5. TokensCounted'
  BY <1>1, <1>2 DEF IInv, TokensCounted
<1>6. LockHeld' /\ NoLostAppend'
  BY <1>1, <1>2 DEF IInv, LockHeld, NoLostAppend
<1>7. CutOnlyWhenCancelled' /\ NothingYet' /\ AppendsKept'
  BY <1>1, <1>2 DEF IInv, CutOnlyWhenCancelled, NothingYet, AppendsKept, KeptIn
<1> QED
  BY <1>3, <1>4, <1>5, <1>6, <1>7, GoroutineFrame DEF IInv, Goroutine

-----------------------------------------------------------------------------
(* A step that changes nothing keeps the inductive invariant. *)
LEMMA StutterStep ==
  ASSUME IInv, UNCHANGED vars
  PROVE  IInv'
<1>1. UNCHANGED <<opt, tree, ctx, run, next, pc, sem, wg, mu, got, view, findings, warnings, result>>
  BY DEF vars
<1>2. TypeOK'
  BY <1>1 DEF IInv, TypeOK, workers
<1>3. /\ TokensCounted' /\ DebtsCounted' /\ LockHeld' /\ LaunchedInOrder'
      /\ CutOnlyWhenCancelled' /\ NothingYet' /\ AppendsKept'
  BY <1>1 DEF IInv, TokensCounted, DebtsCounted, Holders, Owing, LockHeld, LaunchedInOrder,
     CutOnlyWhenCancelled, NothingYet, AppendsKept, KeptIn
<1>4. CompleteBeforeSort' /\ ResultWhenReturned' /\ NoStragglers' /\ NoLostAppend' /\ NoPartialResult'
  BY <1>1 DEF IInv, CompleteBeforeSort, ResultWhenReturned, NoStragglers, NoLostAppend, NoPartialResult
<1> QED
  BY <1>2, <1>3, <1>4 DEF IInv

(* Every step keeps the inductive invariant: one lemma for each kind of step. *)
LEMMA NextIInv ==
  ASSUME IInv, [Next]_vars
  PROVE  IInv'
<1>1. CASE Main
  <2>1. CASE RefuseEmptyRoot \/ WalkFails \/ WalkReturns
    BY <2>1, QuietSteps DEF QuietStep
  <2>2. CASE Launch
    BY <2>2, LaunchStep
  <2>3. CASE WaitReturns
    BY <2>3, WaitStep
  <2>4. CASE ReturnCancelled \/ PassCtxCheck
    BY <2>4, CheckSteps
  <2>5. CASE SortAndReturn
    BY <2>5, SortStep
  <2> QED
    BY <1>1, <2>1, <2>2, <2>3, <2>4, <2>5 DEF Main
<1>2. CASE Cancel
  BY <1>2, QuietSteps DEF QuietStep
<1>3. ASSUME NEW j \in Jobs, Goroutine(j)
      PROVE  IInv'
  BY <1>3, GiveUpStep, TakeTokenStep, DetectSteps, LockStep, LoadStep, StoreStep, WarnStep,
     ReleaseStep, DoneStep DEF Goroutine
<1>4. CASE Terminating \/ UNCHANGED vars
  BY <1>4, StutterStep DEF Terminating
<1> QED
  BY <1>1, <1>2, <1>3, <1>4 DEF Next

(* The inductive invariant holds in every reachable state of Run. *)
THEOREM Invariance == Spec => []IInv
<1>1. IInv /\ [Next]_vars => IInv'
  BY NextIInv
<1> QED
  BY InitIInv, <1>1, PTL DEF Spec

(* Every variable of the pipeline keeps to its type; the wait group's counter   *)
(* never goes below zero, where Go would panic.                                 *)
THEOREM TypeCorrect == Spec => []TypeOK
<1>1. IInv => TypeOK
  BY DEF IInv
<1> QED
  BY <1>1, Invariance, PTL

(* At most Concurrency (or NumCPU) goroutines are ever past the semaphore.      *)
THEOREM ConcurrencyIsBounded == Spec => []BoundedConcurrency
<1>1. IInv => BoundedConcurrency
  <2> SUFFICES ASSUME IInv PROVE Cardinality(Holders) <= workers
    BY DEF BoundedConcurrency
  <2>1. workers \in Nat \ {0} /\ sem \in 0..workers
    BY WorkersPositive DEF IInv, TypeOK
  <2>2. sem <= workers
    BY <2>1
  <2> QED
    BY <2>2 DEF IInv, TokensCounted
<1> QED
  BY <1>1, Invariance, PTL

(* After wg.Wait no goroutine of the scan is left to write findings.            *)
THEOREM WaitIsComplete == Spec => []NoStragglers
<1>1. IInv => NoStragglers
  BY DEF IInv
<1> QED
  BY <1>1, Invariance, PTL

(* The mutex makes append atomic: what is stored extends what is there.         *)
THEOREM AppendIsAtomic == Spec => []NoLostAppend
<1>1. IInv => NoLostAppend
  BY DEF IInv
<1> QED
  BY <1>1, Invariance, PTL

(* A success is complete: no cancelled scan is returned as a result, and no     *)
(* finding that a detector returned is missing from one.                        *)
THEOREM SuccessIsComplete == Spec => []NoPartialResult
<1>1. IInv => NoPartialResult
  BY DEF IInv
<1> QED
  BY <1>1, Invariance, PTL

(* The slices that Run hands to its caller are never written again.             *)
THEOREM ResultStaysFinal == Spec => ResultIsFinal
<1>1. ASSUME IInv, [Next]_vars, run = "returned"
      PROVE  UNCHANGED <<findings, warnings, result>>
  <2>1. CASE Main
    BY <1>1, <2>1 DEF Main, RefuseEmptyRoot, WalkFails, WalkReturns, Launch, WaitReturns,
       ReturnCancelled, PassCtxCheck, SortAndReturn
  <2>2. CASE Cancel
    BY <2>2 DEF Cancel, mainVars, sharedVars
  <2>3. ASSUME NEW j \in Jobs, Goroutine(j)
        PROVE  FALSE
    <3>1. pc[j] \in {"unborn", "gone"}
      BY <1>1 DEF IInv, NoStragglers
    <3> QED
      BY <2>3, <3>1 DEF Goroutine, GiveUp, TakeToken, DetectCut, DetectReturns, LockMu, LoadFindings,
         StoreFindings, WarnAndUnlock, ReleaseToken, Done, Goto
  <2>4. CASE Terminating \/ UNCHANGED vars
    BY <2>4 DEF Terminating, vars
  <2> QED
    BY <1>1, <2>1, <2>2, <2>3, <2>4 DEF Next
<1>2. IInv /\ [Next]_vars => [run = "returned" => UNCHANGED <<findings, warnings, result>>]_vars
  BY <1>1
<1> QED
  BY <1>2, Invariance, PTL DEF Spec, ResultIsFinal
-----------------------------------------------------------------------------
(* Run keeps the promise of ScanContract.  What is counted now are occurrences: a    *)
(* list that holds each of a set of occurrences once.                            *)
Lists(list, occ, val) == Contract!Lists(list, occ, val)

(* p numbers the occurrences in the order of the list. *)
Numbers(p, list, occ, val) ==
  /\ p \in [DOMAIN list -> occ]
  /\ \A i, k \in DOMAIN list : p[i] = p[k] => i = k
  /\ \A o \in occ : \E i \in DOMAIN list : p[i] = o
  /\ \A i \in DOMAIN list : list[i] = val[p[i]]

LEMMA ListsByNumbers ==
  ASSUME NEW list, NEW occ, NEW val
  PROVE  Lists(list, occ, val) <=> \E p : Numbers(p, list, occ, val)
<1>1. ASSUME NEW p, Numbers(p, list, occ, val) PROVE Lists(list, occ, val)
  <2>1. p \in Contract!Bijection(DOMAIN list, occ)
    BY <1>1 DEF Numbers, Contract!Bijection, Contract!Injection, Contract!Surjection, Contract!IsInjective
  <2> QED
    BY <1>1, <2>1 DEF Numbers, Lists, Contract!Lists
<1>2. ASSUME Lists(list, occ, val) PROVE \E p : Numbers(p, list, occ, val)
  <2>1. PICK p \in Contract!Bijection(DOMAIN list, occ) : \A i \in DOMAIN list : list[i] = val[p[i]]
    BY <1>2 DEF Lists, Contract!Lists
  <2>2. Numbers(p, list, occ, val)
    BY <2>1 DEF Numbers, Contract!Bijection, Contract!Injection, Contract!Surjection, Contract!IsInjective
  <2> QED
    BY <2>2
<1> QED
  BY <1>1, <1>2

(* Only the values of the occurrences listed matter. *)
LEMMA ListsAgree ==
  ASSUME NEW list, NEW occ, NEW val, NEW other, Lists(list, occ, val),
         \A o \in occ : other[o] = val[o]
  PROVE  Lists(list, occ, other)
<1>1. PICK p : Numbers(p, list, occ, val)
  BY ListsByNumbers
<1>2. Numbers(p, list, occ, other)
  BY <1>1 DEF Numbers
<1> QED
  BY <1>2, ListsByNumbers

LEMMA ListsNothing ==
  ASSUME NEW val
  PROVE  Lists(<< >>, {}, val)
<1>1. Numbers(<< >>, << >>, {}, val)
  BY DEF Numbers
<1> QED
  BY <1>1, ListsByNumbers

(* Two lists of different occurrences make one of all of them. *)
LEMMA ListsAppended ==
  ASSUME NEW T, NEW s \in Seq(T), NEW t \in Seq(T), NEW old, NEW new, NEW val,
         Lists(s, old, val), Lists(t, new, val), old \cap new = {}
  PROVE  Lists(s \o t, old \cup new, val)
<1> DEFINE m == Len(s)
           n == Len(t)
<1>1. m \in Nat /\ n \in Nat /\ DOMAIN s = 1..m /\ DOMAIN t = 1..n
  OBVIOUS
<1>2. /\ DOMAIN (s \o t) = 1..(m + n)
      /\ \A i \in 1..m : (s \o t)[i] = s[i]
      /\ \A i \in (m + 1)..(m + n) : (s \o t)[i] = t[i - m]
  OBVIOUS
<1> HIDE DEF m, n
<1>3. PICK p : Numbers(p, s, old, val)
  BY ListsByNumbers
<1>4. PICK q : Numbers(q, t, new, val)
  BY ListsByNumbers
<1>p. /\ p \in [1..m -> old]
      /\ \A i, k \in 1..m : p[i] = p[k] => i = k
      /\ \A o \in old : \E i \in 1..m : p[i] = o
      /\ \A i \in 1..m : s[i] = val[p[i]]
  BY <1>1, <1>3 DEF Numbers
<1>q. /\ q \in [1..n -> new]
      /\ \A i, k \in 1..n : q[i] = q[k] => i = k
      /\ \A o \in new : \E i \in 1..n : q[i] = o
      /\ \A i \in 1..n : t[i] = val[q[i]]
  BY <1>1, <1>4 DEF Numbers
<1> DEFINE r == [i \in 1..(m + n) |-> IF i <= m THEN p[i] ELSE q[i - m]]
<1>5. ASSUME NEW i \in 1..(m + n), ~(i <= m) PROVE i - m \in 1..n /\ i \in (m + 1)..(m + n)
  BY <1>1, <1>5
<1>6. ASSUME NEW i \in 1..(m + n), i <= m PROVE i \in 1..m
  BY <1>1, <1>6
<1>7. \A i \in 1..(m + n) :
        /\ i <= m => r[i] = p[i] /\ r[i] \in old /\ i \in 1..m
        /\ ~(i <= m) => r[i] = q[i - m] /\ r[i] \in new /\ i - m \in 1..n
  BY <1>p, <1>q, <1>5, <1>6
<1>8. r \in [DOMAIN (s \o t) -> old \cup new]
  BY <1>2, <1>7
<1>9. \A i \in 1..(m + n) : (s \o t)[i] = val[r[i]]
  BY <1>2, <1>p, <1>q, <1>5, <1>7
<1>10. ASSUME NEW i \in 1..(m + n), NEW k \in 1..(m + n), r[i] = r[k]
       PROVE  i = k
  <2>1. CASE i <= m /\ k <= m
    BY <1>p, <1>7, <1>10, <2>1
  <2>2. CASE ~(i <= m) /\ ~(k <= m)
    <3>1. i - m = k - m
      BY <1>q, <1>7, <1>10, <2>2
    <3> QED
      BY <1>1, <3>1
  <2>3. CASE (i <= m) # (k <= m)
    BY <1>7, <1>10, <2>3
  <2> QED
    BY <2>1, <2>2, <2>3
<1>11. ASSUME NEW o \in old PROVE \E i \in 1..(m + n) : r[i] = o
  <2>1. PICK i \in 1..m : p[i] = o
    BY <1>p
  <2>2. i \in 1..(m + n) /\ i <= m
    BY <1>1
  <2> QED
    BY <1>7, <2>1, <2>2
<1>12. ASSUME NEW o \in new PROVE \E i \in 1..(m + n) : r[i] = o
  <2>1. PICK i \in 1..n : q[i] = o
    BY <1>q
  <2>2. i + m \in 1..(m + n) /\ ~(i + m <= m) /\ (i + m) - m = i
    BY <1>1
  <2> QED
    BY <1>7, <2>1, <2>2
<1> HIDE DEF r
<1>13. Numbers(r, s \o t, old \cup new, val)
  BY <1>2, <1>8, <1>9, <1>10, <1>11, <1>12 DEF Numbers
<1> QED
  BY <1>13, ListsByNumbers

(* A rearrangement lists the same occurrences. *)
LEMMA ListsRearranged ==
  ASSUME NEW s, NEW t \in Rearrangements(s), NEW occ, NEW val, Lists(s, occ, val)
  PROVE  Lists(t, occ, val)
<1>1. PICK p \in [DOMAIN s -> DOMAIN s] :
        /\ \A i, k \in DOMAIN s : p[i] = p[k] => i = k
        /\ \A o \in DOMAIN s : \E i \in DOMAIN s : p[i] = o
        /\ t = [i \in DOMAIN s |-> s[p[i]]]
  BY DEF Rearrangements, Bijection, Injection, Surjection, IsInjective
<1>2. PICK q : Numbers(q, s, occ, val)
  BY ListsByNumbers
<1> DEFINE r == [i \in DOMAIN s |-> q[p[i]]]
<1>3. DOMAIN t = DOMAIN s /\ r \in [DOMAIN t -> occ] /\ \A i \in DOMAIN s : r[i] = q[p[i]] /\ t[i] = s[p[i]]
  BY <1>1, <1>2 DEF Numbers
<1> HIDE DEF r
<1>4. Numbers(r, t, occ, val)
  BY <1>1, <1>2, <1>3 DEF Numbers
<1> QED
  BY <1>4, ListsByNumbers

LEMMA ListsCount ==
  ASSUME NEW T, NEW list \in Seq(T), NEW occ, NEW val, Lists(list, occ, val)
  PROVE  IsFiniteSet(occ) /\ Cardinality(occ) = Len(list)
<1>1. PICK p : Numbers(p, list, occ, val)
  BY ListsByNumbers
<1>2. Len(list) \in Nat /\ DOMAIN list = 1..Len(list)
  OBVIOUS
<1>3. p \in Bijection(1..Len(list), occ)
  BY <1>1, <1>2 DEF Numbers, Bijection, Injection, Surjection, IsInjective
<1>4. ExistsBijection(1..Len(list), occ)
  BY <1>3 DEF ExistsBijection
<1>5. IsFiniteSet(1..Len(list)) /\ Cardinality(1..Len(list)) = Len(list)
  BY <1>2, FS_Interval
<1> QED
  BY <1>4, <1>5, FS_Bijection

(* The occurrences and their values, as ScanContract is given them. *)
ReportOf == [o \in Reports |-> Emits[Pairs[o[1]]][o[2]]]
ComplaintOf == [j \in Complaints |-> Complains[Pairs[j]]]

LEMMA SortedListsAnswer ==
  ASSUME NEW f \in Seq(Finding), NEW w \in Seq(Nat),
         Lists(f, Reports, ReportOf), Lists(w, Complaints, ComplaintOf),
         \A i, k \in DOMAIN f : i < k => ~Less(f[k], f[i]),
         \A i, k \in DOMAIN w : i < k => w[i] <= w[k]
  PROVE  [kind |-> "ok", findings |-> f, warnings |-> w] \in Contract!Answers
<1> DEFINE r == [kind |-> "ok", findings |-> f, warnings |-> w]
           Arranged(occ, val) ==
             {[i \in 1..Contract!Cardinality(occ) |-> val[p[i]]] :
                p \in Contract!Bijection(1..Contract!Cardinality(occ), occ)}
<1>1. ASSUME NEW T, NEW list \in Seq(T), NEW occ, NEW val, Lists(list, occ, val)
      PROVE  list \in Arranged(occ, val)
  <2>1. PICK p \in Contract!Bijection(DOMAIN list, occ) : \A i \in DOMAIN list : list[i] = val[p[i]]
    BY <1>1 DEF Lists, Contract!Lists
  <2>2. Len(list) = Cardinality(occ) /\ Len(list) \in Nat /\ DOMAIN list = 1..Len(list)
    BY <1>1, ListsCount
  <2>3. Contract!Cardinality(occ) = Cardinality(occ)
    BY DEF Contract!Cardinality, Cardinality
  <2>4. list = [i \in 1..Len(list) |-> list[i]]
    OBVIOUS
  <2>5. list = [i \in 1..Len(list) |-> val[p[i]]]
    BY <2>1, <2>2, <2>4
  <2> QED
    BY <2>1, <2>2, <2>3, <2>5
<1>2. f \in Arranged(Reports, ReportOf) /\ w \in Arranged(Complaints, ComplaintOf)
  BY <1>1
<1>3. Contract!IsAnswer(r)
  BY DEF Contract!IsAnswer, Contract!InOrder, Contract!Ascending, Lists, ReportOf, ComplaintOf
<1> QED
  BY <1>2, <1>3 DEF Contract!Answers, ReportOf, ComplaintOf
-----------------------------------------------------------------------------
(* The occurrences whose job has appended its findings, and its warning. *)
Appended == {"warn", "release", "finish", "gone"}
Arrived == {o \in Reports : pc[o[1]] \in Appended /\ got[o[1]] = Full(o[1])}
Warned == {j \in Jobs : pc[j] \in Appended \ {"warn"} /\ got[j].warning # NoWarning}
WarningOf == [j \in Jobs |-> got[j].warning]

(* Up to the end the slices hold what has arrived, each occurrence once. *)
AccountInv ==
  /\ \A j \in Jobs : got[j] \in {Nothing, Cut, Full(j)}
  /\ run # "returned" =>
       /\ Lists(findings, Arrived, ReportOf)
       /\ Lists(warnings, Warned, WarningOf)
       /\ result = NoResult

LEMMA ReportsOfJob ==
  /\ \A o \in Reports : o[1] \in Jobs /\ o[2] \in DOMAIN Emits[Pairs[o[1]]] /\ o = <<o[1], o[2]>>
  /\ \A j \in Jobs : \A k \in DOMAIN Emits[Pairs[j]] : <<j, k>> \in Reports
BY DEF Reports

LEMMA InitAccountInv == Init => AccountInv
<1> SUFFICES ASSUME Init PROVE AccountInv
  OBVIOUS
<1>1. Arrived = {} /\ Warned = {}
  BY ReportsOfJob DEF Init, Arrived, Warned, Appended
<1>2. Lists(findings, Arrived, ReportOf) /\ Lists(warnings, Warned, WarningOf)
  BY <1>1, ListsNothing DEF Init
<1> QED
  BY <1>2 DEF Init, AccountInv

(* What a goroutine that is not past the append has got does not matter yet. *)
LEMMA SameAccounts ==
  ASSUME AccountInv, UNCHANGED <<findings, warnings>>, Arrived' = Arrived, Warned' = Warned,
         \A j \in Warned : got'[j] = got[j],
         \A j \in Jobs : got'[j] \in {Nothing, Cut, Full(j)},
         run' # "returned" => run # "returned" /\ result' = result
  PROVE  AccountInv'
<1> SUFFICES ASSUME run' # "returned"
             PROVE  Lists(findings, Arrived, ReportOf) /\ Lists(warnings, Warned, WarningOf') /\ result = NoResult
  BY DEF AccountInv, Lists, ReportOf, Full
<1>1. Lists(findings, Arrived, ReportOf) /\ Lists(warnings, Warned, WarningOf) /\ result = NoResult
  BY DEF AccountInv
<1>2. \A j \in Warned : WarningOf'[j] = WarningOf[j]
  BY DEF Warned, WarningOf
<1> QED
  BY <1>1, <1>2, ListsAgree

LEMMA AccountsMainSteps ==
  ASSUME IInv, AccountInv, Main \/ Cancel \/ Terminating \/ UNCHANGED vars
  PROVE  AccountInv'
<1>1. CASE SortAndReturn
  BY <1>1 DEF SortAndReturn, AccountInv, Full
<1>2. CASE Launch
  <2>1. UNCHANGED <<run, got, findings, warnings, result>>
    BY <1>2 DEF Launch, sharedVars
  <2>2. pc \in [Jobs -> Places]
    BY DEF IInv, TypeOK
  <2>3. next \in Jobs => pc[next] = "unborn"
    <3>1. next \in Nat
      BY DEF IInv, TypeOK
    <3>2. next <= next
      BY <3>1
    <3> QED
      BY <3>2 DEF IInv, LaunchedInOrder
  <2>4. \A j \in Jobs : pc'[j] = pc[j] \/ {pc[j], pc'[j]} \subseteq {"unborn", "select"}
    BY <1>2, <2>2, <2>3 DEF Launch
  <2>5. Arrived' = Arrived /\ Warned' = Warned
    BY <2>1, <2>4, ReportsOfJob DEF Arrived, Warned, Appended, Full
  <2> QED
    BY <2>1, <2>5, SameAccounts DEF AccountInv
<1>3. CASE RefuseEmptyRoot \/ WalkFails \/ WalkReturns \/ WaitReturns \/ ReturnCancelled \/ PassCtxCheck
           \/ Cancel \/ Terminating \/ UNCHANGED vars
  <2>1. UNCHANGED <<pc, got, findings, warnings>> /\ (run' # "returned" => run # "returned" /\ result' = result)
    BY <1>3 DEF RefuseEmptyRoot, WalkFails, WalkReturns, WaitReturns, ReturnCancelled, PassCtxCheck, Cancel,
       Terminating, vars, mainVars, sharedVars
  <2>2. Arrived' = Arrived /\ Warned' = Warned
    BY <2>1 DEF Arrived, Warned, Full
  <2> QED
    BY <2>1, <2>2, SameAccounts DEF AccountInv
<1> QED
  BY <1>1, <1>2, <1>3 DEF Main

LEMMA AccountsGoroutineSteps ==
  ASSUME IInv, AccountInv, NEW j \in Jobs, Goroutine(j)
  PROVE  AccountInv'
<1>1. UNCHANGED <<run, result>> /\ run # "returned" /\ pc \in [Jobs -> Places]
  <2>1. run # "returned"
    BY DEF Goroutine, GiveUp, TakeToken, DetectCut, DetectReturns, LockMu, LoadFindings, StoreFindings,
       WarnAndUnlock, ReleaseToken, Done, Goto, IInv, NoStragglers
  <2> QED
    BY <2>1, GoroutineFrame DEF IInv, TypeOK
<1>2. Lists(findings, Arrived, ReportOf) /\ Lists(warnings, Warned, WarningOf) /\ result = NoResult
  BY <1>1 DEF AccountInv
<1>3. \A o \in Reports : o[1] \in Jobs /\ o[2] \in DOMAIN Emits[Pairs[o[1]]]
  BY ReportsOfJob
<1>4. got \in [Jobs -> [list : Seq(Finding), warning : Nat]]
  BY DEF IInv, TypeOK
<1>5. ASSUME UNCHANGED <<got, findings, warnings>>, NEW from, NEW to, Goto(j, from, to),
             (from \in Appended) <=> (to \in Appended), from # "warn", to # "warn"
      PROVE  AccountInv'
  <2>1. Arrived' = Arrived /\ Warned' = Warned
    BY <1>1, <1>3, <1>5 DEF Goto, Arrived, Warned, Full
  <2> QED
    BY <1>1, <1>5, <2>1, SameAccounts DEF AccountInv
<1>6. CASE TakeToken(j) \/ LockMu(j) \/ LoadFindings(j) \/ ReleaseToken(j) \/ Done(j)
  BY <1>5, <1>6 DEF TakeToken, LockMu, LoadFindings, ReleaseToken, Done, sharedVars, Appended
<1>7. CASE GiveUp(j)
  <2>1. UNCHANGED <<got, findings, warnings>> /\ pc[j] = "select" /\ pc' = [pc EXCEPT ![j] = "finish"]
    BY <1>7 DEF GiveUp, Goto, sharedVars
  <2>2. got[j] = Nothing
    BY <2>1 DEF IInv, NothingYet
  <2>3. \A o \in Reports : got[o[1]] = Full(o[1]) => o[1] # j
    BY <1>3, <2>2 DEF Nothing, Full
  <2>4. Arrived' = Arrived
    BY <1>1, <1>3, <2>1, <2>3 DEF Arrived, Full
  <2>5. Warned' = Warned
    BY <1>1, <2>1, <2>2 DEF Warned, Appended, Nothing
  <2> QED
    BY <1>1, <2>1, <2>4, <2>5, SameAccounts DEF AccountInv
<1>8. CASE DetectCut(j) \/ DetectReturns(j)
  <2>1. UNCHANGED <<findings, warnings>> /\ pc[j] = "detect" /\ pc' = [pc EXCEPT ![j] = "lock"]
    BY <1>8 DEF DetectCut, DetectReturns, Goto, sharedVars
  <2>2. /\ \A h \in Jobs \ {j} : got'[h] = got[h]
        /\ got'[j] \in {Cut, Full(j)}
    BY <1>4, <1>8 DEF DetectCut, DetectReturns, Full
  <2>3. \A h \in Jobs : got'[h] \in {Nothing, Cut, Full(h)}
    BY <2>2 DEF AccountInv
  <2>4. Arrived' = Arrived
    BY <1>1, <1>3, <2>1, <2>2 DEF Arrived, Appended, Full
  <2>5. Warned' = Warned /\ j \notin Warned
    BY <1>1, <2>1, <2>2 DEF Warned, Appended
  <2>6. \A h \in Warned : got'[h] = got[h]
    BY <2>2, <2>5 DEF Warned
  <2> QED
    BY <1>1, <2>1, <2>3, <2>4, <2>5, <2>6, SameAccounts
<1>9. CASE StoreFindings(j)
  <2>1. UNCHANGED <<got, warnings>> /\ pc[j] = "store" /\ pc' = [pc EXCEPT ![j] = "warn"]
    BY <1>9 DEF StoreFindings, Goto
  <2>2. findings' = findings \o got[j].list
    BY <1>9, <2>1 DEF StoreFindings, IInv, NoLostAppend
  <2> DEFINE new == {o \in Reports : o[1] = j /\ got[j] = Full(j)}
  <2>3. Arrived' = Arrived \cup new /\ Arrived \cap new = {}
    BY <1>1, <1>3, <2>1 DEF Arrived, Appended, Full
  <2>4. Warned' = Warned /\ WarningOf' = WarningOf
    BY <1>1, <2>1 DEF Warned, Appended, WarningOf
  <2>5. Lists(got[j].list, new, ReportOf)
    <3>1. CASE got[j] = Full(j)
      <4> DEFINE p == [k \in DOMAIN got[j].list |-> <<j, k>>]
      <4>1. got[j].list = Emits[Pairs[j]]
        BY <3>1 DEF Full
      <4>2. \A k \in DOMAIN got[j].list : <<j, k>> \in new /\ ReportOf[<<j, k>>] = got[j].list[k]
        BY <3>1, <4>1, ReportsOfJob DEF ReportOf
      <4>3. \A o \in new : o[2] \in DOMAIN got[j].list /\ o = <<j, o[2]>>
        BY <4>1, ReportsOfJob
      <4> HIDE DEF new
      <4>4. \A k \in DOMAIN got[j].list : p[k] = <<j, k>>
        OBVIOUS
      <4>5. p \in [DOMAIN got[j].list -> new]
        BY <4>2
      <4> HIDE DEF p
      <4>6. Numbers(p, got[j].list, new, ReportOf)
        BY <4>2, <4>3, <4>4, <4>5 DEF Numbers
      <4> QED
        BY <4>6, ListsByNumbers
    <3>2. CASE got[j] # Full(j)
      <4>1. got[j].list = << >> /\ new = {}
        BY <3>2 DEF AccountInv, Nothing, Cut
      <4> QED
        BY <4>1, ListsNothing
    <3> QED
      BY <3>1, <3>2
  <2>6. findings \in Seq(Finding) /\ got[j].list \in Seq(Finding)
    BY <1>4 DEF IInv, TypeOK
  <2> HIDE DEF new
  <2>7. Lists(findings', Arrived', ReportOf)
    BY <1>2, <2>2, <2>3, <2>5, <2>6, ListsAppended
  <2> QED
    BY <1>1, <1>2, <2>1, <2>4, <2>7 DEF AccountInv, Lists, ReportOf, Full
<1>10. CASE WarnAndUnlock(j)
  <2>1. UNCHANGED <<got, findings>> /\ pc[j] = "warn" /\ pc' = [pc EXCEPT ![j] = "release"]
    BY <1>10 DEF WarnAndUnlock, Goto
  <2>2. Arrived' = Arrived
    BY <1>1, <1>3, <2>1 DEF Arrived, Appended, Full
  <2>3. CASE got[j].warning = NoWarning
    <3>1. warnings' = warnings
      BY <1>10, <2>3 DEF WarnAndUnlock
    <3>2. Warned' = Warned
      BY <1>1, <2>1, <2>3 DEF Warned, Appended
    <3> QED
      BY <1>1, <2>1, <2>2, <3>1, <3>2, SameAccounts DEF AccountInv
  <2>4. CASE got[j].warning # NoWarning
    <3> DEFINE w == got[j].warning
    <3>1. warnings \in Seq(Nat) /\ w \in Nat /\ WarningOf[j] = w
      BY <1>4 DEF IInv, TypeOK, WarningOf
    <3>2. warnings' = Append(warnings, w)
      BY <1>10, <2>4 DEF WarnAndUnlock
    <3>3. Warned' = Warned \cup {j} /\ Warned \cap {j} = {} /\ WarningOf' = WarningOf
      BY <1>1, <2>1, <2>4 DEF Warned, Appended, WarningOf
    <3> HIDE DEF w
    <3>4. warnings' = warnings \o <<w>> /\ <<w>> \in Seq(Nat)
      BY <3>1, <3>2
    <3>5. Numbers(<<j>>, <<w>>, {j}, WarningOf)
      BY <3>1 DEF Numbers
    <3>6. Lists(<<w>>, {j}, WarningOf)
      BY <3>5, ListsByNumbers
    <3>7. Lists(warnings', Warned', WarningOf)
      BY <1>2, <3>1, <3>3, <3>4, <3>6, ListsAppended
    <3> QED
      BY <1>1, <1>2, <2>1, <2>2, <3>3, <3>7 DEF AccountInv, Lists, ReportOf, Full
  <2> QED
    BY <2>3, <2>4
<1> QED
  BY <1>6, <1>7, <1>8, <1>9, <1>10 DEF Goroutine

(* At the sort everything has arrived. *)
LEMMA AllArrived ==
  ASSUME IInv, AccountInv, run = "sort"
  PROVE  Lists(findings, Reports, ReportOf) /\ Lists(warnings, Complaints, ComplaintOf)
<1>1. \A j \in Jobs : pc[j] = "gone" /\ got[j] = Full(j)
  BY DEF IInv, CompleteBeforeSort
<1>2. Arrived = Reports
  BY <1>1, ReportsOfJob DEF Arrived, Appended
<1>w. \A j \in Jobs : got[j].warning = Complains[Pairs[j]]
  <2>1. \A j \in Jobs : Full(j).warning = Complains[Pairs[j]]
    BY DEF Full
  <2> QED
    BY <1>1, <2>1
<1>3. Warned = Complaints
  <2>1. \A j \in Jobs : pc[j] \in Appended \ {"warn"}
    BY <1>1 DEF Appended
  <2> QED
    BY <1>w, <2>1 DEF Warned, Complaints
<1>4. \A j \in Complaints : ComplaintOf[j] = WarningOf[j]
  BY <1>w DEF Complaints, ComplaintOf, WarningOf
<1>5. Lists(findings, Arrived, ReportOf) /\ Lists(warnings, Warned, WarningOf)
  BY DEF AccountInv
<1> QED
  BY <1>2, <1>3, <1>4, <1>5, ListsAgree

(* sort.Strings: numbers of which no later one is less than an earlier one ascend. *)
LEMMA NeverLessIsAscending ==
  ASSUME NEW w \in Seq(Nat), \A i, k \in DOMAIN w : i < k => ~(w[k] < w[i])
  PROVE  \A i, k \in DOMAIN w : i < k => w[i] <= w[k]
<1>1. DOMAIN w = 1..Len(w) /\ Len(w) \in Nat /\ \A i \in 1..Len(w) : w[i] \in Nat
  OBVIOUS
<1>2. \A m, n \in Nat : ~(n < m) => m <= n
  OBVIOUS
<1> QED
  BY <1>1, <1>2

LEMMA SortAnswers ==
  ASSUME IInv, AccountInv, SortAndReturn
  PROVE  Contract!Succeed
<1>1. Lists(findings, Reports, ReportOf) /\ Lists(warnings, Complaints, ComplaintOf)
  BY AllArrived DEF SortAndReturn
<1>2. findings \in Seq(Finding) /\ warnings \in Seq(Nat)
  BY DEF IInv, TypeOK
<1>3. PICK f \in Arrangements(findings, Less), w \in Arrangements(warnings, <) :
        result' = [kind |-> "ok", findings |-> f, warnings |-> w]
  BY DEF SortAndReturn
<1>4. /\ f \in Rearrangements(findings)
      /\ \A i, k \in DOMAIN f : i < k => ~Less(f[k], f[i])
      /\ w \in Rearrangements(warnings)
      /\ \A i, k \in DOMAIN w : i < k => ~(w[k] < w[i])
  BY DEF Arrangements
<1>5. f \in Seq(Finding) /\ w \in Seq(Nat)
  BY <1>2, <1>4, RearrangementKeeps
<1>6. Lists(f, Reports, ReportOf) /\ Lists(w, Complaints, ComplaintOf)
  BY <1>1, <1>4, ListsRearranged
<1>8. \A i, k \in DOMAIN w : i < k => w[i] <= w[k]
  BY <1>4, <1>5, NeverLessIsAscending
<1>9. result' \in Contract!Answers
  BY <1>3, <1>4, <1>5, <1>6, <1>8, SortedListsAnswer
<1>10. result = Contract!NoOutcome
  BY DEF AccountInv, SortAndReturn, NoResult, Contract!NoOutcome
<1>11. UNCHANGED <<ctx, tree, opt>>
  BY DEF SortAndReturn
<1> QED
  BY <1>9, <1>10, <1>11 DEF Contract!Succeed

LEMMA StepsAnswer ==
  ASSUME IInv, AccountInv, [Next]_vars
  PROVE  [Contract!Next]_(Contract!vars)
<1>1. CASE RefuseEmptyRoot \/ WalkFails \/ ReturnCancelled
  <2>1. UNCHANGED <<ctx, tree, opt>> /\ result' = Failed
    BY <1>1 DEF RefuseEmptyRoot, WalkFails, ReturnCancelled
  <2>2. ctx = "cancelled" \/ tree = "broken" \/ opt.root = ""
    BY <1>1 DEF RefuseEmptyRoot, WalkFails, ReturnCancelled
  <2>3. result = NoResult
    BY <1>1 DEF AccountInv, RefuseEmptyRoot, WalkFails, ReturnCancelled
  <2>4. Contract!Fail
    BY <2>1, <2>2, <2>3 DEF Contract!Fail, Contract!NoOutcome, Contract!Failure, NoResult, Failed
  <2> QED
    BY <2>4 DEF Contract!Next
<1>2. CASE Cancel
  <2>1. ctx' = "cancelled" /\ result' = result
    BY <1>2 DEF Cancel, mainVars
  <2>2. Contract!Interrupt
    BY <2>1 DEF Contract!Interrupt
  <2> QED
    BY <2>2 DEF Contract!Next
<1>3. CASE SortAndReturn
  BY <1>3, SortAnswers DEF Contract!Next
<1>4. CASE UNCHANGED <<ctx, tree, opt, result>>
  BY <1>4 DEF Contract!vars
<1>5. CASE WalkReturns \/ Launch \/ WaitReturns \/ PassCtxCheck \/ Terminating \/ UNCHANGED vars
  BY <1>4, <1>5 DEF WalkReturns, Launch, WaitReturns, PassCtxCheck, Terminating, vars
<1>6. ASSUME NEW j \in Jobs, Goroutine(j)
      PROVE  UNCHANGED <<ctx, tree, opt, result>>
  BY <1>6 DEF Goroutine, GiveUp, TakeToken, DetectCut, DetectReturns, LockMu, LoadFindings, StoreFindings,
     WarnAndUnlock, ReleaseToken, Done, mainVars
<1> QED
  BY <1>1, <1>2, <1>3, <1>4, <1>5, <1>6 DEF Next, Main

(* The safety half of ImplementsContract: Run answers once; it fails only when  *)
(* it was interrupted or could not start; and what it reports is every finding   *)
(* and every warning of every job, each once and in the documented order,        *)
(* however many workers there are and however they interleave.                   *)
THEOREM AnswersAsPromised == Spec => Contract!Init /\ [][Contract!Next]_(Contract!vars)
<1>1. Init => Contract!Init
  BY DEF Init, Contract!Init, NoResult, Contract!NoOutcome
<1>2. IInv /\ AccountInv /\ [Next]_vars => AccountInv'
  BY AccountsMainSteps, AccountsGoroutineSteps DEF Next
<1>3. IInv /\ AccountInv /\ [Next]_vars => [Contract!Next]_(Contract!vars)
  BY StepsAnswer
<1> QED
  BY <1>1, <1>2, <1>3, InitAccountInv, Invariance, PTL DEF Spec
-----------------------------------------------------------------------------
(* Two sorted lists of the same occurrences are equal when no two values tie.      *)
(* R is a strict order that tells any two different values of V apart.            *)
TellsApart(R, V) ==
  /\ \A a, b, c \in V : <<a, b>> \in R /\ <<b, c>> \in R => <<a, c>> \in R
  /\ \A a \in V : <<a, a>> \notin R
  /\ \A a, b \in V : a = b \/ <<a, b>> \in R \/ <<b, a>> \in R

Sorted(f, n, R) == \A i, k \in 1..n : i < k => <<f[k], f[i]>> \notin R

(* t tells where the values of f are in g. *)
FoundAt(t, f, g, n) ==
  /\ t \in [1..n -> 1..n]
  /\ \A i, k \in 1..n : t[i] = t[k] => i = k
  /\ \A i \in 1..n : f[i] = g[t[i]]

(* Fewer places than there are values: two share one. *)
LEMMA TooFewPlaces ==
  ASSUME NEW k \in Nat \ {0}, NEW u \in [1..k -> 1..(k - 1)]
  PROVE  \E i, h \in 1..k : i # h /\ u[i] = u[h]
<1>1. IsFiniteSet(1..k) /\ Cardinality(1..k) = k
  BY FS_Interval
<1>2. IsFiniteSet(1..(k - 1)) /\ Cardinality(1..(k - 1)) = k - 1
  BY FS_Interval
<1>3. Cardinality(1..(k - 1)) < Cardinality(1..k)
  BY <1>1, <1>2
<1> DEFINE S == 1..k
           T == 1..(k - 1)
<1>4. IsFiniteSet(S) /\ IsFiniteSet(T) /\ Cardinality(T) < Cardinality(S) /\ u \in [S -> T]
  BY <1>1, <1>2, <1>3
<1> HIDE DEF S, T
<1>5. \E i, h \in S : i # h /\ u[i] = u[h]
  BY <1>4, FS_PigeonHole
<1> QED BY <1>5 DEF S

(* The first k values of f are at most f[k], and so is what g has of them: it is    *)
(* before g[k], where there are less than k places.                               *)
LEMMA SortedNeverAhead ==
  ASSUME NEW V, NEW R, TellsApart(R, V), NEW n \in Nat,
         NEW f \in [1..n -> V], Sorted(f, n, R), NEW g \in [1..n -> V], Sorted(g, n, R),
         NEW t, FoundAt(t, f, g, n), NEW k \in 1..n
  PROVE  <<f[k], g[k]>> \notin R
<1> SUFFICES ASSUME <<f[k], g[k]>> \in R PROVE FALSE
  OBVIOUS
<1>1. k \in Nat /\ k - 1 \in Nat /\ 1..k \subseteq 1..n /\ \A i \in 1..n : i < k => i \in 1..(k - 1)
  OBVIOUS
<1>2. \A i \in 1..k : i = k \/ i < k
  BY <1>1
<1>3. \A i \in 1..n : i < k \/ i = k \/ k < i
  BY <1>1
<1>4. ASSUME NEW i \in 1..k PROVE <<f[k], f[i]>> \notin R
  BY <1>1, <1>2, <1>4 DEF TellsApart, Sorted
<1>5. ASSUME NEW i \in 1..n, ~(i < k) PROVE <<f[k], g[i]>> \in R
  <2>1. f[k] \in V /\ g[k] \in V /\ g[i] \in V
    OBVIOUS
  <2>2. <<g[i], g[k]>> \notin R
    BY <1>3, <1>5 DEF TellsApart, Sorted
  <2> QED BY <2>1, <2>2 DEF TellsApart
<1>6. ASSUME NEW i \in 1..k PROVE t[i] \in 1..(k - 1)
  <2>1. i \in 1..n /\ t[i] \in 1..n /\ f[i] = g[t[i]]
    BY <1>1 DEF FoundAt
  <2>2. t[i] < k
    BY <1>4, <1>5, <2>1
  <2> QED BY <1>1, <2>1, <2>2
<1> DEFINE u == [i \in 1..k |-> t[i]]
<1>7. u \in [1..k -> 1..(k - 1)]
  BY <1>6
<1>8. \A i \in 1..k : u[i] = t[i]
  OBVIOUS
<1> HIDE DEF u
<1>9. \E i, h \in 1..k : i # h /\ u[i] = u[h]
  <2>1. k \in Nat \ {0}
    BY <1>1
  <2> QED BY <1>7, <2>1, TooFewPlaces
<1> QED BY <1>1, <1>8, <1>9 DEF FoundAt

NeverBack(f, R) == \A i, k \in DOMAIN f : i < k => <<f[k], f[i]>> \notin R

LEMMA SortedOnce ==
  ASSUME NEW V, NEW R, TellsApart(R, V), NEW occ, NEW val,
         NEW f \in Seq(V), Lists(f, occ, val), NeverBack(f, R),
         NEW g \in Seq(V), Lists(g, occ, val), NeverBack(g, R)
  PROVE  f = g
<1> DEFINE n == Len(f)
<1>1. /\ n \in Nat /\ DOMAIN f = 1..n /\ f \in [1..n -> V]
      /\ DOMAIN g = 1..n /\ g \in [1..n -> V]
  <2>1. Len(g) = Len(f)
    BY ListsCount
  <2> QED BY <2>1
<1>2. PICK p : Numbers(p, f, occ, val)
  BY ListsByNumbers
<1>3. PICK q : Numbers(q, g, occ, val)
  BY ListsByNumbers
<1> HIDE DEF n
<1>4. /\ p \in [1..n -> occ] /\ \A i, k \in 1..n : p[i] = p[k] => i = k
      /\ \A o \in occ : \E i \in 1..n : p[i] = o
      /\ \A i \in 1..n : f[i] = val[p[i]]
  BY <1>1, <1>2 DEF Numbers
<1>5. /\ q \in [1..n -> occ] /\ \A i, k \in 1..n : q[i] = q[k] => i = k
      /\ \A o \in occ : \E i \in 1..n : q[i] = o
      /\ \A i \in 1..n : g[i] = val[q[i]]
  BY <1>1, <1>3 DEF Numbers
<1> DEFINE t == [i \in 1..n |-> CHOOSE h \in 1..n : q[h] = p[i]]
           v == [i \in 1..n |-> CHOOSE h \in 1..n : p[h] = q[i]]
<1>6. \A i \in 1..n : t[i] \in 1..n /\ q[t[i]] = p[i]
  BY <1>4, <1>5
<1>7. \A i \in 1..n : v[i] \in 1..n /\ p[v[i]] = q[i]
  BY <1>4, <1>5
<1>8. t \in [1..n -> 1..n] /\ v \in [1..n -> 1..n]
  BY <1>6, <1>7
<1> HIDE DEF t, v
<1>9. \A i, k \in 1..n : t[i] = t[k] => i = k
  BY <1>4, <1>6
<1>10. \A i, k \in 1..n : v[i] = v[k] => i = k
  BY <1>5, <1>7
<1>11. \A i \in 1..n : f[i] = g[t[i]] /\ g[i] = f[v[i]]
  BY <1>4, <1>5, <1>6, <1>7
<1>16. FoundAt(t, f, g, n) /\ FoundAt(v, g, f, n)
  BY <1>8, <1>9, <1>10, <1>11 DEF FoundAt
<1>12. Sorted(f, n, R) /\ Sorted(g, n, R)
  BY <1>1 DEF Sorted, NeverBack
<1>13. ASSUME NEW k \in 1..n PROVE <<f[k], g[k]>> \notin R
  BY <1>1, <1>12, <1>16, SortedNeverAhead
<1>14. ASSUME NEW k \in 1..n PROVE <<g[k], f[k]>> \notin R
  BY <1>1, <1>12, <1>16, SortedNeverAhead
<1>15. \A k \in 1..n : f[k] = g[k]
  BY <1>1, <1>13, <1>14 DEF TellsApart
<1> QED BY <1>1, <1>15

(* The order of sortFindings tells two findings apart unless all five fields agree. *)
SameKey(a, b) ==
  a.path = b.path /\ a.line = b.line /\ a.column = b.column /\ a.rule = b.rule /\ a.id = b.id

LEMMA LessByField ==
  ASSUME NEW a \in Finding, NEW b \in Finding
  PROVE  Less(a, b) <=>
           \/ a.path < b.path
           \/ a.path = b.path /\ a.line < b.line
           \/ a.path = b.path /\ a.line = b.line /\ a.column < b.column
           \/ a.path = b.path /\ a.line = b.line /\ a.column = b.column /\ a.rule < b.rule
           \/ /\ a.path = b.path /\ a.line = b.line /\ a.column = b.column /\ a.rule = b.rule
              /\ a.id < b.id
<1> DEFINE K == Key(a)
           L == Key(b)
<1>1. /\ K[1] = a.path /\ K[2] = a.line /\ K[3] = a.column /\ K[4] = a.rule /\ K[5] = a.id
      /\ L[1] = b.path /\ L[2] = b.line /\ L[3] = b.column /\ L[4] = b.rule /\ L[5] = b.id
  BY DEF Key
<1>2. 1..5 = {1, 2, 3, 4, 5}
  OBVIOUS
<1>3. /\ 1..(1 - 1) = {} /\ 1..(2 - 1) = {1} /\ 1..(3 - 1) = {1, 2}
      /\ 1..(4 - 1) = {1, 2, 3} /\ 1..(5 - 1) = {1, 2, 3, 4}
  OBVIOUS
<1> HIDE DEF K, L
<1>4. Less(a, b) <=> \E i \in {1, 2, 3, 4, 5} : K[i] < L[i] /\ \A h \in 1..(i - 1) : K[h] = L[h]
  BY <1>2 DEF Less, K, L
<1>5. Less(a, b) <=>
           \/ K[1] < L[1]
           \/ K[2] < L[2] /\ K[1] = L[1]
           \/ K[3] < L[3] /\ K[1] = L[1] /\ K[2] = L[2]
           \/ K[4] < L[4] /\ K[1] = L[1] /\ K[2] = L[2] /\ K[3] = L[3]
           \/ K[5] < L[5] /\ K[1] = L[1] /\ K[2] = L[2] /\ K[3] = L[3] /\ K[4] = L[4]
  <2>1. \A h \in {} : K[h] = L[h]
    OBVIOUS
  <2> QED BY <1>3, <1>4
<1> QED BY <1>1, <1>5

(* Transitive, and total up to ties. *)
LEMMA LessIsOrder ==
  /\ \A a, b, c \in Finding : Less(a, b) /\ Less(b, c) => Less(a, c)
  /\ \A a \in Finding : ~Less(a, a)
  /\ \A a, b \in Finding : SameKey(a, b) \/ Less(a, b) \/ Less(b, a)
<1>1. \A a \in Finding : a.path \in Nat /\ a.line \in Nat /\ a.column \in Nat /\ a.rule \in Nat /\ a.id \in Nat
  BY DEF Finding
<1>2. ASSUME NEW a \in Finding, NEW b \in Finding, NEW c \in Finding, Less(a, b), Less(b, c)
      PROVE  Less(a, c)
  BY <1>1, <1>2, LessByField
<1>3. \A a \in Finding : ~Less(a, a)
  BY <1>1, LessByField
<1>4. \A a, b \in Finding : SameKey(a, b) \/ Less(a, b) \/ Less(b, a)
  BY <1>1, LessByField DEF SameKey
<1> QED BY <1>2, <1>3, <1>4

ValuesOf(occ, val) == {val[o] : o \in occ}
Listings(occ, val) ==
  {[i \in 1..Contract!Cardinality(occ) |-> val[p[i]]] :
     p \in Contract!Bijection(1..Contract!Cardinality(occ), occ)}

(* The listings of what a list can hold are lists of the same values. *)
LEMMA SameListing ==
  ASSUME NEW T, NEW f \in Seq(T), NEW occ, NEW val, Lists(f, occ, val), NEW g \in Listings(occ, val)
  PROVE  g \in Seq(ValuesOf(occ, val)) /\ f \in Seq(ValuesOf(occ, val))
<1> DEFINE V == ValuesOf(occ, val)
<1>p. PICK p \in Contract!Bijection(1..Contract!Cardinality(occ), occ) :
        g = [i \in 1..Contract!Cardinality(occ) |-> val[p[i]]]
  BY DEF Listings
<1>1. Contract!Cardinality(occ) = Len(f) /\ Len(f) \in Nat /\ DOMAIN f = 1..Len(f)
  <2>1. Contract!Cardinality(occ) = Cardinality(occ)
    BY DEF Contract!Cardinality, Cardinality
  <2>2. Cardinality(occ) = Len(f)
    BY ListsCount
  <2> QED BY <2>1, <2>2
<1>2. p \in [1..Len(f) -> occ]
  BY <1>1, <1>p DEF Contract!Bijection, Contract!Injection
<1>3. g \in [1..Len(f) -> V]
  BY <1>1, <1>2, <1>p DEF ValuesOf
<1>4. \E q : Numbers(q, f, occ, val)
  BY ListsByNumbers
<1>5. \A i \in 1..Len(f) : f[i] \in V
  BY <1>1, <1>4 DEF Numbers, ValuesOf
<1>6. f = [i \in 1..Len(f) |-> f[i]]
  BY <1>1
<1> HIDE DEF V
<1>7. f \in [1..Len(f) -> V]
  BY <1>5, <1>6
<1>8. g \in Seq(V) /\ f \in Seq(V)
  BY <1>1, <1>3, <1>7
<1> QED BY <1>8 DEF V

(* The orders of the findings and of the warnings, as relations. *)
FindingValues == ValuesOf(Reports, ReportOf)
FindingOrder == {e \in FindingValues \X FindingValues : Less(e[1], e[2])}
WarningValues == ValuesOf(Complaints, ComplaintOf)
WarningOrder == {e \in WarningValues \X WarningValues : e[1] < e[2]}

LEMMA OrdersTellApart ==
  ASSUME TiesAreEqual
  PROVE  /\ FindingValues \subseteq Finding /\ TellsApart(FindingOrder, FindingValues)
         /\ WarningValues \subseteq Nat /\ TellsApart(WarningOrder, WarningValues)
<1>1. \A o \in Reports : ReportOf[o] \in Finding /\ ReportOf[o] = Emits[Pairs[o[1]]][o[2]]
  BY ReportsOfJob, JobReports DEF ReportOf
<1>2. FindingValues \subseteq Finding
  BY <1>1 DEF FindingValues, ValuesOf
<1>3. \A o, q \in Reports : SameKey(ReportOf[o], ReportOf[q]) => ReportOf[o] = ReportOf[q]
  BY <1>1 DEF TiesAreEqual, SameKey
<1>4. \A a, b \in FindingValues : SameKey(a, b) => a = b
  BY <1>3 DEF FindingValues, ValuesOf
<1>5. \A a, b \in FindingValues : <<a, b>> \in FindingOrder <=> Less(a, b)
  BY DEF FindingOrder
<1>6. TellsApart(FindingOrder, FindingValues)
  BY <1>2, <1>4, <1>5, LessIsOrder DEF TellsApart
<1>7. WarningValues \subseteq Nat
  BY JobReports DEF WarningValues, ValuesOf, ComplaintOf, Complaints
<1>8. \A a, b \in WarningValues : <<a, b>> \in WarningOrder <=> a < b
  BY DEF WarningOrder
<1>9. TellsApart(WarningOrder, WarningValues)
  <2>1. /\ \A a, b, c \in Nat : a < b /\ b < c => a < c
        /\ \A a \in Nat : ~(a < a)
        /\ \A a, b \in Nat : a = b \/ a < b \/ b < a
    OBVIOUS
  <2> QED BY <1>7, <1>8, <2>1 DEF TellsApart
<1> QED BY <1>2, <1>6, <1>7, <1>9

(* The answer Run has given is the only one there is. *)
LEMMA OneAnswer ==
  ASSUME TypeOK, TiesAreEqual, result \in Contract!Answers, NEW r \in Contract!Answers
  PROVE  r = result
<1> DEFINE IsOne(s) ==
             /\ s \in [kind : {"ok"}, findings : Listings(Reports, ReportOf),
                       warnings : Listings(Complaints, ComplaintOf)]
             /\ Lists(s.findings, Reports, ReportOf) /\ Lists(s.warnings, Complaints, ComplaintOf)
             /\ \A i, k \in DOMAIN s.findings : i < k => ~Less(s.findings[k], s.findings[i])
             /\ \A i, k \in DOMAIN s.warnings : i < k => s.warnings[i] <= s.warnings[k]
<1>1. \A s \in Contract!Answers : IsOne(s)
  BY DEF Contract!Answers, Contract!IsAnswer, Contract!InOrder, Contract!Ascending, Lists, Listings, ReportOf, ComplaintOf
<1>2. IsOne(r) /\ IsOne(result)
  BY <1>1
<1>3. result.findings \in Seq(Finding) /\ result.warnings \in Seq(Nat)
  BY DEF TypeOK
<1>4. r.findings \in Listings(Reports, ReportOf) /\ r.warnings \in Listings(Complaints, ComplaintOf)
  BY <1>2
<1>5. r.findings \in Seq(FindingValues) /\ result.findings \in Seq(FindingValues)
  BY <1>2, <1>3, <1>4, SameListing DEF FindingValues
<1>6. r.warnings \in Seq(WarningValues) /\ result.warnings \in Seq(WarningValues)
  BY <1>2, <1>3, <1>4, SameListing DEF WarningValues
<1>7. ASSUME NEW s, IsOne(s), s.findings \in Seq(FindingValues), s.warnings \in Seq(WarningValues)
      PROVE  NeverBack(s.findings, FindingOrder) /\ NeverBack(s.warnings, WarningOrder)
  <2>1. \A i, k \in DOMAIN s.findings : i < k => <<s.findings[k], s.findings[i]>> \notin FindingOrder
    BY <1>7 DEF FindingOrder
  <2>2. \A i \in DOMAIN s.warnings : s.warnings[i] \in Nat
    BY <1>7, OrdersTellApart
  <2>3. \A m, n \in Nat : m <= n => ~(n < m)
    OBVIOUS
  <2>4. \A i, k \in DOMAIN s.warnings : i < k => ~(s.warnings[k] < s.warnings[i])
    BY <1>7, <2>2, <2>3
  <2>5. \A i, k \in DOMAIN s.warnings : i < k => <<s.warnings[k], s.warnings[i]>> \notin WarningOrder
    BY <2>4 DEF WarningOrder
  <2> QED BY <2>1, <2>5 DEF NeverBack
<1>8. /\ Lists(r.findings, Reports, ReportOf) /\ Lists(result.findings, Reports, ReportOf)
      /\ NeverBack(r.findings, FindingOrder) /\ NeverBack(result.findings, FindingOrder)
      /\ Lists(r.warnings, Complaints, ComplaintOf) /\ Lists(result.warnings, Complaints, ComplaintOf)
      /\ NeverBack(r.warnings, WarningOrder) /\ NeverBack(result.warnings, WarningOrder)
  BY <1>2, <1>5, <1>6, <1>7
<1> HIDE DEF IsOne
<1>9. r.findings = result.findings
  BY <1>5, <1>8, OrdersTellApart, SortedOnce
<1>10. r.warnings = result.warnings
  BY <1>6, <1>8, OrdersTellApart, SortedOnce
<1> QED BY <1>2, <1>9, <1>10 DEF IsOne

(* A success is one of the answers. *)
Answer(r) == r \in Contract!Answers
Answered == result.kind = "ok" => Answer(result)

(* Deterministic, for every tree, every set of detectors and every number of        *)
(* workers: where findings that tie are equal, no interleaving and no choice of      *)
(* sort.Slice makes a successful Run report anything but the one sorted listing.     *)
THEOREM OutputIsDeterministic == Spec => []Deterministic
<1>1. Init => Answered
  <2>1. Init => result = NoResult
    BY DEF Init
  <2>2. NoResult.kind = "none"
    BY DEF NoResult
  <2> QED BY <2>1, <2>2 DEF Answered
<1>2. IInv /\ AccountInv /\ Answered /\ [Next]_vars => Answered'
  <2> SUFFICES ASSUME IInv, AccountInv, Answered, [Next]_vars PROVE Answered'
    OBVIOUS
  <2>1. [Contract!Next]_(Contract!vars)
    BY StepsAnswer
  <2>2. \/ result' \in Contract!Answers
        \/ result' = [kind |-> "failed", findings |-> << >>, warnings |-> << >>]
        \/ result' = result
    BY <2>1 DEF Contract!Next, Contract!Interrupt, Contract!Fail, Contract!Succeed, Contract!vars, Contract!Failure
  <2> QED BY <2>2 DEF Answered, Answer
<1>3. IInv /\ Answered => Deterministic
  <2> SUFFICES ASSUME IInv, Answered, TiesAreEqual, result.kind = "ok"
               PROVE  Contract!Answers = {result}
    BY DEF Deterministic
  <2>1. TypeOK /\ result \in Contract!Answers
    BY DEF IInv, Answered, Answer
  <2> QED BY <2>1, OneAnswer
<1>4. IInv /\ AccountInv /\ [Next]_vars => AccountInv'
  BY AccountsMainSteps, AccountsGoroutineSteps DEF Next
<1> QED BY <1>1, <1>2, <1>3, <1>4, InitAccountInv, Invariance, PTL DEF Spec
=============================================================================
