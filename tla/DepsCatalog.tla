---------------------------- MODULE DepsCatalog -----------------------------
(***************************************************************************)
(* The deps detector (internal/detector/deps/deps.go): every Detect first    *)
(* makes sure the library catalog is loaded.  The fields loaded, catalogErr  *)
(* and catalog are shared by all goroutines and nothing protects them, so a  *)
(* step here is one load or store of one machine word: the catalog is a      *)
(* slice, whose pointer and length are stored, and loaded, separately and in *)
(* either order.                                                            *)
(***************************************************************************)
EXTENDS Integers, FiniteSets

CONSTANTS
  Manifests,    \* the go.mod files of the scan, one Detect each
  Content,      \* Content[m]: what is in the file
  WorkerChoices \* how many goroutines the pipeline may let into Detect

Contents == {"match", "nomatch", "malformed", "unreadable"}
ASSUME ContentAssumption == Content \in [Manifests -> Contents]
ASSUME ManifestsAssumption == IsFiniteSet(Manifests)
ASSUME WorkersAssumption == WorkerChoices \subseteq (Nat \ {0})

VARIABLES
  workers,      \* how many it does let in, chosen once
  disk,         \* the catalog file: "listed", "empty" (valid, nothing for Go) or "invalid"
  loaded,       \* d.loaded
  catalogErr,   \* d.catalogErr # nil (the one word of the interface that decides it)
  catalog,      \* the words of the slice d.catalog that are set
  pc,           \* where each Detect is
  done,         \* the words its copy or its assignment has dealt with
  copy,         \* the words of its copy of the slice that are set
  answer,       \* what it returned
  panicked      \* a goroutine dereferenced a nil pointer: the process is dead

given == <<workers, disk>>
vars == <<given, loaded, catalogErr, catalog, pc, done, copy, answer, panicked>>
shared == <<loaded, catalogErr, catalog>>
locals == <<done, copy>>

Words == {"ptr", "len"}
NoAnswer == "none"

(* What each Detect owes, by what is on disk and in its file. *)
Promised ==
  [d \in {"listed", "empty", "invalid"} |->
    [m \in Manifests |->
       CASE d = "invalid" -> "load error"
         [] d # "invalid" /\ Content[m] = "unreadable" -> "read error"
         [] d # "invalid" /\ Content[m] = "malformed" -> "parse error"
         [] d = "listed" /\ Content[m] = "match" -> "findings"
         [] OTHER -> "nothing"]]

Init ==
  /\ workers \in WorkerChoices
  /\ disk \in {"listed", "empty", "invalid"}
  /\ loaded = FALSE
  /\ catalogErr = FALSE
  /\ catalog = {}
  /\ pc = [m \in Manifests |-> "waiting"]
  /\ done = [m \in Manifests |-> {}]
  /\ copy = [m \in Manifests |-> {}]
  /\ answer = [m \in Manifests |-> NoAnswer]
  /\ panicked = FALSE

InDetect == {m \in Manifests : pc[m] \notin {"waiting", "returned"}}

Goto(m, from, to) == ~panicked /\ pc[m] = from /\ pc' = [pc EXCEPT ![m] = to]

Return(m, from, value) ==
  /\ Goto(m, from, "returned")
  /\ answer' = [answer EXCEPT ![m] = value]

(* The pipeline's semaphore lets the goroutine into Detect. *)
Enter(m) ==
  /\ Goto(m, "waiting", "check loaded")
  /\ Cardinality(InDetect) < workers
  /\ UNCHANGED <<given, shared, locals, answer, panicked>>

(* if d.loaded { return d.catalogErr } *)
CheckLoaded(m) ==
  /\ Goto(m, "check loaded", IF loaded THEN "check error" ELSE "set loaded")
  /\ UNCHANGED <<given, shared, locals, answer, panicked>>

ReturnCachedError(m) ==
  /\ catalogErr
  /\ Return(m, "check error", "load error")
  /\ UNCHANGED <<given, shared, locals, panicked>>

(* Fault: if d.loaded { return nil }. *)
ForgetError(m) ==
  /\ Goto(m, "check error", "read file")
  /\ UNCHANGED <<given, shared, locals, answer, panicked>>

TrustLoaded(m) ==
  /\ ~catalogErr
  /\ Goto(m, "check error", "read file")
  /\ UNCHANGED <<given, shared, locals, answer, panicked>>

(* d.loaded = true: before anything has been loaded. *)
SetLoaded(m) ==
  /\ Goto(m, "set loaded", "load")
  /\ loaded' = TRUE
  /\ UNCHANGED <<given, catalogErr, catalog, locals, answer, panicked>>

(* Fault: the error is returned but not kept. *)
LoadFailsUnrecorded(m) ==
  /\ disk = "invalid"
  /\ Return(m, "load", "load error")
  /\ UNCHANGED <<given, shared, locals, panicked>>

(* The loader fails: d.catalogErr = err; return err. *)
LoadFails(m) ==
  /\ disk = "invalid"
  /\ Return(m, "load", "load error")
  /\ catalogErr' = TRUE
  /\ UNCHANGED <<given, loaded, catalog, locals, panicked>>

(* d.catalog = goLibs, a word at a time; a slice of nothing has no word set.  *)
StoreWord(m, w) ==
  /\ disk # "invalid"
  /\ w \in Words \ done[m]
  /\ Goto(m, "load", IF done[m] \cup {w} = Words THEN "read file" ELSE "load")
  /\ catalog' = IF disk = "listed" THEN catalog \cup {w} ELSE catalog \ {w}
  /\ done' = [done EXCEPT ![m] = IF @ \cup {w} = Words THEN {} ELSE @ \cup {w}]
  /\ UNCHANGED <<given, loaded, catalogErr, copy, answer, panicked>>

(* os.ReadFile and modfile.Parse, which report what they cannot read. *)
ReadFails(m) ==
  /\ Content[m] \in {"unreadable", "malformed"}
  /\ Return(m, "read file", IF Content[m] = "unreadable" THEN "read error" ELSE "parse error")
  /\ UNCHANGED <<given, shared, locals, panicked>>

ReadAndParse(m) ==
  /\ Content[m] \in {"match", "nomatch"}
  /\ Goto(m, "read file", "range")
  /\ UNCHANGED <<given, shared, locals, answer, panicked>>

(* for _, lib := range d.catalog copies the slice, a word at a time, ... *)
CopyWord(m, w) ==
  /\ w \in Words \ done[m]
  /\ Goto(m, "range", IF done[m] \cup {w} = Words THEN "match" ELSE "range")
  /\ copy' = [copy EXCEPT ![m] = @ \cup (catalog \cap {w})]
  /\ done' = [done EXCEPT ![m] = @ \cup {w}]
  /\ UNCHANGED <<given, shared, answer, panicked>>

(* Fault: the panic is recovered and becomes one more kind of answer. *)
MatchRecovers(m) ==
  /\ copy[m] = {"len"}
  /\ Return(m, "match", "panic")
  /\ UNCHANGED <<given, shared, locals, panicked>>

(* ... and a length without a pointer makes the first element a nil           *)
(* dereference; a pointer without a length is an empty catalog.               *)
MatchPanics(m) ==
  /\ copy[m] = {"len"}
  /\ Goto(m, "match", "returned")
  /\ panicked' = TRUE
  /\ UNCHANGED <<given, shared, locals, answer>>

MatchReturns(m) ==
  /\ copy[m] # {"len"}
  /\ Return(m, "match", IF copy[m] = Words /\ Content[m] = "match" THEN "findings" ELSE "nothing")
  /\ UNCHANGED <<given, shared, locals, panicked>>

Detect(m) ==
  \/ Enter(m) \/ CheckLoaded(m) \/ ReturnCachedError(m) \/ TrustLoaded(m) \/ SetLoaded(m)
  \/ LoadFails(m) \/ (\E w \in Words : StoreWord(m, w)) \/ ReadFails(m) \/ ReadAndParse(m)
  \/ (\E w \in Words : CopyWord(m, w)) \/ MatchPanics(m) \/ MatchReturns(m)

(* The process is over: every Detect has returned, or one of them panicked. *)
Terminating ==
  /\ panicked \/ \A m \in Manifests : pc[m] = "returned"
  /\ UNCHANGED vars

Next == (\E m \in Manifests : Detect(m)) \/ Terminating

(* Every goroutine that can run does. *)
Spec == Init /\ [][Next]_vars /\ \A m \in Manifests : WF_vars(Detect(m))
-----------------------------------------------------------------------------
TypeOK ==
  /\ workers \in WorkerChoices
  /\ disk \in {"listed", "empty", "invalid"}
  /\ loaded \in BOOLEAN /\ catalogErr \in BOOLEAN /\ panicked \in BOOLEAN
  /\ catalog \subseteq Words
  /\ pc \in [Manifests -> {"waiting", "check loaded", "check error", "set loaded", "load",
                           "read file", "range", "match", "returned"}]
  /\ done \in [Manifests -> SUBSET Words]
  /\ copy \in [Manifests -> SUBSET Words]
  /\ answer \in [Manifests -> {NoAnswer, "load error", "read error", "parse error", "findings",
                               "nothing"}]

(* With one worker the detector keeps the promise of module LazyLoad: every       *)
(* Detect gets the answer it is owed, the error of a failed load included, whoever *)
(* loaded the catalog.  With several, what goes wrong goes wrong in one way only,   *)
(* apart from a panic: a Detect may report less than it owes, and never a finding,  *)
(* or an error, that the disk and the file do not warrant.                        *)
ExactOrLess ==
  /\ workers = 1 => ~panicked
  /\ \A m \in Manifests :
       answer[m] \in {NoAnswer, Promised[disk][m]} \cup
         CASE workers = 1      -> {}
           [] workers > 1 /\ disk = "invalid" -> {"nothing", "read error", "parse error"}
           [] OTHER            -> {"nothing"}

(* The race is over once the detector has been idle: when some Detect has      *)
(* returned and none is inside, the cache holds what the disk says, so the     *)
(* harm is confined to the goroutines that overlap the first load.             *)
CacheSettled ==
  InDetect = {} /\ (\E m \in Manifests : pc[m] = "returned") /\ ~panicked =>
    /\ loaded
    /\ catalogErr <=> disk = "invalid"
    /\ catalog = IF disk = "listed" THEN Words ELSE {}

(* detector.go: implementations must be goroutine-safe, and Detect never panics: *)
(* a Detect that is told of no error reports every library of the catalog that   *)
(* its file requires, and the process lives.                                     *)
GoroutineSafe ==
  /\ ~panicked
  /\ \A m \in Manifests : answer[m] = "nothing" => Promised[disk][m] = "nothing"
=============================================================================
