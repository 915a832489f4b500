----------------------------- MODULE RulePacks ------------------------------
(***************************************************************************)
(* The source detector (internal/detector/source/source.go): the rule packs  *)
(* are loaded by the first Detect, under d.mu, and a failure to load is kept  *)
(* and returned to every later one; parsing and matching are serialized by    *)
(* the package-wide parseMu.                                                  *)
(*                                                                           *)
(* A rule directory stands for the packs in it, all of one language:          *)
(* directory 1 is rulesDir or the default, the others are extraDirs in order. *)
(* It is "bad" (does not load), "ok" (a call rule of it reports something in   *)
(* every file) or "broken" (it loads, but applying its rule is an error: an    *)
(* unsupported kind, or a pattern that does not compile).                      *)
(***************************************************************************)
EXTENDS Integers, Sequences, FiniteSets, FiniteSetsExt

CONSTANTS
  Files,        \* the source files of the scan, one Detect each
  Content,      \* Content[f]: what happens when the file is read and parsed
  DirChoices,   \* the sequences of rule directories considered
  Workers       \* how many goroutines the pipeline lets into Detect

DirKinds == {"ok", "broken", "bad"}
Contents == {"parses", "no grammar", "parse error", "unreadable"}
ASSUME ContentAssumption == Content \in [Files -> Contents]
ASSUME DirsAssumption == DirChoices \subseteq (Seq(DirKinds) \ {<< >>})
ASSUME WorkersAssumption == Workers \in Nat \ {0}

VARIABLES
  dirs,         \* the rule directories: on disk, and never changing
  loaded,       \* d.loaded
  err,          \* d.err: the directory that failed to load, or 0
  packs,        \* d.packs: the directories whose packs it holds, in order
  mu,           \* who holds d.mu
  parseMu,      \* who holds parseMu
  pc,           \* where each Detect is
  local,        \* the packs it has loaded or has taken from d.packs
  fails,        \* the directory whose failure ensurePacks returns to it, or 0
  found,        \* the directories whose rules have reported in this file
  answer        \* what it returned

vars == <<dirs, loaded, err, packs, mu, parseMu, pc, local, fails, found, answer>>
cache == <<loaded, err, packs>>

Nobody == "nobody"
ASSUME NobodyAssumption == Nobody \notin Files
NoAnswer == [error |-> "none", dir |-> 0, found |-> {}]
Reply(error, dir, reported) == [error |-> error, dir |-> dir, found |-> reported]

(* The directories of one kind. *)
Kind(ds, k) == {i \in DOMAIN ds : ds[i] = k}

(* What each Detect owes.  Rules are applied in order until one is an error;   *)
(* without a syntax tree the fallback skips the rules it cannot use.           *)
Promised ==
  [ds \in DirChoices |->
    [f \in Files |->
       IF Kind(ds, "bad") # {} THEN Reply("load", Min(Kind(ds, "bad")), {})
       ELSE CASE Content[f] = "unreadable"  -> Reply("read", 0, {})
              [] Content[f] = "parse error" -> Reply("parse", 0, Kind(ds, "ok"))
              [] Content[f] = "no grammar"  -> Reply("nil", 0, Kind(ds, "ok"))
              [] Content[f] = "parses" /\ Kind(ds, "broken") = {} -> Reply("nil", 0, Kind(ds, "ok"))
              [] OTHER -> LET b == Min(Kind(ds, "broken")) IN Reply("rule", b, 1..(b - 1))]]

Init ==
  /\ dirs \in DirChoices
  /\ loaded = FALSE
  /\ err = 0
  /\ packs = << >>
  /\ mu = Nobody
  /\ parseMu = Nobody
  /\ pc = [f \in Files |-> "waiting"]
  /\ local = [f \in Files |-> << >>]
  /\ fails = [f \in Files |-> 0]
  /\ found = [f \in Files |-> {}]
  /\ answer = [f \in Files |-> NoAnswer]

InDetect == {f \in Files : pc[f] \notin {"waiting", "returned"}}

Goto(f, from, to) == pc[f] = from /\ pc' = [pc EXCEPT ![f] = to]

(* The pipeline's semaphore lets the goroutine into Detect. *)
Enter(f) ==
  /\ Goto(f, "waiting", "lock")
  /\ Cardinality(InDetect) < Workers
  /\ UNCHANGED <<dirs, cache, mu, parseMu, local, fails, found, answer>>

(* Fault: no lock around the lazy load. *)
NoLockPacks(f) ==
  /\ Goto(f, "lock", "check loaded")
  /\ mu' = f
  /\ UNCHANGED <<dirs, cache, parseMu, local, fails, found, answer>>

(* ensurePacks: d.mu.Lock() *)
LockPacks(f) ==
  /\ Goto(f, "lock", "check loaded")
  /\ mu = Nobody
  /\ mu' = f
  /\ UNCHANGED <<dirs, cache, parseMu, local, fails, found, answer>>

(* Fault: if d.loaded { return nil }. *)
ForgetError(f) ==
  /\ Goto(f, "check loaded", "unlock")
  /\ loaded
  /\ UNCHANGED <<dirs, cache, mu, parseMu, local, fails, found, answer>>

(* if d.loaded { return d.err } *)
UseLoaded(f) ==
  /\ Goto(f, "check loaded", "unlock")
  /\ loaded
  /\ fails' = [fails EXCEPT ![f] = err]
  /\ UNCHANGED <<dirs, cache, mu, parseMu, local, found, answer>>

StartLoading(f) ==
  /\ Goto(f, "check loaded", "load")
  /\ ~loaded
  /\ loaded' = TRUE
  /\ UNCHANGED <<dirs, err, packs, mu, parseMu, local, fails, found, answer>>

(* Fault: one directory too many. *)
LoadPastEnd(f) ==
  /\ Goto(f, "load", "load")
  /\ Len(local[f]) <= Len(dirs)
  /\ Len(local[f]) < Len(dirs) => dirs[Len(local[f]) + 1] # "bad"
  /\ local' = [local EXCEPT ![f] = Append(@, Len(@) + 1)]
  /\ UNCHANGED <<dirs, cache, mu, parseMu, fails, found, answer>>

(* The packs of the next directory: the default first, then the extra ones.   *)
LoadDir(f) ==
  /\ Goto(f, "load", "load")
  /\ Len(local[f]) < Len(dirs)
  /\ dirs[Len(local[f]) + 1] # "bad"
  /\ local' = [local EXCEPT ![f] = Append(@, Len(@) + 1)]
  /\ UNCHANGED <<dirs, cache, mu, parseMu, fails, found, answer>>

(* d.err = err; return: nothing of what was loaded so far is kept. *)
LoadDirFails(f) ==
  /\ Goto(f, "load", "unlock")
  /\ Len(local[f]) < Len(dirs)
  /\ dirs[Len(local[f]) + 1] = "bad"
  /\ err' = Len(local[f]) + 1
  /\ fails' = [fails EXCEPT ![f] = Len(local[f]) + 1]
  /\ UNCHANGED <<dirs, loaded, packs, mu, parseMu, local, found, answer>>

(* d.packs = packs *)
PublishPacks(f) ==
  /\ Goto(f, "load", "unlock")
  /\ Len(local[f]) = Len(dirs)
  /\ packs' = local[f]
  /\ UNCHANGED <<dirs, loaded, err, mu, parseMu, local, fails, found, answer>>

(* The deferred d.mu.Unlock(), then the error of ensurePacks, if any.  *)
UnlockPacks(f) ==
  /\ mu' = Nobody
  /\ IF fails[f] = 0
     THEN Goto(f, "unlock", "read") /\ UNCHANGED answer
     ELSE /\ Goto(f, "unlock", "returned")
          /\ answer' = [answer EXCEPT ![f] = Reply("load", fails[f], {})]
  /\ UNCHANGED <<dirs, cache, parseMu, local, fails, found>>

(* os.ReadFile, before parseMu is taken. *)
ReadFileFails(f) ==
  /\ Goto(f, "read", "returned")
  /\ Content[f] = "unreadable"
  /\ answer' = [answer EXCEPT ![f] = Reply("read", 0, {})]
  /\ UNCHANGED <<dirs, cache, mu, parseMu, local, fails, found>>

ReadFile(f) ==
  /\ Goto(f, "read", "lock parse")
  /\ Content[f] # "unreadable"
  /\ UNCHANGED <<dirs, cache, mu, parseMu, local, fails, found, answer>>

(* Fault: parseMu is not taken. *)
NoLockParse(f) ==
  /\ Goto(f, "lock parse", "parse")
  /\ parseMu' = f
  /\ UNCHANGED <<dirs, cache, mu, local, fails, found, answer>>

LockParse(f) ==
  /\ Goto(f, "lock parse", "parse")
  /\ parseMu = Nobody
  /\ parseMu' = f
  /\ UNCHANGED <<dirs, cache, mu, local, fails, found, answer>>

(* The parse, and packsFor, which reads d.packs without d.mu.  *)
Parse(f) ==
  /\ Goto(f, "parse", IF Content[f] = "parses" THEN "apply" ELSE "fallback")
  /\ local' = [local EXCEPT ![f] = packs]
  /\ UNCHANGED <<dirs, cache, mu, parseMu, fails, found, answer>>

(* applyRule, rule after rule; an error ends the loop with what there is.     *)
ApplyRule(f) ==
  /\ Goto(f, "apply", "apply")
  /\ local[f] # << >>
  /\ dirs[Head(local[f])] # "broken"
  /\ found' = [found EXCEPT ![f] = @ \cup {Head(local[f])}]
  /\ local' = [local EXCEPT ![f] = Tail(@)]
  /\ UNCHANGED <<dirs, cache, mu, parseMu, fails, answer>>

(* regexFallback: call rules only, and no rule is an error. *)
Fallback(f) ==
  /\ Goto(f, "fallback", "unlock parse")
  /\ found' = [found EXCEPT ![f] = {d \in {local[f][i] : i \in DOMAIN local[f]} : dirs[d] = "ok"}]
  /\ UNCHANGED <<dirs, cache, mu, parseMu, local, fails, answer>>

ApplyEnds(f) ==
  /\ Goto(f, "apply", "unlock parse")
  /\ local[f] # << >> => dirs[Head(local[f])] = "broken"
  /\ UNCHANGED <<dirs, cache, mu, parseMu, local, fails, found, answer>>

(* The deferred parseMu.Unlock() and the return of Detect. *)
UnlockParse(f) ==
  /\ Goto(f, "unlock parse", "returned")
  /\ parseMu' = Nobody
  /\ answer' = [answer EXCEPT ![f] =
       CASE Content[f] = "parse error" -> Reply("parse", 0, found[f])
         [] Content[f] = "parses" /\ local[f] # << >> -> Reply("rule", Head(local[f]), found[f])
         [] OTHER -> Reply("nil", 0, found[f])]
  /\ UNCHANGED <<dirs, cache, mu, local, fails, found>>

Detect(f) ==
  \/ Enter(f) \/ LockPacks(f) \/ UseLoaded(f) \/ StartLoading(f) \/ LoadDir(f) \/ LoadDirFails(f)
  \/ PublishPacks(f) \/ UnlockPacks(f) \/ ReadFileFails(f) \/ ReadFile(f) \/ LockParse(f)
  \/ Parse(f) \/ ApplyRule(f) \/ Fallback(f) \/ ApplyEnds(f) \/ UnlockParse(f)

Terminating ==
  /\ \A f \in Files : pc[f] = "returned"
  /\ UNCHANGED vars

Next == (\E f \in Files : Detect(f)) \/ Terminating

(* Every goroutine that can run does; a mutex is passed on. *)
Spec == Init /\ [][Next]_vars /\ \A f \in Files : WF_vars(Detect(f))
-----------------------------------------------------------------------------
TypeOK ==
  /\ dirs \in DirChoices
  /\ loaded \in BOOLEAN
  /\ err \in 0..Len(dirs)
  /\ packs \in Seq(1..Len(dirs))
  /\ mu \in Files \cup {Nobody} /\ parseMu \in Files \cup {Nobody}
  /\ pc \in [Files -> {"waiting", "lock", "check loaded", "load", "unlock", "read", "lock parse",
                       "parse", "apply", "fallback", "unlock parse", "returned"}]
  /\ local \in [Files -> Seq(1..Len(dirs))]
  /\ fails \in [Files -> 0..Len(dirs)]
  /\ found \in [Files -> SUBSET (1..Len(dirs))]
  /\ answer \in [Files -> [error : {"none", "nil", "load", "read", "parse", "rule"},
                           dir : Nat, found : SUBSET (1..Len(dirs))]]

(* packsFor reads d.packs with no lock.  It may, because once a goroutine is     *)
(* past ensurePacks nobody writes the cache again.                              *)
CacheFrozen ==
  [][(\E f \in Files : pc[f] \in {"read", "lock parse", "parse", "apply", "fallback",
                                  "unlock parse", "returned"})
       => UNCHANGED cache]_vars

(* gotreesitter's grammar and runtime are global to the process: two goroutines  *)
(* are never inside the parser or the matcher together.                          *)
ParsesAlone ==
  \A f, g \in Files :
    {pc[f], pc[g]} \subseteq {"parse", "apply", "fallback", "unlock parse"} => f = g

Contract ==
  INSTANCE LazyLoad WITH
    Callers <- Files, Disks <- DirChoices, disk <- dirs

(* Every Detect gets what the disk and its file owe it, errors included, however *)
(* many run at once; and each of them does get it.                               *)
ImplementsLazyLoad == Contract!Spec
=============================================================================
