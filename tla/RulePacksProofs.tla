-------------------------- MODULE RulePacksProofs ---------------------------
(***************************************************************************)
(* The lazy load of the source detector is safe for any number of files,      *)
(* workers and rule directories: the cache is settled before anybody reads it  *)
(* without the lock, and every call answers what the disk and its file owe it. *)
(***************************************************************************)
EXTENDS RulePacks, SequenceTheorems, TLAPS

Labels ==
  {"waiting", "lock", "check loaded", "load", "unlock", "read", "lock parse", "parse", "apply", "fallback",
   "unlock parse", "returned"}
Before  == {"waiting", "lock", "check loaded"}
Guarded == {"check loaded", "load", "unlock"}
Parsing == {"parse", "apply", "fallback", "unlock parse"}
Past    == {"read", "lock parse"} \cup Parsing

(* The directories in order, and those before the n-th. *)
Upto(n) == [i \in 1..n |-> i]

(* The lock is held by whoever is in the code that it guards. *)
LocksHeld ==
  \A f \in Files :
    /\ pc[f] \in Guarded => mu = f
    /\ pc[f] \in Parsing => parseMu = f

(* The cache has three phases. *)
NotLoaded ==
  /\ ~loaded /\ err = 0 /\ packs = << >>
  /\ \A f \in Files : pc[f] \in Before

LoadingBy(g) ==
  /\ loaded /\ err = 0 /\ packs = << >>
  /\ pc[g] = "load"
  /\ \E n \in 0..Len(dirs) : local[g] = Upto(n) /\ \A i \in 1..n : dirs[i] # "bad"
  /\ \A f \in Files \ {g} : pc[f] \in {"waiting", "lock"}

Bad == Kind(dirs, "bad")

Settled ==
  /\ loaded
  /\ IF Bad = {} THEN err = 0 ELSE err \in Bad /\ \A d \in Bad : err =< d
  /\ err = 0 => packs = Upto(Len(dirs))
  /\ \A f \in Files :
       /\ pc[f] # "load"
       /\ pc[f] = "unlock" => fails[f] = err
       /\ pc[f] \in Past => err = 0

Phases == NotLoaded \/ (\E g \in Files : LoadingBy(g)) \/ Settled

(* What one Detect has so far. *)
Fresh(f) == found[f] = {} /\ answer[f] = NoAnswer

(* The directories after the n-th, of len. *)
Remaining(len, n) == [i \in 1..(len - n) |-> i + n]

(* The loop over the rules is after the n-th directory. *)
Applied(f, n) ==
  /\ local[f] = Remaining(Len(dirs), n)
  /\ found[f] = 1..n
  /\ \A i \in 1..n : dirs[i] = "ok"

CallInv(f) ==
  /\ pc[f] \in Before => local[f] = << >> /\ fails[f] = 0
  /\ pc[f] = "load" => fails[f] = 0
  /\ pc[f] \notin {"apply", "unlock parse", "returned"} => Fresh(f)
  /\ pc[f] \in {"lock parse"} \cup Parsing => Content[f] # "unreadable"
  /\ pc[f] = "fallback" => Content[f] # "parses" /\ local[f] = Upto(Len(dirs))
  /\ pc[f] = "apply" => Content[f] = "parses" /\ answer[f] = NoAnswer /\ \E n \in 0..Len(dirs) : Applied(f, n)
  /\ pc[f] = "unlock parse" =>
       /\ answer[f] = NoAnswer
       /\ IF Content[f] = "parses"
          THEN \E n \in 0..Len(dirs) : Applied(f, n) /\ (n < Len(dirs) => dirs[n + 1] = "broken")
          ELSE found[f] = Kind(dirs, "ok")
  /\ pc[f] = "returned" => answer[f] = Promised[dirs][f]

IInv == TypeOK /\ LocksHeld /\ Phases /\ \A f \in Files : CallInv(f)
-----------------------------------------------------------------------------
LEMMA LeastIsMin ==
  ASSUME NEW S \in SUBSET Int, NEW x \in S, \A y \in S : x =< y
  PROVE  Min(S) = x
<1>1. Min(S) \in S /\ \A y \in S : Min(S) =< y
  BY DEF Min
<1>2. Min(S) =< x /\ x =< Min(S) /\ x \in Int /\ Min(S) \in Int
  BY <1>1
<1> QED BY <1>2

(* The directories on disk are a sequence that is not empty. *)
LEMMA DirsAreKinds ==
  ASSUME TypeOK
  PROVE  /\ Len(dirs) \in Nat /\ DOMAIN dirs = 1..Len(dirs)
         /\ \A i \in 1..Len(dirs) : dirs[i] \in DirKinds
         /\ \A k : Kind(dirs, k) \subseteq 1..Len(dirs)
<1>1. dirs \in Seq(DirKinds)
  BY DirsAssumption DEF TypeOK
<1> QED BY <1>1 DEF Kind

(* A step of one call leaves those of the others where they are. *)
LEMMA OthersStay ==
  ASSUME TypeOK, NEW f \in Files, Detect(f)
  PROVE  /\ dirs' = dirs
         /\ pc'[f] \in Labels /\ pc' = [pc EXCEPT ![f] = pc'[f]]
         /\ DOMAIN answer' = Files
         /\ \A g \in Files \ {f} :
              /\ pc'[g] = pc[g] /\ local'[g] = local[g] /\ fails'[g] = fails[g]
              /\ found'[g] = found[g] /\ answer'[g] = answer[g]
BY DEF TypeOK, Labels, Detect, Enter, LockPacks, UseLoaded, StartLoading, LoadDir, LoadDirFails, PublishPacks,
   UnlockPacks, ReadFileFails, ReadFile, LockParse, Parse, ApplyRule, Fallback, ApplyEnds, UnlockParse, Goto

(* TypeOK is inductive. *)
LEMMA TypesKept ==
  ASSUME TypeOK, NEW f \in Files, Detect(f)
  PROVE  TypeOK'
<1>1. dirs' = dirs /\ dirs' \in DirChoices /\ pc' \in [Files -> Labels]
  BY OthersStay DEF TypeOK, Labels
<1>2. Len(dirs) \in Nat /\ DOMAIN dirs = 1..Len(dirs)
  BY DirsAreKinds
<1> DEFINE D == 1..Len(dirs)
<1>3. /\ loaded \in BOOLEAN /\ err \in 0..Len(dirs) /\ packs \in Seq(D) /\ local \in [Files -> Seq(D)]
      /\ mu \in Files \cup {Nobody} /\ parseMu \in Files \cup {Nobody}
      /\ fails \in [Files -> 0..Len(dirs)] /\ found \in [Files -> SUBSET D]
      /\ answer \in [Files -> [error : {"none", "nil", "load", "read", "parse", "rule"}, dir : Nat, found : SUBSET D]]
  BY DEF TypeOK
<1>4. loaded' \in BOOLEAN /\ mu' \in Files \cup {Nobody} /\ parseMu' \in Files \cup {Nobody}
  BY <1>3 DEF Detect, Enter, LockPacks, UseLoaded, StartLoading, LoadDir, LoadDirFails, PublishPacks, cache,
     UnlockPacks, ReadFileFails, ReadFile, LockParse, Parse, ApplyRule, Fallback, ApplyEnds, UnlockParse
<1>5. err' \in 0..Len(dirs) /\ fails' \in [Files -> 0..Len(dirs)]
  <2>1. CASE LoadDirFails(f)
    <3>1. Len(local[f]) \in Nat /\ Len(local[f]) < Len(dirs)
      BY <1>3, <2>1 DEF LoadDirFails
    <3>2. Len(local[f]) + 1 \in 0..Len(dirs)
      BY <1>2, <3>1
    <3> QED BY <1>3, <2>1, <3>2 DEF LoadDirFails
  <2>2. CASE ~LoadDirFails(f)
    BY <1>3, <2>2 DEF Detect, Enter, LockPacks, UseLoaded, StartLoading, LoadDir, PublishPacks, cache,
     UnlockPacks, ReadFileFails, ReadFile, LockParse, Parse, ApplyRule, Fallback, ApplyEnds, UnlockParse
  <2> QED BY <2>1, <2>2
<1>6. packs' \in Seq(D) /\ local' \in [Files -> Seq(D)]
  <2>1. CASE LoadDir(f)
    <3>1. Len(local[f]) \in Nat /\ Len(local[f]) < Len(dirs) /\ local[f] \in Seq(D)
      BY <1>3, <2>1 DEF LoadDir
    <3>2. Len(local[f]) + 1 \in D
      BY <1>2, <3>1
    <3>3. Append(local[f], Len(local[f]) + 1) \in Seq(D)
      BY <3>1, <3>2
    <3> QED BY <1>3, <2>1, <3>3 DEF LoadDir, cache
  <2>2. CASE ApplyRule(f)
    <3>1. local[f] \in Seq(D) /\ local[f] # << >>
      BY <1>3, <2>2 DEF ApplyRule
    <3>2. Tail(local[f]) \in Seq(D)
      BY <3>1, HeadTailProperties
    <3> QED BY <1>3, <2>2, <3>2 DEF ApplyRule, cache
  <2>3. CASE ~LoadDir(f) /\ ~ApplyRule(f)
    BY <1>3, <2>3 DEF Detect, Enter, LockPacks, UseLoaded, StartLoading, LoadDirFails, PublishPacks, cache,
     UnlockPacks, ReadFileFails, ReadFile, LockParse, Parse, Fallback, ApplyEnds, UnlockParse
  <2> QED BY <2>1, <2>2, <2>3
<1>7. found' \in [Files -> SUBSET D]
  <2>1. CASE ApplyRule(f)
    <3>1. local[f] \in Seq(D) /\ local[f] # << >>
      BY <1>3, <2>1 DEF ApplyRule
    <3>2. Head(local[f]) \in D
      BY <3>1
    <3> QED BY <1>3, <2>1, <3>2 DEF ApplyRule
  <2>2. CASE Fallback(f)
    <3>1. local[f] \in Seq(D)
      BY <1>3
    <3>2. {local[f][i] : i \in DOMAIN local[f]} \subseteq D
      BY <3>1
    <3> QED BY <1>3, <2>2, <3>2 DEF Fallback
  <2>3. CASE ~ApplyRule(f) /\ ~Fallback(f)
    BY <1>3, <2>3 DEF Detect, Enter, LockPacks, UseLoaded, StartLoading, LoadDir, LoadDirFails, PublishPacks, cache,
     UnlockPacks, ReadFileFails, ReadFile, LockParse, Parse, ApplyEnds, UnlockParse
  <2> QED BY <2>1, <2>2, <2>3
<1>8. answer' \in [Files -> [error : {"none", "nil", "load", "read", "parse", "rule"}, dir : Nat, found : SUBSET D]]
  <2> DEFINE A == [error : {"none", "nil", "load", "read", "parse", "rule"}, dir : Nat, found : SUBSET D]
  <2>1. \A e \in {"nil", "load", "read", "parse", "rule"}, d \in Nat, r \in SUBSET D : Reply(e, d, r) \in A
    BY DEF Reply
  <2>2. answer' = answer \/ \E r \in A : answer' = [answer EXCEPT ![f] = r]
    <3>1. CASE UnlockPacks(f)
      <4>1. fails[f] \in Nat
        BY <1>2, <1>3
      <4>2. Reply("load", fails[f], {}) \in A
        BY <2>1, <4>1
      <4> QED BY <3>1, <4>2 DEF UnlockPacks
    <3>2. CASE ReadFileFails(f)
      BY <2>1, <3>2 DEF ReadFileFails
    <3>3. CASE UnlockParse(f)
      <4>1. found[f] \in SUBSET D /\ local[f] \in Seq(D)
        BY <1>3
      <4>2. local[f] # << >> => Head(local[f]) \in Nat
        BY <1>2, <4>1
      <4>3. Reply("parse", 0, found[f]) \in A /\ Reply("nil", 0, found[f]) \in A
        BY <2>1, <4>1
      <4>4. local[f] # << >> => Reply("rule", Head(local[f]), found[f]) \in A
        BY <2>1, <4>1, <4>2
      <4> QED BY <3>3, <4>3, <4>4 DEF UnlockParse
    <3>4. CASE ~UnlockPacks(f) /\ ~ReadFileFails(f) /\ ~UnlockParse(f)
      BY <3>4 DEF Detect, Enter, LockPacks, UseLoaded, StartLoading, LoadDir, LoadDirFails, PublishPacks, cache,
     ReadFile, LockParse, Parse, ApplyRule, Fallback, ApplyEnds
    <3> QED BY <3>1, <3>2, <3>3, <3>4
  <2> HIDE DEF A
  <2>3. answer \in [Files -> A]
    BY <1>3 DEF A
  <2>4. answer' \in [Files -> A]
    BY <2>2, <2>3
  <2> QED BY <2>4 DEF A
<1> QED BY <1>1, <1>4, <1>5, <1>6, <1>7, <1>8 DEF TypeOK, Labels

LEMMA LocksKept ==
  ASSUME IInv, NEW f \in Files, Detect(f)
  PROVE  LocksHeld'
<1>1. /\ pc' = [pc EXCEPT ![f] = pc'[f]] /\ pc \in [Files -> Labels]
      /\ \A g \in Files : pc[g] \in Guarded => mu = g
      /\ \A g \in Files : pc[g] \in Parsing => parseMu = g
  BY OthersStay DEF IInv, TypeOK, LocksHeld, Labels
<1>2. \A g \in Files : pc'[g] \in Guarded => mu' = g
  <2>1. CASE LockPacks(f)
    BY <1>1, <2>1, NobodyAssumption DEF LockPacks, Goto, Guarded
  <2>2. CASE UnlockPacks(f)
    BY <1>1, <2>2, NobodyAssumption DEF UnlockPacks, Goto, Guarded
  <2>3. CASE ~LockPacks(f) /\ ~UnlockPacks(f)
    <3>1. mu' = mu /\ (pc'[f] \in Guarded => pc[f] \in Guarded)
      BY <1>1, <2>3 DEF Detect, Enter, UseLoaded, StartLoading, LoadDir, LoadDirFails, PublishPacks,
         ReadFileFails, ReadFile, LockParse, Parse, ApplyRule, Fallback, ApplyEnds, UnlockParse, Goto, Guarded
    <3> QED BY <1>1, <3>1
  <2> QED BY <2>1, <2>2, <2>3
<1>3. \A g \in Files : pc'[g] \in Parsing => parseMu' = g
  <2>1. CASE LockParse(f)
    BY <1>1, <2>1, NobodyAssumption DEF LockParse, Goto, Parsing
  <2>2. CASE UnlockParse(f)
    BY <1>1, <2>2, NobodyAssumption DEF UnlockParse, Goto, Parsing
  <2>3. CASE ~LockParse(f) /\ ~UnlockParse(f)
    <3>1. parseMu' = parseMu /\ (pc'[f] \in Parsing => pc[f] \in Parsing)
      BY <1>1, <2>3 DEF Detect, Enter, LockPacks, UseLoaded, StartLoading, LoadDir, LoadDirFails, PublishPacks,
         UnlockPacks, ReadFileFails, ReadFile, Parse, ApplyRule, Fallback, ApplyEnds, Goto, Parsing
    <3> QED BY <1>1, <3>1
  <2> QED BY <2>1, <2>2, <2>3
<1> QED BY <1>2, <1>3 DEF LocksHeld

(* Three kinds of steps touch the cache; the first load starts when nobody is past   *)
(* the lock, and the load that ends leaves it settled.                              *)
LEMMA PhasesKept ==
  ASSUME IInv, NEW f \in Files, Detect(f)
  PROVE  Phases'
<1>1. /\ dirs' = dirs /\ pc' = [pc EXCEPT ![f] = pc'[f]] /\ pc \in [Files -> Labels]
      /\ \A g \in Files \ {f} : pc'[g] = pc[g] /\ local'[g] = local[g] /\ fails'[g] = fails[g]
      /\ fails \in [Files -> 0..Len(dirs)]
  BY OthersStay DEF IInv, TypeOK, Labels
<1>2. \A g \in Files : pc[g] \in Guarded => mu = g
  BY DEF IInv, LocksHeld
<1>3. Len(dirs) \in Nat /\ DOMAIN dirs = 1..Len(dirs)
  BY DirsAreKinds DEF IInv
<1>4. CallInv(f)
  BY DEF IInv
<1>5. CASE NotLoaded
  <2>1. Enter(f) \/ LockPacks(f) \/ StartLoading(f)
    BY <1>1, <1>5 DEF NotLoaded, Before, Detect, UseLoaded, LoadDir, LoadDirFails, PublishPacks,
       UnlockPacks, ReadFileFails, ReadFile, LockParse, Parse, ApplyRule, Fallback, ApplyEnds, UnlockParse, Goto
  <2>2. CASE Enter(f) \/ LockPacks(f)
    <3>0. pc'[f] \in Before /\ loaded' = loaded /\ err' = err /\ packs' = packs
      BY <1>1, <2>2 DEF Before, Enter, LockPacks, cache, Goto
    <3>1. NotLoaded'
      BY <1>1, <1>5, <3>0 DEF NotLoaded
    <3> QED BY <3>1 DEF Phases
  <2>3. CASE StartLoading(f)
    <3>1. \A g \in Files \ {f} : pc[g] \in {"waiting", "lock"}
      BY <1>2, <1>5, <2>3 DEF NotLoaded, StartLoading, Goto, Before, Guarded
    <3>2. pc[f] = "check loaded" /\ pc'[f] = "load" /\ local' = local /\ loaded' /\ err' = err /\ packs' = packs
      BY <1>1, <2>3 DEF StartLoading, Goto
    <3>3. local[f] = << >> /\ << >> = Upto(0)
      <4>1. local[f] = << >>
        BY <1>4, <3>2 DEF CallInv, Before
      <4>2. << >> = Upto(0)
        BY DEF Upto
      <4> QED BY <4>1, <4>2
    <3>4. 0 \in 0..Len(dirs) /\ \A i \in 1..0 : dirs[i] # "bad"
      BY <1>3
    <3>5. LoadingBy(f)'
      BY <1>1, <1>5, <3>1, <3>2, <3>3, <3>4 DEF LoadingBy, NotLoaded
    <3> QED BY <3>5 DEF Phases
  <2> QED BY <2>1, <2>2, <2>3
<1>6. ASSUME NEW g \in Files, LoadingBy(g) PROVE Phases'
  <2>1. PICK n \in 0..Len(dirs) : local[g] = Upto(n) /\ \A i \in 1..n : dirs[i] # "bad"
    BY <1>6 DEF LoadingBy
  <2>2. n \in Nat /\ Len(local[g]) = n
    BY <1>3, <2>1 DEF Upto
  <2>3. loaded /\ err = 0 /\ packs = << >> /\ pc[g] = "load" /\ mu = g /\ fails[g] = 0
    BY <1>2, <1>6 DEF LoadingBy, Guarded, IInv, CallInv
  <2>4. \A h \in Files \ {g} : pc[h] \in {"waiting", "lock"}
    BY <1>6 DEF LoadingBy
  <2>5. CASE f # g
    <3>1. Enter(f)
      BY <2>3, <2>4, <2>5, NobodyAssumption DEF Detect, LockPacks, UseLoaded, StartLoading, LoadDir, LoadDirFails,
         PublishPacks, UnlockPacks, ReadFileFails, ReadFile, LockParse, Parse, ApplyRule, Fallback, ApplyEnds,
         UnlockParse, Goto
    <3>2. LoadingBy(g)'
      BY <1>1, <1>6, <2>5, <3>1 DEF LoadingBy, Enter, cache, Goto
    <3> QED BY <3>2 DEF Phases
  <2>6. CASE f = g
    <3>1. LoadDir(f) \/ LoadDirFails(f) \/ PublishPacks(f)
      BY <2>3, <2>6 DEF Detect, Enter, LockPacks, UseLoaded, StartLoading,
         UnlockPacks, ReadFileFails, ReadFile, LockParse, Parse, ApplyRule, Fallback, ApplyEnds, UnlockParse, Goto
    <3>2. CASE LoadDir(f)
      <4>1. n + 1 \in 0..Len(dirs) /\ dirs[n + 1] # "bad"
        BY <1>3, <2>1, <2>2, <2>6, <3>2 DEF LoadDir
      <4>2. local'[f] = Append(Upto(n), n + 1)
        BY <2>1, <2>2, <2>6, <3>2 DEF LoadDir, IInv, TypeOK
      <4>3. Append(Upto(n), n + 1) = Upto(n + 1)
        BY <2>2 DEF Upto
      <4>4. \A i \in 1..(n + 1) : dirs[i] # "bad"
        BY <2>1, <2>2, <4>1
      <4>5. pc'[f] = "load" /\ loaded' = loaded /\ err' = err /\ packs' = packs
        BY <1>1, <3>2 DEF LoadDir, cache, Goto
      <4>6. LoadingBy(f)'
        BY <1>1, <2>3, <2>4, <2>6, <4>1, <4>2, <4>3, <4>4, <4>5 DEF LoadingBy
      <4> QED BY <4>6 DEF Phases
    <3>3. CASE LoadDirFails(f)
      <4>1. n + 1 \in 1..Len(dirs) /\ dirs[n + 1] = "bad" /\ err' = n + 1 /\ fails'[f] = n + 1
        BY <1>1, <1>3, <2>1, <2>2, <2>6, <3>3 DEF LoadDirFails
      <4>2. n + 1 \in Bad /\ \A d \in Bad : n + 1 =< d
        BY <1>3, <2>1, <2>2, <4>1 DEF Bad, Kind
      <4>3. pc'[f] = "unlock" /\ loaded' = loaded /\ Bad' = Bad /\ err' # 0
        BY <1>1, <2>2, <3>3, <4>1 DEF LoadDirFails, Goto, Bad, Kind
      <4>4. \A h \in Files : pc'[h] # "load" /\ (pc'[h] = "unlock" => fails'[h] = err') /\ pc'[h] \notin Past
        BY <1>1, <2>4, <2>6, <4>1, <4>3 DEF Past, Parsing
      <4>5. Settled'
        BY <2>3, <4>1, <4>2, <4>3, <4>4 DEF Settled
      <4> QED BY <4>5 DEF Phases
    <3>4. CASE PublishPacks(f)
      <4>1. n = Len(dirs) /\ packs' = Upto(Len(dirs)) /\ err' = err /\ loaded' = loaded /\ fails' = fails
        BY <2>1, <2>2, <2>6, <3>4 DEF PublishPacks
      <4>2. Bad' = {} /\ pc'[f] = "unlock"
        BY <1>1, <1>3, <2>1, <3>4, <4>1 DEF PublishPacks, Goto, Bad, Kind
      <4>3. \A h \in Files : pc'[h] # "load" /\ (pc'[h] = "unlock" => fails'[h] = err')
        BY <1>1, <2>3, <2>4, <2>6, <4>1, <4>2
      <4>4. Settled'
        BY <1>1, <2>3, <4>1, <4>2, <4>3 DEF Settled
      <4> QED BY <4>4 DEF Phases
    <3> QED BY <3>1, <3>2, <3>3, <3>4
  <2> QED BY <2>5, <2>6
<1>7. CASE Settled
  <2>1. loaded /\ \A g \in Files : /\ pc[g] # "load"
                                   /\ pc[g] = "unlock" => fails[g] = err
                                   /\ pc[g] \in Past => err = 0
    BY <1>7 DEF Settled
  <2>2. loaded' = loaded /\ err' = err /\ packs' = packs
    BY <2>1 DEF Detect, Enter, LockPacks, UseLoaded, StartLoading, LoadDir, LoadDirFails, PublishPacks, cache,
     UnlockPacks, ReadFileFails, ReadFile, LockParse, Parse, ApplyRule, Fallback, ApplyEnds, UnlockParse, Goto
  <2>3. pc'[f] # "load" /\ (pc'[f] = "unlock" => fails'[f] = err)
    BY <1>1, <2>1 DEF Detect, Enter, LockPacks, UseLoaded, StartLoading, LoadDir, LoadDirFails, PublishPacks,
     UnlockPacks, ReadFileFails, ReadFile, LockParse, Parse, ApplyRule, Fallback, ApplyEnds, UnlockParse, Goto
  <2>4. pc'[f] \in Past => err = 0
    BY <1>1, <2>1 DEF Detect, Enter, LockPacks, UseLoaded, StartLoading, LoadDir, LoadDirFails, PublishPacks,
     UnlockPacks, ReadFileFails, ReadFile, LockParse, Parse, ApplyRule, Fallback, ApplyEnds, UnlockParse, Goto,
     Past, Parsing
  <2>5. Bad' = Bad
    BY <1>1 DEF Bad, Kind
  <2>6. Settled'
    BY <1>1, <1>7, <2>1, <2>2, <2>3, <2>4, <2>5 DEF Settled
  <2> QED BY <2>6 DEF Phases
<1> QED BY <1>5, <1>6, <1>7 DEF IInv, Phases

(* The contract's answers, case by case. *)
LEMMA WhatIsPromised ==
  ASSUME TypeOK, NEW f \in Files
  PROVE  /\ Bad # {} => Promised[dirs][f] = Reply("load", Min(Bad), {})
         /\ Bad = {} =>
              /\ Content[f] = "unreadable" => Promised[dirs][f] = Reply("read", 0, {})
              /\ Content[f] = "parse error" => Promised[dirs][f] = Reply("parse", 0, Kind(dirs, "ok"))
              /\ Content[f] = "no grammar" => Promised[dirs][f] = Reply("nil", 0, Kind(dirs, "ok"))
              /\ Content[f] = "parses" /\ Kind(dirs, "broken") = {} =>
                   Promised[dirs][f] = Reply("nil", 0, Kind(dirs, "ok"))
              /\ Content[f] = "parses" /\ Kind(dirs, "broken") # {} =>
                   Promised[dirs][f] = Reply("rule", Min(Kind(dirs, "broken")), 1..(Min(Kind(dirs, "broken")) - 1))
<1>1. dirs \in DirChoices
  BY DEF TypeOK
<1>2. Promised[dirs][f] =
        IF Bad # {} THEN Reply("load", Min(Bad), {})
        ELSE CASE Content[f] = "unreadable"  -> Reply("read", 0, {})
               [] Content[f] = "parse error" -> Reply("parse", 0, Kind(dirs, "ok"))
               [] Content[f] = "no grammar"  -> Reply("nil", 0, Kind(dirs, "ok"))
               [] Content[f] = "parses" /\ Kind(dirs, "broken") = {} -> Reply("nil", 0, Kind(dirs, "ok"))
               [] OTHER -> LET b == Min(Kind(dirs, "broken")) IN Reply("rule", b, 1..(b - 1))
  BY <1>1 DEF Promised, Bad
<1> HIDE DEF Bad
<1> QED BY <1>2

(* Past the load the cache holds every directory, and all of them have loaded. *)
LEMMA PastTheLoad ==
  ASSUME TypeOK, Phases, NEW f \in Files, pc[f] \in Past
  PROVE  Bad = {} /\ packs = Upto(Len(dirs))
<1>1. pc[f] \notin Before /\ pc[f] # "load" /\ pc[f] \notin {"waiting", "lock"}
  BY DEF Past, Parsing, Before
<1>2. Settled
  BY <1>1 DEF Phases, NotLoaded, LoadingBy
<1>3. err = 0 /\ Bad \subseteq 1..Len(dirs)
  BY <1>2, DirsAreKinds DEF Settled, Bad
<1> QED BY <1>2, <1>3, DirsAreKinds DEF Settled

(* One round of the loop over the directories' rules. *)
LEMMA NextRule ==
  ASSUME NEW len \in Nat, NEW n \in 0..len
  PROVE  /\ Remaining(len, n) = << >> <=> n = len
         /\ n < len => Head(Remaining(len, n)) = n + 1 /\ Tail(Remaining(len, n)) = Remaining(len, n + 1)
<1> DEFINE rest == Remaining(len, n)
<1>0. rest = [i \in 1..(len - n) |-> i + n]
  BY DEF Remaining
<1> HIDE DEF rest
<1>1. len - n \in Nat /\ rest \in Seq(Nat) /\ Len(rest) = len - n
  BY <1>0
<1>2. rest = << >> <=> n = len
  BY <1>1
<1>3. ASSUME n < len PROVE Head(rest) = n + 1 /\ Tail(rest) = Remaining(len, n + 1)
  <2>1. 1 \in 1..(len - n) /\ rest # << >>
    BY <1>1, <1>2, <1>3
  <2>2. Head(rest) = rest[1]
    BY <1>1, <2>1
  <2>3. Head(rest) = n + 1
    BY <1>0, <2>1, <2>2
  <2>4. /\ Tail(rest) \in Seq(Nat) /\ Len(Tail(rest)) = len - n - 1
        /\ \A i \in 1..Len(Tail(rest)) : Tail(rest)[i] = rest[i + 1]
    BY <1>1, <2>1, HeadTailProperties
  <2>5. len - n - 1 = len - (n + 1) /\ len - (n + 1) \in Nat
    BY <1>3
  <2>6. DOMAIN Tail(rest) = 1..(len - (n + 1))
    BY <2>4, <2>5
  <2>7. \A i \in 1..(len - (n + 1)) : Tail(rest)[i] = i + (n + 1)
    BY <1>0, <2>4, <2>5
  <2>8. Tail(rest) \in [1..(len - (n + 1)) -> Nat]
    BY <2>4, <2>6, LenProperties
  <2> QED BY <2>3, <2>6, <2>7, <2>8 DEF Remaining
<1> QED BY <1>2, <1>3 DEF rest

LEMMA WhatIsLeft ==
  ASSUME TypeOK, NEW f \in Files, NEW n \in 0..Len(dirs), Applied(f, n)
  PROVE  /\ n \in Nat /\ n =< Len(dirs)
         /\ local[f] = << >> <=> n = Len(dirs)
         /\ n < Len(dirs) => /\ n + 1 \in 1..Len(dirs) /\ n + 1 \in 0..Len(dirs)
                             /\ Head(local[f]) = n + 1
                             /\ Tail(local[f]) = Remaining(Len(dirs), n + 1)
<1>1. Len(dirs) \in Nat /\ local[f] = Remaining(Len(dirs), n)
  BY DirsAreKinds DEF Applied
<1>2. /\ Remaining(Len(dirs), n) = << >> <=> n = Len(dirs)
      /\ n < Len(dirs) => /\ Head(Remaining(Len(dirs), n)) = n + 1
                          /\ Tail(Remaining(Len(dirs), n)) = Remaining(Len(dirs), n + 1)
  BY <1>1, NextRule
<1>3. n \in Nat /\ n =< Len(dirs) /\ (n < Len(dirs) => n + 1 \in 1..Len(dirs) /\ n + 1 \in 0..Len(dirs))
  BY <1>1
<1> QED BY <1>1, <1>2, <1>3

(* What the call that moves has so far. *)
LEMMA CallMoves ==
  ASSUME IInv, NEW f \in Files, Detect(f)
  PROVE  CallInv(f)'
<1>1. /\ dirs' = dirs /\ pc' = [pc EXCEPT ![f] = pc'[f]] /\ pc \in [Files -> Labels]
      /\ local \in [Files -> Seq(1..Len(dirs))] /\ fails \in [Files -> 0..Len(dirs)]
      /\ found \in [Files -> SUBSET (1..Len(dirs))] /\ DOMAIN answer = Files
  BY OthersStay DEF IInv, TypeOK, Labels
<1>2. Len(dirs) \in Nat /\ DOMAIN dirs = 1..Len(dirs) /\ \A i \in 1..Len(dirs) : dirs[i] \in DirKinds
  BY DirsAreKinds DEF IInv
<1>2a. Len(dirs) \in Nat
  BY <1>2
<1>3. CallInv(f) /\ TypeOK /\ Phases
  BY DEF IInv
<1>4. pc[f] \in Past => Bad = {} /\ packs = Upto(Len(dirs))
  BY <1>3, PastTheLoad
<1>5. CASE Enter(f) \/ LockPacks(f) \/ UseLoaded(f) \/ StartLoading(f) \/ LoadDir(f) \/ LoadDirFails(f)
             \/ PublishPacks(f) \/ ReadFile(f)
  BY <1>1, <1>3, <1>5 DEF CallInv, Fresh, Before, Parsing, Enter, LockPacks, UseLoaded, StartLoading, LoadDir,
     LoadDirFails, PublishPacks, ReadFile, Goto
<1>6. CASE UnlockPacks(f)
  <2>1. pc[f] = "unlock" /\ Fresh(f) /\ found' = found /\ pc'[f] \in {"read", "returned"}
    BY <1>1, <1>3, <1>6 DEF UnlockPacks, Goto, CallInv
  <2>2. CASE fails[f] = 0
    BY <1>1, <2>1, <2>2, <1>6 DEF UnlockPacks, Goto, CallInv, Fresh, Before, Parsing
  <2>3. CASE fails[f] # 0
    <3>1. Settled
      BY <1>3, <2>1 DEF Phases, NotLoaded, LoadingBy, Before
    <3>2. fails[f] = err /\ err \in Bad /\ \A d \in Bad : err =< d
      BY <2>1, <2>3, <3>1 DEF Settled
    <3>3. Bad \subseteq Int
      BY <1>2, <1>3, DirsAreKinds DEF Bad
    <3>4. Min(Bad) = err
      BY <3>2, <3>3, LeastIsMin
    <3>5. Promised[dirs][f] = Reply("load", err, {})
      BY <1>3, <3>2, <3>4, WhatIsPromised
    <3>6. pc'[f] = "returned" /\ answer'[f] = Reply("load", fails[f], {})
      BY <1>1, <1>6, <2>3 DEF UnlockPacks, Goto
    <3> QED BY <1>1, <3>2, <3>5, <3>6 DEF CallInv, Before, Parsing
  <2> QED BY <2>2, <2>3
<1>7. CASE ReadFileFails(f)
  <2>1. Promised[dirs][f] = Reply("read", 0, {})
    BY <1>1, <1>3, <1>4, <1>7, WhatIsPromised DEF ReadFileFails, Goto, Past
  <2> QED BY <1>1, <1>7, <2>1 DEF ReadFileFails, Goto, CallInv, Before, Parsing
<1>8. CASE LockParse(f)
  BY <1>1, <1>3, <1>8 DEF LockParse, Goto, CallInv, Fresh, Before, Parsing
<1>9. CASE Parse(f)
  <2>1. /\ pc[f] = "parse" /\ local'[f] = Upto(Len(dirs)) /\ Fresh(f) /\ found' = found /\ answer' = answer
        /\ pc'[f] = IF Content[f] = "parses" THEN "apply" ELSE "fallback"
        /\ Content[f] # "unreadable"
    BY <1>1, <1>3, <1>4, <1>9 DEF Parse, Goto, CallInv, Past, Parsing
  <2>2. Upto(Len(dirs)) = Remaining(Len(dirs), 0) /\ 0 \in 0..Len(dirs) /\ 1..0 = {}
    BY <1>2 DEF Upto, Remaining
  <2>3. Applied(f, 0)'
    BY <1>1, <2>1, <2>2 DEF Applied, Fresh
  <2>4. CASE Content[f] = "parses"
    BY <1>1, <2>1, <2>2, <2>3, <2>4 DEF CallInv, Fresh, Before, Parsing
  <2>5. CASE Content[f] # "parses"
    BY <1>1, <2>1, <2>5 DEF CallInv, Fresh, Before, Parsing
  <2> QED BY <2>4, <2>5
<1>10. CASE ApplyRule(f)
  <2>1. /\ pc[f] = "apply" /\ pc'[f] = "apply" /\ local[f] # << >> /\ dirs[Head(local[f])] # "broken"
        /\ local'[f] = Tail(local[f]) /\ found'[f] = found[f] \cup {Head(local[f])} /\ answer' = answer
    BY <1>1, <1>10 DEF ApplyRule, Goto
  <2>2. PICK n \in 0..Len(dirs) : Applied(f, n)
    BY <1>3, <2>1 DEF CallInv
  <2>3. n < Len(dirs) /\ Head(local[f]) = n + 1 /\ n + 1 \in 1..Len(dirs)
        /\ Tail(local[f]) = Remaining(Len(dirs), n + 1)
    BY <1>3, <2>1, <2>2, WhatIsLeft
  <2>4. dirs[n + 1] = "ok"
    <3>1. dirs[n + 1] # "bad"
      BY <1>2, <1>4, <2>1, <2>3 DEF Bad, Kind, Past, Parsing
    <3> QED BY <1>2, <2>1, <2>3, <3>1 DEF DirKinds
  <2>5. (1..n) \cup {n + 1} = 1..(n + 1)
    BY <1>2
  <2>6. Applied(f, n + 1)'
    BY <1>1, <1>2, <2>1, <2>2, <2>3, <2>4, <2>5 DEF Applied
  <2>7. n + 1 \in 0..Len(dirs)
    BY <1>3, <2>2, <2>3, WhatIsLeft
  <2> QED BY <1>1, <1>3, <2>1, <2>6, <2>7 DEF CallInv, Before, Parsing
<1>11. CASE Fallback(f)
  <2>1. /\ pc[f] = "fallback" /\ pc'[f] = "unlock parse" /\ local[f] = Upto(Len(dirs)) /\ answer' = answer
        /\ found'[f] = {d \in {local[f][i] : i \in DOMAIN local[f]} : dirs[d] = "ok"} /\ Fresh(f)
        /\ Content[f] # "unreadable" /\ Content[f] # "parses"
    BY <1>1, <1>3, <1>11 DEF Fallback, Goto, CallInv, Parsing
  <2>2. {local[f][i] : i \in DOMAIN local[f]} = 1..Len(dirs)
    <3>1. DOMAIN local[f] = 1..Len(dirs) /\ \A i \in 1..Len(dirs) : local[f][i] = i
      BY <2>1 DEF Upto
    <3> QED BY <3>1
  <2>3. found'[f] = Kind(dirs, "ok")
    BY <1>2, <2>1, <2>2 DEF Kind
  <2> QED BY <1>1, <2>1, <2>3 DEF CallInv, Fresh, Before, Parsing
<1>12. CASE ApplyEnds(f)
  <2>1. /\ pc[f] = "apply" /\ pc'[f] = "unlock parse" /\ local' = local /\ found' = found /\ answer' = answer
        /\ local[f] # << >> => dirs[Head(local[f])] = "broken"
    BY <1>1, <1>12 DEF ApplyEnds, Goto
  <2>2. PICK n \in 0..Len(dirs) : Applied(f, n)
    BY <1>3, <2>1 DEF CallInv
  <2>3. n < Len(dirs) => dirs[n + 1] = "broken"
    <3>1. (local[f] = << >> <=> n = Len(dirs)) /\ (n < Len(dirs) => Head(local[f]) = n + 1)
      BY <1>3, <2>2, WhatIsLeft
    <3>2. n < Len(dirs) => n # Len(dirs)
      BY <1>2a
    <3> QED BY <2>1, <3>1, <3>2
  <2>4. Applied(f, n)'
    BY <1>1, <2>1, <2>2 DEF Applied
  <2> QED BY <1>1, <1>3, <2>1, <2>3, <2>4 DEF CallInv, Before, Parsing
<1>13. CASE UnlockParse(f)
  <2>1. /\ pc[f] = "unlock parse" /\ pc'[f] = "returned" /\ Content[f] # "unreadable" /\ Bad = {}
        /\ Content[f] \in Contents
    BY <1>1, <1>3, <1>4, <1>13, ContentAssumption DEF UnlockParse, Goto, CallInv, Past, Parsing
  <2>2. answer'[f] = CASE Content[f] = "parse error" -> Reply("parse", 0, found[f])
                       [] Content[f] = "parses" /\ local[f] # << >> -> Reply("rule", Head(local[f]), found[f])
                       [] OTHER -> Reply("nil", 0, found[f])
    BY <1>1, <1>13 DEF UnlockParse
  <2>3. CASE Content[f] # "parses"
    <3>1. found[f] = Kind(dirs, "ok")
      BY <1>3, <2>1, <2>3 DEF CallInv
    <3>2. answer'[f] = Promised[dirs][f]
      BY <1>3, <2>1, <2>2, <2>3, <3>1, WhatIsPromised DEF Contents
    <3> QED BY <1>1, <2>1, <3>2 DEF CallInv, Before, Parsing
  <2>4. CASE Content[f] = "parses"
    <3>1. PICK n \in 0..Len(dirs) : Applied(f, n) /\ (n < Len(dirs) => dirs[n + 1] = "broken")
      BY <1>3, <2>1, <2>4 DEF CallInv
    <3>2. n \in Nat /\ (local[f] = << >> <=> n = Len(dirs)) /\ (n < Len(dirs) => Head(local[f]) = n + 1)
      BY <1>3, <3>1, WhatIsLeft
    <3>2a. n \in Nat /\ (n = Len(dirs) \/ n < Len(dirs))
      BY <1>2a
    <3>3. found[f] = 1..n /\ \A i \in 1..n : dirs[i] = "ok"
      BY <3>1 DEF Applied
    <3>4. CASE n = Len(dirs)
      <4>1. Kind(dirs, "broken") = {} /\ Kind(dirs, "ok") = 1..n
        BY <1>2, <3>3, <3>4 DEF Kind
      <4>2. Promised[dirs][f] = Reply("nil", 0, 1..n)
        BY <1>3, <2>1, <2>4, <4>1, WhatIsPromised
      <4>3. answer'[f] = Reply("nil", 0, 1..n)
        BY <2>2, <2>4, <3>2, <3>3, <3>4
      <4> QED BY <1>1, <2>1, <4>2, <4>3 DEF CallInv, Before, Parsing
    <3>5. CASE n < Len(dirs)
      <4>1. n + 1 \in Kind(dirs, "broken") /\ \A d \in Kind(dirs, "broken") : n + 1 =< d
        <5>1. n + 1 \in 1..Len(dirs) /\ \A d \in 1..Len(dirs) : d < n + 1 => d \in 1..n
          BY <1>2a, <3>2a, <3>5
        <5>2. \A d \in 1..Len(dirs) : d < n + 1 => dirs[d] = "ok"
          BY <3>3, <5>1
        <5>3. \A d \in Kind(dirs, "broken") : ~(d < n + 1) /\ d \in Nat
          BY <1>2, <5>2 DEF Kind
        <5>4. \A d \in Kind(dirs, "broken") : n + 1 =< d
          BY <3>2a, <5>3
        <5> QED BY <1>2, <3>1, <3>5, <5>1, <5>4 DEF Kind
      <4>2. Kind(dirs, "broken") \subseteq Int
        BY <1>2, <1>3, DirsAreKinds
      <4>3. Min(Kind(dirs, "broken")) = n + 1
        BY <4>1, <4>2, LeastIsMin
      <4>4. 1..((n + 1) - 1) = 1..n
        BY <3>2
      <4>5. Promised[dirs][f] = Reply("rule", n + 1, 1..n)
        BY <1>3, <2>1, <2>4, <4>1, <4>3, <4>4, WhatIsPromised
      <4>6. local[f] # << >> /\ Head(local[f]) = n + 1
        BY <3>2, <3>5
      <4>7. answer'[f] = Reply("rule", n + 1, 1..n)
        BY <2>2, <2>4, <3>3, <4>6
      <4> QED BY <1>1, <2>1, <4>5, <4>7 DEF CallInv, Before, Parsing
    <3> QED BY <3>2a, <3>4, <3>5
  <2> QED BY <2>3, <2>4
<1> QED BY <1>5, <1>6, <1>7, <1>8, <1>9, <1>10, <1>11, <1>12, <1>13 DEF Detect
-----------------------------------------------------------------------------
LEMMA Initially == Init => IInv
<1> SUFFICES ASSUME Init PROVE IInv
  OBVIOUS
<1>1. dirs \in Seq(DirKinds) /\ Len(dirs) \in Nat
  BY DirsAssumption DEF Init
<1>2. TypeOK
  <2>1. NoAnswer \in [error : {"none", "nil", "load", "read", "parse", "rule"}, dir : Nat,
                      found : SUBSET (1..Len(dirs))]
    BY DEF NoAnswer
  <2>2. 0 \in 0..Len(dirs) /\ << >> \in Seq(1..Len(dirs))
    BY <1>1
  <2> HIDE DEF NoAnswer
  <2> QED BY <2>1, <2>2 DEF Init, TypeOK
<1>3. LocksHeld
  BY DEF Init, LocksHeld, Guarded, Parsing
<1>4. Phases
  BY DEF Init, Phases, NotLoaded, Before
<1>5. \A f \in Files : CallInv(f)
  BY DEF Init, CallInv, Fresh, Before, Parsing
<1> QED BY <1>2, <1>3, <1>4, <1>5 DEF IInv

LEMMA InvKept == IInv /\ [Next]_vars => IInv'
<1> SUFFICES ASSUME IInv, [Next]_vars PROVE IInv'
  OBVIOUS
<1>1. CASE UNCHANGED vars
  <2>1. /\ dirs' = dirs /\ loaded' = loaded /\ err' = err /\ packs' = packs /\ mu' = mu /\ parseMu' = parseMu
        /\ pc' = pc /\ local' = local /\ fails' = fails /\ found' = found /\ answer' = answer
    BY <1>1 DEF vars, cache
  <2>2. TypeOK'
    BY <2>1 DEF IInv, TypeOK
  <2>3. LocksHeld'
    BY <2>1 DEF IInv, LocksHeld
  <2>4. Phases'
    BY <2>1 DEF IInv, Phases, NotLoaded, LoadingBy, Settled, Bad
  <2>5. (\A f \in Files : CallInv(f))'
    BY <2>1 DEF IInv, CallInv, Fresh, Applied
  <2> QED BY <2>2, <2>3, <2>4, <2>5 DEF IInv
<1>2. ASSUME NEW f \in Files, Detect(f) PROVE IInv'
  <2>1. TypeOK' /\ LocksHeld' /\ Phases' /\ CallInv(f)'
    BY <1>2, TypesKept, LocksKept, PhasesKept, CallMoves DEF IInv
  <2>2. ASSUME NEW g \in Files \ {f} PROVE CallInv(g)'
    <3>1. CallInv(g)
      BY DEF IInv
    <3>2. /\ dirs' = dirs /\ pc'[g] = pc[g] /\ local'[g] = local[g] /\ fails'[g] = fails[g]
          /\ found'[g] = found[g] /\ answer'[g] = answer[g]
      BY <1>2, OthersStay DEF IInv
    <3> QED BY <3>1, <3>2 DEF CallInv, Fresh, Applied
  <2> QED BY <2>1, <2>2 DEF IInv
<1> QED BY <1>1, <1>2 DEF Next, Terminating

LEMMA AlwaysIInv == Spec => []IInv
BY Initially, InvKept, PTL DEF Spec

(* Every state is a state of the variables: no directory is out of range, in the     *)
(* cache, in a call's copy of it or in an answer.                                   *)
THEOREM TypeCorrect == Spec => []TypeOK
<1>1. IInv => TypeOK
  BY DEF IInv
<1> QED BY <1>1, AlwaysIInv, PTL

(* Two calls are never inside the parser or the matcher together, with any number    *)
(* of workers: whoever is in there holds parseMu.                                   *)
THEOREM ParsersExclude == Spec => []ParsesAlone
<1>1. IInv => ParsesAlone
  <2> SUFFICES ASSUME IInv, NEW f \in Files, NEW g \in Files, pc[f] \in Parsing, pc[g] \in Parsing
               PROVE  f = g
    BY DEF ParsesAlone, Parsing
  <2> QED BY DEF IInv, LocksHeld
<1> QED BY <1>1, AlwaysIInv, PTL

(* Once a call is past ensurePacks nobody writes the cache, which is why packsFor    *)
(* may read it without the lock.                                                   *)
THEOREM UnlockedReadIsSafe == Spec => CacheFrozen
<1>1. ASSUME IInv, [Next]_vars, NEW f \in Files, pc[f] \in Past \cup {"returned"}
      PROVE  UNCHANGED cache
  <2>1. Settled
    BY <1>1 DEF IInv, Phases, NotLoaded, LoadingBy, Past, Parsing, Before
  <2>2. ASSUME NEW g \in Files, Detect(g) PROVE UNCHANGED cache
    BY <2>1, <2>2 DEF Settled, cache, Detect, Enter, LockPacks, UseLoaded, StartLoading, LoadDir, LoadDirFails,
       PublishPacks, UnlockPacks, ReadFileFails, ReadFile, LockParse, Parse, ApplyRule, Fallback, ApplyEnds,
       UnlockParse, Goto
  <2>3. CASE UNCHANGED vars
    BY <2>3 DEF vars, cache
  <2> QED BY <1>1, <2>2, <2>3 DEF Next, Terminating
<1>2. IInv /\ [Next]_vars =>
        [(\E f \in Files : pc[f] \in {"read", "lock parse", "parse", "apply", "fallback",
                                      "unlock parse", "returned"}) => UNCHANGED cache]_vars
  BY <1>1 DEF Past, Parsing
<1> QED BY <1>2, AlwaysIInv, PTL DEF Spec, CacheFrozen

(* The safety half of the refinement: a call answers once, and what the disk and     *)
(* its own file owe it, whatever the other calls are doing.                         *)
THEOREM AnswersAsPromised == Spec => Contract!Init /\ [][Contract!Next]_(Contract!vars)
<1>1. Init => Contract!Init
  BY DEF Init, Contract!Init
<1>2. ASSUME IInv, IInv', [Next]_vars PROVE [Contract!Next]_(Contract!vars)
  <2>1. CASE UNCHANGED vars
    BY <2>1 DEF vars, Contract!vars
  <2>2. ASSUME NEW f \in Files, Detect(f) PROVE [Contract!Next]_(Contract!vars)
    <3>1. dirs' = dirs
      BY <1>2, <2>2, OthersStay DEF IInv
    <3>2. CASE answer' = answer
      BY <3>1, <3>2 DEF Contract!vars
    <3>3. CASE answer' # answer
      <4>1. UnlockPacks(f) \/ ReadFileFails(f) \/ UnlockParse(f)
        BY <2>2, <3>3 DEF Detect, Enter, LockPacks, UseLoaded, StartLoading, LoadDir, LoadDirFails, PublishPacks,
           ReadFile, LockParse, Parse, ApplyRule, Fallback, ApplyEnds
      <4>2. /\ pc[f] \in {"unlock", "read", "unlock parse"} /\ pc'[f] = "returned"
            /\ answer' = [answer EXCEPT ![f] = answer'[f]]
        BY <1>2, <3>3, <4>1 DEF IInv, TypeOK, UnlockPacks, ReadFileFails, UnlockParse, Goto
      <4>3. answer[f] = NoAnswer
        BY <1>2, <4>2 DEF IInv, CallInv, Fresh
      <4>4. answer'[f] = Promised[dirs][f]
        BY <1>2, <3>1, <4>2 DEF IInv, CallInv
      <4>5. Contract!Answer(f)
        BY <3>1, <4>2, <4>3, <4>4 DEF Contract!Answer
      <4> QED BY <4>5 DEF Contract!Next
    <3> QED BY <3>2, <3>3
  <2> QED BY <1>2, <2>1, <2>2 DEF Next, Terminating
<1> QED BY <1>1, <1>2, AlwaysIInv, PTL DEF Spec
=============================================================================
