----------------------------- MODULE DepsProofs -----------------------------
(***************************************************************************)
(* What is left of the contract when the lazy load has no lock, for any number *)
(* of manifests and workers: exact answers with one worker, never more than     *)
(* what is owed with several, and a cache that is settled when the detector has *)
(* been idle.                                                                *)
(***************************************************************************)
EXTENDS DepsCatalog, FiniteSetTheorems, TLAPS

(* What the disk makes of the catalog. *)
Full == IF disk = "listed" THEN Words ELSE {}

Past == {"check error", "load", "read file", "range", "match", "returned"}

(* Whatever has not been stored, somebody is about to store. *)
Stored ==
  /\ catalog \subseteq Full
  /\ catalogErr => disk = "invalid"
  /\ loaded /\ ~(catalogErr <=> disk = "invalid") => \E m \in Manifests : pc[m] = "load"
  /\ loaded =>
       \A w \in Full \ catalog : \E m \in Manifests : pc[m] = "load" /\ w \notin done[m]

(* Where one Detect is. *)
CallInv(m) ==
  /\ pc[m] \in Past => loaded
  /\ pc[m] \in {"waiting", "check loaded", "check error", "set loaded", "read file"} =>
       done[m] = {} /\ copy[m] = {}
  /\ pc[m] = "load" => copy[m] = {}
  /\ copy[m] \subseteq Full
  /\ pc[m] \in {"range", "match"} => Content[m] \in {"match", "nomatch"}
  /\ pc[m] = "match" => done[m] = Words

(* With one worker there is no race: a call that is past the load finds the cache   *)
(* settled, and what it has copied is what there was to copy.                     *)
Serial ==
  /\ \A m, n \in InDetect : m = n
  /\ ~panicked
  /\ \A m \in Manifests :
       /\ pc[m] \in {"read file", "range", "match"} => disk # "invalid"
       /\ pc[m] \in {"range", "match"} => copy[m] = Full \cap done[m]

IInv ==
  /\ TypeOK /\ Stored /\ ExactOrLess
  /\ \A m \in Manifests : CallInv(m)
  /\ workers = 1 => Serial
-----------------------------------------------------------------------------
Labels ==
  {"waiting", "check loaded", "check error", "set loaded", "load", "read file", "range", "match", "returned"}

(* A step of one call leaves those of the others where they are. *)
LEMMA OthersStay ==
  ASSUME TypeOK, NEW m \in Manifests, Detect(m)
  PROVE  /\ workers' = workers /\ disk' = disk
         /\ pc'[m] \in Labels /\ pc' = [pc EXCEPT ![m] = pc'[m]]
         /\ \A n \in Manifests \ {m} :
              pc'[n] = pc[n] /\ done'[n] = done[n] /\ copy'[n] = copy[n] /\ answer'[n] = answer[n]
<1> USE DEF TypeOK, given, shared, locals, Goto, Return, Labels
<1>1. CASE \E w \in Words : StoreWord(m, w) \/ CopyWord(m, w)
  BY <1>1 DEF StoreWord, CopyWord
<1>2. CASE ~(\E w \in Words : StoreWord(m, w) \/ CopyWord(m, w))
  BY <1>2 DEF Detect, Enter, CheckLoaded, ReturnCachedError, TrustLoaded, SetLoaded, LoadFails, ReadFails,
     ReadAndParse, MatchPanics, MatchReturns
<1> QED BY <1>1, <1>2

(* TypeOK is inductive. *)
LEMMA TypesKept ==
  ASSUME TypeOK, NEW m \in Manifests, Detect(m)
  PROVE  TypeOK'
<1>1. /\ workers' \in WorkerChoices /\ disk' \in {"listed", "empty", "invalid"}
      /\ pc' \in [Manifests -> Labels]
  BY OthersStay DEF TypeOK, Labels
<1> USE DEF TypeOK, given, shared, locals, Goto, Return
<1>2. loaded' \in BOOLEAN /\ catalogErr' \in BOOLEAN /\ panicked' \in BOOLEAN
  BY DEF Detect, Enter, CheckLoaded, ReturnCachedError, TrustLoaded, SetLoaded, LoadFails, StoreWord, ReadFails,
     ReadAndParse, CopyWord, MatchPanics, MatchReturns
<1>3. catalog' \subseteq Words /\ done' \in [Manifests -> SUBSET Words] /\ copy' \in [Manifests -> SUBSET Words]
  <2>1. ASSUME NEW w \in Words, StoreWord(m, w)
        PROVE  /\ catalog' \in {catalog \cup {w}, catalog \ {w}} /\ copy' = copy
               /\ \E d \in SUBSET Words : done' = [done EXCEPT ![m] = d]
    BY <2>1 DEF StoreWord
  <2>2. ASSUME NEW w \in Words, CopyWord(m, w)
        PROVE  /\ catalog' = catalog
               /\ \E d \in SUBSET Words : done' = [done EXCEPT ![m] = d]
               /\ \E c \in SUBSET Words : copy' = [copy EXCEPT ![m] = c]
    BY <2>2 DEF CopyWord
  <2>3. CASE ~(\E w \in Words : StoreWord(m, w) \/ CopyWord(m, w))
    BY <2>3 DEF Detect, Enter, CheckLoaded, ReturnCachedError, TrustLoaded, SetLoaded, LoadFails, ReadFails,
       ReadAndParse, MatchPanics, MatchReturns
  <2> QED BY <2>1, <2>2, <2>3
<1>4. answer' \in [Manifests -> {NoAnswer, "load error", "read error", "parse error", "findings", "nothing"}]
  BY DEF Detect, Enter, CheckLoaded, ReturnCachedError, TrustLoaded, SetLoaded, LoadFails, StoreWord, ReadFails,
     ReadAndParse, CopyWord, MatchPanics, MatchReturns
<1> QED BY <1>1, <1>2, <1>3, <1>4 DEF Labels

(* The cache only grows towards what is on disk, and a load that has begun is under  *)
(* way until it is complete.                                                       *)
LEMMA StoredKept ==
  ASSUME IInv, NEW m \in Manifests, Detect(m)
  PROVE  Stored'
<1>1. /\ disk' = disk /\ pc' = [pc EXCEPT ![m] = pc'[m]] /\ pc \in [Manifests -> Labels]
      /\ \A n \in Manifests \ {m} : pc'[n] = pc[n] /\ done'[n] = done[n]
      /\ done \in [Manifests -> SUBSET Words] /\ Full' = Full
  BY OthersStay DEF IInv, TypeOK, Labels, Full
<1>2. Stored /\ CallInv(m)
  BY DEF IInv
<1>3. CASE SetLoaded(m)
  <2>1. /\ pc'[m] = "load" /\ done'[m] = {} /\ catalog' = catalog /\ catalogErr' = catalogErr
    BY <1>1, <1>2, <1>3 DEF SetLoaded, Goto, locals, CallInv
  <2> QED BY <1>1, <1>2, <2>1 DEF Stored
<1>4. CASE LoadFails(m)
  <2>1. disk = "invalid" /\ catalogErr' = TRUE /\ catalog' = catalog /\ Full = {}
    BY <1>4 DEF LoadFails, Full
  <2> QED BY <1>1, <1>2, <2>1 DEF Stored
<1>5. ASSUME NEW w \in Words, StoreWord(m, w) PROVE Stored'
  <2>1. /\ disk # "invalid" /\ pc[m] = "load" /\ loaded' = loaded /\ catalogErr' = catalogErr /\ w \notin done[m]
        /\ catalog' = IF disk = "listed" THEN catalog \cup {w} ELSE catalog \ {w}
        /\ done'[m] = IF done[m] \cup {w} = Words THEN {} ELSE done[m] \cup {w}
        /\ pc'[m] = IF done[m] \cup {w} = Words THEN "read file" ELSE "load"
    BY <1>1, <1>5 DEF StoreWord, Goto
  <2>2. catalog' \subseteq Full' /\ (catalogErr' => disk' = "invalid") /\ (catalogErr' <=> disk' = "invalid")
    BY <1>1, <1>2, <2>1 DEF Stored, Full
  <2>3. ASSUME loaded, NEW x \in Full \ catalog' PROVE \E n \in Manifests : pc'[n] = "load" /\ x \notin done'[n]
    <3>1. x \in Full \ catalog /\ x # w /\ x \in Words
      BY <2>1, <2>3 DEF Full
    <3>2. PICK n \in Manifests : pc[n] = "load" /\ x \notin done[n]
      BY <1>2, <2>3, <3>1 DEF Stored
    <3>3. CASE n # m
      BY <1>1, <3>2, <3>3
    <3>4. CASE n = m
      <4>1. x \notin done[m] \cup {w} /\ done[m] \cup {w} # Words
        BY <3>1, <3>2, <3>4
      <4> QED BY <2>1, <4>1
    <3> QED BY <3>3, <3>4
  <2> QED BY <1>1, <2>1, <2>2, <2>3 DEF Stored
<1>6. CASE ~SetLoaded(m) /\ ~LoadFails(m) /\ ~(\E w \in Words : StoreWord(m, w))
  <2>1. /\ loaded' = loaded /\ catalogErr' = catalogErr /\ catalog' = catalog /\ pc[m] # "load"
    BY <1>6 DEF Detect, Enter, CheckLoaded, ReturnCachedError, TrustLoaded, ReadFails,
     ReadAndParse, CopyWord, MatchPanics, MatchReturns, Goto, Return, shared
  <2> QED BY <1>1, <1>2, <2>1 DEF Stored
<1> QED BY <1>3, <1>4, <1>5, <1>6

(* What the call that moves has so far. *)
LEMMA CallMoves ==
  ASSUME IInv, NEW m \in Manifests, Detect(m)
  PROVE  CallInv(m)'
<1>1. /\ pc' = [pc EXCEPT ![m] = pc'[m]] /\ pc \in [Manifests -> Labels] /\ Full' = Full
      /\ done \in [Manifests -> SUBSET Words] /\ copy \in [Manifests -> SUBSET Words] /\ catalog \subseteq Full
      /\ Content[m] \in Contents
  BY OthersStay, ContentAssumption DEF IInv, TypeOK, Labels, Full, Stored
<1>2. CallInv(m)
  BY DEF IInv
<1>3. ASSUME NEW w \in Words, StoreWord(m, w) PROVE CallInv(m)'
  BY <1>1, <1>2, <1>3 DEF CallInv, StoreWord, Goto, Past
<1>4. ASSUME NEW w \in Words, CopyWord(m, w) PROVE CallInv(m)'
  <2>1. /\ pc[m] = "range" /\ loaded' = loaded /\ copy'[m] = copy[m] \cup (catalog \cap {w})
        /\ done'[m] = done[m] \cup {w}
        /\ pc'[m] = IF done[m] \cup {w} = Words THEN "match" ELSE "range"
    BY <1>1, <1>4 DEF CopyWord, Goto, shared
  <2> QED BY <1>1, <1>2, <2>1 DEF CallInv, Past
<1>5. CASE Enter(m) \/ CheckLoaded(m) \/ ReturnCachedError(m) \/ TrustLoaded(m) \/ SetLoaded(m) \/ LoadFails(m)
  BY <1>1, <1>2, <1>5 DEF CallInv, Past, Enter, CheckLoaded, ReturnCachedError, TrustLoaded, SetLoaded, LoadFails,
     Goto, Return, locals, shared
<1>6. CASE ReadFails(m) \/ ReadAndParse(m) \/ MatchPanics(m) \/ MatchReturns(m)
  BY <1>1, <1>2, <1>6 DEF CallInv, Past, ReadFails, ReadAndParse, MatchPanics, MatchReturns, Contents, Goto, Return,
     locals, shared
<1> QED BY <1>3, <1>4, <1>5, <1>6 DEF Detect

(* With one worker, a call that is past the load is alone with a settled cache.      *)
LEMMA AloneIsSettled ==
  ASSUME IInv, workers = 1, NEW m \in Manifests, pc[m] \in {"check error", "read file", "range", "match"}
  PROVE  (catalogErr <=> disk = "invalid") /\ catalog = Full
<1>1. loaded /\ m \in InDetect /\ pc[m] # "load"
  BY DEF IInv, CallInv, Past, InDetect
<1>2. \A n \in Manifests : pc[n] # "load"
  BY <1>1 DEF IInv, Serial, InDetect
<1> QED BY <1>1, <1>2 DEF IInv, Stored

LEMMA SerialKept ==
  ASSUME IInv, workers = 1, NEW m \in Manifests, Detect(m)
  PROVE  Serial'
<1>1. /\ pc' = [pc EXCEPT ![m] = pc'[m]] /\ pc \in [Manifests -> Labels] /\ Full' = Full /\ disk' = disk
      /\ done \in [Manifests -> SUBSET Words] /\ copy \in [Manifests -> SUBSET Words]
      /\ \A n \in Manifests \ {m} : pc'[n] = pc[n] /\ done'[n] = done[n] /\ copy'[n] = copy[n]
  BY OthersStay DEF IInv, TypeOK, Labels, Full
<1>2. Serial /\ CallInv(m)
  BY DEF IInv
<1>3. CASE Enter(m)
  <2>1. InDetect = {}
    <3>1. IsFiniteSet(InDetect)
      BY ManifestsAssumption, FS_Subset DEF InDetect
    <3>2. Cardinality(InDetect) \in Nat /\ Cardinality(InDetect) < 1
      BY <1>3, <3>1, FS_CardinalityType DEF Enter
    <3>3. Cardinality(InDetect) = 0
      BY <3>2
    <3> QED BY <3>1, <3>3, FS_EmptySet
  <2>2. \A n \in Manifests : pc[n] \in {"waiting", "returned"}
    BY <2>1 DEF InDetect
  <2>3. pc'[m] = "check loaded" /\ panicked' = panicked
    BY <1>1, <1>3 DEF Enter, Goto
  <2> QED BY <1>1, <1>2, <2>2, <2>3 DEF Serial, InDetect
<1>4. CASE ~Enter(m)
  <2>1. pc[m] \notin {"waiting", "returned"}
    BY <1>4 DEF Detect, CheckLoaded, ReturnCachedError, TrustLoaded, SetLoaded, LoadFails, StoreWord, ReadFails,
       ReadAndParse, CopyWord, MatchPanics, MatchReturns, Goto, Return
  <2>2. \A n \in Manifests \ {m} : pc[n] \in {"waiting", "returned"}
    BY <1>2, <2>1 DEF Serial, InDetect
  <2>3. (\A n, k \in InDetect : n = k)'
    BY <1>1, <2>2 DEF InDetect
  <2>4. panicked' = panicked
    <3>1. ~MatchPanics(m)
      <4>1. ASSUME MatchPanics(m) PROVE FALSE
        <5>1. pc[m] = "match" /\ copy[m] = {"len"}
          BY <4>1 DEF MatchPanics, Goto
        <5>2. copy[m] = Full \cap Words
          BY <1>2, <5>1 DEF Serial, CallInv
        <5> QED BY <5>1, <5>2 DEF Full, Words
      <4> QED BY <4>1
    <3> QED BY <1>4, <3>1 DEF Detect, CheckLoaded, ReturnCachedError, TrustLoaded, SetLoaded, LoadFails, StoreWord,
       ReadFails, ReadAndParse, CopyWord, MatchReturns
  <2>5. /\ pc'[m] \in {"read file", "range", "match"} => disk # "invalid"
        /\ pc'[m] \in {"range", "match"} => copy'[m] = Full \cap done'[m]
    <3>1. CASE TrustLoaded(m)
      <4>1. ~catalogErr /\ pc[m] = "check error" /\ pc'[m] = "read file"
        BY <1>1, <3>1 DEF TrustLoaded, Goto
      <4>2. disk # "invalid"
        BY <4>1, AloneIsSettled
      <4> QED BY <4>1, <4>2
    <3>2. ASSUME NEW w \in Words, StoreWord(m, w)
          PROVE  disk # "invalid" /\ pc'[m] \in {"load", "read file"}
      BY <1>1, <3>2 DEF StoreWord, Goto
    <3>3. CASE ReadAndParse(m)
      <4>1. pc[m] = "read file" /\ pc'[m] = "range" /\ done' = done /\ copy' = copy
        BY <1>1, <3>3 DEF ReadAndParse, Goto, locals
      <4>2. disk # "invalid" /\ done[m] = {} /\ copy[m] = {}
        BY <1>2, <4>1 DEF Serial, CallInv
      <4> QED BY <4>1, <4>2
    <3>4. ASSUME NEW w \in Words, CopyWord(m, w)
          PROVE  disk # "invalid" /\ copy'[m] = Full \cap done'[m]
      <4>1. pc[m] = "range" /\ done'[m] = done[m] \cup {w} /\ copy'[m] = copy[m] \cup (catalog \cap {w})
        BY <1>1, <3>4 DEF CopyWord, Goto
      <4>2. catalog = Full
        BY <4>1, AloneIsSettled
      <4>3. disk # "invalid" /\ copy[m] = Full \cap done[m]
        BY <1>2, <4>1 DEF Serial
      <4> QED BY <4>1, <4>2, <4>3
    <3>5. CASE CheckLoaded(m) \/ ReturnCachedError(m) \/ SetLoaded(m) \/ LoadFails(m) \/ ReadFails(m)
                 \/ MatchPanics(m) \/ MatchReturns(m)
      BY <1>1, <3>5 DEF CheckLoaded, ReturnCachedError, SetLoaded, LoadFails, ReadFails, MatchPanics, MatchReturns,
         Goto, Return
    <3> QED BY <1>4, <3>1, <3>2, <3>3, <3>4, <3>5 DEF Detect
  <2>6. \A n \in Manifests \ {m} : pc'[n] \in {"waiting", "returned"}
    BY <1>1, <2>2
  <2> QED BY <1>1, <1>2, <2>3, <2>4, <2>5, <2>6 DEF Serial
<1> QED BY <1>3, <1>4

(* The answers that a call may give when several run at once. *)
Less ==
  CASE workers = 1      -> {}
    [] workers > 1 /\ disk = "invalid" -> {"nothing", "read error", "parse error"}
    [] OTHER            -> {"nothing"}

LEMMA WhatIsPromised ==
  ASSUME TypeOK, NEW m \in Manifests
  PROVE  /\ disk = "invalid" => Promised[disk][m] = "load error"
         /\ disk # "invalid" /\ Content[m] = "unreadable" => Promised[disk][m] = "read error"
         /\ disk # "invalid" /\ Content[m] = "malformed" => Promised[disk][m] = "parse error"
         /\ disk = "listed" /\ Content[m] = "match" => Promised[disk][m] = "findings"
         /\ disk = "empty" /\ Content[m] = "match" => Promised[disk][m] = "nothing"
         /\ disk # "invalid" /\ Content[m] = "nomatch" => Promised[disk][m] = "nothing"
BY DEF TypeOK, Promised

(* What a call answers is what it owes, or less. *)
LEMMA AnswerKept ==
  ASSUME IInv, NEW m \in Manifests, Detect(m)
  PROVE  answer'[m] \in {NoAnswer, Promised[disk][m]} \cup Less
<1>1. TypeOK /\ Stored /\ CallInv(m) /\ (workers = 1 => Serial) /\ answer[m] \in {NoAnswer, Promised[disk][m]} \cup Less
  BY DEF IInv, ExactOrLess, Less
<1>2. workers \in Nat \ {0} /\ DOMAIN answer = Manifests
  BY <1>1, WorkersAssumption DEF TypeOK
<1>3. /\ workers # 1 /\ disk = "invalid" => Less = {"nothing", "read error", "parse error"}
      /\ workers # 1 /\ disk # "invalid" => Less = {"nothing"}
  <2>1. workers # 1 => workers > 1
    BY <1>2
  <2> QED BY <2>1 DEF Less
<1>4. CASE ReturnCachedError(m) \/ LoadFails(m)
  <2>1. answer'[m] = "load error" /\ disk = "invalid"
    BY <1>1, <1>2, <1>4 DEF ReturnCachedError, LoadFails, Return, Stored
  <2> QED BY <1>1, <2>1, WhatIsPromised
<1>5. CASE ReadFails(m)
  <2>1. /\ pc[m] = "read file" /\ Content[m] \in {"unreadable", "malformed"}
        /\ answer'[m] = IF Content[m] = "unreadable" THEN "read error" ELSE "parse error"
    BY <1>2, <1>5 DEF ReadFails, Return, Goto
  <2>2. workers = 1 => disk # "invalid"
    BY <1>1, <2>1 DEF Serial
  <2> QED BY <1>1, <1>3, <2>1, <2>2, WhatIsPromised
<1>6. CASE MatchReturns(m)
  <2>1. /\ pc[m] = "match" /\ Content[m] \in {"match", "nomatch"} /\ copy[m] \subseteq Full
        /\ answer'[m] = IF copy[m] = Words /\ Content[m] = "match" THEN "findings" ELSE "nothing"
    BY <1>1, <1>2, <1>6 DEF MatchReturns, Return, Goto, CallInv
  <2>2. CASE workers = 1
    <3>1. disk # "invalid" /\ copy[m] = Full
      BY <1>1, <2>1, <2>2 DEF Serial, CallInv, Full
    <3>2. disk \in {"listed", "empty"} /\ (copy[m] = Words <=> disk = "listed")
      BY <1>1, <3>1 DEF TypeOK, Full, Words
    <3> QED BY <1>1, <2>1, <3>2, WhatIsPromised
  <2>3. CASE workers # 1
    <3>1. copy[m] = Words => disk = "listed"
      BY <2>1 DEF Full, Words
    <3> QED BY <1>1, <1>3, <2>1, <2>3, <3>1, WhatIsPromised
  <2> QED BY <2>2, <2>3
<1>7. CASE ~ReturnCachedError(m) /\ ~LoadFails(m) /\ ~ReadFails(m) /\ ~MatchReturns(m)
  <2>1. answer' = answer
    BY <1>7 DEF Detect, Enter, CheckLoaded, TrustLoaded, SetLoaded, StoreWord, ReadAndParse, CopyWord, MatchPanics
  <2> QED BY <1>1, <2>1
<1> QED BY <1>4, <1>5, <1>6, <1>7

LEMMA Initially == Init => IInv
<1> SUFFICES ASSUME Init PROVE IInv
  OBVIOUS
<1>1. TypeOK
  BY DEF Init, TypeOK
<1>2. Stored /\ ExactOrLess
  BY DEF Init, Stored, ExactOrLess
<1>3. \A m \in Manifests : CallInv(m)
  BY DEF Init, CallInv, Past
<1>4. Serial
  BY DEF Init, Serial, InDetect
<1> QED BY <1>1, <1>2, <1>3, <1>4 DEF IInv

LEMMA InvKept == IInv /\ [Next]_vars => IInv'
<1> SUFFICES ASSUME IInv, [Next]_vars PROVE IInv'
  OBVIOUS
<1>1. CASE UNCHANGED vars
  <2>1. /\ workers' = workers /\ disk' = disk /\ loaded' = loaded /\ catalogErr' = catalogErr /\ catalog' = catalog
        /\ pc' = pc /\ done' = done /\ copy' = copy /\ answer' = answer /\ panicked' = panicked
    BY <1>1 DEF vars, given
  <2>2. TypeOK' /\ Stored' /\ ExactOrLess'
    BY <2>1 DEF IInv, TypeOK, Stored, Full, ExactOrLess
  <2>3. (\A m \in Manifests : CallInv(m))'
    BY <2>1 DEF IInv, CallInv, Full
  <2>4. (workers = 1 => Serial)'
    BY <2>1 DEF IInv, Serial, InDetect, Full
  <2> QED BY <2>2, <2>3, <2>4 DEF IInv
<1>2. ASSUME NEW m \in Manifests, Detect(m) PROVE IInv'
  <2>1. workers' = workers /\ disk' = disk /\ Less' = Less
    BY <1>2, OthersStay DEF IInv, Less
  <2>2. TypeOK' /\ Stored' /\ CallInv(m)'
    BY <1>2, TypesKept, StoredKept, CallMoves DEF IInv
  <2>3. ASSUME NEW n \in Manifests \ {m} PROVE CallInv(n)' /\ answer'[n] \in {NoAnswer, Promised[disk][n]} \cup Less
    <3>1. CallInv(n) /\ answer[n] \in {NoAnswer, Promised[disk][n]} \cup Less
      BY DEF IInv, ExactOrLess, Less
    <3>2. pc'[n] = pc[n] /\ done'[n] = done[n] /\ copy'[n] = copy[n] /\ answer'[n] = answer[n] /\ disk' = disk
      BY <1>2, OthersStay DEF IInv
    <3>3. loaded => loaded'
      BY <1>2 DEF Detect, Enter, CheckLoaded, ReturnCachedError, TrustLoaded, SetLoaded, LoadFails, StoreWord,
         ReadFails, ReadAndParse, CopyWord, MatchPanics, MatchReturns, shared
    <3> QED BY <3>1, <3>2, <3>3 DEF CallInv, Full
  <2>4. workers = 1 => Serial'
    BY <1>2, SerialKept
  <2>5. \A n \in Manifests : answer'[n] \in {NoAnswer, Promised[disk][n]} \cup Less
    BY <1>2, <2>3, AnswerKept
  <2>6. ExactOrLess'
    BY <2>1, <2>4, <2>5 DEF ExactOrLess, Serial, Less
  <2> QED BY <2>1, <2>2, <2>3, <2>4, <2>6 DEF IInv
<1> QED BY <1>1, <1>2 DEF Next, Terminating

LEMMA AlwaysIInv == Spec => []IInv
BY Initially, InvKept, PTL DEF Spec

(* Every state is a state of the variables. *)
THEOREM TypeCorrect == Spec => []TypeOK
<1>1. IInv => TypeOK
  BY DEF IInv
<1> QED BY <1>1, AlwaysIInv, PTL

(* With one worker every Detect answers what it owes and none panics; with several    *)
(* it may report less, in the ways ExactOrLess lists, and never anything that is not   *)
(* warranted.                                                                       *)
THEOREM AnswersAreExactOrLess == Spec => []ExactOrLess
<1>1. IInv => ExactOrLess
  BY DEF IInv
<1> QED BY <1>1, AlwaysIInv, PTL

(* The harm of the race ends with the first load: an idle detector that has been      *)
(* used has the cache that the disk says.                                          *)
THEOREM RaceEnds == Spec => []CacheSettled
<1>1. IInv => CacheSettled
  <2> SUFFICES ASSUME IInv, InDetect = {}, NEW m \in Manifests, pc[m] = "returned"
               PROVE  loaded /\ (catalogErr <=> disk = "invalid") /\ catalog = Full
    BY DEF CacheSettled, Full
  <2>1. loaded
    BY DEF IInv, CallInv, Past
  <2>2. \A n \in Manifests : pc[n] # "load"
    BY DEF InDetect
  <2> QED BY <2>1, <2>2 DEF IInv, Stored
<1> QED BY <1>1, AlwaysIInv, PTL
=============================================================================
