-------------------------- MODULE FileDetectorsProofs --------------------------
(***************************************************************************)
(* What the detectors that look at one file alone owe their caller, for files   *)
(* of any length and for every set of rules: each answers for everything that    *)
(* it is there to find, and reports nothing that is not there.                   *)
(***************************************************************************)
EXTENDS FileDetectors, SequenceTheorems, WellFoundedInduction, TLAPS

CertRules ==
  {"certs.x509.certificate", "certs.key.private", "certs.key.public", "certs.pem.unknown",
   "certs.pkcs12.private"}

Findings ==
  [place : Nat, rule : CertRules, prim : KnownKeys \cup {"UNKNOWN"}, size : Nat, conf : {"high", "low"}]

LEMMA FindingForIsFinding ==
  ASSUME NEW place \in Nat, NEW rule \in CertRules, NEW key
  PROVE  FindingFor(place, rule, key) \in Findings /\ FindingFor(place, rule, key).place = place
<1>1. PrimitiveOf(key) \in KnownKeys \cup {"UNKNOWN"}
  BY DEF PrimitiveOf
<1>2. KeySize(key) \in Nat
  BY DEF KeySize
<1> QED BY <1>1, <1>2 DEF FindingFor, Found, Findings

(* What a block gives is a finding at its place. *)
LEMMA BlockFindingIsFinding ==
  ASSUME NEW block, at \in Nat
  PROVE  BlockFinding(block) \in Findings /\ BlockFinding(block).place = at
<1>1. \A rule \in CertRules :
        FindingFor(at, rule, block.key) \in Findings /\ FindingFor(at, rule, block.key).place = at
  BY FindingForIsFinding
<1>2. UnknownPEM \in Findings /\ UnknownPEM.place = at
  <2>1. "certs.pem.unknown" \in CertRules
    BY DEF CertRules
  <2> QED BY <2>1 DEF UnknownPEM, Found, Findings
<1>3. \/ BlockFinding(block) = UnknownPEM
      \/ \E rule \in CertRules : BlockFinding(block) = FindingFor(at, rule, block.key)
  BY DEF BlockFinding, CertRules
<1> QED BY <1>1, <1>2, <1>3

(* The job is what Detect is called with, to the end. *)
LEMMA JobStays ==
  ASSUME [Next]_vars
  PROVE  job' = job
<1>1. CASE ReturnUnread \/ ReadFile \/ Terminating \/ UNCHANGED vars
  BY <1>1 DEF ReturnUnread, ReadFile, Terminating, vars
<1>2. CASE CertsNext
  BY <1>2 DEF CertsNext, PassOverMalformed, ReportBlock, RefuseBlock, EndPEM, TryPassword, OpenPKCS12,
     RefusePKCS12, ParseDER
<1>3. CASE ConfigNext
  BY <1>3 DEF ConfigNext, WalkJSON, EndWalk, ScanName, NextLine, ScannerStops
<1>4. CASE SourceNext
  BY <1>4 DEF SourceNext, MatchCall, MatchIdentifier, MatchLine, NextRule, RuleFails, EndRules
<1> QED BY <1>1, <1>2, <1>3, <1>4 DEF Next

(* A certificate file is touched by the actions of this detector alone. *)
LEMMA CertsSteps ==
  ASSUME [Next]_vars, job.detector = "certs"
  PROVE  ReturnUnread \/ ReadFile \/ CertsNext \/ UNCHANGED vars
<1>1. ~SourceNext
  BY DEF SourceNext, MatchCall, MatchIdentifier, MatchLine, NextRule, RuleFails, EndRules, ApplyRule, Scanning
<1>2. ~ConfigNext
  BY DEF ConfigNext, WalkJSON, EndWalk, ScanName, NextLine, ScannerStops, Scanning
<1> QED BY <1>1, <1>2 DEF Next, Terminating
-----------------------------------------------------------------------------
(* What is true of every place of a PEM bundle: the loop is within the blocks, has   *)
(* refused none that is ahead of it, and the files of another form give findings at   *)
(* the end only.                                                                  *)
Progress ==
  /\ findings \in Seq(Findings)
  /\ pc \in {"read", "scan"} => error = "nil"
  /\ File.form = "pem" =>
       /\ at \in 1..(Len(File.blocks) + 1)
       /\ problems \subseteq 1..(at - 1)
  /\ File.form # "pem" => problems = {} /\ (pc # "returned" => findings = << >>)
  /\ File.form = "pkcs12" => at \in 1..3 /\ File.opens \in 1..3 /\ (pc # "returned" => at <= File.opens)

CertsInv == job \in Jobs /\ (job.detector = "certs" => Progress /\ AllButUnheardAnswered)

LEMMA BundleIsSequence ==
  ASSUME job \in Jobs, job.detector = "certs", File.form = "pem"
  PROVE  Len(File.blocks) \in Nat
<1>1. File \in CertFile
  BY JobsAssumption DEF File
<1>2. File.blocks \in Seq([type : STRING, der : STRING, key : STRING])
  BY <1>1 DEF CertFile
<1> QED BY <1>2

(* The items of a bundle are its blocks, and those unheard are the malformed ones. *)
LEMMA ItemsOfBundle ==
  ASSUME job \in Jobs, job.detector = "certs", File.form = "pem"
  PROVE  /\ Items = 1..Len(File.blocks)
         /\ Unheard = {b \in 1..Len(File.blocks) : File.blocks[b].der = "malformed"}
<1>1. File.blocks \in Seq([type : STRING, der : STRING, key : STRING])
  BY JobsAssumption DEF File, CertFile
<1>2. DOMAIN File.blocks = 1..Len(File.blocks)
  BY <1>1
<1> QED BY <1>2 DEF Items, Unheard

LEMMA PasswordsOfBundle ==
  ASSUME job \in Jobs, job.detector = "certs", File.form = "pkcs12"
  PROVE  File.opens \in 1..3
<1>1. File \in CertFile
  BY JobsAssumption DEF File
<1> QED BY <1>1 DEF CertFile

LEMMA CertsInvInitially == Init => CertsInv
<1> SUFFICES ASSUME Init, job.detector = "certs" PROVE Progress /\ AllButUnheardAnswered
  BY DEF Init, CertsInv
<1>1. pc = "read" /\ at = 1 /\ findings = << >> /\ problems = {} /\ error = "nil" /\ job \in Jobs
  BY DEF Init
<1>2. Progress
  <2>1. File.form = "pem" => at \in 1..(Len(File.blocks) + 1)
    BY <1>1, BundleIsSequence
  <2>2. findings \in Seq(Findings)
    BY <1>1
  <2>3. File.form = "pkcs12" => at \in 1..3 /\ File.opens \in 1..3 /\ at <= File.opens
    BY <1>1, PasswordsOfBundle
  <2> QED BY <1>1, <2>1, <2>2, <2>3 DEF Progress
<1>3. BlocksAnswered
  BY <1>1 DEF BlocksAnswered
<1>4. CallAnswered
  BY <1>1 DEF CallAnswered
<1> QED BY <1>2, <1>3, <1>4 DEF AllButUnheardAnswered

LEMMA OneThenOther ==
  ASSUME NEW x \in Findings, NEW y \in Findings
  PROVE  <<x>> \o <<y>> = <<x, y>> /\ <<x>> \o << >> = <<x>>
<1>1. <<x>> \in Seq(Findings) /\ <<y>> \in Seq(Findings) /\ << >> \in Seq(Findings)
  OBVIOUS
<1>2. <<x>> \o << >> = <<x>>
  BY <1>1, ConcatEmptySeq
<1>3. DOMAIN (<<x>> \o <<y>>) = 1..2 /\ Len(<<x>> \o <<y>>) = 2
  BY <1>1, ConcatProperties
<1>4. (<<x>> \o <<y>>)[1] = x /\ (<<x>> \o <<y>>)[2] = y
  BY <1>1, ConcatProperties
<1>5. <<x>> \o <<y>> \in Seq(Findings) /\ <<x, y>> \in Seq(Findings) /\ Len(<<x, y>>) = 2
  BY <1>1, ConcatProperties
<1>6. <<x>> \o <<y>> = <<x, y>>
  <2> DEFINE both == <<x>> \o <<y>>
             pair == <<x, y>>
  <2>1. Len(both) = 2 /\ Len(pair) = 2 /\ both \in Seq(Findings) /\ pair \in Seq(Findings)
    BY <1>3, <1>5
  <2>2. both[1] = pair[1] /\ both[2] = pair[2]
    BY <1>4
  <2> HIDE DEF both, pair
  <2>3. \A i \in 1..Len(both) : both[i] = pair[i]
    BY <2>1, <2>2
  <2>4. both = pair
    BY <2>1, <2>3, SeqEqual
  <2> QED BY <2>4 DEF both, pair
<1> QED BY <1>2, <1>6

(* One step of the loop over the blocks of a bundle. *)
LEMMA LoopStep ==
  ASSUME CertsInv, job' = job, PassOverMalformed \/ ReportBlock \/ RefuseBlock
  PROVE  CertsInv'
<1>1. /\ job.detector = "certs" /\ job \in Jobs /\ pc = "scan" /\ File.form = "pem"
      /\ at <= Len(File.blocks) /\ at' = at + 1 /\ pc' = pc /\ error' = error
  BY DEF CertsInv, PassOverMalformed, ReportBlock, RefuseBlock, AtBlock, InPEM, Scanning
<1>2. File' = File
  BY DEF File
<1>3. /\ findings \in Seq(Findings) /\ at \in 1..(Len(File.blocks) + 1) /\ Len(File.blocks) \in Nat
      /\ problems \subseteq 1..(at - 1) /\ error = "nil"
  BY <1>1, BundleIsSequence DEF CertsInv, Progress
<1>4. /\ \A b \in 1..(at - 1) : Heard(b) <=> b \notin problems \cup Unheard
      /\ \A k \in DOMAIN findings : findings[k].place \in 1..(at - 1)
      /\ \A k, l \in DOMAIN findings : k < l => findings[k].place < findings[l].place
  BY <1>1 DEF CertsInv, AllButUnheardAnswered, BlocksAnswered
<1>5. \A b : b \in 1..(at' - 1) <=> b \in 1..(at - 1) \/ b = at
  BY <1>1, <1>3
<1>6. at' \in 1..(Len(File'.blocks) + 1)
  BY <1>1, <1>2, <1>3
<1>7. SUFFICES /\ findings' \in Seq(Findings) /\ problems' \subseteq 1..(at' - 1)
               /\ BlocksAnswered'
  BY <1>1, <1>2, <1>3, <1>6 DEF CertsInv, Progress, AllButUnheardAnswered, CallAnswered
<1>11. /\ Unheard' = Unheard
       /\ Unheard = {b \in 1..Len(File.blocks) : File.blocks[b].der = "malformed"}
  BY <1>1, <1>2, ItemsOfBundle DEF Unheard, Items
<1>12. at \in 1..Len(File.blocks) /\ at \notin 1..(at - 1)
  BY <1>1, <1>3
<1>8. CASE PassOverMalformed
  <2>1. findings' = findings /\ problems' = problems /\ File.blocks[at].der = "malformed"
    BY <1>8 DEF PassOverMalformed, Block
  <2>2. problems' \subseteq 1..(at' - 1)
    BY <1>3, <1>5, <2>1
  <2>3. at \in Unheard /\ ~Heard(at)
    BY <1>4, <1>11, <1>12, <2>1 DEF Heard
  <2>4. \A b : Heard(b)' <=> Heard(b)
    BY <2>1 DEF Heard
  <2>5. BlocksAnswered'
    BY <1>2, <1>4, <1>5, <1>11, <2>1, <2>3, <2>4 DEF BlocksAnswered
  <2> QED BY <1>3, <2>1, <2>2, <2>5
<1>9. CASE ReportBlock
  <2> DEFINE new == BlockFinding(Block)
  <2>1. findings' = Append(findings, new) /\ problems' = problems
    BY <1>9 DEF ReportBlock
  <2>2. new \in Findings /\ new.place = at
    BY <1>3, BlockFindingIsFinding
  <2> HIDE DEF new
  <2>3. /\ findings' \in Seq(Findings) /\ DOMAIN findings' = 1..(Len(findings) + 1)
        /\ DOMAIN findings = 1..Len(findings) /\ Len(findings) \in Nat
        /\ \A k \in DOMAIN findings : findings'[k] = findings[k]
        /\ findings'[Len(findings) + 1] = new
    BY <1>3, <2>1, <2>2
  <2>4. problems' \subseteq 1..(at' - 1) /\ at \notin problems
    BY <1>3, <1>5, <2>1
  <2>5. \A b \in 1..(at' - 1) : Heard(b)' <=> b \notin problems' \cup Unheard'
    <3> SUFFICES ASSUME NEW b \in 1..(at' - 1)
                 PROVE  Heard(b)' <=> b \notin problems \cup Unheard
      BY <1>11, <2>1
    <3>1. CASE b = at
      <4>1. Heard(b)'
        BY <2>2, <2>3, <3>1 DEF Heard
      <4>2. at \notin Unheard
        BY <1>9, <1>11 DEF ReportBlock, Block
      <4> QED BY <2>4, <3>1, <4>1, <4>2
    <3>2. CASE b \in 1..(at - 1)
      <4>1. b # at
        BY <1>3, <3>2
      <4>2. Heard(b)' <=> Heard(b)
        BY <2>2, <2>3, <4>1 DEF Heard
      <4> QED BY <1>4, <3>2, <4>2
    <3> QED BY <1>5, <3>1, <3>2
  <2>6. \A k \in DOMAIN findings' : findings'[k].place \in 1..(at' - 1)
    BY <1>4, <1>5, <2>2, <2>3
  <2>7. \A k, l \in DOMAIN findings' : k < l => findings'[k].place < findings'[l].place
    <3> SUFFICES ASSUME NEW k \in DOMAIN findings', NEW l \in DOMAIN findings', k < l
                 PROVE  findings'[k].place < findings'[l].place
      OBVIOUS
    <3>1. k \in DOMAIN findings
      BY <2>3
    <3>2. CASE l \in DOMAIN findings
      BY <1>4, <2>3, <3>1, <3>2
    <3>3. CASE l = Len(findings) + 1
      <4>1. findings[k].place \in 1..(at - 1)
        BY <1>4, <3>1
      <4>2. findings'[k].place = findings[k].place /\ findings'[l].place = at
        BY <2>2, <2>3, <3>1, <3>3
      <4> QED BY <1>3, <4>1, <4>2
    <3> QED BY <2>3, <3>2, <3>3
  <2>8. BlocksAnswered'
    BY <1>2, <2>5, <2>6, <2>7 DEF BlocksAnswered
  <2> QED BY <2>3, <2>4, <2>8
<1>10. CASE RefuseBlock
  <2>1. findings' = findings /\ problems' = problems \cup {at}
    BY <1>10 DEF RefuseBlock
  <2>2. problems' \subseteq 1..(at' - 1)
    BY <1>3, <1>5, <2>1
  <2>3. \A k \in DOMAIN findings : findings[k].place # at
    BY <1>3, <1>4
  <2>4. \A b : Heard(b)' <=> Heard(b)
    BY <2>1 DEF Heard
  <2>5. ~Heard(at)
    BY <2>3 DEF Heard
  <2>6. BlocksAnswered'
    BY <1>2, <1>4, <1>5, <1>11, <2>1, <2>4, <2>5 DEF BlocksAnswered
  <2> QED BY <1>3, <2>1, <2>2, <2>6
<1> QED BY <1>8, <1>9, <1>10

(* The call returns, or a step that leaves the findings alone. *)
LEMMA OtherStep ==
  ASSUME CertsInv, job' = job, job.detector = "certs",
         ReturnUnread \/ ReadFile \/ EndPEM \/ TryPassword \/ OpenPKCS12 \/ RefusePKCS12 \/ ParseDER
  PROVE  CertsInv'
<1>1. job \in Jobs /\ File' = File /\ job'.detector = "certs"
  BY DEF CertsInv, File
<1>2. Progress /\ BlocksAnswered /\ CallAnswered
  BY DEF CertsInv, AllButUnheardAnswered
<1>3. SUFFICES Progress' /\ BlocksAnswered' /\ CallAnswered'
  BY <1>1 DEF CertsInv, AllButUnheardAnswered
<1>4. \A key : \A rule \in CertRules : \A place \in {1, 2} :
        FindingFor(place, rule, key) \in Findings /\ FindingFor(place, rule, key).place = place
  BY FindingForIsFinding
<1>12. Items' = Items /\ Unheard' = Unheard
  BY <1>1 DEF Items, Unheard
<1>13. findings' = findings => \A i : Heard(i)' <=> Heard(i)
  BY DEF Heard
<1>14. (findings' = findings /\ at' = at /\ problems' = problems) => BlocksAnswered'
  BY <1>1, <1>2, <1>12, <1>13 DEF BlocksAnswered
<1>15. File.form = "pem" \/ BlocksAnswered'
  BY <1>1 DEF BlocksAnswered
<1>5. CASE ReturnUnread
  BY <1>1, <1>2, <1>5, <1>14 DEF ReturnUnread, Return, Progress, CallAnswered
<1>6. CASE ReadFile
  BY <1>1, <1>2, <1>6, <1>14 DEF ReadFile, Progress, CallAnswered
<1>7. CASE EndPEM
  <2>1. /\ File.form = "pem" /\ pc = "scan" /\ pc' = "returned" /\ at = Len(File.blocks) + 1
        /\ error' = IF problems # {} \/ findings = << >> THEN "parse" ELSE "nil"
        /\ findings' = findings /\ problems' = problems /\ at' = at
    BY <1>7 DEF EndPEM, InPEM, Scanning, Return
  <2>2. \A i \in Items : Heard(i) <=> i \notin problems \cup Unheard
    <3>1. Items = 1..(at - 1)
      BY <1>1, <2>1, ItemsOfBundle, BundleIsSequence
    <3> QED BY <1>1, <1>2, <2>1, <3>1 DEF BlocksAnswered
  <2>3. Unheard \subseteq Items
    BY <2>1 DEF Unheard
  <2>4. findings = << >> => \A i : ~Heard(i)
    BY DEF Heard
  <2>5. error' = "parse" => problems # {} \/ Items = Unheard
    BY <2>1, <2>2, <2>3, <2>4
  <2>6. CallAnswered'
    BY <1>1, <1>12, <1>13, <2>1, <2>2, <2>5 DEF CallAnswered
  <2>7. Progress'
    BY <1>1, <1>2, <2>1 DEF Progress
  <2> QED BY <1>14, <2>1, <2>6, <2>7
<1>8. CASE TryPassword
  BY <1>1, <1>2, <1>8, <1>15 DEF TryPassword, InPKCS12, Scanning, Progress, CallAnswered
<1>9. CASE OpenPKCS12
  <2> DEFINE cert == FindingFor(1, "certs.x509.certificate", File.cert)
             key == FindingFor(2, "certs.pkcs12.private", File.key)
  <2>1. /\ cert \in Findings /\ cert.place = 1
        /\ key \in Findings /\ key.place = 2
    BY <1>4 DEF CertRules
  <2>2. /\ File.form = "pkcs12" /\ pc' = "returned" /\ error' = "nil" /\ problems' = problems
        /\ pc = "scan" /\ at' = at
        /\ findings' = <<cert>> \o (IF File.key \in KnownKeys THEN <<key>> ELSE << >>)
    BY <1>9 DEF OpenPKCS12, InPKCS12, Scanning, Return
  <2> HIDE DEF cert, key
  <2>3. findings' = IF File.key \in KnownKeys THEN <<cert, key>> ELSE <<cert>>
    BY <2>1, <2>2, OneThenOther
  <2>4. Items = {1, 2} /\ Unheard = {i \in {2} : File.key \notin KnownKeys}
    BY <2>2 DEF Items, Unheard
  <2>5. Heard(1)' /\ (Heard(2)' <=> File.key \in KnownKeys)
    BY <2>1, <2>3 DEF Heard
  <2>6. findings' \in Seq(Findings) /\ findings' # << >>
    BY <2>1, <2>3
  <2>7. problems = {}
    BY <1>2, <2>2 DEF Progress
  <2>8. \A i \in Items' : Heard(i)' <=> i \notin problems' \cup Unheard'
    BY <1>12, <2>2, <2>4, <2>5, <2>7
  <2>9. CallAnswered'
    BY <1>1, <2>2, <2>6, <2>7, <2>8 DEF CallAnswered
  <2>10. Progress'
    BY <1>1, <1>2, <2>2, <2>6 DEF Progress
  <2> QED BY <1>15, <2>2, <2>9, <2>10
<1>10. CASE RefusePKCS12
  <2>1. /\ File.form = "pkcs12" /\ pc = "scan" /\ pc' = "returned" /\ error' = "parse" /\ at = 3
        /\ findings' = findings /\ problems' = problems /\ at' = at
    BY <1>10 DEF RefusePKCS12, InPKCS12, Scanning, Return
  <2>2. File.opens = 3
    BY <1>2, <2>1 DEF Progress
  <2>3. CallAnswered'
    BY <1>1, <1>2, <2>1, <2>2 DEF Progress, CallAnswered
  <2>4. Progress'
    BY <1>1, <1>2, <2>1 DEF Progress
  <2> QED BY <1>15, <2>1, <2>3, <2>4
<1>11. CASE ParseDER
  <2> DEFINE cert == FindingFor(1, "certs.x509.certificate", File.key)
  <2>1. cert \in Findings /\ cert.place = 1
    BY <1>4 DEF CertRules
  <2>2. /\ File.form = "der" /\ pc' = "returned" /\ pc = "scan" /\ problems' = problems
        /\ \/ File.der = "x509" /\ findings' = <<cert>> /\ error' = "nil"
           \/ File.der # "x509" /\ findings' = findings /\ error' = "parse"
    BY <1>11 DEF ParseDER, Scanning, Return
  <2> HIDE DEF cert
  <2>3. Items = {1} /\ Unheard = {} /\ problems = {} /\ findings = << >>
    BY <1>2, <2>2 DEF Items, Unheard, Progress
  <2>4. findings' = <<cert>> => findings' \in Seq(Findings) /\ findings' # << >> /\ Heard(1)'
    BY <2>1 DEF Heard
  <2>5. CallAnswered'
    BY <1>1, <1>12, <2>2, <2>3, <2>4 DEF CallAnswered
  <2>6. Progress'
    BY <1>1, <1>2, <2>2, <2>4 DEF Progress
  <2> QED BY <1>15, <2>2, <2>5, <2>6
<1> QED BY <1>5, <1>6, <1>7, <1>8, <1>9, <1>10, <1>11

(* AllButUnheardAnswered holds of every file: with a bundle of any length, and however the  *)
(* call ends.                                                                     *)
THEOREM EveryBlockAnswered == Spec => []AllButUnheardAnswered
<1>1. CertsInv /\ [Next]_vars => CertsInv'
  <2> SUFFICES ASSUME CertsInv, [Next]_vars PROVE CertsInv'
    OBVIOUS
  <2>1. job' = job
    BY JobStays
  <2>2. CASE job.detector # "certs"
    BY <2>1, <2>2 DEF CertsInv
  <2>3. CASE job.detector = "certs"
    <3>1. CASE UNCHANGED vars
      BY <3>1 DEF vars, CertsInv, Progress, AllButUnheardAnswered, BlocksAnswered, CallAnswered, File, Items,
         Unheard, Heard
    <3> QED BY <2>1, <2>3, <3>1, CertsSteps, LoopStep, OtherStep DEF CertsNext
  <2> QED BY <2>2, <2>3
<1>2. CertsInv => AllButUnheardAnswered
  BY DEF CertsInv, AllButUnheardAnswered, BlocksAnswered, CallAnswered
<1> QED BY CertsInvInitially, <1>1, <1>2, PTL DEF Spec
-----------------------------------------------------------------------------
(* The least and the greatest of some numbers are among them. *)
LEMMA MinIsOne ==
  ASSUME NEW S \in SUBSET Nat, S # {}
  PROVE  Min(S) \in S /\ \A y \in S : Min(S) <= y
<1>1. PICK x \in S : \A y \in S : ~(<<y, x>> \in OpToRel(<, Nat))
  BY NatLessThanWellFounded, WFMin
<1>2. \A y \in S : ~(y < x)
  BY <1>1, Zenon DEF OpToRel
<1>3. \A y \in S : x <= y
  BY <1>2
<1> QED BY <1>3 DEF Min

LEMMA MaxIsOne ==
  ASSUME NEW n \in Nat, NEW S \in SUBSET (1..n), S # {}
  PROVE  Max(S) \in S /\ \A y \in S : Max(S) >= y
<1> DEFINE D == {n - y : y \in S}
<1>1. D \in SUBSET Nat /\ D # {}
  <2>1. \A y \in S : n - y \in Nat
    OBVIOUS
  <2> QED BY <2>1
<1> HIDE DEF D
<1>2. Min(D) \in D /\ \A d \in D : Min(D) <= d
  BY <1>1, MinIsOne
<1>3. PICK x \in S : Min(D) = n - x
  BY <1>2 DEF D
<1>4. \A y \in S : x >= y
  <2> SUFFICES ASSUME NEW y \in S PROVE x >= y
    OBVIOUS
  <2>1. n - y \in D
    BY DEF D
  <2>2. n - x <= n - y
    BY <1>2, <1>3, <2>1
  <2> QED BY <2>2
<1> QED BY <1>4 DEF Max

(* What is appended to a sequence, ... *)
LEMMA AppendOne ==
  ASSUME NEW T, NEW s \in Seq(T), NEW x \in T
  PROVE  /\ Append(s, x) \in Seq(T)
         /\ \A i \in DOMAIN s : i \in DOMAIN Append(s, x) /\ Append(s, x)[i] = s[i]
         /\ \E i \in DOMAIN Append(s, x) : Append(s, x)[i] = x
         /\ \A i \in DOMAIN Append(s, x) : i \in DOMAIN s \/ Append(s, x)[i] = x
<1> DEFINE n == Len(s)
           t == Append(s, x)
<1>1. n \in Nat /\ DOMAIN s = 1..n
  OBVIOUS
<1>2. t \in Seq(T) /\ DOMAIN t = 1..(n + 1) /\ (\A i \in 1..n : t[i] = s[i]) /\ t[n + 1] = x
  <2>1. t \in Seq(T) /\ Len(t) = n + 1
    BY AppendProperties
  <2>2. \A i \in 1..n : t[i] = s[i]
    BY AppendProperties
  <2>3. t[n + 1] = x
    BY AppendProperties
  <2>4. DOMAIN t = 1..(n + 1)
    BY <2>1
  <2> QED BY <2>1, <2>2, <2>3, <2>4
<1> HIDE DEF n, t
<1>3. \A i \in 1..(n + 1) : i \in 1..n \/ i = n + 1
  BY <1>1
<1>4. n + 1 \in DOMAIN t
  BY <1>1, <1>2
<1> QED BY <1>1, <1>2, <1>3, <1>4 DEF t

(* ... one after the other. *)
LEMMA AppendAll ==
  ASSUME NEW T, NEW s \in Seq(T), NEW e \in Seq(T)
  PROVE  /\ s \o e \in Seq(T)
         /\ \A i \in DOMAIN s : i \in DOMAIN (s \o e) /\ (s \o e)[i] = s[i]
         /\ \A r \in DOMAIN e : \E i \in DOMAIN (s \o e) : (s \o e)[i] = e[r]
         /\ \A i \in DOMAIN (s \o e) : i \in DOMAIN s \/ (i > Len(s) /\ \E r \in DOMAIN e : (s \o e)[i] = e[r])
<1> DEFINE m == Len(s)
           n == Len(e)
           t == s \o e
<1>1. m \in Nat /\ DOMAIN s = 1..m /\ n \in Nat /\ DOMAIN e = 1..n
  OBVIOUS
<1>2. t \in Seq(T) /\ DOMAIN t = 1..(m + n)
  <2>1. t \in Seq(T) /\ Len(t) = m + n
    BY ConcatProperties
  <2> QED BY <2>1
<1>3. \A i \in 1..(m + n) : t[i] = IF i <= m THEN s[i] ELSE e[i - m]
  BY ConcatProperties
<1> HIDE DEF m, n, t
<1>4. \A i \in 1..m : i \in 1..(m + n) /\ i <= m
  BY <1>1
<1>5. \A r \in 1..n : m + r \in 1..(m + n) /\ ~(m + r <= m) /\ (m + r) - m = r
  BY <1>1
<1>6. \A i \in 1..(m + n) : i \in 1..m \/ (i > m /\ ~(i <= m) /\ i - m \in 1..n)
  BY <1>1
<1>7. \A r \in 1..n : t[m + r] = e[r]
  BY <1>3, <1>5
<1>8. \A i \in 1..(m + n) : i \in 1..m \/ (i > m /\ t[i] = e[i - m] /\ i - m \in 1..n)
  BY <1>3, <1>6
<1>9. \A i \in DOMAIN s : i \in DOMAIN t /\ t[i] = s[i]
  BY <1>1, <1>2, <1>3, <1>4
<1>10. \A r \in DOMAIN e : \E i \in DOMAIN t : t[i] = e[r]
  BY <1>1, <1>2, <1>5, <1>7
<1>11. \A i \in DOMAIN t : i \in DOMAIN s \/ (i > m /\ \E r \in DOMAIN e : t[i] = e[r])
  BY <1>1, <1>2, <1>8
<1> QED BY <1>2, <1>9, <1>10, <1>11 DEF t, m
-----------------------------------------------------------------------------
(* A row of a table that meets a name. *)
Meets(row, rows, name) ==
  \E k \in DOMAIN rows : row = rows[k] /\ rows[k].parts \cap name.parts # {}

LEMMA FirstOfMeets ==
  ASSUME NEW rows, DOMAIN rows \in SUBSET Nat, NEW name
  PROVE  \/ FirstOf(rows, name) = << >> /\ \A row : ~Meets(row, rows, name)
         \/ \E row : FirstOf(rows, name) = <<row>> /\ Meets(row, rows, name)
<1> DEFINE hits == {k \in DOMAIN rows : rows[k].parts \cap name.parts # {}}
<1>1. FirstOf(rows, name) = IF hits = {} THEN << >> ELSE <<rows[Min(hits)]>>
  BY DEF FirstOf
<1>2. CASE hits = {}
  BY <1>1, <1>2 DEF Meets
<1>3. CASE hits # {}
  <2>1. hits \in SUBSET Nat
    OBVIOUS
  <2>2. Min(hits) \in hits
    <3> HIDE DEF hits
    <3> QED BY <1>3, <2>1, MinIsOne
  <2>3. Meets(rows[Min(hits)], rows, name)
    BY <2>2 DEF Meets
  <2> QED BY <1>1, <1>3, <2>3
<1> QED BY <1>2, <1>3

(* The tables, as they are given. *)
AllTables ==
  {KeyExchange, Authentication, Bulk, ChaCha, TripleDES, Hash, Digest, SSHRows, JWTRows}

RowOK(row) == row.prim \in Primitives /\ row.size \in Nat
RowsOK(rows) == DOMAIN rows \in SUBSET Nat /\ \A k \in DOMAIN rows : RowOK(rows[k])

LEMMA PrimitiveNames ==
  /\ "RSA" \in Primitives /\ "ECDSA" \in Primitives /\ "EdDSA" \in Primitives /\ "DSA" \in Primitives
  /\ "ECDH" \in Primitives /\ "DH" \in Primitives /\ "AES" \in Primitives /\ "ChaCha20" \in Primitives
  /\ "3DES" \in Primitives /\ "SHA-1" \in Primitives /\ "SHA-256" \in Primitives
  /\ "SHA-384" \in Primitives /\ "SHA-512" \in Primitives /\ "MD5" \in Primitives
  /\ "UNKNOWN" \in Primitives
BY DEF Primitives

LEMMA TablesOK == \A rows \in AllTables : RowsOK(rows)
<1>1. \A parts, prim, size : Row(parts, prim, size).prim = prim /\ Row(parts, prim, size).size = size
  BY DEF Row
<1>2. \A parts, prim, size : prim \in Primitives /\ size \in Nat => RowOK(Row(parts, prim, size))
  BY <1>1 DEF RowOK
<1>3. \A a : RowOK(a) => RowsOK(<<a>>)
  BY DEF RowsOK
<1>4. \A a, b : RowOK(a) /\ RowOK(b) => RowsOK(<<a, b>>)
  BY DEF RowsOK
<1>5. \A a, b, c : RowOK(a) /\ RowOK(b) /\ RowOK(c) => RowsOK(<<a, b, c>>)
  BY DEF RowsOK
<1>6. RowsOK(KeyExchange) /\ RowsOK(Bulk) /\ RowsOK(Hash)
  BY <1>2, <1>4, PrimitiveNames DEF KeyExchange, Bulk, Hash
<1>7. RowsOK(Authentication)
  BY <1>2, <1>5, PrimitiveNames DEF Authentication
<1>8. RowsOK(ChaCha) /\ RowsOK(TripleDES) /\ RowsOK(Digest)
  BY <1>2, <1>3, PrimitiveNames DEF ChaCha, TripleDES, Digest
<1>9. RowsOK(SSHRows)
  <2>1. DOMAIN SSHRows = 1..13
    BY DEF SSHRows
  <2>2. /\ RowOK(SSHRows[1]) /\ RowOK(SSHRows[2]) /\ RowOK(SSHRows[3]) /\ RowOK(SSHRows[4])
        /\ RowOK(SSHRows[5]) /\ RowOK(SSHRows[6]) /\ RowOK(SSHRows[7]) /\ RowOK(SSHRows[8])
        /\ RowOK(SSHRows[9]) /\ RowOK(SSHRows[10]) /\ RowOK(SSHRows[11]) /\ RowOK(SSHRows[12])
        /\ RowOK(SSHRows[13])
    BY <1>2, PrimitiveNames DEF SSHRows
  <2> QED BY <2>1, <2>2 DEF RowsOK
<1>10. RowsOK(JWTRows)
  <2>1. DOMAIN JWTRows = 1..6
    BY DEF JWTRows
  <2>2. /\ RowOK(JWTRows[1]) /\ RowOK(JWTRows[2]) /\ RowOK(JWTRows[3]) /\ RowOK(JWTRows[4])
        /\ RowOK(JWTRows[5]) /\ RowOK(JWTRows[6])
    BY <1>2, PrimitiveNames DEF JWTRows
  <2> QED BY <2>1, <2>2 DEF RowsOK
<1> QED BY <1>6, <1>7, <1>8, <1>9, <1>10 DEF AllTables

(* What a sequence of rows says. *)
Saying(rows) == {rows[k] : k \in DOMAIN rows}

TableRows == {Unknown} \cup UNION {Saying(rows) : rows \in AllTables}

LEMMA TableRowsOK == \A row \in TableRows : RowOK(row)
<1>1. RowOK(Unknown)
  BY PrimitiveNames DEF Unknown, Row, RowOK
<1>2. \A rows \in AllTables : \A k \in DOMAIN rows : RowOK(rows[k])
  BY TablesOK DEF RowsOK
<1> QED BY <1>1, <1>2 DEF TableRows, Saying

(* What a table says of a name. *)
LEMMA FirstOfSays ==
  ASSUME NEW rows \in AllTables, NEW name
  PROVE  /\ FirstOf(rows, name) \in Seq(TableRows)
         /\ \A row \in Saying(FirstOf(rows, name)) : Meets(row, rows, name)
         /\ FirstOf(rows, name) # << >> <=> Saying(FirstOf(rows, name)) # {}
         /\ FirstOf(rows, name) = << >> <=> \A row : ~Meets(row, rows, name)
<1>1. DOMAIN rows \in SUBSET Nat
  BY TablesOK DEF RowsOK
<1>2. CASE FirstOf(rows, name) = << >> /\ \A row : ~Meets(row, rows, name)
  BY <1>2 DEF Saying
<1>3. CASE \E row : FirstOf(rows, name) = <<row>> /\ Meets(row, rows, name)
  <2>1. PICK row : FirstOf(rows, name) = <<row>> /\ Meets(row, rows, name)
    BY <1>3
  <2>2. row \in TableRows
    BY <2>1 DEF Meets, TableRows, Saying
  <2>3. Saying(<<row>>) = {row}
    BY DEF Saying
  <2> QED BY <2>1, <2>2, <2>3
<1> QED BY <1>1, <1>2, <1>3, FirstOfMeets

LEMMA SayingBoth ==
  ASSUME NEW T, NEW s \in Seq(T), NEW t \in Seq(T)
  PROVE  s \o t \in Seq(T) /\ Saying(s \o t) = Saying(s) \cup Saying(t)
<1>1. \A i \in DOMAIN s : i \in DOMAIN (s \o t) /\ (s \o t)[i] = s[i]
  BY AppendAll
<1>2. \A r \in DOMAIN t : \E i \in DOMAIN (s \o t) : (s \o t)[i] = t[r]
  BY AppendAll
<1>3. \A i \in DOMAIN (s \o t) : i \in DOMAIN s \/ \E r \in DOMAIN t : (s \o t)[i] = t[r]
  BY AppendAll
<1>4. s \o t \in Seq(T)
  BY AppendAll
<1>5. ASSUME NEW x \in Saying(s \o t) PROVE x \in Saying(s) \cup Saying(t)
  BY <1>3 DEF Saying
<1>6. ASSUME NEW x \in Saying(s) PROVE x \in Saying(s \o t)
  BY <1>1 DEF Saying
<1>7. ASSUME NEW x \in Saying(t) PROVE x \in Saying(s \o t)
  <2>1. PICK r \in DOMAIN t : x = t[r]
    BY DEF Saying
  <2>2. PICK i \in DOMAIN (s \o t) : (s \o t)[i] = t[r]
    BY <1>2
  <2> QED BY <2>1, <2>2 DEF Saying
<1> QED BY <1>4, <1>5, <1>6, <1>7

(* What a name says in each format: what the tables say of it, or that it is not known. *)
Says(rows, tables, name) ==
  /\ rows \in Seq(TableRows)
  /\ \A row \in Saying(rows) :
       \/ \E table \in tables : Meets(row, table, name)
       \/ row = Unknown /\ \A table \in tables : FirstOf(table, name) = << >>

TLSTables == {KeyExchange, Authentication, Bulk, ChaCha, TripleDES, Hash, Digest}

LEMMA TLSSays ==
  ASSUME NEW name
  PROVE  /\ Says(ParseTLSCipherSuite(name), TLSTables, name)
         /\ "TLS_" \in name.parts => \A table \in TLSTables :
              Saying(FirstOf(table, name)) \in SUBSET Saying(ParseTLSCipherSuite(name))
<1> DEFINE S(table) == FirstOf(table, name)
<1>0. \A table \in TLSTables : /\ S(table) \in Seq(TableRows)
                               /\ \A row \in Saying(S(table)) : Meets(row, table, name)
  BY FirstOfSays DEF TLSTables, AllTables
<1>1. CASE "TLS_" \notin name.parts
  <2>1. ParseTLSCipherSuite(name) = << >>
    BY <1>1 DEF ParseTLSCipherSuite
  <2>2. << >> \in Seq(TableRows) /\ Saying(<< >>) = {}
    BY DEF Saying
  <2> QED BY <1>1, <2>1, <2>2 DEF Says
<1>2. CASE "TLS_" \in name.parts
  <2> DEFINE a == S(KeyExchange)
             b == a \o S(Authentication)
             c == b \o S(Bulk)
             d == c \o S(ChaCha)
             e == d \o S(TripleDES)
             f == e \o S(Hash)
             g == f \o S(Digest)
  <2>1. ParseTLSCipherSuite(name) = g
    BY <1>2 DEF ParseTLSCipherSuite
  <2>2. /\ S(KeyExchange) \in Seq(TableRows) /\ S(Authentication) \in Seq(TableRows)
        /\ S(Bulk) \in Seq(TableRows) /\ S(ChaCha) \in Seq(TableRows) /\ S(TripleDES) \in Seq(TableRows)
        /\ S(Hash) \in Seq(TableRows) /\ S(Digest) \in Seq(TableRows)
    <3> HIDE DEF S
    <3> QED BY <1>0 DEF TLSTables
  <2> HIDE DEF S
  <2>3. b \in Seq(TableRows) /\ Saying(b) = Saying(S(KeyExchange)) \cup Saying(S(Authentication))
    BY <2>2, SayingBoth
  <2> HIDE DEF b
  <2>4. c \in Seq(TableRows) /\ Saying(c) = Saying(b) \cup Saying(S(Bulk))
    BY <2>2, <2>3, SayingBoth
  <2> HIDE DEF c
  <2>5. d \in Seq(TableRows) /\ Saying(d) = Saying(c) \cup Saying(S(ChaCha))
    BY <2>2, <2>4, SayingBoth
  <2> HIDE DEF d
  <2>6. e \in Seq(TableRows) /\ Saying(e) = Saying(d) \cup Saying(S(TripleDES))
    BY <2>2, <2>5, SayingBoth
  <2> HIDE DEF e
  <2>7. f \in Seq(TableRows) /\ Saying(f) = Saying(e) \cup Saying(S(Hash))
    BY <2>2, <2>6, SayingBoth
  <2> HIDE DEF f
  <2>8. g \in Seq(TableRows) /\ Saying(g) = Saying(f) \cup Saying(S(Digest))
    BY <2>2, <2>7, SayingBoth
  <2> HIDE DEF g
  <2>9. Saying(g) = Saying(S(KeyExchange)) \cup Saying(S(Authentication)) \cup Saying(S(Bulk))
                    \cup Saying(S(ChaCha)) \cup Saying(S(TripleDES)) \cup Saying(S(Hash)) \cup Saying(S(Digest))
    BY <2>3, <2>4, <2>5, <2>6, <2>7, <2>8
  <2>10. \A row \in Saying(g) : \E table \in TLSTables : row \in Saying(S(table))
    BY <2>9 DEF TLSTables
  <2>11. \A table \in TLSTables : Saying(S(table)) \in SUBSET Saying(g)
    BY <2>9 DEF TLSTables
  <2>12. \A row \in Saying(g) : \E table \in TLSTables : Meets(row, table, name)
    BY <1>0, <2>10
  <2>13. Says(g, TLSTables, name)
    BY <2>8, <2>12 DEF Says
  <2> QED BY <2>1, <2>11, <2>13 DEF S
<1> QED BY <1>1, <1>2

LEMMA OneTableSays ==
  ASSUME NEW table \in AllTables, NEW name
  PROVE  /\ Says(OrUnknown(FirstOf(table, name)), {table}, name)
         /\ Saying(FirstOf(table, name)) \in SUBSET Saying(OrUnknown(FirstOf(table, name)))
<1>1. /\ FirstOf(table, name) \in Seq(TableRows)
      /\ \A row \in Saying(FirstOf(table, name)) : Meets(row, table, name)
  BY FirstOfSays
<1>2. CASE FirstOf(table, name) = << >>
  <2>1. OrUnknown(FirstOf(table, name)) = <<Unknown>> /\ Saying(<<Unknown>>) = {Unknown} /\ Saying(<< >>) = {}
    BY <1>2 DEF OrUnknown, Saying
  <2>2. Unknown \in TableRows
    BY DEF TableRows
  <2> DEFINE u == Unknown
  <2>3. <<u>> \in Seq(TableRows)
    <3> HIDE DEF u
    <3>1. \A x \in TableRows : <<x>> \in Seq(TableRows)
      OBVIOUS
    <3> QED BY <2>2, <3>1 DEF u
  <2>4. \A row \in Saying(<<u>>) : row = Unknown /\ \A t \in {table} : FirstOf(t, name) = << >>
    BY <1>2, <2>1
  <2>5. Says(OrUnknown(FirstOf(table, name)), {table}, name)
    BY <2>1, <2>3, <2>4 DEF Says
  <2>6. Saying(FirstOf(table, name)) = {}
    BY <1>2, <2>1
  <2> QED BY <2>5, <2>6
<1>3. CASE FirstOf(table, name) # << >>
  BY <1>1, <1>3 DEF OrUnknown, Says
<1> QED BY <1>2, <1>3

LEMMA TablesOf ==
  Tables["tls"] = TLSTables /\ Tables["ssh"] = {SSHRows} /\ Tables["jwt"] = {JWTRows}
BY DEF Tables, TLSTables

FormatTables == Tables[Format(File.name)]

(* What Parse makes of a name, in the format of the file. *)
LEMMA ParseSays ==
  ASSUME NEW name
  PROVE  /\ Says(Parse(name), FormatTables, name)
         /\ \A table \in FormatTables :
              Knows(table, name) =>
                \E row \in Saying(Parse(name)) : Meets(row, table, name)
<1>0. \A table \in AllTables : FirstOf(table, name) # << >> =>
        \E row \in Saying(FirstOf(table, name)) : Meets(row, table, name)
  BY FirstOfSays
<1>1. SUFFICES /\ Says(Parse(name), FormatTables, name)
               /\ FormatTables \in SUBSET AllTables
               /\ /\ Format(File.name) = "tls" => "TLS_" \in name.parts
                  /\ Format(File.name) = "ssh" => ~Sizeless(name)
                  => \A table \in FormatTables : Saying(FirstOf(table, name)) \in SUBSET Saying(Parse(name))
  BY <1>0 DEF Knows
<1>2. Format(File.name) \in {"tls", "ssh", "jwt"}
  BY DEF Format
<1>3. CASE Format(File.name) = "tls"
  <2>1. Parse(name) = ParseTLSCipherSuite(name) /\ FormatTables = TLSTables
    BY <1>3, TablesOf DEF Parse, FormatTables
  <2> QED BY <1>3, <2>1, TLSSays DEF TLSTables, AllTables
<1>4. CASE Format(File.name) = "ssh"
  <2>1. FormatTables = {SSHRows} /\ SSHRows \in AllTables
    BY <1>4, TablesOf DEF FormatTables, AllTables
  <2>2. CASE Sizeless(name)
    <3>1. Parse(name) = << >>
      BY <1>4, <2>2 DEF Parse, ParseSSHAlgToken
    <3>2. << >> \in Seq(TableRows) /\ Saying(<< >>) = {}
      BY DEF Saying
    <3>3. Says(Parse(name), FormatTables, name)
      BY <3>1, <3>2 DEF Says
    <3> QED BY <1>4, <2>1, <2>2, <3>3
  <2>3. CASE ~Sizeless(name)
    <3>1. Parse(name) = OrUnknown(FirstOf(SSHRows, name))
      BY <1>4, <2>3 DEF Parse, ParseSSHAlgToken
    <3> QED BY <1>4, <2>1, <3>1, OneTableSays
  <2> QED BY <2>2, <2>3
<1>5. CASE Format(File.name) = "jwt"
  <2>1. Parse(name) = OrUnknown(FirstOf(JWTRows, name)) /\ FormatTables = {JWTRows}
    BY <1>5, TablesOf DEF Parse, ParseJWTAlg, FormatTables
  <2>2. JWTRows \in AllTables
    BY DEF AllTables
  <2> QED BY <2>1, <2>2, OneTableSays
<1> QED BY <1>2, <1>3, <1>4, <1>5
-----------------------------------------------------------------------------
(* What each detector appends is a finding. *)
LEMMA EmitIsFindings ==
  ASSUME NEW place \in Nat, NEW rule \in RuleIDs, NEW name
  PROVE  /\ Emit(place, rule, name) \in Seq(Finding) /\ DOMAIN Emit(place, rule, name) = DOMAIN Parse(name)
         /\ \A r \in DOMAIN Parse(name) :
              Emit(place, rule, name)[r] = Found(place, rule, Parse(name)[r].prim, Parse(name)[r].size, "high")
<1>1. Parse(name) \in Seq(TableRows)
  BY ParseSays DEF Says
<1>2. \A row \in TableRows : Found(place, rule, row.prim, row.size, "high") \in Finding
  BY TableRowsOK DEF RowOK, Found, Finding
<1>3. Len(Parse(name)) \in Nat /\ DOMAIN Parse(name) = 1..Len(Parse(name))
      /\ \A r \in DOMAIN Parse(name) : Parse(name)[r] \in TableRows
  BY <1>1
<1>4. \A r \in 1..Len(Parse(name)) : Found(place, rule, Parse(name)[r].prim, Parse(name)[r].size, "high") \in Finding
  BY <1>2, <1>3
<1>5. Emit(place, rule, name) =
        [r \in 1..Len(Parse(name)) |-> Found(place, rule, Parse(name)[r].prim, Parse(name)[r].size, "high")]
  BY <1>3 DEF Emit
<1>6. Emit(place, rule, name) \in Seq(Finding)
  BY <1>3, <1>4, <1>5
<1> QED BY <1>3, <1>5, <1>6

LEMMA RuleFindingIsFinding ==
  ASSUME at \in DOMAIN Rules, NEW line \in Nat
  PROVE  /\ \A args \in Seq(Nat) : RuleFinding(line, args) \in Finding
         /\ \A args : RuleFinding(line, args).place = line /\ RuleFinding(line, args).rule = Rule.id
         /\ Low(line) \in Finding /\ Low(line).place = line /\ Low(line).rule = Rule.id
<1> DEFINE T == [lang : STRING, id : STRING, kind : STRING, package : Seq(STRING), symbol : STRING,
                 dotted : BOOLEAN, pattern : SUBSET STRING, prim : STRING, argument : Nat, size : Nat,
                 conf : STRING]
<1>1. Rule.size \in Nat
  <2>1. Rules \in Seq(T)
    BY RulesAssumption
  <2>2. \A rule \in T : rule.size \in Nat
    OBVIOUS
  <2> HIDE DEF T
  <2> QED BY <2>1, <2>2 DEF Rule
<1> HIDE DEF T
<1>2. Rule.id \in RuleIDs /\ Rule.prim \in Primitives
  BY DEF Rule, RuleIDs, Primitives
<1>3. Confidence(Rule) \in {"high", "medium", "low"}
  BY DEF Confidence
<1>4. \A args \in Seq(Nat) : Size(args) \in Nat
  BY <1>1 DEF Size
<1>5. \A args \in Seq(Nat) : RuleFinding(line, args) \in Finding
  BY <1>2, <1>3, <1>4 DEF RuleFinding, Found, Finding
<1>6. Low(line) \in Finding
  BY <1>1, <1>2 DEF Low, Found, Finding
<1> QED BY <1>5, <1>6 DEF RuleFinding, Low, Found

LEMMA CertFindings == Findings \in SUBSET Finding
<1>1. CertRules \in SUBSET RuleIDs
  BY DEF CertRules, RuleIDs
<1>2. KnownKeys \cup {"UNKNOWN"} \in SUBSET Primitives
  BY DEF KnownKeys, Primitives
<1> QED BY <1>1, <1>2 DEF Findings, Finding

(* The names of a configuration file, and the calls and identifiers of a source file. *)
LEMMA ConfigFileType ==
  ASSUME TypeOK, job.detector = "config"
  PROVE  /\ Len(File.lines) \in Nat /\ DOMAIN File.lines = 1..Len(File.lines)
         /\ DOMAIN File.algs \in SUBSET (Nat \ {0})
         /\ \A l \in DOMAIN File.lines : DOMAIN File.lines[l].names \in SUBSET (Nat \ {0})
<1>1. File \in ConfigFile
  BY JobsAssumption DEF TypeOK, File
<1> DEFINE N == [parts : SUBSET STRING, excluded : BOOLEAN]
           L == [kind : STRING, names : Seq(N), long : BOOLEAN]
<1>2. File.lines \in Seq(L) /\ File.algs \in Seq(N)
  BY <1>1 DEF ConfigFile
<1>3. \A line \in L : DOMAIN line.names \in SUBSET (Nat \ {0})
  BY DEF L
<1> HIDE DEF L, N
<1> QED BY <1>2, <1>3

LEMMA SourceFileType ==
  ASSUME TypeOK, job.detector = "source"
  PROVE  /\ Len(File.imports) \in Nat /\ DOMAIN File.imports = 1..Len(File.imports)
         /\ DOMAIN File.calls \in SUBSET (Nat \ {0}) /\ DOMAIN File.identifiers \in SUBSET (Nat \ {0})
         /\ \A k \in DOMAIN File.calls : File.calls[k].line \in Nat /\ File.calls[k].args \in Seq(Nat)
         /\ \A k \in DOMAIN File.identifiers : File.identifiers[k].line \in Nat
<1>1. File \in SourceFile
  BY JobsAssumption DEF TypeOK, File
<1> DEFINE I == [path : Seq(STRING) \ {<< >>}, alias : STRING, name : STRING]
           C == [line : Nat \ {0}, pkg : STRING, symbol : STRING, args : Seq(Nat),
                 at : {"code", "comment", "comment line"}]
           D == [line : Nat \ {0}, name : STRING]
<1>2. File.imports \in Seq(I) /\ File.calls \in Seq(C) /\ File.identifiers \in Seq(D)
  BY <1>1 DEF SourceFile
<1>3. \A c \in C : c.line \in Nat /\ c.args \in Seq(Nat)
  OBVIOUS
<1>4. \A i \in D : i.line \in Nat
  OBVIOUS
<1> HIDE DEF I, C, D
<1> QED BY <1>2, <1>3, <1>4
-----------------------------------------------------------------------------
(* A step that goes on, or one that returns: what they leave alone is typed. *)
LEMMA GoingOn ==
  ASSUME TypeOK, job' = job, findings' \in Seq(Finding), within' \in Nat \ {0},
         pc' \in {"read", "structure", "scan", "returned"},
         error' \in {"nil", "cancelled", "unreadable", "parse", "rule"},
         \/ at' = at /\ problems' = problems
         \/ at' = at + 1 /\ (problems' = problems \/ problems' = problems \cup {at} \/ problems' = {at})
  PROVE  TypeOK'
<1>1. at \in Nat /\ at >= 1 /\ problems \in SUBSET (1..(at - 1)) /\ job' \in Jobs
  BY DEF TypeOK
<1>2. \A m, n \in Nat : m <= n => 1..(m - 1) \in SUBSET (1..(n - 1))
  OBVIOUS
<1>3. CASE at' = at /\ problems' = problems
  BY <1>1, <1>3 DEF TypeOK
<1>4. CASE at' = at + 1 /\ (problems' = problems \/ problems' = problems \cup {at} \/ problems' = {at})
  <2>1. problems \in SUBSET (1..(at + 1 - 1)) /\ at \in 1..(at + 1 - 1)
    BY <1>1
  <2>2. problems' \in SUBSET (1..(at' - 1)) /\ at' \in Nat \ {0}
    <3>1. problems' \in SUBSET (1..(at + 1 - 1))
      BY <1>4, <2>1
    <3> QED BY <1>1, <1>4, <3>1
  <2> QED BY <1>1, <2>2 DEF TypeOK
<1> QED BY <1>3, <1>4

LEMMA NextWithin ==
  ASSUME NEW S \in SUBSET (Nat \ {0}), NEW k \in S
  PROVE  k + 1 \in Nat \ {0}
OBVIOUS

LEMMA ConfigRules ==
  /\ "config.jwt.alg" \in RuleIDs
  /\ \A line : LineRule(line) \in RuleIDs
<1>1. /\ "config.nginx.ssl_ciphers" \in RuleIDs /\ "config.tls.cipher_suite" \in RuleIDs
      /\ "config.sshd" \in RuleIDs /\ "config.jwt.alg" \in RuleIDs
  BY DEF RuleIDs
<1> QED BY <1>1 DEF LineRule

LEMMA CertsType ==
  ASSUME TypeOK, job' = job, CertsNext
  PROVE  TypeOK'
<1>0. /\ findings \in Seq(Finding) /\ at \in Nat /\ within \in Nat \ {0} /\ pc \in {"read", "structure", "scan", "returned"}
      /\ error \in {"nil", "cancelled", "unreadable", "parse", "rule"}
  BY DEF TypeOK
<1>1. CASE ReportBlock
  <2>1. BlockFinding(Block) \in Finding
    BY <1>0, BlockFindingIsFinding, CertFindings
  <2>2. findings' \in Seq(Finding)
    BY <1>0, <1>1, <2>1, AppendOne DEF ReportBlock
  <2> QED BY <1>0, <1>1, <2>2, GoingOn DEF ReportBlock
<1>2. CASE OpenPKCS12 \/ ParseDER
  <2>1. \A rule \in CertRules : \A key : \A place \in {1, 2} : FindingFor(place, rule, key) \in Finding
    BY FindingForIsFinding, CertFindings
  <2> DEFINE a(key) == FindingFor(1, "certs.x509.certificate", key)
             b(key) == FindingFor(2, "certs.pkcs12.private", key)
  <2>2. \A key : a(key) \in Finding /\ b(key) \in Finding
    BY <2>1 DEF CertRules
  <2>3. \/ findings' = findings
        \/ \E key : findings' = <<a(key)>> \/ findings' = <<a(key)>> \o << >>
        \/ \E key, other : findings' = <<a(key)>> \o <<b(other)>>
    BY <1>2 DEF OpenPKCS12, ParseDER
  <2> HIDE DEF a, b
  <2>4. findings' \in Seq(Finding)
    <3>1. << >> \in Seq(Finding) /\ \A x \in Finding : <<x>> \in Seq(Finding) /\ <<x>> \o << >> \in Seq(Finding)
      OBVIOUS
    <3>2. \A x, y \in Finding : <<x>> \o <<y>> \in Seq(Finding)
      OBVIOUS
    <3>3. CASE findings' = findings
      BY <1>0, <3>3
    <3>4. CASE \E key : findings' = <<a(key)>> \/ findings' = <<a(key)>> \o << >>
      BY <2>2, <3>1, <3>4
    <3>5. CASE \E key, other : findings' = <<a(key)>> \o <<b(other)>>
      BY <2>2, <3>2, <3>5
    <3> QED BY <2>3, <3>3, <3>4, <3>5
  <2>5. /\ pc' = "returned" /\ error' \in {"nil", "parse"} /\ at' = at /\ problems' = problems /\ within' = within
    BY <1>2 DEF OpenPKCS12, ParseDER, Return
  <2> QED BY <1>0, <2>4, <2>5, GoingOn
<1>3. CASE PassOverMalformed \/ RefuseBlock \/ TryPassword
  BY <1>0, <1>3, GoingOn DEF PassOverMalformed, RefuseBlock, TryPassword
<1>4. CASE EndPEM \/ RefusePKCS12
  <2>1. /\ pc' = "returned" /\ error' \in {"nil", "parse"} /\ at' = at /\ problems' = problems /\ within' = within
        /\ findings' = findings
    BY <1>4 DEF EndPEM, RefusePKCS12, Return
  <2> QED BY <1>0, <2>1, GoingOn
<1> QED BY <1>1, <1>2, <1>3, <1>4 DEF CertsNext

LEMMA ConfigType ==
  ASSUME TypeOK, job' = job, ConfigNext
  PROVE  TypeOK'
<1>0. /\ findings \in Seq(Finding) /\ at \in Nat /\ within \in Nat \ {0} /\ pc \in {"read", "structure", "scan", "returned"}
      /\ error \in {"nil", "cancelled", "unreadable", "parse", "rule"}
  BY DEF TypeOK
<1>1. CASE WalkJSON
  <2>1. job.detector = "config"
    BY <1>1 DEF WalkJSON
  <2>2. PICK k \in DOMAIN File.algs :
          findings' = findings \o Emit(0, "config.jwt.alg", File.algs[k]) /\ within' = k + 1
    BY <1>1 DEF WalkJSON
  <2>3. findings' \in Seq(Finding)
    <3>1. Emit(0, "config.jwt.alg", File.algs[k]) \in Seq(Finding)
      BY EmitIsFindings, ConfigRules
    <3> QED BY <1>0, <2>2, <3>1, AppendAll
  <2>4. within' \in Nat \ {0}
    BY <2>1, <2>2, ConfigFileType, NextWithin
  <2> QED BY <1>0, <1>1, <2>3, <2>4, GoingOn DEF WalkJSON
<1>2. CASE ScanName
  <2> DEFINE line == File.lines[at]
  <2>1. job.detector = "config" /\ at \in DOMAIN File.lines
    BY <1>0, <1>2, ConfigFileType DEF TypeOK, ScanName, Scanning, More
  <2>2. PICK k \in LookedAt(line) :
          findings' = findings \o Emit(at, LineRule(line), line.names[k]) /\ within' = k + 1
    BY <1>2 DEF ScanName
  <2>3. findings' \in Seq(Finding)
    <3>1. Emit(at, LineRule(line), line.names[k]) \in Seq(Finding)
      BY <1>0, EmitIsFindings, ConfigRules
    <3> QED BY <1>0, <2>2, <3>1, AppendAll
  <2>4. within' \in Nat \ {0}
    <3>1. LookedAt(line) \in SUBSET DOMAIN line.names
      BY DEF LookedAt, Included
    <3>2. DOMAIN line.names \in SUBSET (Nat \ {0})
      BY <2>1, ConfigFileType
    <3> QED BY <2>2, <3>1, <3>2, NextWithin
  <2> QED BY <1>0, <1>2, <2>3, <2>4, GoingOn DEF ScanName
<1>3. CASE NextLine
  BY <1>0, <1>3, GoingOn DEF NextLine
<1>4. CASE ScannerStops \/ EndWalk
  <2>1. /\ pc' \in {"returned", "scan"} /\ error' \in {"nil", error} /\ at' = at /\ problems' = problems
        /\ within' \in {within, 1} /\ findings' = findings
    BY <1>4 DEF ScannerStops, EndWalk, Return
  <2>2. pc' \in {"read", "structure", "scan", "returned"} /\ within' \in Nat \ {0}
        /\ error' \in {"nil", "cancelled", "unreadable", "parse", "rule"}
    BY <1>0, <2>1
  <2> QED BY <1>0, <2>1, <2>2, GoingOn
<1> QED BY <1>1, <1>2, <1>3, <1>4 DEF ConfigNext

LEMMA SourceType ==
  ASSUME TypeOK, job' = job, SourceNext
  PROVE  TypeOK'
<1>0. /\ findings \in Seq(Finding) /\ at \in Nat /\ within \in Nat \ {0} /\ pc \in {"read", "structure", "scan", "returned"}
      /\ error \in {"nil", "cancelled", "unreadable", "parse", "rule"}
  BY DEF TypeOK
<1>1. CASE MatchCall \/ MatchIdentifier \/ MatchLine
  <2>1. job.detector = "source" /\ at \in DOMAIN Rules
    BY <1>1 DEF MatchCall, MatchIdentifier, MatchLine, ApplyRule, Scanning, RulesFor
  <2>2. /\ DOMAIN File.calls \in SUBSET (Nat \ {0}) /\ DOMAIN File.identifiers \in SUBSET (Nat \ {0})
        /\ \A k \in DOMAIN File.calls : File.calls[k].line \in Nat /\ File.calls[k].args \in Seq(Nat)
        /\ \A k \in DOMAIN File.identifiers : File.identifiers[k].line \in Nat
    BY <2>1, SourceFileType
  <2>3. /\ \A k \in DOMAIN File.calls : /\ RuleFinding(File.calls[k].line, File.calls[k].args) \in Finding
                                        /\ Low(File.calls[k].line) \in Finding
        /\ \A k \in DOMAIN File.identifiers : RuleFinding(File.identifiers[k].line, << >>) \in Finding
    <3>1. << >> \in Seq(Nat)
      OBVIOUS
    <3> QED BY <2>1, <2>2, <3>1, RuleFindingIsFinding
  <2>4. /\ findings' = findings \/ \E new \in Finding : findings' = Append(findings, new)
        /\ \E k \in DOMAIN File.calls \cup DOMAIN File.identifiers : within' = k + 1
    BY <1>1, <2>3 DEF MatchCall, MatchIdentifier, MatchLine, CallHits, IdentifierHits, TextHits
  <2>5. findings' \in Seq(Finding)
    BY <1>0, <2>4, AppendOne
  <2>6. within' \in Nat \ {0}
    BY <2>2, <2>4, NextWithin
  <2>7. pc' = pc /\ error' = error /\ at' = at /\ problems' = problems
    BY <1>1 DEF MatchCall, MatchIdentifier, MatchLine
  <2> QED BY <1>0, <2>5, <2>6, <2>7, GoingOn
<1>2. CASE NextRule
  BY <1>0, <1>2, GoingOn DEF NextRule
<1>3. CASE RuleFails
  BY <1>0, <1>3, GoingOn DEF RuleFails, Return
<1>4. CASE EndRules
  <2>1. /\ pc' = "returned" /\ error' \in {"nil", "parse"} /\ at' = at /\ problems' = problems /\ within' = within
        /\ findings' = findings
    BY <1>4 DEF EndRules, Return
  <2> QED BY <1>0, <2>1, GoingOn
<1> QED BY <1>1, <1>2, <1>3, <1>4 DEF SourceNext

(* Every state is a state of the variables, for whatever files and rules. *)
THEOREM TypeCorrect == Spec => []TypeOK
<1>1. Init => TypeOK
  BY DEF Init, TypeOK
<1>2. TypeOK /\ [Next]_vars => TypeOK'
  <2> SUFFICES ASSUME TypeOK, [Next]_vars PROVE TypeOK'
    OBVIOUS
  <2>1. job' = job
    BY JobStays
  <2>2. CASE ReturnUnread \/ ReadFile
    <3>1. /\ pc' \in {"returned", "structure", "scan"} /\ error' \in {"cancelled", "unreadable", error}
          /\ at' = at /\ problems' = problems /\ within' = within /\ findings' = findings
      BY <2>2 DEF ReturnUnread, ReadFile, Return
    <3>2. error' \in {"nil", "cancelled", "unreadable", "parse", "rule"} /\ within' \in Nat \ {0}
          /\ findings' \in Seq(Finding) /\ pc' \in {"read", "structure", "scan", "returned"}
      BY <3>1 DEF TypeOK
    <3> QED BY <2>1, <3>1, <3>2, GoingOn
  <2>3. CASE Terminating \/ UNCHANGED vars
    BY <2>3 DEF Terminating, vars, TypeOK
  <2> QED BY <2>1, <2>2, <2>3, CertsType, ConfigType, SourceType DEF Next
<1> QED BY <1>1, <1>2, PTL DEF Spec
-----------------------------------------------------------------------------
(* The source detector.  What a rule owes: the calls that CallsResolved asks for. *)
Owed(r, call) ==
  /\ call.at = "code"
  /\ \/ File.tree # "ok"
     \/ /\ File.tree = "ok" /\ File.lang = "go"
        /\ StandsFor(call.pkg, Rules[r].package) /\ Suggests(call.pkg, Rules[r].package)

PaidBefore ==
  \A r \in RulesFor(File.lang) \cap 1..(at - 1) : Rules[r].kind = "call" =>
    \A call \in CallsOf(r) : Owed(r, call) => Reported(r, call.line)

(* Of the rule in progress, the calls that the inner loop has passed. *)
PaidSoFar ==
  pc # "returned" /\ at \in RulesFor(File.lang) =>
    \A k \in CallHits \cup TextHits : k < within => Reported(at, File.calls[k].line)

AllBacked ==
  \A k \in DOMAIN findings :
    \E r \in RulesFor(File.lang) : Rules[r].id = findings[k].rule /\ Backed(r, findings[k].place)

SourceInv == job.detector = "source" => PaidBefore /\ PaidSoFar /\ AllBacked

LEMMA SourceInvSuffices == SourceInv => CallsResolved
BY DEF SourceInv, CallsResolved, PaidBefore, Owed, AllBacked

(* A source file is touched by the actions of this detector alone. *)
LEMMA SourceSteps ==
  ASSUME [Next]_vars, job.detector = "source"
  PROVE  ReturnUnread \/ ReadFile \/ SourceNext \/ UNCHANGED vars
<1>1. ~CertsNext
  BY DEF CertsNext, PassOverMalformed, ReportBlock, RefuseBlock, EndPEM, TryPassword, OpenPKCS12,
     RefusePKCS12, ParseDER, InPEM, InPKCS12, AtBlock, Scanning
<1>2. ~ConfigNext
  BY DEF ConfigNext, WalkJSON, EndWalk, ScanName, NextLine, ScannerStops, Scanning
<1> QED BY <1>1, <1>2 DEF Next, Terminating

(* The map of imports gives the last path collected under a name. *)
LEMMA PathIsSuggested ==
  ASSUME TypeOK, job.detector = "source", NEW name, NEW path, Suggests(name, path)
  PROVE  Under(name) # {} /\ PathOf(name) = path
<1>1. Under(name) \in SUBSET DOMAIN Pairs
  BY DEF Under, Collected
<1>2. Under(name) \in SUBSET (1..Len(File.imports)) \/ Under(name) \in SUBSET (1..2)
  BY <1>1, SourceFileType DEF Pairs
<1>3. Under(name) # {} /\ \A k \in Under(name) : Pairs[k][2] = path
  BY DEF Suggests
<1>4. Max(Under(name)) \in Under(name)
  BY <1>2, <1>3, SourceFileType, MaxIsOne
<1> QED BY <1>3, <1>4 DEF PathOf

(* A call through an import of the package of the rule is a match, ... *)
LEMMA OwedMatches ==
  ASSUME TypeOK, job.detector = "source", NEW k \in DOMAIN File.calls,
         Rule.kind = "call", File.calls[k].symbol = Rule.symbol, Owed(at, File.calls[k])
  PROVE  k \in CallHits \cup TextHits
<1> DEFINE call == File.calls[k]
<1>1. CASE File.tree # "ok"
  BY <1>1 DEF TextHits, Owed
<1>2. CASE File.tree = "ok"
  <2>1. call.at = "code" /\ Suggests(call.pkg, Rule.package)
    BY <1>2 DEF Owed, Rule
  <2>2. Under(call.pkg) # {} /\ PathOf(call.pkg) = Rule.package
    BY <2>1, PathIsSuggested
  <2>3. PackageMatches(call)
    BY <2>2 DEF PackageMatches
  <2> QED BY <1>2, <2>1, <2>3 DEF CallHits
<1> QED BY <1>1, <1>2

(* ... and a match is no call through an import of another one. *)
LEMMA MatchIsOfPackage ==
  ASSUME TypeOK, job.detector = "source", NEW k \in CallHits
  PROVE  Backed(at, File.calls[k].line)
<1> DEFINE call == File.calls[k]
<1>1. /\ k \in DOMAIN File.calls /\ File.tree = "ok" /\ Rules[at].kind = "call"
      /\ call.at = "code" /\ call.symbol = Rules[at].symbol /\ PackageMatches(call)
  BY DEF CallHits, Rule
<1>2. call \in CallsOf(at)
  BY <1>1 DEF CallsOf
<1>3. ASSUME File.lang = "go", Rules[at].package # << >> PROVE ~OfAnotherPackage(call, Rules[at].package)
  <2> SUFFICES ASSUME OfAnotherPackage(call, Rules[at].package) PROVE FALSE
    OBVIOUS
  <2>1. PICK path : Suggests(call.pkg, path) /\ Last(path) # Last(Rules[at].package)
    BY DEF OfAnotherPackage
  <2>2. Under(call.pkg) # {} /\ PathOf(call.pkg) = path
    BY <2>1, PathIsSuggested
  <2>3. PathOf(call.pkg) = Rules[at].package \/ Last(PathOf(call.pkg)) = Last(Rules[at].package)
    BY <1>1, <1>3, <2>2 DEF PackageMatches, Rule
  <2> QED BY <2>1, <2>2, <2>3
<1> QED BY <1>1, <1>2, <1>3 DEF Backed

(* What the rules make of a file does not change while it is scanned. *)
LEMMA SameFile ==
  ASSUME job' = job
  PROVE  /\ File' = File /\ RulesFor(File.lang)' = RulesFor(File.lang)
         /\ \A r : CallsOf(r)' = CallsOf(r)
         /\ \A r, call : Owed(r, call)' = Owed(r, call)
         /\ \A r, line : Backed(r, line)' = Backed(r, line)
<1>1. File' = File
  BY DEF File
<1>2. RulesFor(File.lang)' = RulesFor(File.lang)
  BY <1>1 DEF RulesFor
<1>3. \A r : CallsOf(r)' = CallsOf(r)
  BY <1>1 DEF CallsOf
<1>4. Pairs' = Pairs /\ Collected' = Collected
  BY <1>1 DEF Pairs, Collected
<1>5. \A name : Under(name)' = Under(name)
  BY <1>4 DEF Under
<1>6. \A name, path : Suggests(name, path)' = Suggests(name, path) /\ StandsFor(name, path)' = StandsFor(name, path)
  BY <1>1, <1>4, <1>5 DEF Suggests, StandsFor
<1>7. \A r, call : Owed(r, call)' = Owed(r, call)
  BY <1>1, <1>6 DEF Owed
<1>8. \A call, package : OfAnotherPackage(call, package)' = OfAnotherPackage(call, package)
  BY <1>1, <1>6 DEF OfAnotherPackage
<1>9. \A r, line : Backed(r, line)' = Backed(r, line)
  BY <1>1, <1>3, <1>8 DEF Backed
<1> QED BY <1>1, <1>2, <1>3, <1>7, <1>9

LEMMA SameRule ==
  ASSUME job' = job, at' = at
  PROVE  CallHits' = CallHits /\ TextHits' = TextHits
<1>1. File' = File /\ Rule' = Rule
  BY DEF File, Rule
<1>2. Pairs' = Pairs /\ Collected' = Collected
  BY <1>1 DEF Pairs, Collected
<1>3. \A name : Under(name)' = Under(name)
  BY <1>2 DEF Under
<1>4. \A name : PathOf(name)' = PathOf(name)
  BY <1>2, <1>3 DEF PathOf
<1>5. \A call : PackageMatches(call)' = PackageMatches(call)
  BY <1>1, <1>3, <1>4 DEF PackageMatches
<1> QED BY <1>1, <1>5 DEF CallHits, TextHits

(* What is reported stays reported, and what is backed stays backed. *)
Grows == \A i \in DOMAIN findings : i \in DOMAIN findings' /\ findings'[i] = findings[i]

LEMMA ReportedStays ==
  ASSUME Grows
  PROVE  \A r, line : Reported(r, line) => Reported(r, line)'
BY DEF Grows, Reported

LEMMA PaidStays ==
  ASSUME PaidBefore, job' = job, at' = at, Grows
  PROVE  PaidBefore'
<1>1. /\ File' = File /\ \A r : CallsOf(r)' = CallsOf(r)
      /\ \A r, call : Owed(r, call)' = Owed(r, call)
      /\ \A r, line : Reported(r, line) => Reported(r, line)'
  BY SameFile, ReportedStays
<1> QED BY <1>1 DEF PaidBefore

LEMMA BackedStays ==
  ASSUME AllBacked, job' = job,
         \A i \in DOMAIN findings' :
           \/ i \in DOMAIN findings /\ findings'[i] = findings[i]
           \/ \E r \in RulesFor(File.lang) : Rules[r].id = findings'[i].rule /\ Backed(r, findings'[i].place)
  PROVE  AllBacked'
<1>1. File' = File /\ \A r, line : Backed(r, line)' = Backed(r, line)
  BY SameFile
<1>2. \A i \in DOMAIN findings' :
        \E r \in RulesFor(File.lang) : Rules[r].id = findings'[i].rule /\ Backed(r, findings'[i].place)
  BY DEF AllBacked
<1> QED BY <1>1, <1>2 DEF AllBacked

(* A finding for the rule in progress is one more, and backed. *)
LEMMA OneMore ==
  ASSUME TypeOK, NEW new \in Finding, findings' = Append(findings, new)
  PROVE  /\ Grows
         /\ \E i \in DOMAIN findings' : findings'[i] = new
         /\ \A i \in DOMAIN findings' : (i \in DOMAIN findings /\ findings'[i] = findings[i]) \/ findings'[i] = new
<1>1. findings \in Seq(Finding)
  BY DEF TypeOK
<1> QED BY <1>1, AppendOne DEF Grows

LEMMA NextInLoop ==
  ASSUME NEW S \in SUBSET (Nat \ {0}), NEW k, NextOf(S, k), within \in Nat
  PROVE  \A j \in S : (j < k + 1 => j < within \/ j = k) /\ (j < k => j < within)
BY DEF NextOf

(* An inner loop over the calls goes on to the next of them, k. *)
LEMMA CallIsPaid ==
  ASSUME TypeOK, job.detector = "source", SourceInv, job' = job, at' = at, pc' = pc, pc # "returned",
         at \in RulesFor(File.lang), Grows,
         NEW k, within' = k + 1, NextOf(CallHits \cup TextHits, k), Reported(at, File.calls[k].line)'
  PROVE  PaidSoFar'
<1>1. CallHits \cup TextHits \in SUBSET (Nat \ {0}) /\ within \in Nat
  BY SourceFileType DEF CallHits, TextHits, TypeOK
<1>2. \A j \in CallHits \cup TextHits : j < k + 1 => j < within \/ j = k
  BY <1>1, NextInLoop
<1>3. \A j \in CallHits \cup TextHits : j < within => Reported(at, File.calls[j].line)'
  <2>1. \A j \in CallHits \cup TextHits : j < within => Reported(at, File.calls[j].line)
    BY DEF SourceInv, PaidSoFar
  <2> QED BY <2>1, SameFile DEF Reported, Grows
<1>4. CallHits' = CallHits /\ TextHits' = TextHits /\ File' = File
  BY SameRule, SameFile
<1> QED BY <1>2, <1>3, <1>4 DEF PaidSoFar

LEMMA SourceStep ==
  ASSUME TypeOK, SourceInv, SourceNext, job.detector = "source"
  PROVE  SourceInv'
<1>0. PaidBefore /\ PaidSoFar /\ AllBacked
  BY DEF SourceInv
<1>1. CASE MatchCall
  <2>1. PICK k \in CallHits :
          /\ NextOf(CallHits, k) /\ within' = k + 1
          /\ findings' = Append(findings, RuleFinding(File.calls[k].line, File.calls[k].args))
    BY <1>1 DEF MatchCall
  <2> DEFINE line == File.calls[k].line
             new == RuleFinding(line, File.calls[k].args)
  <2>2. at \in DOMAIN Rules /\ at \in RulesFor(File.lang) /\ pc = "scan" /\ job' = job /\ at' = at /\ pc' = pc
    BY <1>1 DEF MatchCall, ApplyRule, Scanning, RulesFor
  <2>3. new \in Finding /\ new.place = line /\ new.rule = Rules[at].id
    BY <2>2, SourceFileType, RuleFindingIsFinding DEF CallHits, Rule
  <2>4. /\ Grows /\ \E i \in DOMAIN findings' : findings'[i] = new
        /\ \A i \in DOMAIN findings' : (i \in DOMAIN findings /\ findings'[i] = findings[i]) \/ findings'[i] = new
    BY <2>1, <2>3, OneMore
  <2>5. TextHits = {}
    BY DEF CallHits, TextHits
  <2>6. Reported(at, line)'
    BY <2>2, <2>3, <2>4, SameFile DEF Reported
  <2>7. PaidSoFar'
    <3>1. NextOf(CallHits \cup TextHits, k)
      BY <2>1, <2>5
    <3> QED BY <2>1, <2>2, <2>4, <2>6, <3>1, CallIsPaid
  <2>8. AllBacked'
    <3>1. Backed(at, line)
      BY MatchIsOfPackage
    <3> HIDE DEF new, line
    <3> QED BY <1>0, <2>2, <2>3, <2>4, <3>1, BackedStays
  <2> QED BY <1>0, <2>2, <2>4, <2>7, <2>8, PaidStays DEF SourceInv
<1>2. CASE MatchIdentifier
  <2>1. PICK k \in IdentifierHits :
          findings' = Append(findings, RuleFinding(File.identifiers[k].line, << >>))
    BY <1>2 DEF MatchIdentifier
  <2> DEFINE line == File.identifiers[k].line
             new == RuleFinding(line, << >>)
  <2>2. at \in DOMAIN Rules /\ at \in RulesFor(File.lang) /\ pc = "scan" /\ job' = job /\ at' = at /\ pc' = pc
    BY <1>2 DEF MatchIdentifier, ApplyRule, Scanning, RulesFor
  <2>3. new \in Finding /\ new.place = line /\ new.rule = Rules[at].id
    <3>1. << >> \in Seq(Nat)
      OBVIOUS
    <3> QED BY <2>2, <3>1, SourceFileType, RuleFindingIsFinding DEF IdentifierHits, Rule
  <2>4. /\ Grows
        /\ \A i \in DOMAIN findings' : (i \in DOMAIN findings /\ findings'[i] = findings[i]) \/ findings'[i] = new
    BY <2>1, <2>3, OneMore
  <2>5. PaidSoFar'
    <3>1. CallHits = {} /\ TextHits = {}
      BY DEF CallHits, TextHits, IdentifierHits
    <3> QED BY <2>2, <3>1, SameRule DEF PaidSoFar
  <2>6. AllBacked'
    <3>1. Backed(at, line)
      BY DEF Backed, IdentifierHits, Rule
    <3> HIDE DEF new, line
    <3> QED BY <1>0, <2>2, <2>3, <2>4, <3>1, BackedStays
  <2> QED BY <1>0, <2>2, <2>4, <2>5, <2>6, PaidStays DEF SourceInv
<1>3. CASE MatchLine
  <2>1. PICK k \in TextHits :
          /\ NextOf(TextHits, k) /\ within' = k + 1
          /\ findings' = IF \E j \in TextHits : j < k /\ File.calls[j].line = File.calls[k].line
                         THEN findings ELSE Append(findings, Low(File.calls[k].line))
    BY <1>3 DEF MatchLine
  <2> DEFINE line == File.calls[k].line
             new == Low(line)
  <2>2. at \in DOMAIN Rules /\ at \in RulesFor(File.lang) /\ pc = "scan" /\ job' = job /\ at' = at /\ pc' = pc
    BY <1>3 DEF MatchLine, ApplyRule, Scanning, RulesFor
  <2>3. new \in Finding /\ new.place = line /\ new.rule = Rules[at].id
    BY <2>2, SourceFileType, RuleFindingIsFinding DEF TextHits, Rule
  <2>4. CallHits = {}
    BY DEF CallHits, TextHits
  <2>5. /\ Grows /\ Reported(at, line)'
        /\ \A i \in DOMAIN findings' : (i \in DOMAIN findings /\ findings'[i] = findings[i]) \/ findings'[i] = new
    <3>1. CASE \E j \in TextHits : j < k /\ File.calls[j].line = File.calls[k].line
      <4>1. PICK j \in TextHits : j < k /\ File.calls[j].line = line
        BY <3>1
      <4>2. TextHits \in SUBSET (Nat \ {0}) /\ within \in Nat
        BY SourceFileType DEF TextHits, TypeOK
      <4>3. j < within
        BY <2>1, <4>1, <4>2, NextInLoop
      <4>4. Reported(at, File.calls[j].line)
        BY <1>0, <2>2, <4>1, <4>3 DEF PaidSoFar
      <4>5. findings' = findings
        BY <2>1, <3>1
      <4>6. Reported(at, line)'
        BY <2>2, <4>1, <4>4, <4>5, SameFile DEF Reported
      <4> QED BY <4>5, <4>6 DEF Grows
    <3>2. CASE ~\E j \in TextHits : j < k /\ File.calls[j].line = File.calls[k].line
      <4>1. findings' = Append(findings, new)
        BY <2>1, <3>2
      <4>2. /\ Grows /\ \E i \in DOMAIN findings' : findings'[i] = new
            /\ \A i \in DOMAIN findings' : (i \in DOMAIN findings /\ findings'[i] = findings[i]) \/ findings'[i] = new
        BY <2>3, <4>1, OneMore
      <4>3. Reported(at, line)'
        BY <2>2, <2>3, <4>2, SameFile DEF Reported
      <4> QED BY <4>2, <4>3
    <3> QED BY <3>1, <3>2
  <2>6. PaidSoFar'
    <3>1. NextOf(CallHits \cup TextHits, k)
      BY <2>1, <2>4
    <3> QED BY <2>1, <2>2, <2>5, <3>1, CallIsPaid
  <2>7. AllBacked'
    <3>1. Backed(at, line)
      BY DEF Backed, TextHits, CallsOf, Rule
    <3> HIDE DEF new, line
    <3> QED BY <1>0, <2>2, <2>3, <2>5, <3>1, BackedStays
  <2> QED BY <1>0, <2>2, <2>5, <2>6, <2>7, PaidStays DEF SourceInv
<1>4. CASE NextRule \/ RuleFails
  <2>1. job' = job /\ findings' = findings /\ at' = at + 1 /\ at \in Nat /\ pc = "scan"
    BY <1>4 DEF NextRule, RuleFails, ApplyRule, Scanning, TypeOK
  <2>2. Grows
    BY <2>1 DEF Grows
  <2>3. AllBacked'
    BY <1>0, <2>1, BackedStays
  <2>4. PaidSoFar'
    <3>1. CASE NextRule
      <4>1. (CallHits \cup TextHits)' \in SUBSET (Nat \ {0})
        <5>1. (CallHits \cup TextHits)' \in SUBSET DOMAIN File.calls
          BY <2>1, SameFile DEF CallHits, TextHits
        <5> QED BY <5>1, SourceFileType
      <4>2. within' = 1
        BY <3>1 DEF NextRule
      <4>3. \A k \in (CallHits \cup TextHits)' : ~(k < within')
        BY <4>1, <4>2
      <4> QED BY <4>3 DEF PaidSoFar
    <3>2. CASE RuleFails
      BY <3>2 DEF RuleFails, Return, PaidSoFar
    <3> QED BY <1>4, <3>1, <3>2
  <2>5. ASSUME at \in RulesFor(File.lang), Rules[at].kind = "call", NEW call \in CallsOf(at), Owed(at, call)
        PROVE  Reported(at, call.line)
    <3>1. ~RuleFails
      BY <2>5 DEF RuleFails, Inapplicable, Rule
    <3>2. NoneLeft(CallHits) /\ NoneLeft(TextHits)
      BY <1>4, <2>5, <3>1 DEF NextRule
    <3>3. PICK k \in DOMAIN File.calls : call = File.calls[k] /\ call.symbol = Rule.symbol
      BY <2>5 DEF CallsOf, Rule
    <3>4. k \in CallHits \cup TextHits
      BY <2>5, <3>3, OwedMatches DEF Rule
    <3>5. k < within
      BY <3>2, <3>4 DEF NoneLeft
    <3> QED BY <1>0, <2>1, <2>5, <3>3, <3>4, <3>5 DEF PaidSoFar
  <2>6. PaidBefore'
    <3>1. \A r \in 1..(at' - 1) : r \in 1..(at - 1) \/ r = at
      BY <2>1
    <3>2. \A r \in RulesFor(File.lang) \cap 1..(at' - 1) : Rules[r].kind = "call" =>
            \A call \in CallsOf(r) : Owed(r, call) => Reported(r, call.line)
      BY <1>0, <2>5, <3>1 DEF PaidBefore
    <3>3. /\ File' = File /\ \A r : CallsOf(r)' = CallsOf(r)
          /\ \A r, call : Owed(r, call)' = Owed(r, call)
          /\ \A r, line : Reported(r, line) => Reported(r, line)'
      BY <2>1, <2>2, SameFile, ReportedStays
    <3> QED BY <3>2, <3>3 DEF PaidBefore
  <2> QED BY <2>3, <2>4, <2>6 DEF SourceInv
<1>5. CASE EndRules
  <2>1. job' = job /\ findings' = findings /\ at' = at /\ pc' = "returned"
    BY <1>5 DEF EndRules, Return
  <2>2. Grows
    BY <2>1 DEF Grows
  <2> QED BY <1>0, <2>1, <2>2, PaidStays, BackedStays DEF SourceInv, PaidSoFar
<1> QED BY <1>1, <1>2, <1>3, <1>4, <1>5 DEF SourceNext

(* Whatever rules there are and whatever file they are applied to, the calls of      *)
(* their packages are reported and every finding is backed by the file.            *)
THEOREM CallsAreResolved == Spec => []CallsResolved
<1>1. Init => SourceInv
  <2> SUFFICES ASSUME Init, job.detector = "source" PROVE PaidBefore /\ PaidSoFar /\ AllBacked
    BY DEF SourceInv
  <2>1. at = 1 /\ within = 1 /\ findings = << >> /\ TypeOK
    BY DEF Init, TypeOK
  <2>2. CallHits \cup TextHits \in SUBSET (Nat \ {0})
    BY <2>1, SourceFileType DEF CallHits, TextHits
  <2>3. 1..(at - 1) = {} /\ \A k \in CallHits \cup TextHits : ~(k < within)
    BY <2>1, <2>2
  <2> QED BY <2>1, <2>3 DEF PaidBefore, PaidSoFar, AllBacked
<1>2. TypeOK /\ SourceInv /\ [Next]_vars => SourceInv'
  <2> SUFFICES ASSUME TypeOK, SourceInv, [Next]_vars, job.detector = "source" PROVE SourceInv'
    <3>1. ASSUME [Next]_vars PROVE job' = job
      BY <3>1, JobStays
    <3> QED BY <3>1 DEF SourceInv
  <2>1. CASE SourceNext
    BY <2>1, SourceStep
  <2>2. CASE ReturnUnread \/ ReadFile \/ UNCHANGED vars
    <3>1. job' = job /\ at' = at /\ within' = within /\ findings' = findings
          /\ (pc' # "returned" => pc # "returned")
      BY <2>2 DEF ReturnUnread, ReadFile, vars
    <3>2. Grows
      BY <3>1 DEF Grows
    <3>3. \A r, line : Reported(r, line) => Reported(r, line)'
      BY <3>2, ReportedStays
    <3>4. PaidSoFar'
      BY <3>1, <3>3, SameFile, SameRule DEF SourceInv, PaidSoFar
    <3> QED BY <3>1, <3>2, <3>4, PaidStays, BackedStays DEF SourceInv
  <2> QED BY <2>1, <2>2, SourceSteps
<1> QED BY <1>1, <1>2, SourceInvSuffices, TypeCorrect, PTL DEF Spec
-----------------------------------------------------------------------------
(* The configuration detector.  What has been told of the lines that are done and of  *)
(* the names of the next one that the inner loop has passed, ...                    *)
LinesTold ==
  \A l \in 1..(at - 1) : \A k \in LookedAt(File.lines[l]) : Told(l, File.lines[l].names[k])

NamesTold ==
  pc = "scan" /\ at \in DOMAIN File.lines =>
    \A k \in LookedAt(File.lines[at]) : k < within => Told(at, File.lines[at].names[k])

(* ... and what is behind each finding. *)
AllNamed == \A k \in DOMAIN findings : findings[k].place <= at /\ Named(findings[k])

(* The lines are read only if the structure gave nothing. *)
OneReading ==
  /\ pc = "read" => findings = << >>
  /\ pc = "structure" => \A k \in DOMAIN findings : findings[k].place = 0
  /\ pc = "scan" => \A k \in DOMAIN findings : findings[k].place > 0
  /\ pc \in {"read", "structure"} => at = 1

InOrder ==
  \A k, l \in DOMAIN findings : k < l =>
    findings[k].place <= findings[l].place /\ (findings[k].place = 0 => findings[l].place = 0)

ConfigInv ==
  job.detector = "config" => LinesTold /\ NamesTold /\ AllNamed /\ OneReading /\ InOrder

(* What is in force on a line is looked at. *)
LEMMA InForceIsLookedAt ==
  ASSUME NEW line
  PROVE  \A name \in InForce(line) : \E k \in LookedAt(line) : name = line.names[k]
BY DEF InForce, LookedAt, Included, Names, Format

LEMMA LookedAtIsNamed ==
  ASSUME NEW line, NEW k \in LookedAt(line)
  PROVE  line.kind # "comment" /\ k \in DOMAIN line.names
BY DEF LookedAt, Included

LEMMA ConfigInvSuffices == ConfigInv => ReportsWhatItReads
<1>1. LinesTold => \A l \in 1..(at - 1) : \A name \in InForce(File.lines[l]) : Told(l, name)
  BY InForceIsLookedAt DEF LinesTold
<1> QED BY <1>1 DEF ConfigInv, ReportsWhatItReads, AllNamed, InOrder

(* A configuration file is touched by the actions of this detector alone. *)
LEMMA ConfigSteps ==
  ASSUME [Next]_vars, job.detector = "config"
  PROVE  ReturnUnread \/ ReadFile \/ ConfigNext \/ UNCHANGED vars
<1>1. ~CertsNext
  BY DEF CertsNext, PassOverMalformed, ReportBlock, RefuseBlock, EndPEM, TryPassword, OpenPKCS12,
     RefusePKCS12, ParseDER, InPEM, InPKCS12, AtBlock, Scanning
<1>2. ~SourceNext
  BY DEF SourceNext, MatchCall, MatchIdentifier, MatchLine, NextRule, RuleFails, EndRules, ApplyRule, Scanning
<1> QED BY <1>1, <1>2 DEF Next, Terminating

(* The findings that a name gives, at its place, tell all that the tables say of it, *)
(* and nothing else.                                                             *)
LEMMA EmitTells ==
  ASSUME NEW place \in Nat, NEW rule \in RuleIDs, NEW name, name \in NamesAt(place),
         place > 0 => File.lines[place].kind # "comment"
  PROVE  /\ \A r \in DOMAIN Emit(place, rule, name) :
              Emit(place, rule, name)[r].place = place /\ Named(Emit(place, rule, name)[r])
         /\ \A rows \in FormatTables :
              Knows(rows, name) =>
                \E r \in DOMAIN Emit(place, rule, name) : Tells(Emit(place, rule, name)[r], rows, name)
<1> DEFINE E == Emit(place, rule, name)
<1>1. DOMAIN E = DOMAIN Parse(name)
  BY EmitIsFindings
<1>2. \A r \in DOMAIN E : E[r].place = place /\ E[r].prim = Parse(name)[r].prim /\ E[r].size = Parse(name)[r].size
  <2>1. \A r \in DOMAIN Parse(name) : E[r] = Found(place, rule, Parse(name)[r].prim, Parse(name)[r].size, "high")
    BY EmitIsFindings
  <2>2. \A p, z : LET f == Found(place, rule, p, z, "high") IN f.place = place /\ f.prim = p /\ f.size = z
    BY DEF Found
  <2> HIDE DEF E
  <2> QED BY <1>1, <2>1, <2>2
<1> HIDE DEF E
<1>3. Says(Parse(name), FormatTables, name)
  BY ParseSays
<1>4. \A r \in DOMAIN E : \A rows : Meets(Parse(name)[r], rows, name) => Tells(E[r], rows, name)
  BY <1>2 DEF Meets, Tells
<1>5. \A r \in DOMAIN E : Parse(name)[r] \in Saying(Parse(name))
  BY <1>1 DEF Saying
<1>6. ASSUME NEW r \in DOMAIN E PROVE Named(E[r])
  <2>1. CASE \E rows \in FormatTables : Meets(Parse(name)[r], rows, name)
    <3>1. \E rows \in FormatTables : Tells(E[r], rows, name)
      BY <1>4, <2>1
    <3> QED BY <1>2, <3>1 DEF Named, FormatTables
  <2>2. CASE Parse(name)[r] = Unknown /\ \A rows \in FormatTables : FirstOf(rows, name) = << >>
    <3>1. E[r].prim = "UNKNOWN"
      BY <1>2, <2>2 DEF Unknown, Row
    <3> QED BY <1>2, <2>2, <3>1 DEF Named, FormatTables
  <2> QED BY <1>3, <1>5, <2>1, <2>2 DEF Says
<1>7. ASSUME NEW rows \in FormatTables, Knows(rows, name)
      PROVE  \E r \in DOMAIN E : Tells(E[r], rows, name)
  <2>1. PICK row \in Saying(Parse(name)) : Meets(row, rows, name)
    BY <1>7, ParseSays
  <2>2. PICK r \in DOMAIN E : row = Parse(name)[r]
    BY <1>1, <2>1 DEF Saying
  <2> QED BY <1>4, <2>1, <2>2
<1> QED BY <1>2, <1>6, <1>7 DEF E

(* What is told of a name stays told, and the file stays what it is. *)
LEMMA ToldStays ==
  ASSUME job' = job, Grows
  PROVE  /\ File' = File
         /\ \A line : LookedAt(line)' = LookedAt(line)
         /\ \A l, name : Told(l, name) => Told(l, name)'
         /\ \A f : Named(f)' = Named(f)
<1>1. File' = File
  BY DEF File
<1>2. \A line : LookedAt(line)' = LookedAt(line)
  BY <1>1 DEF LookedAt, Included
<1>3. \A l, name : Told(l, name) => Told(l, name)'
  BY <1>1 DEF Told, Knows, Grows
<1>4. \A place : NamesAt(place)' = NamesAt(place)
  BY <1>1 DEF NamesAt, Names
<1>5. \A f : Named(f)' = Named(f)
  BY <1>1, <1>4 DEF Named
<1> QED BY <1>1, <1>2, <1>3, <1>5

(* What a name gives is appended. *)
LEMMA EmitMore ==
  ASSUME TypeOK, NEW e \in Seq(Finding), findings' = findings \o e
  PROVE  /\ Grows
         /\ \A r \in DOMAIN e : \E i \in DOMAIN findings' : findings'[i] = e[r]
         /\ \A i \in DOMAIN findings' :
              \/ i \in DOMAIN findings /\ findings'[i] = findings[i]
              \/ ~(i \in DOMAIN findings) /\ \E r \in DOMAIN e : findings'[i] = e[r]
         /\ \A k, l \in DOMAIN findings' : k < l /\ l \in DOMAIN findings => k \in DOMAIN findings
<1>1. findings \in Seq(Finding) /\ Len(findings) \in Nat /\ DOMAIN findings = 1..Len(findings)
  BY DEF TypeOK
<1>2. DOMAIN findings' \in SUBSET (Nat \ {0})
  <2>1. findings' \in Seq(Finding)
    BY <1>1, AppendAll
  <2> QED BY <2>1
<1>3. \A i \in DOMAIN findings' : i > Len(findings) => ~(i \in DOMAIN findings)
  BY <1>1, <1>2
<1>4. \A k, l \in DOMAIN findings' : k < l /\ l \in DOMAIN findings => k \in DOMAIN findings
  BY <1>1, <1>2
<1>5. Grows
  BY <1>1, AppendAll DEF Grows
<1>6. \A r \in DOMAIN e : \E i \in DOMAIN findings' : findings'[i] = e[r]
  <2> SUFFICES ASSUME NEW r \in DOMAIN e PROVE \E i \in DOMAIN findings' : findings'[i] = e[r]
    OBVIOUS
  <2>1. Saying(findings \o e) = Saying(findings) \cup Saying(e)
    BY <1>1, SayingBoth
  <2>2. e[r] \in Saying(e)
    BY DEF Saying
  <2>3. e[r] \in Saying(findings')
    BY <2>1, <2>2
  <2> QED BY <2>3 DEF Saying
<1>7. \A i \in DOMAIN findings' :
        i \in DOMAIN findings \/ (i > Len(findings) /\ \E r \in DOMAIN e : findings'[i] = e[r])
  <2>1. \A i \in DOMAIN (findings \o e) :
          i \in DOMAIN findings \/ (i > Len(findings) /\ \E r \in DOMAIN e : (findings \o e)[i] = e[r])
    BY <1>1, AppendAll
  <2> QED BY <2>1
<1> QED BY <1>3, <1>4, <1>5, <1>6, <1>7 DEF Grows

(* One name more: it is told, every finding is still named, and the order is kept. *)
LEMMA NameTold ==
  ASSUME TypeOK, AllNamed, InOrder, job' = job, at' = at,
         NEW place \in Nat, place <= at, NEW rule \in RuleIDs, NEW name, name \in NamesAt(place),
         place > 0 => File.lines[place].kind # "comment",
         \A k \in DOMAIN findings : findings[k].place <= place /\ (findings[k].place = 0 <=> place = 0),
         findings' = findings \o Emit(place, rule, name)
  PROVE  /\ Grows /\ Told(place, name)' /\ AllNamed' /\ InOrder'
         /\ \A i \in DOMAIN findings' : findings'[i].place = place \/ \E k \in DOMAIN findings : findings'[i] = findings[k]
<1> DEFINE E == Emit(place, rule, name)
<1>1. E \in Seq(Finding)
  BY EmitIsFindings
<1>2. /\ \A r \in DOMAIN E : E[r].place = place /\ Named(E[r])
      /\ \A rows \in FormatTables :
           Knows(rows, name) =>
             \E r \in DOMAIN E : Tells(E[r], rows, name)
  BY EmitTells
<1>3. findings' = findings \o E
  OBVIOUS
<1> HIDE DEF E
<1>4. /\ Grows
      /\ \A r \in DOMAIN E : \E i \in DOMAIN findings' : findings'[i] = E[r]
      /\ \A i \in DOMAIN findings' :
           \/ i \in DOMAIN findings /\ findings'[i] = findings[i]
           \/ ~(i \in DOMAIN findings) /\ \E r \in DOMAIN E : findings'[i] = E[r]
      /\ \A k, l \in DOMAIN findings' : k < l /\ l \in DOMAIN findings => k \in DOMAIN findings
  BY <1>1, <1>3, EmitMore
<1>5. File' = File /\ \A f : Named(f)' = Named(f)
  BY <1>4, ToldStays
<1>6. Told(place, name)'
  <2>1. \A rows \in FormatTables :
          Knows(rows, name) =>
            \E i \in DOMAIN findings' : findings'[i].place = place /\ Tells(findings'[i], rows, name)
    BY <1>2, <1>4
  <2> QED BY <1>5, <2>1 DEF Told, Knows, FormatTables
<1>7. \A i \in DOMAIN findings' :
        /\ findings'[i].place <= at /\ Named(findings'[i]) /\ findings'[i].place <= place
        /\ (findings'[i].place = 0 <=> place = 0)
        /\ ~(i \in DOMAIN findings) => findings'[i].place = place
  BY <1>2, <1>4 DEF AllNamed
<1>8. AllNamed'
  BY <1>5, <1>7 DEF AllNamed
<1>9. InOrder'
  <2> SUFFICES ASSUME NEW k \in DOMAIN findings', NEW l \in DOMAIN findings', k < l
               PROVE  findings'[k].place <= findings'[l].place /\ (findings'[k].place = 0 => findings'[l].place = 0)
    BY DEF InOrder
  <2>1. CASE l \in DOMAIN findings
    <3>1. k \in DOMAIN findings /\ findings'[k] = findings[k] /\ findings'[l] = findings[l]
      BY <1>4, <2>1
    <3> QED BY <2>1, <3>1 DEF InOrder
  <2>2. CASE ~(l \in DOMAIN findings)
    BY <1>7, <2>2
  <2> QED BY <2>1, <2>2
<1> QED BY <1>2, <1>4, <1>6, <1>8, <1>9

LEMMA ConfigStep ==
  ASSUME TypeOK, ConfigInv, ConfigNext, job' = job, job.detector = "config"
  PROVE  ConfigInv'
<1>0. LinesTold /\ NamesTold /\ AllNamed /\ OneReading /\ InOrder /\ at \in Nat \ {0}
  BY DEF ConfigInv, TypeOK
<1>1. CASE WalkJSON
  <2>1. PICK k \in DOMAIN File.algs : findings' = findings \o Emit(0, "config.jwt.alg", File.algs[k])
    BY <1>1 DEF WalkJSON
  <2>2. at = 1 /\ at' = at /\ pc = "structure" /\ pc' = pc /\ \A i \in DOMAIN findings : findings[i].place = 0
    BY <1>0, <1>1 DEF WalkJSON, OneReading
  <2>3. File.algs[k] \in NamesAt(0)
    BY DEF NamesAt
  <2>4. \A i \in DOMAIN findings : findings[i].place <= 0 /\ (findings[i].place = 0 <=> 0 = 0)
    BY <2>2
  <2>5. /\ Grows /\ AllNamed' /\ InOrder'
        /\ \A i \in DOMAIN findings' : findings'[i].place = 0 \/ \E j \in DOMAIN findings : findings'[i] = findings[j]
    BY <1>0, <2>1, <2>2, <2>3, <2>4, ConfigRules, NameTold
  <2>6. LinesTold'
    BY <2>2 DEF LinesTold
  <2> QED BY <2>2, <2>5, <2>6 DEF ConfigInv, NamesTold, OneReading
<1>2. CASE ScanName
  <2> DEFINE line == File.lines[at]
  <2>1. PICK k \in LookedAt(line) :
          /\ NextOf(LookedAt(line), k) /\ within' = k + 1
          /\ findings' = findings \o Emit(at, LineRule(line), line.names[k])
    BY <1>2 DEF ScanName
  <2>2. at' = at /\ pc = "scan" /\ pc' = pc /\ at \in DOMAIN File.lines
    BY <1>0, <1>2, ConfigFileType DEF ScanName, Scanning, More
  <2>3. line.kind # "comment" /\ line.names[k] \in NamesAt(at)
    BY <1>0, LookedAtIsNamed DEF NamesAt, Names
  <2>4. \A i \in DOMAIN findings : findings[i].place <= at /\ findings[i].place # 0
    BY <1>0, <2>2 DEF AllNamed, OneReading
  <2>5. /\ Grows /\ Told(at, line.names[k])' /\ AllNamed' /\ InOrder'
        /\ \A i \in DOMAIN findings' : findings'[i].place = at \/ \E j \in DOMAIN findings : findings'[i] = findings[j]
    <3>1. PICK place, name, rule : place = at /\ name = line.names[k] /\ rule = LineRule(line)
      OBVIOUS
    <3>2. rule \in RuleIDs /\ findings' = findings \o Emit(place, rule, name) /\ name \in NamesAt(place)
      BY <2>1, <2>3, <3>1, ConfigRules
    <3>3. (place > 0 => File.lines[place].kind # "comment") /\ place <= at /\ place \in Nat
      BY <1>0, <2>3, <3>1
    <3>4. \A i \in DOMAIN findings : findings[i].place <= place /\ (findings[i].place = 0 <=> place = 0)
      BY <1>0, <2>4, <3>1
    <3>5. /\ Grows /\ Told(place, name)' /\ AllNamed' /\ InOrder'
          /\ \A i \in DOMAIN findings' :
               findings'[i].place = place \/ \E j \in DOMAIN findings : findings'[i] = findings[j]
      BY <1>0, <2>2, <3>2, <3>3, <3>4, NameTold
    <3>6. Told(at, line.names[k])'
      <4>1. place = at' /\ name = line.names[k]' /\ File' = File
        BY <2>2, <3>1, <3>5, ToldStays
      <4> QED BY <3>5, <4>1 DEF Told
    <3> QED BY <3>1, <3>5, <3>6
  <2>6. /\ File' = File /\ \A l : LookedAt(l)' = LookedAt(l)
        /\ \A l, name : Told(l, name) => Told(l, name)'
    BY <2>5, ToldStays
  <2>7. LinesTold'
    BY <1>0, <2>2, <2>6 DEF LinesTold
  <2>8. NamesTold'
    <3>1. LookedAt(line) \in SUBSET (Nat \ {0}) /\ within \in Nat
      BY <2>2, ConfigFileType, LookedAtIsNamed DEF TypeOK
    <3>2. \A j \in LookedAt(line) : j < k + 1 => j < within \/ j = k
      BY <2>1, <3>1, NextInLoop
    <3>3. \A j \in LookedAt(line) : j < within => Told(at, line.names[j])
      BY <1>0, <2>2 DEF NamesTold
    <3> QED BY <2>1, <2>2, <2>5, <2>6, <3>2, <3>3 DEF NamesTold
  <2>9. OneReading'
    BY <1>0, <2>2, <2>4, <2>5 DEF OneReading
  <2> QED BY <2>5, <2>7, <2>8, <2>9 DEF ConfigInv
<1>3. CASE NextLine
  <2>1. at' = at + 1 /\ pc = "scan" /\ pc' = pc /\ findings' = findings /\ within' = 1 /\ at \in DOMAIN File.lines
    BY <1>0, <1>3, ConfigFileType DEF NextLine, Scanning, More
  <2>2. Grows
    BY <2>1 DEF Grows
  <2>3. /\ File' = File /\ \A l : LookedAt(l)' = LookedAt(l)
        /\ \A l, name : Told(l, name) => Told(l, name)'
        /\ \A f : Named(f)' = Named(f)
    BY <2>2, ToldStays
  <2>4. \A k \in LookedAt(File.lines[at]) : Told(at, File.lines[at].names[k])
    BY <1>0, <1>3, <2>1 DEF NextLine, NoneLeft, NamesTold
  <2>5. LinesTold'
    <3>1. \A l \in 1..(at' - 1) : l \in 1..(at - 1) \/ l = at
      BY <1>0, <2>1
    <3> QED BY <1>0, <2>3, <2>4, <3>1 DEF LinesTold
  <2>6. NamesTold'
    <3>1. \A l \in DOMAIN File.lines : \A k \in LookedAt(File.lines[l]) : ~(k < 1)
      BY ConfigFileType, LookedAtIsNamed
    <3> QED BY <2>1, <2>3, <3>1 DEF NamesTold
  <2>7. \A k \in DOMAIN findings : findings[k].place <= at + 1
    <3>1. \A k \in DOMAIN findings : findings[k].place \in Nat
      <4>1. findings \in Seq(Finding) /\ \A f \in Finding : f.place \in Nat
        BY DEF TypeOK, Finding
      <4> QED BY <4>1
    <3> QED BY <1>0, <3>1 DEF AllNamed
  <2>8. AllNamed' /\ InOrder' /\ OneReading'
    BY <1>0, <2>1, <2>3, <2>7 DEF AllNamed, InOrder, OneReading
  <2> QED BY <2>5, <2>6, <2>8 DEF ConfigInv
<1>4. CASE ScannerStops \/ EndWalk
  <2>1. at' = at /\ findings' = findings
    BY <1>4 DEF ScannerStops, EndWalk
  <2>2. Grows
    BY <2>1 DEF Grows
  <2>3. /\ File' = File /\ \A l : LookedAt(l)' = LookedAt(l)
        /\ \A l, name : Told(l, name) => Told(l, name)'
        /\ \A f : Named(f)' = Named(f)
    BY <2>2, ToldStays
  <2>4. LinesTold' /\ AllNamed' /\ InOrder'
    BY <1>0, <2>1, <2>3 DEF LinesTold, AllNamed, InOrder
  <2>5. pc' = "returned" \/ (pc' = "scan" /\ findings = << >> /\ within' = 1)
    BY <1>4 DEF ScannerStops, EndWalk, Return
  <2>6. NamesTold'
    <3>1. \A l \in DOMAIN File.lines : \A k \in LookedAt(File.lines[l]) : ~(k < 1)
      BY ConfigFileType, LookedAtIsNamed
    <3> QED BY <2>1, <2>3, <2>5, <3>1 DEF NamesTold
  <2>7. OneReading'
    BY <2>1, <2>5 DEF OneReading
  <2> QED BY <2>4, <2>6, <2>7 DEF ConfigInv
<1> QED BY <1>1, <1>2, <1>3, <1>4 DEF ConfigNext

(* Whatever is in a configuration file: every name in force is told, part by part,   *)
(* on its own line, and nothing is reported that is not in the file.               *)
THEOREM ConfigIsTold == Spec => []ReportsWhatItReads
<1>1. Init => ConfigInv
  <2> SUFFICES ASSUME Init PROVE ConfigInv
    OBVIOUS
  <2>1. at = 1 /\ pc = "read" /\ findings = << >> /\ 1..(at - 1) = {} /\ DOMAIN findings = {}
    BY DEF Init
  <2> QED BY <2>1 DEF ConfigInv, LinesTold, NamesTold, AllNamed, OneReading, InOrder
<1>2. TypeOK /\ ConfigInv /\ [Next]_vars => ConfigInv'
  <2> SUFFICES ASSUME TypeOK, ConfigInv, [Next]_vars, job.detector = "config", job' = job PROVE ConfigInv'
    <3>1. ASSUME [Next]_vars PROVE job' = job
      BY <3>1, JobStays
    <3> QED BY <3>1 DEF ConfigInv
  <2>1. CASE ConfigNext
    BY <2>1, ConfigStep
  <2>2. CASE ReturnUnread \/ ReadFile \/ UNCHANGED vars
    <3>1. /\ at' = at /\ findings' = findings /\ within' = within
          /\ \/ pc' = pc
             \/ pc = "read" /\ pc' \in {"returned", "structure"}
      BY <2>2 DEF ReturnUnread, ReadFile, Return, vars
    <3>2. Grows
      BY <3>1 DEF Grows
    <3>3. /\ File' = File /\ \A l : LookedAt(l)' = LookedAt(l)
          /\ \A l, name : Told(l, name) => Told(l, name)'
          /\ \A f : Named(f)' = Named(f)
      BY <3>2, ToldStays
    <3>4. LinesTold' /\ AllNamed' /\ InOrder'
      BY <3>1, <3>3 DEF ConfigInv, LinesTold, AllNamed, InOrder
    <3>5. NamesTold'
      BY <3>1, <3>3 DEF ConfigInv, NamesTold
    <3>6. OneReading'
      BY <3>1 DEF ConfigInv, OneReading
    <3> QED BY <3>4, <3>5, <3>6 DEF ConfigInv
  <2> QED BY <2>1, <2>2, ConfigSteps
<1> QED BY <1>1, <1>2, ConfigInvSuffices, TypeCorrect, PTL DEF Spec
=============================================================================
