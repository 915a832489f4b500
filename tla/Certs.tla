-------------------------------- MODULE Certs ---------------------------------
(***************************************************************************)
(* The certificate and key detector (internal/detector/certs/certs.go).       *)
(*                                                                           *)
(* A file is a PKCS#12 bundle by its extension, or PEM if it has the text      *)
(* "-----BEGIN " in it, or DER.  A block of a PEM file has the type that its    *)
(* header gives, an encoding, and the kind of key that is in it; the encoding   *)
(* "malformed" is armour that pem.Decode passes over.  Parsing is the Go        *)
(* standard library's: here it succeeds if the encoding is one that the type    *)
(* is parsed as.                                                              *)
(***************************************************************************)
EXTENDS DetectCall

(* Files by their form.  An encoding is what the bytes parse as, or something else. *)
CertFile ==
  [form : {"pem"}, blocks : Seq([type : STRING, der : STRING, key : STRING])]
  \cup [form : {"pkcs12"}, opens : 1..3, cert : STRING, key : STRING]
  \cup [form : {"der"}, der : STRING, key : STRING]

PrivateTypes == {"PRIVATE KEY", "RSA PRIVATE KEY", "EC PRIVATE KEY"}
PublicTypes == {"PUBLIC KEY", "RSA PUBLIC KEY"}

(* What the bytes of a block are parsed as, by its type.  An "RSA PUBLIC KEY"    *)
(* (PKCS#1) is parsed as PKIX too.                                             *)
ParsedAs(type) ==
  CASE type = "CERTIFICATE"     -> {"x509"}
    [] type = "PRIVATE KEY"     -> {"pkcs8", "pkcs1", "sec1"}
    [] type = "RSA PRIVATE KEY" -> {"pkcs1"}
    [] type = "EC PRIVATE KEY"  -> {"sec1"}
    [] OTHER                    -> {"pkix"}

(* publicKeyInfo, on the public half of the key. *)
KnownKeys == {"RSA", "ECDSA", "EdDSA", "DSA"}
PrimitiveOf(key) == IF key \in KnownKeys THEN key ELSE "UNKNOWN"

KeySize(key) ==
  CASE key \in {"RSA", "DSA"}     -> 2048
    [] key \in {"ECDSA", "EdDSA"} -> 256
    [] OTHER                      -> 0

FindingFor(place, rule, key) ==
  Found(place, rule, PrimitiveOf(key), KeySize(key), "high")

(* unknownPEM: a block of another type is reported for what it may be. *)
UnknownPEM == Found(at, "certs.pem.unknown", "UNKNOWN", 0, "low")

Block == File.blocks[at]

(* A block of another type is reported as it is; a private key must be of a kind *)
(* that publicKeyInfo knows.                                                   *)
Understood(block) ==
  block.type \in {"CERTIFICATE"} \cup PrivateTypes \cup PublicTypes =>
    /\ block.der \in ParsedAs(block.type)
    /\ block.type \in PrivateTypes => block.key \in KnownKeys

BlockFinding(block) ==
  CASE block.type = "CERTIFICATE"  -> FindingFor(at, "certs.x509.certificate", block.key)
    [] block.type \in PrivateTypes -> FindingFor(at, "certs.key.private", block.key)
    [] block.type \in PublicTypes  -> FindingFor(at, "certs.key.public", block.key)
    [] OTHER                       -> UnknownPEM
-----------------------------------------------------------------------------
(* parsePEM *)

InPEM == Scanning("certs") /\ File.form = "pem"
AtBlock == InPEM /\ at <= Len(File.blocks)

PassOverMalformed ==
  /\ AtBlock
  /\ Block.der = "malformed"
  /\ at' = at + 1
  /\ UNCHANGED <<job, pc, within, findings, problems, error>>

ReportBlock ==
  /\ AtBlock
  /\ Block.der # "malformed" /\ Understood(Block)
  /\ findings' = Append(findings, BlockFinding(Block))
  /\ at' = at + 1
  /\ UNCHANGED <<job, pc, within, problems, error>>

(* Fault: the first block that does not parse ends the loop. *)
StopAtRefusal ==
  /\ AtBlock
  /\ Block.der # "malformed" /\ ~Understood(Block)
  /\ problems' = problems \cup {at}
  /\ at' = at + 1
  /\ Return("parse")
  /\ UNCHANGED <<job, within, findings>>

RefuseBlock ==
  /\ AtBlock
  /\ Block.der # "malformed" /\ ~Understood(Block)
  /\ problems' = problems \cup {at}
  /\ at' = at + 1
  /\ UNCHANGED <<job, pc, within, findings, error>>

(* The findings so far are returned with the error, if there is one. *)
EndPEM ==
  /\ InPEM
  /\ at = Len(File.blocks) + 1
  /\ Return(IF problems # {} \/ findings = << >> THEN "parse" ELSE "nil")
  /\ UNCHANGED <<job, at, within, findings, problems>>
-----------------------------------------------------------------------------
(* parsePKCS12: the empty password, then pkcs12.DefaultPassword.  The number of   *)
(* the one that opens the bundle is File.opens, which is 3 if neither does.  The   *)
(* places of a bundle are 1, its certificate, and 2, its key.                     *)
InPKCS12 == Scanning("certs") /\ File.form = "pkcs12"

TryPassword ==
  /\ InPKCS12
  /\ at <= 2 /\ File.opens # at
  /\ at' = at + 1
  /\ UNCHANGED <<job, pc, within, findings, problems, error>>

OpenPKCS12 ==
  /\ InPKCS12
  /\ at <= 2 /\ File.opens = at
  /\ findings' = <<FindingFor(1, "certs.x509.certificate", File.cert)>> \o
       (IF File.key \in KnownKeys THEN <<FindingFor(2, "certs.pkcs12.private", File.key)>> ELSE << >>)
  /\ Return("nil")
  /\ UNCHANGED <<job, at, within, problems>>

RefusePKCS12 ==
  /\ InPKCS12
  /\ at = 3
  /\ Return("parse")
  /\ UNCHANGED <<job, at, within, findings, problems>>

(* parseDER: one certificate or an error. *)
ParseDER ==
  /\ Scanning("certs") /\ File.form = "der"
  /\ IF File.der = "x509"
     THEN findings' = <<FindingFor(1, "certs.x509.certificate", File.key)>> /\ Return("nil")
     ELSE Return("parse") /\ UNCHANGED findings
  /\ UNCHANGED <<job, at, within, problems>>

CertsNext ==
  \/ PassOverMalformed \/ ReportBlock \/ RefuseBlock \/ EndPEM
  \/ TryPassword \/ OpenPKCS12 \/ RefusePKCS12
  \/ ParseDER
-----------------------------------------------------------------------------
(* What there is to answer for: the blocks of a PEM file, the certificate and the   *)
(* key of a bundle, one certificate.                                            *)
Items ==
  CASE File.form = "pem"    -> DOMAIN File.blocks
    [] File.form = "pkcs12" -> {1, 2}
    [] OTHER                -> {1}

(* What the code neither reports nor refuses: armour that pem.Decode passes over,    *)
(* and the key of a bundle if publicKeyInfo does not know its kind, which in a PEM   *)
(* file would be refused.  DESIGN section 3 would have an UNKNOWN finding of either. *)
Unheard ==
  CASE File.form = "pem"    -> {b \in Items : File.blocks[b].der = "malformed"}
    [] File.form = "pkcs12" -> {i \in {2} : File.key \notin KnownKeys}
    [] OTHER                -> {}

Heard(i) == \E k \in DOMAIN findings : findings[k].place = i

(* Every block before the place reached is reported, or else refused or unheard,     *)
(* whatever came before or after it; the findings are in the order of the blocks.  *)
BlocksAnswered ==
  job.detector = "certs" /\ File.form = "pem" =>
    /\ \A b \in 1..(at - 1) : Heard(b) <=> b \notin problems \cup Unheard
    /\ \A k \in DOMAIN findings : findings[k].place \in 1..(at - 1)
    /\ \A k, l \in DOMAIN findings : k < l => findings[k].place < findings[l].place

(* What a Detect that has read the file returns.  Without an error: everything but    *)
(* what is unheard, and something.  With one: of a PEM file, everything that is not   *)
(* to blame, and there is a block to blame or nothing to report; of another, nothing, *)
(* and it cannot be opened.                                                      *)
CallAnswered ==
  job.detector = "certs" /\ pc = "returned" =>
    /\ error = "nil" => problems = {} /\ findings # << >>
    /\ error = "nil" \/ (error = "parse" /\ File.form = "pem") =>
         \A i \in Items : Heard(i) <=> i \notin problems \cup Unheard
    /\ error = "parse" =>
         CASE File.form = "pem"    -> problems # {} \/ Items = Unheard
           [] File.form = "pkcs12" -> findings = << >> /\ File.opens = 3
           [] OTHER                -> findings = << >> /\ File.der # "x509"

(* Detect of the certs detector drops nothing that a decoder hands over, wherever in  *)
(* the file it is, but the two things that are unheard.                           *)
AllButUnheardAnswered == BlocksAnswered /\ CallAnswered
=============================================================================
