-------------------------------- MODULE Risk --------------------------------
(***************************************************************************)
(* The pure functions of classification (internal/classify) and of risk       *)
(* (internal/score): the quantum class of a finding, the score and priority    *)
(* of an asset, and the threshold of --fail-on.                               *)
(*                                                                         *)
(* A finding has the fields that classification, correlation and scoring read. *)
(* Its path is a rank in string order; `dir' is the sequence of directory      *)
(* names in it, and `marks' tells which path heuristics of score.go it meets.  *)
(* keySize is 0, and curve "", when the parameter is not there.                *)
(***************************************************************************)
EXTENDS Integers, Sequences

Sources == {"source-code", "dependency", "certificate", "configuration"}
AssetTypes == {"algorithm", "certificate", "key", "protocol", "library"}
Confidences == {"high", "medium", "low"}
QuantumClasses == {"broken", "weakened", "safe", "unknown"}
Priorities == {"low", "medium", "high", "critical"}

(* "test": testdata/, /fixtures/ or _test.go.  "sample": /example or /vendor/. *)
(* "deploy": nginx, ingress, /deploy/, /helm/ or a dockerfile.                 *)
Marks == {"test", "sample", "deploy"}

(* classify.Canonical: other names for a primitive, in upper case. *)
Aliases ==
  [n \in {"EDDSA", "ED25519", "X25519", "CHACHA20", "SHA1", "SHA256", "SHA384", "SHA512"} |->
     CASE n \in {"EDDSA", "ED25519"} -> "EdDSA"
       [] n = "X25519"   -> "ECDH"
       [] n = "CHACHA20" -> "ChaCha20"
       [] n = "SHA1"     -> "SHA-1"
       [] n = "SHA256"   -> "SHA-256"
       [] n = "SHA384"   -> "SHA-384"
       [] OTHER          -> "SHA-512"]

Canonical(name) == IF name \in DOMAIN Aliases THEN Aliases[name] ELSE name

(* quantumTable *)
BrokenPrimitives ==
  {"RSA", "DSA", "DH", "ECDH", "ECDSA", "EdDSA", "MD5", "SHA-1", "3DES", "DES"}
PostQuantum == {"ML-KEM", "ML-DSA", "SLH-DSA"}

(* classify.Classify: AES by its key size, the other symmetric primitives and   *)
(* the hashes by name, then the table; what is in neither is unknown.           *)
ClassOf(f) ==
  LET p == Canonical(f.prim) IN
  CASE p \in BrokenPrimitives -> "broken"
    [] p = "SHA-256" \/ (p = "AES" /\ f.keySize \in {128, 192}) -> "weakened"
    [] p \in PostQuantum \cup {"ChaCha20", "SHA-384", "SHA-512"} -> "safe"
    [] p = "AES" /\ f.keySize >= 256 -> "safe"
    [] OTHER -> "unknown"
-----------------------------------------------------------------------------
(* The axes of score.Score, for a finding f that correlation gave a class.      *)
Vulnerability(class) ==
  CASE class = "broken" -> 100
    [] class = "safe"   -> 0
    [] OTHER            -> 50

Longevity(f) ==
  CASE "test" \in f.marks                             -> 20
    [] "test" \notin f.marks /\ f.type = "certificate" -> 75
    [] "test" \notin f.marks /\ f.type # "certificate" /\ f.signs -> 70
    [] OTHER                                          -> 50

Exposure(f) ==
  CASE {"test", "sample"} \cap f.marks # {} -> 10
    [] {"test", "sample"} \cap f.marks = {} /\ "deploy" \in f.marks -> 90
    [] f.marks = {} /\ f.source = "configuration" -> 80
    [] f.marks = {} /\ f.source = "certificate"   -> 70
    [] OTHER -> 50

Agility(f) ==
  CASE f.source = "source-code" -> 80
    [] f.source \in {"certificate", "configuration"} -> 70
    [] OTHER -> 50

(* Fault: the weights of vulnerability and agility are swapped. *)
ScoreSwapped(f, class) ==
  (10 * Vulnerability(class) + 25 * Longevity(f) + 25 * Exposure(f) + 40 * Agility(f)) \div 100

Score(f, class) ==
  (40 * Vulnerability(class) + 25 * Longevity(f) + 25 * Exposure(f) + 10 * Agility(f)) \div 100

(* Fault: a score below every band has no priority. *)
PriorityNoDefault(score) ==
  CASE score >= 80 -> "critical"
    [] score \in 60..79 -> "high"
    [] score \in 35..59 -> "medium"
    [] OTHER -> ""

Priority(score) ==
  CASE score >= 80 -> "critical"
    [] score \in 60..79 -> "high"
    [] score \in 35..59 -> "medium"
    [] OTHER -> "low"

Rank(priority) ==
  CASE priority = "low"      -> 1
    [] priority = "medium"   -> 2
    [] priority = "high"     -> 3
    [] priority = "critical" -> 4
    [] OTHER -> 0

(* score.MeetsFailOn: a threshold that is no priority, "none" or a misspelt one, *)
(* is never met.                                                                *)
MeetsFailOn(priority, failOn) == failOn \in Priorities /\ Rank(priority) >= Rank(failOn)
=============================================================================
