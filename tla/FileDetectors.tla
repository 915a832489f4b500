---------------------------- MODULE FileDetectors -----------------------------
(***************************************************************************)
(* Any call of Detect that the pipeline makes of the detectors that look at   *)
(* one file alone: certificates, configuration, and source once its rules are  *)
(* loaded.                                                                   *)
(***************************************************************************)
EXTENDS Certs, Config, SourceRules

ASSUME JobsAssumption ==
  \A j \in Jobs :
    /\ j.detector \in {"certs", "config", "source"}
    /\ j.detector = "certs" => j.file \in CertFile
    /\ j.detector = "config" => j.file \in ConfigFile /\ HandlesName(j.file.name)
    /\ j.detector = "source" => j.file \in SourceFile

Next ==
  \/ ReturnUnread \/ ReadFile
  \/ CertsNext \/ ConfigNext \/ SourceNext
  \/ Terminating

Spec == Init /\ [][Next]_vars
-----------------------------------------------------------------------------
(* The rules that the detectors have, and what they call a primitive.           *)
RuleIDs ==
  {"certs.x509.certificate", "certs.key.private", "certs.key.public", "certs.pem.unknown",
   "certs.pkcs12.private", "config.nginx.ssl_ciphers", "config.tls.cipher_suite", "config.sshd",
   "config.jwt.alg"} \cup {Rules[r].id : r \in DOMAIN Rules}

Primitives ==
  {"RSA", "ECDSA", "EdDSA", "DSA", "ECDH", "DH", "AES", "ChaCha20", "3DES", "SHA-1", "SHA-256",
   "SHA-384", "SHA-512", "MD5", "UNKNOWN"} \cup {Rules[r].prim : r \in DOMAIN Rules}

Finding ==
  [place : Nat, rule : RuleIDs, prim : Primitives, size : Nat, conf : {"high", "medium", "low"}]

TypeOK ==
  /\ job \in Jobs
  /\ pc \in {"read", "structure", "scan", "returned"}
  /\ at \in Nat \ {0}
  /\ within \in Nat \ {0}
  /\ findings \in Seq(Finding)
  /\ problems \in SUBSET (1..(at - 1))
  /\ error \in {"nil", "cancelled", "unreadable", "parse", "rule"}
=============================================================================
