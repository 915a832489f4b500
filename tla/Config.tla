-------------------------------- MODULE Config --------------------------------
(***************************************************************************)
(* The configuration detector (internal/detector/config): TLS cipher suites,  *)
(* SSH algorithm lists and JOSE algorithms in configuration files.            *)
(*                                                                           *)
(* A file has a name (the words in its base name that matter, its extension),  *)
(* lines, and if it is JSON what json.Unmarshal makes of it.  A line has a kind *)
(* and the algorithm names on it; `long' lines do not fit the buffer of         *)
(* bufio.Scanner (64 KiB).  An algorithm name is the set of the parts that the   *)
(* parsers look for in it, and may be excluded with an exclamation mark.         *)
(***************************************************************************)
EXTENDS DetectCall, SequencesExt

ConfigFile ==
  LET name == [parts : SUBSET STRING, excluded : BOOLEAN]
  IN  [name : [words : SUBSET STRING, ext : STRING], valid : BOOLEAN, algs : Seq(name),
       lines : Seq([kind : STRING, names : Seq(name), long : BOOLEAN])]

(* Detector.Handles, and the switch of Detect.  *)
HandlesName(name) ==
  \/ "ssh" \in name.words
  \/ name.ext = ".conf"
  \/ "nginx" \in name.words /\ name.ext = ""
  \/ "auth" \in name.words /\ name.ext \in {".json", ".yaml"}

Format(name) ==
  CASE "ssh" \in name.words -> "ssh"
    [] "ssh" \notin name.words /\ ("nginx" \in name.words \/ name.ext = ".conf") -> "tls"
    [] OTHER -> "jwt"
-----------------------------------------------------------------------------
(* The tables of suites.go, in the order in which the code looks at them. *)

Row(parts, prim, size) == [parts |-> parts, prim |-> prim, size |-> size]
Unknown == Row({}, "UNKNOWN", 0)

(* The first row that meets the name: a switch, or an if when there is one row.  *)
FirstOf(rows, name) ==
  LET hits == {k \in DOMAIN rows : rows[k].parts \cap name.parts # {}}
  IN  IF hits = {} THEN << >> ELSE <<rows[Min(hits)]>>

KeyExchange == <<Row({"ECDHE", "ECDH"}, "ECDH", 0), Row({"DHE", "DH"}, "DH", 0)>>
Authentication == <<Row({"RSA"}, "RSA", 0), Row({"ECDSA"}, "ECDSA", 0), Row({"DSS", "DSA"}, "DSA", 0)>>
Bulk == <<Row({"AES_128"}, "AES", 128), Row({"AES_256"}, "AES", 256)>>
ChaCha == <<Row({"CHACHA20"}, "ChaCha20", 256)>>
TripleDES == <<Row({"3DES"}, "3DES", 0)>>
Hash == <<Row({"SHA256"}, "SHA-256", 0), Row({"SHA384"}, "SHA-384", 0)>>
Digest == <<Row({"MD5"}, "MD5", 0)>>

(* Fault: one switch for key exchange and authentication. *)
OneSwitch(name) ==
  IF "TLS_" \notin name.parts THEN << >>
  ELSE FirstOf(KeyExchange \o Authentication, name) \o FirstOf(Bulk, name) \o FirstOf(ChaCha, name)
       \o FirstOf(TripleDES, name) \o FirstOf(Hash, name) \o FirstOf(Digest, name)

(* A name that does not begin with TLS_ or SSL_ is not looked at.  *)
ParseTLSCipherSuite(name) ==
  IF "TLS_" \notin name.parts THEN << >>
  ELSE FirstOf(KeyExchange, name) \o FirstOf(Authentication, name) \o FirstOf(Bulk, name)
       \o FirstOf(ChaCha, name) \o FirstOf(TripleDES, name) \o FirstOf(Hash, name) \o FirstOf(Digest, name)

SSHRows ==
  << Row({"curve25519", "ecdh-sha2"}, "ECDH", 0), Row({"diffie-hellman"}, "DH", 0),
     Row({"ssh-rsa", "rsa-sha2"}, "RSA", 0), Row({"ecdsa-sha2"}, "ECDSA", 0),
     Row({"ssh-ed25519"}, "EdDSA", 0), Row({"ssh-dss"}, "DSA", 0),
     Row({"aes128"}, "AES", 128), Row({"aes256"}, "AES", 256), Row({"chacha20"}, "ChaCha20", 256),
     Row({"sha1"}, "SHA-1", 0), Row({"sha256"}, "SHA-256", 0), Row({"sha512"}, "SHA-512", 0),
     Row({"md5"}, "MD5", 0) >>

JWTRows ==
  << Row({"RS", "PS"}, "RSA", 0), Row({"ES"}, "ECDSA", 0), Row({"EdDSA"}, "EdDSA", 0),
     Row({"HS256"}, "SHA-256", 0), Row({"HS384"}, "SHA-384", 0), Row({"HS512"}, "SHA-512", 0) >>

OrUnknown(rows) == IF rows = << >> THEN <<Unknown>> ELSE rows

(* The switch enters its case for names that begin with aes and then asks for a size. *)
Sizeless(name) == "aes" \in name.parts /\ "curve25519" \notin name.parts

ParseSSHAlgToken(name) == IF Sizeless(name) THEN << >> ELSE OrUnknown(FirstOf(SSHRows, name))
ParseJWTAlg(name) == OrUnknown(FirstOf(JWTRows, name))
-----------------------------------------------------------------------------
(* What a name says in the format of the file. *)
Parse(name) ==
  CASE Format(File.name) = "tls" -> ParseTLSCipherSuite(name)
    [] Format(File.name) = "ssh" -> ParseSSHAlgToken(name)
    [] OTHER                     -> ParseJWTAlg(name)

(* A finding for each row that a name gives. *)
Emit(place, rule, name) ==
  [r \in DOMAIN Parse(name) |-> Found(place, rule, Parse(name)[r].prim, Parse(name)[r].size, "high")]

(* splitAlgoList passes over names that are excluded. *)
Included(line) == {k \in DOMAIN line.names : ~line.names[k].excluded}

(* The names of a line that are looked at.  Bare suite tokens are found wherever they *)
(* stand, also after an exclamation mark.                                          *)
LookedAt(line) ==
  LET format == Format(File.name) IN
  CASE line.kind = "comment" -> {}
    [] format = "tls" /\ line.kind = "ssl_ciphers" -> Included(line)
    [] format = "tls" /\ line.kind \notin {"comment", "ssl_ciphers"} -> DOMAIN line.names
    [] format = "ssh" /\ line.kind = "ssh" -> Included(line)
    [] format = "jwt" /\ line.kind = "alg" -> DOMAIN line.names \cap {1}
    [] OTHER -> {}

LineRule(line) ==
  CASE Format(File.name) = "ssh" -> "config.sshd"
    [] Format(File.name) = "jwt" -> "config.jwt.alg"
    [] OTHER -> IF line.kind = "ssl_ciphers" THEN "config.nginx.ssl_ciphers" ELSE "config.tls.cipher_suite"

(* The next line, if bufio.Scanner still gets to it. *)
More == at <= Len(File.lines) /\ ~File.lines[at].long

(* scanNginxOrConf, scanSSHD, scanJWT: the body of the loop, one name at a time. *)
ScanName ==
  /\ Scanning("config") /\ More
  /\ \E k \in LookedAt(File.lines[at]) :
       /\ NextOf(LookedAt(File.lines[at]), k)
       /\ findings' = findings \o Emit(at, LineRule(File.lines[at]), File.lines[at].names[k])
       /\ within' = k + 1
  /\ UNCHANGED <<job, pc, at, problems, error>>

NextLine ==
  /\ Scanning("config") /\ More
  /\ NoneLeft(LookedAt(File.lines[at]))
  /\ at' = at + 1 /\ within' = 1
  /\ UNCHANGED <<job, pc, findings, problems, error>>

(* sc.Scan() is false at the end, and at a line that is too long: sc.Err() is not *)
(* asked.                                                                      *)
ScannerStops ==
  /\ Scanning("config") /\ ~More
  /\ Return("nil")
  /\ UNCHANGED <<job, at, within, findings, problems>>

(* The file is taken for JSON.  File.valid tells whether it is, and File.algs is the *)
(* sequence of the alg members that are strings, in the order of the sorted keys.    *)
Structured ==
  Format(File.name) = "jwt" /\ File.name.ext = ".json" /\ File.valid

(* walkJSONForAlg, one member at a time. *)
WalkJSON ==
  /\ job.detector = "config" /\ pc = "structure" /\ Structured
  /\ \E k \in DOMAIN File.algs :
       /\ NextOf(DOMAIN File.algs, k)
       /\ findings' = findings \o Emit(0, "config.jwt.alg", File.algs[k])
       /\ within' = k + 1
  /\ UNCHANGED <<job, pc, at, problems, error>>

(* What the walk has found is the result, unless that is nothing. *)
EndWalk ==
  /\ job.detector = "config" /\ pc = "structure"
  /\ Structured => NoneLeft(DOMAIN File.algs)
  /\ IF findings # << >> THEN Return("nil") /\ UNCHANGED within
     ELSE pc' = "scan" /\ within' = 1 /\ UNCHANGED error
  /\ UNCHANGED <<job, at, findings, problems>>

ConfigNext == WalkJSON \/ EndWalk \/ ScanName \/ NextLine \/ ScannerStops
-----------------------------------------------------------------------------
(* The tables that a format is read with.  *)
Tables ==
  [tls |-> {KeyExchange, Authentication, Bulk, ChaCha, TripleDES, Hash, Digest}, ssh |-> {SSHRows}, jwt |-> {JWTRows}]

Names(line) == {line.names[k] : k \in DOMAIN line.names}

(* The names on a line that are in force, and that the format is there to tell.    *)
InForce(line) ==
  CASE line.kind = "comment" -> {}
    [] line.kind # "comment" /\ Format(File.name) = "tls" -> {n \in Names(line) : ~n.excluded}
    [] line.kind = "ssh" /\ Format(File.name) = "ssh" -> {n \in Names(line) : ~n.excluded}
    [] line.kind = "alg" /\ Format(File.name) = "jwt" -> {line.names[k] : k \in DOMAIN line.names \cap {1}}
    [] OTHER -> {}

(* A finding says what a row says of a name. *)
Tells(f, rows, name) ==
  \E r \in {rows[i] : i \in DOMAIN rows} : r.parts \cap name.parts # {} /\ f.prim = r.prim /\ f.size = r.size

(* A table knows a part of the name, which must begin as the format wants it, and not   *)
(* be one that the code has a case for and drops.                                    *)
Knows(rows, name) ==
  /\ FirstOf(rows, name) # << >>
  /\ Format(File.name) = "tls" => "TLS_" \in name.parts
  /\ Format(File.name) = "ssh" => ~Sizeless(name)

(* There is a finding on the line for every table that knows the name.                  *)
Told(line, name) ==
  \A rows \in Tables[Format(File.name)] :
    Knows(rows, name) =>
      \E k \in DOMAIN findings : findings[k].place = line /\ Tells(findings[k], rows, name)

(* What can be named at a place: by the structure of the file, or by a line.       *)
NamesAt(place) ==
  IF place = 0 THEN {File.algs[k] : k \in DOMAIN File.algs} ELSE Names(File.lines[place])

(* What a finding is of is named at its place, and by no comment.                    *)
Named(f) ==
  /\ f.place > 0 => File.lines[f.place].kind # "comment"
  /\ \E name \in NamesAt(f.place) :
       \/ \E rows \in Tables[Format(File.name)] : Tells(f, rows, name)
       \/ f.prim = "UNKNOWN" /\ \A rows \in Tables[Format(File.name)] : FirstOf(rows, name) = << >>

(* DESIGN section 4: one line can contain several primitives, each of which is a   *)
(* separate finding.  On every line that the scanner gets to, whatever the lines    *)
(* before it were, each name in force that begins as its format wants it, and is no   *)
(* sizeless aes, has a finding for every table that knows a part of it; and every    *)
(* finding is backed by a name on its line, excluded ones included, which is no      *)
(* comment, or by the structure of the JSON file, never by both readings of one file. *)
ReportsWhatItReads ==
  job.detector = "config" =>
    /\ \A l \in 1..(at - 1) : \A name \in InForce(File.lines[l]) : Told(l, name)
    /\ \A k \in DOMAIN findings : findings[k].place <= at /\ Named(findings[k])
    /\ \A k, l \in DOMAIN findings : k < l =>
         findings[k].place <= findings[l].place /\ (findings[k].place = 0 => findings[l].place = 0)

(* DESIGN section 3: a detector never drops what it cannot resolve, and silent      *)
(* omission is the worst failure.  Every algorithm in force in a configuration file *)
(* has a finding on its line, UNKNOWN at least, unless Detect returns an error.     *)
NoSilentOmission ==
  job.detector = "config" /\ pc = "returned" /\ error = "nil" =>
    \A l \in DOMAIN File.lines : InForce(File.lines[l]) # {} =>
      \E k \in DOMAIN findings : findings[k].place \in {0, l}
=============================================================================
