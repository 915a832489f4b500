--------------------------- MODULE MCFileDetectors ----------------------------
(* Every bundle of up to three of nine PEM blocks, every PKCS#12 bundle, every      *)
(* configuration file of two or three of ten lines under five names, and source     *)
(* files with every choice of up to two of six imports and of two of seven calls.   *)
EXTENDS FileDetectors

Blocks ==
  {[type |-> "CERTIFICATE", der |-> "x509", key |-> "RSA"],
   [type |-> "CERTIFICATE", der |-> "garbage", key |-> "none"],
   [type |-> "PRIVATE KEY", der |-> "pkcs8", key |-> "EdDSA"],
   [type |-> "PRIVATE KEY", der |-> "pkcs8", key |-> "X25519"],
   [type |-> "EC PRIVATE KEY", der |-> "sec1", key |-> "ECDSA"],
   [type |-> "RSA PUBLIC KEY", der |-> "pkcs1", key |-> "RSA"],
   [type |-> "PUBLIC KEY", der |-> "pkix", key |-> "X25519"],
   [type |-> "OPENSSH PRIVATE KEY", der |-> "other", key |-> "RSA"],
   [type |-> "CERTIFICATE", der |-> "malformed", key |-> "none"]}

CertFiles ==
  {[form |-> "pem", blocks |-> b] : b \in UNION {[1..n -> Blocks] : n \in 0..3}}
  \cup [form : {"pkcs12"}, opens : 1..3, cert : {"RSA", "GOST"}, key : {"ECDSA", "X25519"}]
  \cup [form : {"der"}, der : {"x509", "garbage"}, key : {"DSA", "GOST"}]

Name(parts) == [parts |-> parts, excluded |-> FALSE]
Excluded(parts) == [parts |-> parts, excluded |-> TRUE]

Suites ==
  << Name({"TLS_", "ECDHE", "RSA", "AES_128", "SHA256"}),
     Excluded({"TLS_", "DHE", "DSS", "3DES", "MD5"}),
     Name({"TLS_", "ECDH", "ECDSA", "CHACHA20", "SHA384"}),
     Name({"ECDHE", "RSA", "AES_256"}) >>

Line(kind, names) == [kind |-> kind, names |-> names, long |-> FALSE]
Lines ==
  {Line("comment", <<Suites[1]>>),
   Line("ssl_ciphers", <<Suites[1], Suites[2]>>), Line("ssl_ciphers", <<Suites[3]>>),
   Line("other", <<Suites[2], Suites[3]>>), Line("other", << >>),
   Line("ssh", <<Name({"curve25519", "sha256"}), Name({"sntrup761"})>>),
   Line("ssh", <<Name({"aes256"}), Excluded({"ssh-dss"}), Name({"aes"}), Name({"md5"})>>),
   Line("alg", <<Name({"RS"})>>), Line("alg", <<Name({"none"}), Name({"ES"})>>),
   [Line("other", <<Suites[1]>>) EXCEPT !.long = TRUE]}

NameOf(words, ext) == [words |-> words, ext |-> ext]
ConfigNames ==
  {NameOf({"nginx"}, ".conf"), NameOf({"ssh"}, ""), NameOf({"auth"}, ".yaml"), NameOf({"auth"}, ".json"),
   NameOf({"nginx", "auth"}, ".json")}

ConfigFiles ==
  {[name |-> n, lines |-> l, valid |-> FALSE, algs |-> << >>] :
     n \in ConfigNames, l \in UNION {[1..k -> Lines] : k \in 2..3}}
  \cup {[name |-> NameOf({"auth"}, ".json"), lines |-> l, valid |-> TRUE, algs |-> a] :
          l \in [1..2 -> Lines], a \in {<< >>, <<Name({"RS"}), Name({"none"})>>}}

Import(path, alias, name) == [path |-> path, alias |-> alias, name |-> name]
Imports ==
  {Import(<<"crypto", "rsa">>, "", "rsa"), Import(<<"crypto", "rsa">>, "v4", "rsa"),
   Import(<<"corp", "rsa">>, "rsa", "rsa"), Import(<<"corp", "keys">>, "rsa", "keys"),
   Import(<<"corp", "jose", "v4">>, "", "jose"), Import(<<"x.org", "nacl", "box">>, "", "box")}

Call(line, pkg, symbol, args) ==
  [line |-> line, pkg |-> pkg, symbol |-> symbol, args |-> args, at |-> "code"]
Calls ==
  {Call(5, "rsa", "GenerateKey", <<0, 2048>>), Call(6, "v4", "GenerateKey", <<0, 1024>>),
   Call(6, "rsa", "GenerateKey", <<0>>), Call(7, "box", "GenerateKey", <<0>>),
   Call(8, "jose", "NewSigner", << >>),
   [Call(3, "rsa", "GenerateKey", <<0, 512>>) EXCEPT !.at = "comment line"],
   [Call(4, "rsa", "GenerateKey", <<0, 512>>) EXCEPT !.at = "comment"]}

RuleOf(lang, id, kind, package, symbol) ==
  [lang |-> lang, id |-> id, kind |-> kind, package |-> package, symbol |-> symbol, dotted |-> FALSE,
   pattern |-> {}, prim |-> "RSA", argument |-> 0, size |-> 0, conf |-> "high"]

MCRules ==
  << [RuleOf("go", "go.crypto.rsa", "call", <<"crypto", "rsa">>, "GenerateKey") EXCEPT !.argument = 2],
     [RuleOf("go", "go.tls", "identifier", << >>, "") EXCEPT !.pattern = {"TLS_RSA"}, !.size = 128],
     [RuleOf("go", "go.nacl", "call", <<"x.org", "nacl", "box">>, "GenerateKey") EXCEPT !.dotted = TRUE],
     RuleOf("c", "c.openssl", "call", <<"openssl">>, "RSA_generate_key"),
     RuleOf("cpp", "cpp.botan", "pattern", << >>, ""),
     [RuleOf("javascript", "js.subtle", "call", <<"crypto", "subtle">>, "generateKey")
        EXCEPT !.dotted = TRUE, !.conf = ""],
     RuleOf("go", "go.jose", "call", <<"corp", "jose", "v4">>, "NewSigner") >>

Source(lang, tree, imports, calls, names) ==
  [lang |-> lang, tree |-> tree, imports |-> imports, calls |-> calls, identifiers |-> names]

(* No two imports of a Go file go by one name. *)
Legal(imports) ==
  LET Goes(i) == IF i.alias # "" THEN i.alias ELSE i.name
  IN  \A k, l \in DOMAIN imports : k # l => Goes(imports[k]) # Goes(imports[l])

SourceFiles ==
  {Source("go", t, i, c, <<[line |-> 9, name |-> "TLS_RSA"], [line |-> 9, name |-> "main"]>>) :
     t \in {"ok", "none", "error"},
     i \in {s \in UNION {[1..n -> Imports] : n \in 0..2} : Legal(s)},
     c \in {s \in [1..2 -> Calls] : s[1].line <= s[2].line}}
  \cup {Source(l, t, << >>, <<c>>, << >>) :
          l \in {"c", "cpp", "typescript", "python"}, t \in {"ok", "none", "error"},
          c \in {Call(1, "", "RSA_generate_key", <<2048>>), Call(2, "subtle", "generateKey", << >>)}}

MCJobs ==
  [detector : {"certs"}, file : CertFiles] \cup [detector : {"config"}, file : ConfigFiles]
  \cup [detector : {"source"}, file : SourceFiles]
=============================================================================
