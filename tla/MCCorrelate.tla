---------------------------- MODULE MCCorrelate -----------------------------
(* Twelve findings: a cipher whose key size is not known; a cipher found by a    *)
(* rule that names the package it is in; two calls on one line of code, which    *)
(* have one identifier; the dependency; two algorithms in a JSON file that are    *)
(* not understood, alike in every field; what a TLS configuration says; a key     *)
(* that cannot be read and a certificate, one directory below; and a key that is  *)
(* generated in a test.                                                         *)
EXTENDS Reports

xcrypto == <<"golang.org", "x", "crypto">>
rsagen == <<"go", "crypto", "rsa", "generatekey">>
aes == <<"c", "openssl", "aes">>
chacha == <<"go", "xcrypto", "chacha20">>
dep == <<"deps", "go", "xcrypto">>
jwt == <<"config", "jwt">>
key == <<"certs", "key">>
MCModules == {<< >>, xcrypto, Append(xcrypto, "chacha20"), rsagen, aes, chacha, dep, jwt, key}

Plain == [id |-> 0, path |-> 0, dir |-> << >>, marks |-> {}, line |-> 0, column |-> 0,
          source |-> "source-code", type |-> "algorithm", prim |-> "RSA", keySize |-> 0,
          curve |-> "", signs |-> FALSE, rule |-> << >>, package |-> << >>, module |-> << >>,
          conf |-> "high"]

Token(column) ==
  [Plain EXCEPT !.id = 8, !.path = 3, !.dir = <<"api">>, !.line = 9, !.column = column,
                !.keySize = 2048, !.signs = TRUE, !.rule = rsagen]
Config(id, path, prim) ==
  [Plain EXCEPT !.id = id, !.path = path, !.dir = <<"k8s", "deploy">>, !.marks = {"deploy"},
                !.source = "configuration", !.type = "protocol", !.prim = prim,
                !.rule = jwt]
Pem(id, path, prim) ==
  [Plain EXCEPT !.id = id, !.path = path, !.dir = <<"k8s", "deploy", "tls">>, !.marks = {"deploy"},
                !.source = "certificate", !.prim = prim, !.rule = key]

MCPool ==
  << [Plain EXCEPT !.id = 6, !.path = 1, !.dir = <<"api">>, !.line = 4, !.prim = "AES",
                   !.rule = aes, !.conf = "medium"],
     [Plain EXCEPT !.id = 3, !.path = 2, !.dir = <<"api">>, !.line = 7, !.prim = "CHACHA20",
                   !.rule = chacha, !.package = Append(xcrypto, "chacha20"), !.conf = "medium"],
     Token(4), Token(30),
     [Plain EXCEPT !.id = 5, !.path = 4, !.line = 5, !.source = "dependency", !.type = "library",
                   !.rule = dep, !.module = xcrypto, !.conf = "medium"],
     Config(7, 5, "UNKNOWN"), Config(7, 5, "UNKNOWN"),
     [Config(4, 6, "AES") EXCEPT !.line = 2, !.keySize = 256],
     [Config(10, 6, "RSA") EXCEPT !.line = 2, !.signs = TRUE],
     [Pem(1, 7, "UNKNOWN") EXCEPT !.type = "key", !.conf = "low"],
     [Pem(9, 8, "RSA") EXCEPT !.keySize = 2048, !.type = "certificate"],
     [Plain EXCEPT !.id = 2, !.path = 9, !.dir = <<"testdata">>, !.line = 3, !.marks = {"test"},
                   !.keySize = 1024, !.signs = TRUE, !.rule = rsagen] >>
=============================================================================
