----------------------------- MODULE SourceRules ------------------------------
(***************************************************************************)
(* How the source detector (internal/detector/source/source.go) applies the   *)
(* rules of a language to one file; how it came by the rules, and its locks,    *)
(* are in module RulePacks.                                                   *)
(*                                                                           *)
(* A file has imports, calls and identifiers, each with its line.  An import    *)
(* path and the package of a rule are sequences of names, with the separator    *)
(* of the language ("/" in Go, "." elsewhere); `dotted' says that there is a     *)
(* "." in the package of a rule.                                              *)
(***************************************************************************)
EXTENDS DetectCall, SequencesExt

CONSTANTS Rules       \* the rules of d.packs, in order, each with the language of its pack

ASSUME RulesAssumption ==
  Rules \in Seq([lang : STRING, id : STRING, kind : STRING, package : Seq(STRING), symbol : STRING,
                 dotted : BOOLEAN, pattern : SUBSET STRING, prim : STRING, argument : Nat, size : Nat,
                 conf : STRING])

(* A call is in code, in a comment of its own line, or in one that follows code.   *)
SourceFile ==
  [lang : STRING, tree : {"ok", "none", "error"},
   imports : Seq([path : Seq(STRING) \ {<< >>}, alias : STRING, name : STRING]),
   calls : Seq([line : Nat \ {0}, pkg : STRING, symbol : STRING, args : Seq(Nat),
                at : {"code", "comment", "comment line"}]),
   identifiers : Seq([line : Nat \ {0}, name : STRING])]

(* packsFor and languageAliases: whose rules a language takes. *)
LanguageAliases(lang) ==
  CASE lang = "typescript" -> {"typescript", "javascript"}
    [] lang = "cpp"        -> {"cpp", "c"}
    [] OTHER               -> {lang}

RulesFor(lang) == {r \in DOMAIN Rules : Rules[r].lang \in LanguageAliases(lang)}
Rule == Rules[at]

(* collectImports: pairs of a local name and a path.  The local name is the alias   *)
(* of a Go import or else the last name of the path.  Of Python, imports with an     *)
(* alias are not collected; of JavaScript two names are taken for granted; of C      *)
(* there is none.                                                               *)
LocalName(import) == IF import.alias # "" THEN import.alias ELSE Last(import.path)

Pairs ==
  IF File.lang \in {"javascript", "typescript"}
  THEN <<<<"crypto", <<"crypto">>>>, <<"subtle", <<"crypto", "subtle">>>>>>
  ELSE [k \in DOMAIN File.imports |-> <<LocalName(File.imports[k]), File.imports[k].path>>]

Collected ==
  CASE File.lang \in {"go", "java", "javascript", "typescript"} -> DOMAIN Pairs
    [] File.lang = "python" -> {k \in DOMAIN Pairs : File.imports[k].alias = ""}
    [] OTHER -> {}

(* The imports collected under a name; the map holds the last of them.             *)
Under(name) == {k \in Collected : Pairs[k][1] = name}
PathOf(name) == Pairs[Max(Under(name))][2]

(* Without an import, the package of the rule is known by its last name; but of a   *)
(* Go path with a dot in its domain nothing usable is left after the last dot.     *)
Fallback(rule) ==
  IF rule.dotted /\ rule.lang = "go" THEN {} ELSE {Last(rule.package)}

(* Fault: the imports of the file are not consulted. *)
PackageByName(call) ==
  Rule.package # << >> /\ ~(call.pkg = "" /\ File.lang \in {"c", "cpp"}) => call.pkg \in Fallback(Rule)

(* packageMatches.  Of Go paths the last names must be the same (filepath.Base), of *)
(* others the whole.                                                             *)
PackageMatches(call) ==
  Rule.package # << >> /\ ~(call.pkg = "" /\ File.lang \in {"c", "cpp"}) =>
    IF Under(call.pkg) = {} THEN call.pkg \in Fallback(Rule)
    ELSE \/ PathOf(call.pkg) = Rule.package
         \/ File.lang = "go" /\ Last(PathOf(call.pkg)) = Last(Rule.package)

(* resolveParams: the key size, from an argument of the call or fixed by the rule.  *)
Size(args) == IF Rule.argument \in DOMAIN args THEN args[Rule.argument] ELSE Rule.size

(* Fault: the confidence is taken as it is written in the rule. *)
ConfidenceAsWritten(rule) == rule.conf

(* parseConfidence: what is not high or low is medium, also what is left out. *)
Confidence(rule) == IF rule.conf \in {"high", "low"} THEN rule.conf ELSE "medium"

RuleFinding(line, args) == Found(line, Rule.id, Rule.prim, Size(args), Confidence(Rule))
Low(line) == Found(line, Rule.id, Rule.prim, Rule.size, "low")
-----------------------------------------------------------------------------
(* The loop has got to a rule of the language. *)
ApplyRule == Scanning("source") /\ at \in RulesFor(File.lang)

(* A rule that cannot be applied: its kind is not supported, or its pattern is      *)
(* missing or does not compile.                                                  *)
Inapplicable(rule) ==
  rule.kind \notin {"call", "identifier"} \/ (rule.kind = "identifier" /\ rule.pattern = {})

(* What matchCalls finds: calls in comments are not in the syntax tree. *)
CallHits ==
  {k \in DOMAIN File.calls :
     /\ File.tree = "ok" /\ Rule.kind = "call"
     /\ File.calls[k].at = "code" /\ File.calls[k].symbol = Rule.symbol
     /\ PackageMatches(File.calls[k])}

(* What matchIdentifiers finds: the identifiers that the pattern matches. *)
IdentifierHits ==
  {k \in DOMAIN File.identifiers :
     File.tree = "ok" /\ Rule.kind = "identifier" /\ File.identifiers[k].name \in Rule.pattern}

(* What regexFallback and regexIdentifier find without a syntax tree, for the call   *)
(* rules only: the calls on a line that is no comment, whatever package they are of.  *)
TextHits ==
  {k \in DOMAIN File.calls :
     /\ File.tree # "ok" /\ Rule.kind = "call"
     /\ File.calls[k].at # "comment line" /\ File.calls[k].symbol = Rule.symbol}

MatchCall ==
  /\ ApplyRule
  /\ \E k \in CallHits :
       /\ NextOf(CallHits, k)
       /\ findings' = Append(findings, RuleFinding(File.calls[k].line, File.calls[k].args))
       /\ within' = k + 1
  /\ UNCHANGED <<job, pc, at, problems, error>>

MatchIdentifier ==
  /\ ApplyRule
  /\ \E k \in IdentifierHits :
       /\ NextOf(IdentifierHits, k)
       /\ findings' = Append(findings, RuleFinding(File.identifiers[k].line, << >>))
       /\ within' = k + 1
  /\ UNCHANGED <<job, pc, at, problems, error>>

(* The first call on each line gives the finding. *)
MatchLine ==
  /\ ApplyRule
  /\ \E k \in TextHits :
       /\ NextOf(TextHits, k)
       /\ findings' = IF \E j \in TextHits : j < k /\ File.calls[j].line = File.calls[k].line
                      THEN findings ELSE Append(findings, Low(File.calls[k].line))
       /\ within' = k + 1
  /\ UNCHANGED <<job, pc, at, problems, error>>

(* Nothing is left for the rule, or it is one of another language. *)
NextRule ==
  /\ Scanning("source") /\ at \in DOMAIN Rules
  /\ at \in RulesFor(File.lang) =>
       /\ NoneLeft(CallHits) /\ NoneLeft(IdentifierHits) /\ NoneLeft(TextHits)
       /\ ~(File.tree = "ok" /\ Inapplicable(Rule))
  /\ at' = at + 1 /\ within' = 1
  /\ UNCHANGED <<job, pc, findings, problems, error>>

(* The findings so far are returned with the error. *)
RuleFails ==
  /\ ApplyRule /\ File.tree = "ok" /\ Inapplicable(Rule)
  /\ problems' = {at}
  /\ at' = at + 1
  /\ Return("rule")
  /\ UNCHANGED <<job, within, findings>>

EndRules ==
  /\ Scanning("source") /\ at \notin DOMAIN Rules
  /\ Return(IF File.tree = "error" THEN "parse" ELSE "nil")
  /\ UNCHANGED <<job, at, within, findings, problems>>

SourceNext == MatchCall \/ MatchIdentifier \/ MatchLine \/ NextRule \/ RuleFails \/ EndRules
-----------------------------------------------------------------------------
CallsOf(r) == {c \in {File.calls[k] : k \in DOMAIN File.calls} : c.symbol = Rules[r].symbol}

Reported(r, line) ==
  \E k \in DOMAIN findings : findings[k].rule = Rules[r].id /\ findings[k].place = line

(* The package that a name stands for in a Go file, in which no two imports have     *)
(* one name: a package without an alias goes by its own name, which the last name of *)
(* the path only suggests.                                                        *)
StandsFor(name, path) ==
  \E k \in DOMAIN File.imports :
    /\ File.imports[k].path = path
    /\ name = IF File.imports[k].alias # "" THEN File.imports[k].alias ELSE File.imports[k].name

(* The aliases and paths suggest that the name stands for this path and no other.    *)
Suggests(name, path) == Under(name) # {} /\ \A k \in Under(name) : Pairs[k][2] = path

(* A call through an import of another package, which has another last name. *)
OfAnotherPackage(call, package) ==
  \E path \in {File.imports[k].path : k \in DOMAIN File.imports} :
    StandsFor(call.pkg, path) /\ Suggests(call.pkg, path) /\ Last(path) # Last(package)

(* Something on the line is what the rule is about. *)
Backed(r, line) ==
  \/ /\ File.tree = "ok" /\ Rules[r].kind = "call"
     /\ \E call \in CallsOf(r) :
          /\ call.line = line /\ call.at = "code"
          /\ File.lang = "go" /\ Rules[r].package # << >> => ~OfAnotherPackage(call, Rules[r].package)
  \/ /\ File.tree = "ok" /\ Rules[r].kind = "identifier"
     /\ \E k \in DOMAIN File.identifiers :
          File.identifiers[k].line = line /\ File.identifiers[k].name \in Rules[r].pattern
  \/ /\ File.tree # "ok" /\ Rules[r].kind = "call"
     /\ \E call \in CallsOf(r) : call.line = line /\ call.at # "comment line"

(* Calls are told by what their package stands for.  In a Go file a call of the       *)
(* symbol of a rule through an import of its package is reported, if the package has *)
(* the name that its path suggests; without a syntax tree no call on a line of code   *)
(* is missed.  And every finding is backed by something on its line that a rule of    *)
(* the language is about, and which is no call through an import of a package with     *)
(* another last name.                                                             *)
CallsResolved ==
  job.detector = "source" =>
    /\ \A r \in RulesFor(File.lang) \cap 1..(at - 1) : Rules[r].kind = "call" =>
         \A call \in CallsOf(r) : call.at = "code" =>
           /\ File.tree # "ok" => Reported(r, call.line)
           /\ /\ File.tree = "ok" /\ File.lang = "go"
              /\ StandsFor(call.pkg, Rules[r].package) /\ Suggests(call.pkg, Rules[r].package)
              => Reported(r, call.line)
    /\ \A k \in DOMAIN findings :
         \E r \in RulesFor(File.lang) : Rules[r].id = findings[k].rule /\ Backed(r, findings[k].place)
=============================================================================
