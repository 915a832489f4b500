----------------------------- MODULE RuleSearch ------------------------------
(***************************************************************************)
(* Where a scan takes its rules from: the search for a directory named rules  *)
(* (internal/rules), and what the detectors are configured with               *)
(* (pipeline.activeDetectors) and load from it.                               *)
(*                                                                           *)
(* The levels are the directories from the working directory up to the root.   *)
(* At a level, packs tells what is in its directory rules: "none" if there is   *)
(* no such directory, "unrelated" if it has no YAML file outside libraries/,    *)
(* "valid" if all of them are rule packs, "invalid" if one is not; and catalog  *)
(* tells what its file rules/libraries/catalog.yaml is.                       *)
(***************************************************************************)
EXTENDS Integers, Sequences, SequencesExt

Level ==
  {l \in [packs : {"none", "unrelated", "valid", "invalid"}, catalog : {"none", "valid", "invalid"}] :
     l.catalog # "none" => l.packs # "none"}

(* A place is the number of a level, or what is in the binary.  Further numbers are *)
(* the directories added with --rules.                                            *)
Embedded == 0

Nearest(places) == IF places = {} THEN Embedded ELSE Min(places)

FindDefaultCatalog(levels) == Nearest({k \in DOMAIN levels : levels[k].catalog # "none"})

(* Fault: the search goes on upwards. *)
FindOutermostRulesDir(levels) ==
  Max({Embedded} \cup {k \in DOMAIN levels : levels[k].packs # "none"})

FindDefaultRulesDir(levels) == Nearest({k \in DOMAIN levels : levels[k].packs # "none"})
-----------------------------------------------------------------------------
(* The registry, filled by the init functions of the detectors that package        *)
(* pipeline imports: a name that is there already is not added.                    *)
Register(registry, name) == IF name \in ToSet(registry) THEN registry ELSE Append(registry, name)
All == Register(Register(Register(Register(<< >>, "certs"), "config"), "deps"), "source")

(* A detector with the place its rules come from, Embedded if it has to look for     *)
(* it, and the added directories.  A registered detector has none of them.          *)
Configured(name, place, added) == [name |-> name, place |-> place, added |-> added]

(* Fault: without a directory of rules, the registered source detector is used.      *)
IgnoreAdded(opt) ==
  [k \in DOMAIN All |->
     CASE All[k] = "deps" -> Configured("deps", opt.catalog, << >>)
       [] All[k] = "source" /\ opt.rulesDir # Embedded -> Configured("source", opt.rulesDir, opt.added)
       [] OTHER -> Configured(All[k], Embedded, << >>)]

(* activeDetectors.  All four are registered, so none is appended. *)
ActiveDetectors(opt) ==
  [k \in DOMAIN All |->
     CASE All[k] = "deps"   -> Configured("deps", opt.catalog, << >>)
       [] All[k] = "source" -> Configured("source", opt.rulesDir, opt.added)
       [] OTHER -> Configured(All[k], Embedded, << >>)]

(* What came of loading: the places that were read, in order, and those of them that  *)
(* had something to give; or the one that is invalid.                              *)
Loaded(places, giving) == [places |-> places, giving |-> giving, invalid |-> << >>]
Refused(place) == [places |-> << >>, giving |-> {}, invalid |-> <<place>>]

(* LoadLibraryCatalog, or LoadDefaultCatalog, which looks for it again.              *)
EnsureCatalog(levels, d) ==
  LET place == IF d.place # Embedded THEN d.place ELSE FindDefaultCatalog(levels)
  IN  IF place # Embedded /\ levels[place].catalog = "invalid"
      THEN Refused(place)
      ELSE Loaded(<<place>>, {place})

(* LoadRulePacksDir, or LoadDefaultRulePacks, which looks for a directory again, and  *)
(* then the added directories.                                                    *)
PackPlaces(levels, d) ==
  <<IF d.place # Embedded THEN d.place ELSE FindDefaultRulesDir(levels)>>
    \o [k \in DOMAIN d.added |-> Len(levels) + k]

PacksAt(levels, d, place) ==
  CASE place = Embedded -> "valid"
    [] place \in DOMAIN levels -> levels[place].packs
    [] OTHER -> d.added[place - Len(levels)]

(* The first place that does not load is the error. *)
EnsurePacks(levels, d) ==
  LET places == PackPlaces(levels, d)
      Bad == {k \in DOMAIN places : PacksAt(levels, d, places[k]) \in {"none", "invalid"}}
  IN  IF Bad # {}
      THEN Refused(places[Min(Bad)])
      ELSE Loaded(places, {p \in ToSet(places) : PacksAt(levels, d, p) = "valid"})

TheOne(name, detectors) == detectors[CHOOSE k \in DOMAIN detectors : detectors[k].name = name]
=============================================================================
