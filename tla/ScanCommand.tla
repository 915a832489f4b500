---------------------------- MODULE ScanCommand -----------------------------
(***************************************************************************)
(* The command line (cmd/cryptarium/main.go, scan_flags.go) and what it does  *)
(* to the file system: the clone of a remote target (internal/collector/      *)
(* resolve.go), the rules it finds there, the reports, and the exit code on     *)
(* which CI acts.  The pipeline is one step here; module Pipeline looks inside *)
(* it.                                                                       *)
(***************************************************************************)
EXTENDS Risk, RuleSearch

Formats == {"json", "markdown", "cbom", "sarif", "html"}
Supported == Formats \ {"html"}

CommandLines ==
  [command : {"none", "version", "help", "unknown", "scan"}, flags : {"ok", "help", "invalid"},
   target : {"missing", "ssh", "remote", "local"}, formats : Seq(Formats) \ {<< >>},
   output : {"stdout", "dir", "file"}, failOn : {"none", "high", "hihg"},
   rules : Seq({"unrelated", "valid", "invalid"})]

(* root: the target directory, or the clone, which may vanish under the scan;    *)
(* one that is there and not walkable holds an entry that Walk cannot read.      *)
(* git: how cloneRemote ends; cwd: whether os.Getwd works; levels: what the       *)
(* search for rules meets; worst: the priority of the worst asset of the scan.    *)
Worlds ==
  [root : {"missing", "unwalkable", "walkable"}, git : {"absent", "no temp dir", "clone fails", "clones"},
   cwd : BOOLEAN, levels : Seq(Level), worst : {"none", "medium", "high"}]

CONSTANTS
  Situations        \* pairs of a command line and a world that it is given in

ASSUME SituationsAssumption == Situations \subseteq [args : CommandLines, world : Worlds]

VARIABLES
  args,         \* the command line
  world,        \* what the command will meet: the target, git, the rules, the scan
  pc,           \* where the command is
  places,       \* where a catalog and a directory of rules were found
  clone,        \* the temporary clone directory: "none", "present", or "left" by a failed removal
  nth,          \* the index of the format being written
  reports,      \* what is in each report: "before", "empty", "partial" or "whole"
  code,         \* the exit code of a return whose deferred calls are running
  exit          \* what the process ended with: an exit code, or Running or Killed

vars == <<args, world, pc, places, clone, nth, reports, code, exit>>
given == <<args, world>>

exitOK == 0
exitPolicy == 1
exitScanError == 2
Running == 3
Killed == 4

(* Where the report of a format goes: a file per format in a directory.        *)
Sinks == Formats \cup {"stdout", "file"}
Sink(format) == IF args.output = "dir" THEN format ELSE args.output
Current == Sink(args.formats[nth])

Init ==
  /\ \E s \in Situations : args = s.args /\ world = s.world
  /\ pc = "main"
  /\ places = [catalog |-> Embedded, rulesDir |-> Embedded]
  /\ clone = "none"
  /\ nth = 1
  /\ reports = [s \in Sinks |-> "before"]
  /\ code = exitOK
  /\ exit = Running

Goto(from, to) == exit = Running /\ pc = from /\ pc' = to

(* A return with nothing deferred. *)
Exit(from, status) ==
  /\ Goto(from, "exited")
  /\ exit' = status
  /\ UNCHANGED <<given, places, clone, nth, code>>

(* A return below `defer resolved.Cleanup()'. *)
Return(from, status) ==
  /\ Goto(from, "cleanup")
  /\ code' = status
  /\ UNCHANGED <<given, places, clone, nth, exit>>

(* run: every command but a scan is over at once. *)
OtherCommand ==
  /\ args.command # "scan"
  /\ Exit("main", IF args.command \in {"version", "help"} THEN exitOK ELSE exitScanError)
  /\ UNCHANGED reports

(* runScan up to the target: help, a flag it does not know, no target.          *)
RefuseArguments ==
  /\ args.command = "scan"
  /\ args.flags # "ok" \/ args.target = "missing"
  /\ Exit("main", IF args.flags = "help" THEN exitOK ELSE exitScanError)
  /\ UNCHANGED reports

StartScan ==
  /\ args.command = "scan" /\ args.flags = "ok" /\ args.target # "missing"
  /\ Goto("main", "resolve")
  /\ UNCHANGED <<given, places, clone, nth, reports, code, exit>>

(* collector.Resolve refuses the target, or cannot clone it at all. *)
ResolveFails ==
  /\ \/ args.target = "ssh"
     \/ args.target = "local" /\ world.root = "missing"
     \/ args.target = "remote" /\ world.git \in {"absent", "no temp dir"}
  /\ Exit("resolve", exitScanError)
  /\ UNCHANGED reports

ResolveLocal ==
  /\ args.target = "local" /\ world.root # "missing"
  /\ Goto("resolve", "find catalog")
  /\ UNCHANGED <<given, places, clone, nth, reports, code, exit>>

(* cloneRemote: os.MkdirTemp, and then git clone. *)
MakeTempDir ==
  /\ args.target = "remote" /\ world.git \in {"clone fails", "clones"}
  /\ Goto("resolve", "git clone")
  /\ clone' = "present"
  /\ UNCHANGED <<given, places, nth, reports, code, exit>>

(* cleanup: os.RemoveAll, whose error nobody asks for; without a clone it does       *)
(* nothing.                                                                       *)
Cleanup == clone' \in IF clone = "none" THEN {"none"} ELSE {"none", "left"}

(* Fault: the clone directory stays behind when git fails. *)
CloneFailsUncleaned ==
  /\ world.git = "clone fails"
  /\ Exit("git clone", exitScanError)
  /\ UNCHANGED reports

(* git clone failed: cleanup(), then the error. *)
CloneFails ==
  /\ world.git = "clone fails"
  /\ Goto("git clone", "exited")
  /\ Cleanup
  /\ exit' = exitScanError
  /\ UNCHANGED <<given, places, nth, reports, code>>

Clones ==
  /\ world.git = "clones"
  /\ Goto("git clone", "find catalog")
  /\ UNCHANGED <<given, places, clone, nth, reports, code, exit>>

(* FindDefaultCatalog and FindDefaultRulesDir fail only when os.Getwd does:     *)
(* not to find rules on disk is no error.                                       *)
FindFails ==
  /\ ~world.cwd
  /\ Return("find catalog", exitScanError)
  /\ UNCHANGED reports

FindCatalog ==
  /\ world.cwd
  /\ Goto("find catalog", "find rules")
  /\ places' = [places EXCEPT !.catalog = FindDefaultCatalog(world.levels)]
  /\ UNCHANGED <<given, clone, nth, reports, code, exit>>

FindRules ==
  /\ Goto("find rules", "pipeline")
  /\ places' = [places EXCEPT !.rulesDir = FindDefaultRulesDir(world.levels)]
  /\ UNCHANGED <<given, clone, nth, reports, code, exit>>

(* pipeline.Options, and what its detectors load. *)
Options == [catalog |-> places.catalog, rulesDir |-> places.rulesDir, added |-> args.rules]
Catalog == EnsureCatalog(world.levels, TheOne("deps", ActiveDetectors(Options)))
Packs == EnsurePacks(world.levels, TheOne("source", ActiveDetectors(Options)))

(* Fault: the error of pipeline.Run is dropped, the reports say nothing found.  *)
PipelineFailsUnnoticed ==
  /\ world.root # "walkable"
  /\ Goto("pipeline", "open output")
  /\ UNCHANGED <<given, places, clone, nth, reports, code, exit>>

(* pipeline.Run fails when Walk does ... *)
PipelineFails ==
  /\ world.root # "walkable"
  /\ Return("pipeline", exitScanError)
  /\ UNCHANGED reports

(* Fault: the gate is checked before the reports are written. *)
GateFirst ==
  /\ world.root = "walkable"
  /\ IF MeetsFailOn(world.worst, args.failOn)
     THEN Return("pipeline", exitPolicy)
     ELSE Goto("pipeline", "open output") /\ UNCHANGED <<given, places, clone, nth, code, exit>>
  /\ UNCHANGED reports

(* ... and not when the rules or the catalog do not load: each Detect that      *)
(* needs them turns that into a warning of its file.                            *)
PipelineReturns ==
  /\ world.root = "walkable"
  /\ Goto("pipeline", "open output")
  /\ UNCHANGED <<given, places, clone, nth, reports, code, exit>>

(* openOutput refuses a second format with nowhere of its own to go.            *)
OpenRefused ==
  /\ Len(args.formats) > 1
  /\ args.output = "file" \/ (args.output = "stdout" /\ nth > 1)
  /\ Return("open output", exitScanError)
  /\ UNCHANGED reports

CreateFails ==
  /\ args.output = "dir" \/ (args.output = "file" /\ Len(args.formats) = 1)
  /\ Return("open output", exitScanError)
  /\ UNCHANGED reports

(* os.Create truncates what was there; standard output is taken as it is.       *)
OpenOutput ==
  /\ Len(args.formats) > 1 => args.output = "dir" \/ (args.output = "stdout" /\ nth = 1)
  /\ Goto("open output", "write")
  /\ reports' = IF args.output = "stdout" THEN reports ELSE [reports EXCEPT ![Current] = "empty"]
  /\ UNCHANGED <<given, places, clone, nth, code, exit>>

(* report.Write: a format it does not know, ... *)
WriteUnsupported ==
  /\ args.formats[nth] \notin Supported
  /\ Return("write", exitScanError)
  /\ UNCHANGED reports

(* ... an error of the writer part of the way, ... *)
WriteFails ==
  /\ args.formats[nth] \in Supported
  /\ Return("write", exitScanError)
  /\ reports' = [reports EXCEPT ![Current] = "partial"]

(* ... or the whole report. *)
WriteReport ==
  /\ args.formats[nth] \in Supported
  /\ Goto("write", "close")
  /\ reports' = [reports EXCEPT ![Current] = "whole"]
  /\ UNCHANGED <<given, places, clone, nth, code, exit>>

(* Data that does not reach the disk is reported by Close at the latest.        *)
CloseFails ==
  /\ args.output # "stdout"
  /\ Return("close", exitScanError)
  /\ reports' = [reports EXCEPT ![Current] = "partial"]

(* Fault: the loop over the formats runs once too often. *)
CloseOutputPastEnd ==
  /\ Goto("close", IF nth > Len(args.formats) THEN "gate" ELSE "open output")
  /\ nth' = nth + 1
  /\ UNCHANGED <<given, places, clone, reports, code, exit>>

CloseOutput ==
  /\ Goto("close", IF nth = Len(args.formats) THEN "gate" ELSE "open output")
  /\ nth' = IF nth = Len(args.formats) THEN nth ELSE nth + 1
  /\ UNCHANGED <<given, places, clone, reports, code, exit>>

(* The first scored asset that meets --fail-on. *)
Gate ==
  /\ Return("gate", IF MeetsFailOn(world.worst, args.failOn) THEN exitPolicy ELSE exitOK)
  /\ UNCHANGED reports

(* The deferred resolved.Cleanup(), and os.Exit in main. *)
CleanupAndExit ==
  /\ Goto("cleanup", "exited")
  /\ Cleanup
  /\ exit' = code
  /\ UNCHANGED <<given, places, nth, reports, code>>

(* The process is killed, or a goroutine of the pipeline panics (DepsCatalog     *)
(* shows how): nothing deferred here runs.                                      *)
Kill ==
  /\ exit = Running
  /\ exit' = Killed
  /\ UNCHANGED <<given, pc, places, clone, nth, reports, code>>

Command ==
  \/ OtherCommand \/ RefuseArguments \/ StartScan \/ ResolveFails \/ ResolveLocal \/ MakeTempDir
  \/ CloneFails \/ Clones \/ FindFails \/ FindCatalog \/ FindRules \/ PipelineFails \/ PipelineReturns
  \/ OpenRefused \/ CreateFails \/ OpenOutput \/ WriteUnsupported \/ WriteFails \/ WriteReport
  \/ CloseFails \/ CloseOutput \/ Gate \/ CleanupAndExit

Terminating == exit # Running /\ UNCHANGED vars

Next == Command \/ Kill \/ Terminating

Spec == Init /\ [][Next]_vars
-----------------------------------------------------------------------------
TypeOK ==
  /\ [args |-> args, world |-> world] \in Situations
  /\ pc \in {"main", "resolve", "git clone", "find catalog", "find rules", "pipeline", "open output",
             "write", "close", "gate", "cleanup", "exited"}
  /\ places \in [catalog : 0..Len(world.levels), rulesDir : 0..Len(world.levels)]
  /\ clone \in {"none", "present", "left"}
  /\ nth \in DOMAIN args.formats
  /\ reports \in [Sinks -> {"before", "empty", "partial", "whole"}]
  /\ code \in 0..2
  /\ exit \in 0..4

Exited == exit \in {exitOK, exitPolicy, exitScanError}
Scanned == args.command = "scan" /\ args.flags = "ok"
Requested == {Sink(args.formats[k]) : k \in DOMAIN args.formats}

(* From MkdirTemp to the deferred Cleanup.  *)
Cloned ==
  args.target = "remote" /\
  pc \in {"git clone", "find catalog", "find rules", "pipeline", "open output", "write", "close", "gate", "cleanup"}

(* The clone is there for as long as something may read it, and no exit forgets it:  *)
(* every return of main is above MkdirTemp, below the deferred Cleanup, or calls      *)
(* cleanup itself.  What is still there then is what RemoveAll failed to remove,      *)
(* of which nobody is told.  A local target is never taken for a clone.             *)
CloneNotForgotten ==
  /\ Cloned => clone = "present"
  /\ Exited => clone # "present"
  /\ args.target # "remote" => clone = "none"

(* CI may trust the exit code of a scan: 0 and 1 mean that every requested       *)
(* report is there and whole, and tell whether the worst asset meets --fail-on;  *)
(* in particular a failing gate does not cost the reports.                       *)
ExitTellsTheTruth ==
  Scanned /\ exit \in {exitOK, exitPolicy} =>
    /\ \A s \in Requested : reports[s] = "whole"
    /\ exit = exitPolicy <=> MeetsFailOn(world.worst, args.failOn)

(* A run that cannot scan leaves the reports of an earlier run as they were, and  *)
(* one that can writes them one at a time: however it ends, at most one of them    *)
(* is neither as it was before nor whole.                                         *)
EarlierReportsSurvive ==
  /\ world.root # "walkable" => \A s \in Sinks : reports[s] = "before"
  /\ \A s, t \in Sinks : {reports[s], reports[t]} \subseteq {"empty", "partial"} => s = t

(* The scan has rules to work with. *)
HasRules == pc \in {"pipeline", "open output", "write", "close", "gate"}

(* The levels that have a directory of rules, and those that have a catalog in it.  *)
PackLevels == {k \in DOMAIN world.levels : world.levels[k].packs # "none"}
CatalogLevels == {k \in DOMAIN world.levels : world.levels[k].catalog # "none"}

(* Nothing nearer has what is sought, and the binary serves only if nothing has it. *)
IsNearest(place, levels) ==
  \/ place = Embedded /\ levels = {}
  \/ place \in levels /\ \A k \in levels : place <= k

(* The places that were loaded, or the one that was refused.  *)
Tried(loaded) == ToSet(loaded.places) \cup ToSet(loaded.invalid)

(* defaults.go, DESIGN section 5: on-disk rules found by walking up from the working *)
(* directory win, and what is in the binary is the fallback.  What the detectors      *)
(* load, or refuse, by the search of the command or their own: no nearer level has    *)
(* it, and a level that has it excludes what is embedded.  So a catalog on disk may    *)
(* be farther away than the packs it goes with, but never nearer.                  *)
DefaultsAsDocumented ==
  HasRules =>
    /\ \E c \in Tried(Catalog) : Tried(Catalog) = {c} /\ IsNearest(c, CatalogLevels)
    /\ \A p \in Tried(Packs) : p <= Len(world.levels) => IsNearest(p, PackLevels)
    /\ Packs.invalid = << >> => Packs.places[1] <= Len(world.levels)
    /\ \A c \in Tried(Catalog), p \in Tried(Packs) :
         c # Embedded /\ p <= Len(world.levels) => p \in 1..c

(* A directory added with --rules is loaded, after the default packs and before the *)
(* directories added after it, or source files are refused with an error: no scan    *)
(* goes on without the rules that it was told to use, nor without the defaults.      *)
AddedRulesUsed ==
  HasRules /\ Packs.invalid = << >> =>
    /\ \A k \in DOMAIN args.rules :
         args.rules[k] = "valid" => Len(world.levels) + k \in Packs.giving
    /\ \A k \in DOMAIN args.rules : args.rules[k] # "invalid"
    /\ \A i, j \in DOMAIN Packs.places :
         i < j => Packs.places[j] > Packs.places[i] /\ Packs.places[j] > Len(world.levels)
    /\ (\A k \in DOMAIN world.levels : world.levels[k].packs # "unrelated") =>
         \E k \in DOMAIN Packs.places :
           Packs.places[k] <= Len(world.levels) /\ Packs.places[k] \in Packs.giving

(* main.go, flags.mdx and DESIGN section 11: invalid rules are a scan error, 2.  *)
InvalidRulesAreScanError ==
  Scanned /\ Exited /\ world.cwd /\ Packs.invalid # << >> => exit = exitScanError
=============================================================================
