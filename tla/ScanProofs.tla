----------------------------- MODULE ScanProofs ------------------------------
(***************************************************************************)
(* The command line keeps its promises to CI and to the file system in every  *)
(* situation, for every list of formats and every depth of the search for       *)
(* rules.                                                                    *)
(***************************************************************************)
EXTENDS ScanCommand, SequenceTheorems, WellFoundedInduction, TLAPS

(* A set of levels that is not empty has a nearest one. *)
LEMMA NearestIsNearest ==
  ASSUME NEW n \in Nat, NEW candidates \in SUBSET (1..n), candidates # {}
  PROVE  Nearest(candidates) \in candidates /\ \A y \in candidates : Nearest(candidates) =< y
<1>1. candidates \subseteq Nat
  OBVIOUS
<1>2. PICK x \in candidates : \A y \in candidates : ~(<<y, x>> \in OpToRel(<, Nat))
  BY <1>1, NatLessThanWellFounded, WFMin
<1>3. \A y \in candidates : ~(y < x)
  BY <1>1, <1>2, Zenon DEF OpToRel
<1>4. \A y \in candidates : x =< y
  BY <1>1, <1>3
<1>5. Min(candidates) \in candidates /\ \A y \in candidates : Min(candidates) =< y
  BY <1>4 DEF Min
<1> QED BY <1>5 DEF Nearest

LEMMA NearestIsALevel ==
  ASSUME NEW n \in Nat, NEW candidates \in SUBSET (1..n)
  PROVE  Nearest(candidates) \in 0..n
<1>1. CASE candidates = {}
  BY <1>1 DEF Nearest, Embedded
<1>2. CASE candidates # {}
  <2>1. Nearest(candidates) \in candidates
    BY <1>2, NearestIsNearest
  <2>2. Nearest(candidates) \in 1..n
    BY <2>1
  <2> QED BY <2>2
<1> QED BY <1>1, <1>2

(* What the search finds is the number of a level, or Embedded. *)
LEMMA SearchEnds ==
  ASSUME NEW levels \in Seq(Level)
  PROVE  /\ FindDefaultCatalog(levels) \in 0..Len(levels)
         /\ FindDefaultRulesDir(levels) \in 0..Len(levels)
<1>1. Len(levels) \in Nat /\ DOMAIN levels = 1..Len(levels)
  OBVIOUS
<1>2. {k \in DOMAIN levels : levels[k].catalog # "none"} \in SUBSET (1..Len(levels))
  BY <1>1
<1>3. {k \in DOMAIN levels : levels[k].packs # "none"} \in SUBSET (1..Len(levels))
  BY <1>1
<1> QED BY <1>1, <1>2, <1>3, NearestIsALevel DEF FindDefaultCatalog, FindDefaultRulesDir

(* A situation has a list of formats, and levels. *)
Given == [args |-> args, world |-> world] \in Situations

LEMMA GivenFields ==
  ASSUME Given
  PROVE  /\ args.formats \in Seq(Formats) /\ args.formats # << >>
         /\ Len(args.formats) \in Nat \ {0} /\ DOMAIN args.formats = 1..Len(args.formats)
         /\ args.output \in {"stdout", "dir", "file"}
         /\ world.levels \in Seq(Level)
<1>1. args \in CommandLines /\ world \in Worlds
  BY SituationsAssumption DEF Given
<1>2. args.formats \in Seq(Formats) /\ args.formats # << >>
  BY <1>1 DEF CommandLines
<1>3. args.output \in {"stdout", "dir", "file"} /\ world.levels \in Seq(Level)
  BY <1>1 DEF CommandLines, Worlds
<1>4. Len(args.formats) \in Nat \ {0} /\ DOMAIN args.formats = 1..Len(args.formats)
  BY <1>2
<1> QED BY <1>2, <1>3, <1>4

LEMMA SinkInSinks ==
  ASSUME Given, NEW k \in DOMAIN args.formats
  PROVE  Sink(args.formats[k]) \in Sinks
BY GivenFields DEF Sink, Sinks

Labels ==
  {"main", "resolve", "git clone", "find catalog", "find rules", "pipeline", "open output", "write",
   "close", "gate", "cleanup", "exited"}

(* Which steps change which variable: nothing else is told about the steps below. *)
LEMMA WhatStepsChange ==
  ASSUME [Next]_vars
  PROVE  /\ args' = args /\ world' = world
         /\ pc' \in Labels \cup {pc}
         /\ places' # places => FindCatalog \/ FindRules
         /\ clone' \in {clone, "none", "present", "left"}
         /\ nth' # nth => CloseOutput
         /\ reports' # reports => OpenOutput \/ WriteReport \/ WriteFails \/ CloseFails
         /\ code' \in {code, exitOK, exitPolicy, exitScanError}
         /\ exit' \in {exit, code, exitOK, exitScanError, Killed}
<1> USE DEF OtherCommand, RefuseArguments, StartScan, ResolveFails, ResolveLocal, MakeTempDir, CloneFails,
    Clones, FindFails, FindCatalog, FindRules, PipelineFails, PipelineReturns, OpenRefused, CreateFails,
    OpenOutput, WriteUnsupported, WriteFails, WriteReport, CloseFails, CloseOutput, Gate, CleanupAndExit,
    Exit, Return, Goto, Cleanup, given
<1>1. CASE Command
  <2>1. args' = args /\ world' = world
    BY <1>1 DEF Command
  <2>2. pc' \in Labels
    BY <1>1 DEF Command, Labels
  <2>3. places' # places => FindCatalog \/ FindRules
    BY <1>1 DEF Command
  <2>4. clone' \in {clone, "none", "present", "left"}
    BY <1>1 DEF Command
  <2>5. nth' # nth => CloseOutput
    BY <1>1 DEF Command
  <2>6. reports' # reports => OpenOutput \/ WriteReport \/ WriteFails \/ CloseFails
    BY <1>1 DEF Command
  <2>7. code' \in {code, exitOK, exitPolicy, exitScanError}
    BY <1>1 DEF Command
  <2>8. exit' \in {exit, code, exitOK, exitScanError, Killed}
    BY <1>1 DEF Command
  <2> QED BY <2>1, <2>2, <2>3, <2>4, <2>5, <2>6, <2>7, <2>8
<1>2. CASE Kill \/ Terminating \/ UNCHANGED vars
  BY <1>2 DEF Kill, Terminating, vars
<1> QED BY <1>1, <1>2 DEF Next

(* Every state is a state of the variables: the search stays among the levels,      *)
(* and the loop over the formats never leaves the list.                           *)
THEOREM TypeCorrect == Spec => []TypeOK
<1>1. Init => TypeOK
  <2> SUFFICES ASSUME Init PROVE TypeOK
    OBVIOUS
  <2>1. PICK s \in Situations : args = s.args /\ world = s.world
    BY DEF Init
  <2>2. Given
    <3>1. s \in [args : CommandLines, world : Worlds]
      BY SituationsAssumption
    <3>2. s = [args |-> args, world |-> world]
      BY <2>1, <3>1
    <3> QED BY <3>2 DEF Given
  <2>3. world.levels \in Seq(Level) /\ nth \in DOMAIN args.formats
    BY <2>2, GivenFields DEF Init
  <2>4. places \in [catalog : 0..Len(world.levels), rulesDir : 0..Len(world.levels)]
    BY <2>3 DEF Init, Embedded
  <2>5. reports \in [Sinks -> {"before", "empty", "partial", "whole"}]
    BY DEF Init
  <2> QED BY <2>2, <2>3, <2>4, <2>5 DEF Given, Init, TypeOK, exitOK, Running
<1>2. TypeOK /\ [Next]_vars => TypeOK'
  <2> SUFFICES ASSUME TypeOK, [Next]_vars PROVE TypeOK'
    OBVIOUS
  <2>0. Given /\ nth \in DOMAIN args.formats
    BY DEF TypeOK, Given
  <2>1. WhatStepsChange!2
    BY WhatStepsChange
  <2>2. ([args |-> args, world |-> world] \in Situations)'
    BY <2>0, <2>1 DEF Given
  <2>3. pc' \in Labels
    BY <2>1 DEF TypeOK, Labels
  <2>4. (places \in [catalog : 0..Len(world.levels), rulesDir : 0..Len(world.levels)])'
    <3>1. world.levels \in Seq(Level)
      BY <2>0, GivenFields
    <3>2. places \in [catalog : 0..Len(world.levels), rulesDir : 0..Len(world.levels)]
      BY DEF TypeOK
    <3>3. CASE FindCatalog
      BY <2>1, <3>1, <3>2, <3>3, SearchEnds DEF FindCatalog
    <3>4. CASE FindRules
      BY <2>1, <3>1, <3>2, <3>4, SearchEnds DEF FindRules
    <3> QED BY <2>1, <3>2, <3>3, <3>4
  <2>5. clone' \in {"none", "present", "left"}
    BY <2>1 DEF TypeOK
  <2>6. (nth \in DOMAIN args.formats)'
    <3>1. Len(args.formats) \in Nat /\ DOMAIN args.formats = 1..Len(args.formats)
      BY <2>0, GivenFields
    <3>2. CASE CloseOutput
      <4>1. nth' \in {nth, nth + 1} /\ (nth = Len(args.formats) => nth' = nth)
        BY <3>2 DEF CloseOutput
      <4>2. nth' \in 1..Len(args.formats)
        BY <2>0, <3>1, <4>1
      <4> QED BY <2>1, <3>1, <4>2
    <3> QED BY <2>0, <2>1, <3>2
  <2>7. reports' \in [Sinks -> {"before", "empty", "partial", "whole"}]
    <3>1. Current \in Sinks
      BY <2>0, SinkInSinks DEF Current
    <3>2. reports \in [Sinks -> {"before", "empty", "partial", "whole"}]
      BY DEF TypeOK
    <3>3. CASE OpenOutput \/ WriteReport \/ WriteFails \/ CloseFails
      BY <3>1, <3>2, <3>3 DEF OpenOutput, WriteReport, WriteFails, CloseFails
    <3> QED BY <2>1, <3>2, <3>3
  <2>8. code' \in 0..2 /\ exit' \in 0..4
    <3>1. code \in 0..2 /\ exit \in 0..4
      BY DEF TypeOK
    <3> QED BY <2>1, <3>1 DEF exitOK, exitPolicy, exitScanError, Killed
  <2> QED BY <2>2, <2>3, <2>4, <2>5, <2>6, <2>7, <2>8, Zenon DEF TypeOK, Labels
<1> QED BY <1>1, <1>2, PTL DEF Spec
-----------------------------------------------------------------------------
(* There is no clone before MakeTempDir, and an exit code is there only behind the    *)
(* place where each way out is rid of it.                                         *)
CloneInv ==
  /\ CloneNotForgotten
  /\ pc \in {"main", "resolve"} => clone = "none"
  /\ Exited => pc = "exited"

LEMMA KilledIsNoExit == Kill => ~Exited'
BY DEF Kill, Exited, Killed, exitOK, exitPolicy, exitScanError

(* However a command ends, but for a kill, it has tried to remove the clone it made,  *)
(* and not before the last step that may read it.                                 *)
THEOREM NoCloneForgotten == Spec => []CloneNotForgotten
<1> USE DEF exitOK, exitPolicy, exitScanError, Running, Killed
<1>1. Init => CloneInv
  BY DEF Init, CloneInv, CloneNotForgotten, Cloned, Exited
<1>2. CloneInv /\ [Next]_vars => CloneInv'
  <2> SUFFICES ASSUME CloneInv, [Next]_vars PROVE CloneInv'
    OBVIOUS
  <2> USE DEF Exit, Return, Goto, given, CloneInv, CloneNotForgotten, Cloned, Exited
  <2>1. CASE MakeTempDir \/ CloneFails \/ CleanupAndExit
    BY <2>1 DEF MakeTempDir, CloneFails, CleanupAndExit, Cleanup
  <2>2. CASE OtherCommand \/ RefuseArguments \/ ResolveFails
    BY <2>2 DEF OtherCommand, RefuseArguments, ResolveFails
  <2>3. CASE StartScan \/ ResolveLocal \/ Clones \/ FindCatalog \/ FindRules \/ PipelineReturns \/ OpenOutput
             \/ WriteReport \/ CloseOutput
    BY <2>3 DEF StartScan, ResolveLocal, Clones, FindCatalog, FindRules, PipelineReturns, OpenOutput,
       WriteReport, CloseOutput
  <2>4. CASE FindFails \/ PipelineFails \/ OpenRefused \/ CreateFails \/ WriteUnsupported \/ WriteFails
             \/ CloseFails \/ Gate
    BY <2>4 DEF FindFails, PipelineFails, OpenRefused, CreateFails, WriteUnsupported, WriteFails, CloseFails, Gate
  <2>5. CASE Kill
    <3>1. args' = args
      BY WhatStepsChange
    <3>2. pc' = pc /\ clone' = clone /\ exit' = Killed
      BY <2>5 DEF Kill
    <3>3. ~Exited'
      BY <2>5, KilledIsNoExit
    <3>4. Cloned' <=> Cloned
      BY <3>1, <3>2
    <3> QED BY <3>1, <3>2, <3>3, <3>4
  <2>6. CASE Terminating \/ UNCHANGED vars
    <3>1. args' = args /\ pc' = pc /\ clone' = clone /\ exit' = exit
      BY <2>6 DEF Terminating, vars
    <3> QED BY <3>1
  <2> QED BY <2>1, <2>2, <2>3, <2>4, <2>5, <2>6 DEF Next, Command
<1>3. CloneInv => CloneNotForgotten
  BY DEF CloneInv
<1> QED BY <1>1, <1>2, <1>3, PTL DEF Spec
-----------------------------------------------------------------------------
Unfinished(s) == reports[s] \in {"empty", "partial"}

(* Reports are opened only behind a pipeline that could walk the target, and while  *)
(* the loop is between two reports there is none that is begun and not whole.      *)
ReportsInv ==
  /\ pc \in {"open output", "write", "close", "gate"} => world.root = "walkable"
  /\ world.root # "walkable" => \A s \in Sinks : reports[s] = "before"
  /\ pc \notin {"write", "cleanup", "exited"} => \A s \in Sinks : ~Unfinished(s)
  /\ pc = "write" => \A s \in Sinks : Unfinished(s) => s = Current
  /\ \A s, t \in Sinks : Unfinished(s) /\ Unfinished(t) => s = t

(* Whatever fails, at most one report is neither as it was nor whole, and none is    *)
(* touched if the target cannot be walked.                                        *)
THEOREM ReportsSurvive == Spec => []EarlierReportsSurvive
<1>1. Init => ReportsInv
  BY DEF Init, ReportsInv, Unfinished
<1>2. TypeOK /\ ReportsInv /\ [Next]_vars => ReportsInv'
  <2> SUFFICES ASSUME TypeOK, ReportsInv, [Next]_vars PROVE ReportsInv'
    OBVIOUS
  <2> USE DEF Exit, Return, Goto, given, ReportsInv, Unfinished
  <2>0. /\ Current \in Sinks
        /\ DOMAIN reports = Sinks
        /\ args' = args /\ world' = world
    BY WhatStepsChange, SinkInSinks DEF TypeOK, Given, Current
  <2>1. CASE OpenOutput
    <3>1. Current' = Current
      BY <2>0, <2>1 DEF OpenOutput, Current, Sink
    <3>2. \A s \in Sinks : s # Current => reports'[s] = reports[s]
      BY <2>0, <2>1 DEF OpenOutput
    <3>3. pc = "open output" /\ pc' = "write"
      BY <2>1 DEF OpenOutput
    <3> QED BY <2>0, <3>1, <3>2, <3>3
  <2>2. CASE WriteReport
    BY <2>0, <2>2 DEF WriteReport
  <2>3. CASE WriteFails \/ CloseFails
    BY <2>0, <2>3 DEF WriteFails, CloseFails
  <2>4. CASE CloseOutput
    BY <2>4 DEF CloseOutput
  <2>5. CASE PipelineReturns
    BY <2>5 DEF PipelineReturns
  <2>6. CASE OtherCommand \/ RefuseArguments \/ StartScan \/ ResolveFails \/ ResolveLocal \/ MakeTempDir
             \/ CloneFails \/ Clones \/ FindFails \/ FindCatalog \/ FindRules \/ PipelineFails
    BY <2>6 DEF OtherCommand, RefuseArguments, StartScan, ResolveFails, ResolveLocal, MakeTempDir, CloneFails,
       Clones, FindFails, FindCatalog, FindRules, PipelineFails
  <2>7. CASE OpenRefused \/ CreateFails \/ WriteUnsupported \/ Gate \/ CleanupAndExit
    BY <2>7 DEF OpenRefused, CreateFails, WriteUnsupported, Gate, CleanupAndExit
  <2>8. CASE Kill \/ Terminating \/ UNCHANGED vars
    <3>1. reports' = reports /\ pc' = pc /\ Current' = Current
      BY <2>0, <2>8 DEF Kill, Terminating, vars, Current, Sink
    <3> QED BY <2>0, <3>1
  <2> QED BY <2>1, <2>2, <2>3, <2>4, <2>5, <2>6, <2>7, <2>8 DEF Next, Command
<1>3. ReportsInv => EarlierReportsSurvive
  BY DEF ReportsInv, EarlierReportsSurvive, Unfinished
<1> QED BY TypeCorrect, <1>1, <1>2, <1>3, PTL DEF Spec
-----------------------------------------------------------------------------
(* The reports of the first n formats, but for the one that is being written if it   *)
(* is asked for twice.                                                            *)
WholeUpTo(n) ==
  \A k \in 1..n : Sink(args.formats[k]) # Current => reports[Sink(args.formats[k])] = "whole"

AllWhole == \A s \in Requested : reports[s] = "whole"
Verdict(status) ==
  status \in {exitOK, exitPolicy} =>
    AllWhole /\ (status = exitPolicy <=> MeetsFailOn(world.worst, args.failOn))

(* The loop leaves whole reports behind, so they all are at the gate, and only the   *)
(* gate sets an exit code that tells of a scan.                                    *)
ExitInv ==
  /\ pc = "open output" => \A k \in 1..(nth - 1) : reports[Sink(args.formats[k])] = "whole"
  /\ pc = "write" => WholeUpTo(nth - 1)
  /\ pc = "close" => WholeUpTo(nth - 1) /\ reports[Current] = "whole"
  /\ pc = "gate" => AllWhole
  /\ pc = "cleanup" => Verdict(code)
  /\ Scanned => Verdict(exit)
  /\ nth > 1 => pc \notin {"main", "resolve", "git clone", "find catalog", "find rules", "pipeline"}

(* The exit codes 0 and 1 of a scan are true, whatever the formats. *)
THEOREM ExitCodeTrue == Spec => []ExitTellsTheTruth
<1>1. Init => ExitInv
  BY DEF Init, ExitInv, Verdict, exitOK, exitPolicy, Running
<1>2. TypeOK /\ ExitInv /\ [Next]_vars => ExitInv'
  <2> SUFFICES ASSUME TypeOK, ExitInv, [Next]_vars PROVE ExitInv'
    OBVIOUS
  <2>0. /\ Current \in Sinks /\ DOMAIN reports = Sinks
        /\ args' = args /\ world' = world
        /\ Len(args.formats) \in Nat \ {0} /\ DOMAIN args.formats = 1..Len(args.formats)
        /\ nth \in 1..Len(args.formats)
    BY WhatStepsChange, SinkInSinks, GivenFields DEF TypeOK, Given, Current
  <2>1. Scanned' = Scanned /\ Requested' = Requested
    BY <2>0 DEF Scanned, Requested, Sink
  <2>2. reports' = reports => AllWhole' = AllWhole
    BY <2>1 DEF AllWhole
  <2>3. ASSUME reports' = reports, NEW status, Verdict(status)
        PROVE  Verdict(status)'
    BY <2>0, <2>2, <2>3 DEF Verdict
  <2>4. Verdict(exitScanError)' /\ Verdict(Running)' /\ Verdict(Killed)'
    BY DEF Verdict, exitOK, exitPolicy, exitScanError, Running, Killed
  <2>5. ASSUME NEW from, Return(from, exitScanError)
        PROVE  ExitInv'
    BY <2>0, <2>4, <2>5 DEF Return, Goto, ExitInv
  <2>6. CASE OtherCommand \/ RefuseArguments
    <3>1. pc' = "exited" /\ (Scanned => exit' = exitScanError)
      BY <2>6 DEF OtherCommand, RefuseArguments, Exit, Goto, Scanned
    <3> QED BY <2>1, <2>4, <3>1 DEF ExitInv
  <2>7. CASE ResolveFails \/ CloneFails
    <3>1. pc' = "exited" /\ exit' = exitScanError
      BY <2>7 DEF ResolveFails, CloneFails, Exit, Goto
    <3> QED BY <2>4, <3>1 DEF ExitInv
  <2>8. CASE StartScan \/ ResolveLocal \/ MakeTempDir \/ Clones \/ FindCatalog \/ FindRules
    <3>1. /\ pc \in {"main", "resolve", "git clone", "find catalog", "find rules"}
          /\ pc' \in {"resolve", "git clone", "find catalog", "find rules", "pipeline"}
          /\ nth' = nth /\ reports' = reports /\ exit' = exit
      BY <2>8 DEF StartScan, ResolveLocal, MakeTempDir, Clones, FindCatalog, FindRules, Goto
    <3>2. ~(nth > 1)
      BY <3>1 DEF ExitInv
    <3> QED BY <2>1, <2>3, <3>1, <3>2 DEF ExitInv
  <2>9. CASE PipelineReturns
    <3>1. /\ pc = "pipeline" /\ pc' = "open output"
          /\ nth' = nth /\ reports' = reports /\ exit' = exit
      BY <2>9 DEF PipelineReturns, Goto
    <3>2. 1..(nth' - 1) = {}
      <4>1. ~(nth > 1)
        BY <3>1 DEF ExitInv
      <4>2. nth = 1
        BY <2>0, <4>1
      <4>3. nth' = nth
        BY <3>1
      <4> QED BY <4>2, <4>3
    <3> QED BY <2>1, <2>3, <3>1, <3>2 DEF ExitInv
  <2>10. CASE FindFails \/ PipelineFails \/ OpenRefused \/ CreateFails \/ WriteUnsupported \/ WriteFails
              \/ CloseFails
    BY <2>5, <2>10 DEF FindFails, PipelineFails, OpenRefused, CreateFails, WriteUnsupported, WriteFails, CloseFails
  <2>11. CASE OpenOutput
    <3>1. /\ pc = "open output" /\ pc' = "write" /\ nth' = nth /\ exit' = exit /\ exit = Running
          /\ \A s \in Sinks : s # Current => reports'[s] = reports[s]
      BY <2>0, <2>11 DEF OpenOutput, Goto
    <3>2. Current' = Current
      BY <2>0, <3>1 DEF Current, Sink
    <3>3. \A k \in 1..(nth - 1) : reports[Sink(args.formats[k])] = "whole"
      BY <3>1 DEF ExitInv
    <3>4. \A k \in 1..(nth - 1) : Sink(args.formats[k]) \in Sinks
      <4>1. Given
        BY DEF TypeOK, Given
      <4>2. \A k \in 1..(nth - 1) : k \in DOMAIN args.formats
        BY <2>0
      <4> QED BY <4>1, <4>2, SinkInSinks
    <3>5. WholeUpTo(nth - 1)'
      BY <2>0, <3>1, <3>2, <3>3, <3>4 DEF WholeUpTo, Sink
    <3> QED BY <2>4, <3>1, <3>5 DEF ExitInv
  <2>12. CASE WriteReport
    <3>1. /\ pc = "write" /\ pc' = "close" /\ nth' = nth /\ exit' = exit /\ exit = Running
          /\ \A s \in Sinks : s # Current => reports'[s] = reports[s]
          /\ reports'[Current] = "whole"
      BY <2>0, <2>12 DEF WriteReport, Goto
    <3>2. Current' = Current
      BY <2>0, <3>1 DEF Current, Sink
    <3>3. WholeUpTo(nth - 1)'
      BY <2>0, <3>1, <3>2, SinkInSinks DEF WholeUpTo, ExitInv, TypeOK, Given, Sink
    <3> QED BY <2>4, <3>1, <3>2, <3>3 DEF ExitInv
  <2>13. CASE CloseOutput
    <3>1. /\ pc = "close" /\ reports' = reports /\ exit' = exit
          /\ nth = Len(args.formats) => pc' = "gate"
          /\ nth # Len(args.formats) => pc' = "open output" /\ nth' = nth + 1
      BY <2>13 DEF CloseOutput, Goto
    <3>2. \A k \in 1..nth : reports[Sink(args.formats[k])] = "whole"
      <4>1. WholeUpTo(nth - 1) /\ reports[Current] = "whole"
        BY <3>1 DEF ExitInv
      <4> QED BY <2>0, <4>1 DEF WholeUpTo, Current
    <3>3. CASE nth = Len(args.formats)
      <4>1. AllWhole
        BY <2>0, <3>2, <3>3 DEF AllWhole, Requested
      <4> QED BY <2>1, <2>2, <2>3, <3>1, <3>3, <4>1 DEF ExitInv
    <3>4. CASE nth # Len(args.formats)
      <4>1. pc' = "open output"
        BY <3>1, <3>4
      <4>2. nth' = nth + 1
        BY <3>1, <3>4
      <4>3. nth' - 1 = nth
        BY <2>0, <4>2
      <4>4. (\A k \in 1..(nth - 1) : reports[Sink(args.formats[k])] = "whole")'
        BY <2>0, <3>1, <3>2, <4>3 DEF Sink
      <4> QED BY <2>1, <2>3, <3>1, <4>1, <4>4 DEF ExitInv
    <3> QED BY <3>3, <3>4
  <2>14. CASE Gate
    <3>1. /\ pc = "gate" /\ pc' = "cleanup" /\ reports' = reports /\ exit' = exit
          /\ code' = IF MeetsFailOn(world.worst, args.failOn) THEN exitPolicy ELSE exitOK
      BY <2>14 DEF Gate, Return, Goto
    <3>2. Verdict(code)'
      BY <2>0, <2>2, <3>1 DEF ExitInv, Verdict, exitOK, exitPolicy
    <3> QED BY <2>1, <2>3, <3>1, <3>2 DEF ExitInv
  <2>15. CASE CleanupAndExit
    <3>1. pc = "cleanup" /\ pc' = "exited" /\ reports' = reports /\ exit' = code
      BY <2>15 DEF CleanupAndExit, Goto
    <3> QED BY <2>3, <3>1 DEF ExitInv
  <2>16. CASE Kill \/ Terminating \/ UNCHANGED vars
    <3>1. /\ pc' = pc /\ nth' = nth /\ reports' = reports /\ code' = code
          /\ exit' = exit \/ exit' = Killed
      BY <2>16 DEF Kill, Terminating, vars
    <3>2. Current' = Current
      BY <2>0, <3>1 DEF Current, Sink
    <3>3. (Verdict(code) => Verdict(code)') /\ (Scanned' => Verdict(exit)')
      BY <2>1, <2>3, <2>4, <3>1 DEF ExitInv
    <3>4. WholeUpTo(nth - 1) => WholeUpTo(nth - 1)'
      BY <2>0, <3>1, <3>2 DEF WholeUpTo, Sink
    <3> QED BY <2>0, <2>2, <3>1, <3>2, <3>3, <3>4 DEF ExitInv, Sink
  <2> QED BY <2>6, <2>7, <2>8, <2>9, <2>10, <2>11, <2>12, <2>13, <2>14, <2>15, <2>16 DEF Next, Command
<1>3. ExitInv => ExitTellsTheTruth
  BY DEF ExitInv, ExitTellsTheTruth, Verdict, AllWhole
<1> QED BY TypeCorrect, <1>1, <1>2, <1>3, PTL DEF Spec
-----------------------------------------------------------------------------
(* A name that is new comes last. *)
LEMMA RegisterNew ==
  ASSUME NEW T, NEW registry \in Seq(T), NEW name \in T, name \notin ToSet(registry)
  PROVE  /\ Register(registry, name) \in Seq(T)
         /\ Len(Register(registry, name)) = Len(registry) + 1
         /\ \A k \in 1..Len(registry) : Register(registry, name)[k] = registry[k]
         /\ Register(registry, name)[Len(registry) + 1] = name
<1>1. Register(registry, name) = Append(registry, name)
  BY DEF Register
<1>2. Append(registry, name) \in Seq(T) /\ Len(Append(registry, name)) = Len(registry) + 1
  BY AppendProperties
<1>3. \A k \in 1..Len(registry) : Append(registry, name)[k] = registry[k]
  BY AppendProperties
<1>4. Append(registry, name)[Len(registry) + 1] = name
  BY AppendProperties
<1> QED BY <1>1, <1>2, <1>3, <1>4

(* The four detectors are registered once each. *)
LEMMA TheRegistry ==
  DOMAIN All = {1, 2, 3, 4} /\ All[1] = "certs" /\ All[2] = "config" /\ All[3] = "deps" /\ All[4] = "source"
<1> DEFINE T == {"certs", "config", "deps", "source"}
           a == Register(<< >>, "certs")
           b == Register(a, "config")
           c == Register(b, "deps")
           d == Register(c, "source")
<1>0. /\ 1..0 = {} /\ 1..1 = {1} /\ 1..2 = {1, 2} /\ 1..3 = {1, 2, 3} /\ 1..4 = {1, 2, 3, 4}
      /\ 0 + 1 = 1 /\ 1 + 1 = 2 /\ 2 + 1 = 3 /\ 3 + 1 = 4
  OBVIOUS
<1>t. "certs" \in T /\ "config" \in T /\ "deps" \in T /\ "source" \in T
  OBVIOUS
<1> HIDE DEF T
<1>1. a \in Seq(T) /\ Len(a) = 1 /\ a[1] = "certs"
  <2>1. << >> \in Seq(T) /\ Len(<< >>) = 0
    OBVIOUS
  <2>2. "certs" \notin ToSet(<< >>)
    BY DEF ToSet
  <2>3. a \in Seq(T) /\ Len(a) = Len(<< >>) + 1 /\ a[Len(<< >>) + 1] = "certs"
    BY <2>1, <2>2, <1>t, RegisterNew
  <2>4. Len(<< >>) + 1 = 1
    BY <2>1
  <2> QED BY <2>3, <2>4
<1> HIDE DEF a
<1>2. b \in Seq(T) /\ Len(b) = 2 /\ b[1] = "certs" /\ b[2] = "config"
  <2>1. DOMAIN a = {1} /\ 1..Len(a) = {1}
    BY <1>0, <1>1
  <2>2. "config" \notin ToSet(a) /\ a \in Seq(T)
    BY <1>1, <2>1 DEF ToSet
  <2>3. b \in Seq(T) /\ Len(b) = Len(a) + 1 /\ b[Len(a) + 1] = "config"
    BY <1>t, <2>2, RegisterNew
  <2>4. \A k \in 1..Len(a) : b[k] = a[k]
    BY <1>t, <2>2, RegisterNew
  <2>5. Len(a) + 1 = 2
    BY <1>1
  <2>6. b[1] = a[1]
    BY <2>1, <2>4
  <2> QED BY <1>1, <2>3, <2>5, <2>6
<1> HIDE DEF b
<1>3. c \in Seq(T) /\ Len(c) = 3 /\ c[1] = "certs" /\ c[2] = "config" /\ c[3] = "deps"
  <2>1. DOMAIN b = {1, 2} /\ 1..Len(b) = {1, 2}
    BY <1>0, <1>2
  <2>2. "deps" \notin ToSet(b) /\ b \in Seq(T)
    BY <1>2, <2>1 DEF ToSet
  <2>3. c \in Seq(T) /\ Len(c) = Len(b) + 1 /\ c[Len(b) + 1] = "deps"
    BY <1>t, <2>2, RegisterNew
  <2>4. \A k \in 1..Len(b) : c[k] = b[k]
    BY <1>t, <2>2, RegisterNew
  <2>5. Len(b) + 1 = 3
    BY <1>2
  <2>6. c[1] = b[1] /\ c[2] = b[2]
    BY <2>1, <2>4
  <2> QED BY <1>2, <2>3, <2>5, <2>6
<1> HIDE DEF c
<1>4. d \in Seq(T) /\ Len(d) = 4 /\ d[1] = "certs" /\ d[2] = "config" /\ d[3] = "deps" /\ d[4] = "source"
  <2>1. DOMAIN c = {1, 2, 3} /\ 1..Len(c) = {1, 2, 3}
    BY <1>0, <1>3
  <2>2. "source" \notin ToSet(c) /\ c \in Seq(T)
    BY <1>3, <2>1 DEF ToSet
  <2>3. d \in Seq(T) /\ Len(d) = Len(c) + 1 /\ d[Len(c) + 1] = "source"
    BY <1>t, <2>2, RegisterNew
  <2>4. \A k \in 1..Len(c) : d[k] = c[k]
    BY <1>t, <2>2, RegisterNew
  <2>5. Len(c) + 1 = 4
    BY <1>3
  <2>6. d[1] = c[1] /\ d[2] = c[2] /\ d[3] = c[3]
    BY <2>1, <2>4
  <2> QED BY <1>3, <2>3, <2>5, <2>6
<1> HIDE DEF d
<1>5. DOMAIN d = {1, 2, 3, 4}
  BY <1>0, <1>4
<1> QED BY <1>4, <1>5 DEF All, a, b, c, d

(* activeDetectors hands the two paths on, and the added directories. *)
LEMMA HandedOn ==
  ASSUME NEW opt
  PROVE  /\ TheOne("deps", ActiveDetectors(opt)) = Configured("deps", opt.catalog, << >>)
         /\ TheOne("source", ActiveDetectors(opt)) = Configured("source", opt.rulesDir, opt.added)
<1> DEFINE D == ActiveDetectors(opt)
<1>1. DOMAIN All = {1, 2, 3, 4} /\ All[1] = "certs" /\ All[2] = "config" /\ All[3] = "deps" /\ All[4] = "source"
  BY TheRegistry
<1>3. DOMAIN D = {1, 2, 3, 4}
  BY <1>1 DEF ActiveDetectors
<1>4. /\ D[3] = Configured("deps", opt.catalog, << >>)
      /\ D[4] = Configured("source", opt.rulesDir, opt.added)
      /\ D[1] = Configured("certs", Embedded, << >>)
      /\ D[2] = Configured("config", Embedded, << >>)
  BY <1>1 DEF ActiveDetectors
<1>5. D[1].name = "certs" /\ D[2].name = "config" /\ D[3].name = "deps" /\ D[4].name = "source"
  BY <1>4 DEF Configured
<1> HIDE DEF D
<1>6. (CHOOSE k \in DOMAIN D : D[k].name = "deps") = 3
  BY <1>3, <1>5
<1>7. (CHOOSE k \in DOMAIN D : D[k].name = "source") = 4
  BY <1>3, <1>5
<1>8. TheOne("deps", D) = D[3] /\ TheOne("source", D) = D[4]
  BY <1>6, <1>7 DEF TheOne
<1> QED BY <1>4, <1>8 DEF D

(* What the search of the command has found stays what the scan is given. *)
PlacesInv ==
  /\ pc = "find rules" => places.catalog = FindDefaultCatalog(world.levels)
  /\ HasRules =>
       /\ places.catalog = FindDefaultCatalog(world.levels)
       /\ places.rulesDir = FindDefaultRulesDir(world.levels)

LEMMA PlacesInvariance == Spec => []PlacesInv
<1>1. Init => PlacesInv
  BY DEF Init, PlacesInv, HasRules
<1>2. TypeOK /\ PlacesInv /\ [Next]_vars => PlacesInv'
  <2> SUFFICES ASSUME TypeOK, PlacesInv, [Next]_vars PROVE PlacesInv'
    OBVIOUS
  <2>1. args' = args /\ world' = world
    BY WhatStepsChange
  <2>2. DOMAIN places = {"catalog", "rulesDir"}
    BY DEF TypeOK
  <2> USE DEF Exit, Return, Goto, given, HasRules
  <2>3. CASE FindCatalog
    BY <2>1, <2>2, <2>3 DEF FindCatalog, PlacesInv
  <2>4. CASE FindRules
    BY <2>1, <2>2, <2>4 DEF FindRules, PlacesInv
  <2>5. CASE OtherCommand \/ RefuseArguments \/ StartScan \/ ResolveFails \/ ResolveLocal \/ MakeTempDir
             \/ CloneFails \/ Clones
    <3>1. pc' \in {"resolve", "git clone", "find catalog", "exited"}
      BY <2>5 DEF OtherCommand, RefuseArguments, StartScan, ResolveFails, ResolveLocal, MakeTempDir, CloneFails, Clones
    <3> QED BY <3>1 DEF PlacesInv
  <2>6. CASE FindFails \/ PipelineFails \/ OpenRefused \/ CreateFails \/ WriteUnsupported \/ WriteFails
             \/ CloseFails \/ Gate \/ CleanupAndExit
    <3>1. pc' \in {"cleanup", "exited"}
      BY <2>6 DEF FindFails, PipelineFails, OpenRefused, CreateFails, WriteUnsupported, WriteFails, CloseFails,
         Gate, CleanupAndExit
    <3> QED BY <3>1 DEF PlacesInv
  <2>7. CASE PipelineReturns \/ OpenOutput \/ WriteReport \/ CloseOutput
    <3>1. /\ pc \in {"pipeline", "open output", "write", "close"} /\ pc' # "find rules"
          /\ places' = places
      BY <2>7 DEF PipelineReturns, OpenOutput, WriteReport, CloseOutput
    <3> QED BY <2>1, <3>1 DEF PlacesInv
  <2>8. CASE Kill \/ Terminating \/ UNCHANGED vars
    <3>1. pc' = pc /\ places' = places
      BY <2>8 DEF Kill, Terminating, vars
    <3> QED BY <2>1, <3>1 DEF PlacesInv
  <2> QED BY <2>3, <2>4, <2>5, <2>6, <2>7, <2>8 DEF Next, Command
<1> QED BY TypeCorrect, <1>1, <1>2, PTL DEF Spec

(* The nearest of more candidates is nearer. *)
LEMMA NearestOfMore ==
  ASSUME NEW n \in Nat, NEW A \in SUBSET (1..n), NEW B \in SUBSET (1..n), A \subseteq B,
         Nearest(A) # Embedded
  PROVE  Nearest(B) \in 1..Nearest(A) /\ Nearest(A) \in A
<1>1. A # {} /\ B # {}
  BY DEF Nearest
<1>2. Nearest(A) \in A /\ Nearest(B) \in B /\ Nearest(B) =< Nearest(A)
  BY <1>1, NearestIsNearest
<1>3. \A x, y \in 1..n : x =< y => x \in 1..y
  OBVIOUS
<1>4. Nearest(A) \in 1..n /\ Nearest(B) \in 1..n
  BY <1>2
<1> QED BY <1>2, <1>3, <1>4

(* A level that has a catalog has a directory of rules. *)
LEMMA CatalogAmongPacks ==
  ASSUME NEW levels \in Seq(Level), FindDefaultCatalog(levels) # Embedded
  PROVE  FindDefaultRulesDir(levels) \in 1..FindDefaultCatalog(levels)
<1> DEFINE n == Len(levels)
           A == {k \in DOMAIN levels : levels[k].catalog # "none"}
           B == {k \in DOMAIN levels : levels[k].packs # "none"}
<1>1. n \in Nat /\ DOMAIN levels = 1..n
  OBVIOUS
<1>2. \A k \in DOMAIN levels : levels[k].catalog # "none" => levels[k].packs # "none"
  BY <1>1 DEF Level
<1>3. A \in SUBSET (1..n) /\ B \in SUBSET (1..n) /\ A \subseteq B
  BY <1>1, <1>2
<1>4. FindDefaultCatalog(levels) = Nearest(A) /\ FindDefaultRulesDir(levels) = Nearest(B)
  BY DEF FindDefaultCatalog, FindDefaultRulesDir
<1> HIDE DEF n, A, B
<1>5. Nearest(B) \in 1..Nearest(A)
  BY <1>1, <1>3, <1>4, NearestOfMore
<1> QED BY <1>4, <1>5

(* The added directories come after the place that the search has found. *)
LEMMA PlacesInOrder ==
  ASSUME NEW levels \in Seq(Level), NEW d, NEW m \in Nat, DOMAIN d.added = 1..m
  PROVE  /\ DOMAIN PackPlaces(levels, d) = 1..(m + 1)
         /\ PackPlaces(levels, d)[1] = IF d.place # Embedded THEN d.place ELSE FindDefaultRulesDir(levels)
         /\ \A k \in 1..m : PackPlaces(levels, d)[k + 1] = Len(levels) + k
<1> DEFINE base == IF d.place # Embedded THEN d.place ELSE FindDefaultRulesDir(levels)
           n == Len(levels)
           added == [k \in 1..m |-> n + k]
<1>0. n \in Nat
  OBVIOUS
<1>1. PackPlaces(levels, d) = <<base>> \o added
  BY DEF PackPlaces
<1> HIDE DEF n
<1>2. added \in Seq(Nat) /\ Len(added) = m /\ \A k \in 1..m : added[k] = n + k
  BY <1>0
<1> HIDE DEF base, added
<1>3. /\ DOMAIN (<<base>> \o added) = 1..(m + 1)
      /\ (<<base>> \o added)[1] = base
  BY <1>2
<1>4. \A k \in 1..m : (<<base>> \o added)[k + 1] = added[k]
  BY <1>2
<1> QED BY <1>1, <1>2, <1>3, <1>4 DEF base, n

(* The source detector reads every place, or refuses. *)
LEMMA LoadedOrRefused ==
  ASSUME NEW levels, NEW d, EnsurePacks(levels, d).invalid = << >>
  PROVE  /\ EnsurePacks(levels, d).places = PackPlaces(levels, d)
         /\ EnsurePacks(levels, d).giving =
              {p \in ToSet(PackPlaces(levels, d)) : PacksAt(levels, d, p) = "valid"}
         /\ \A k \in DOMAIN PackPlaces(levels, d) :
              PacksAt(levels, d, PackPlaces(levels, d)[k]) \notin {"none", "invalid"}
<1> DEFINE sought == PackPlaces(levels, d)
           Bad == {k \in DOMAIN sought : PacksAt(levels, d, sought[k]) \in {"none", "invalid"}}
           useful == {p \in ToSet(sought) : PacksAt(levels, d, p) = "valid"}
<1>1. EnsurePacks(levels, d) = IF Bad # {} THEN Refused(sought[Min(Bad)]) ELSE Loaded(sought, useful)
  BY DEF EnsurePacks
<1>2. Bad = {}
  BY <1>1 DEF Refused
<1>3. EnsurePacks(levels, d) = Loaded(sought, useful)
  BY <1>1, <1>2
<1>4. EnsurePacks(levels, d).places = sought /\ EnsurePacks(levels, d).giving = useful
  BY <1>3 DEF Loaded
<1> QED BY <1>2, <1>4

(* The fields of a situation that the loading of rules depends on. *)
LEMMA GivenRules ==
  ASSUME Given
  PROVE  /\ world.levels \in Seq(Level) /\ Len(world.levels) \in Nat
         /\ DOMAIN world.levels = 1..Len(world.levels)
         /\ Len(args.rules) \in Nat /\ DOMAIN args.rules = 1..Len(args.rules)
<1>1. args \in CommandLines /\ world.levels \in Seq(Level)
  BY SituationsAssumption, GivenFields DEF Given
<1>2. args.rules \in Seq({"unrelated", "valid", "invalid"})
  BY <1>1 DEF CommandLines
<1>3. Len(args.rules) \in Nat /\ DOMAIN args.rules = 1..Len(args.rules)
  BY <1>2
<1>4. Len(world.levels) \in Nat /\ DOMAIN world.levels = 1..Len(world.levels)
  BY <1>1
<1> QED BY <1>1, <1>3, <1>4

(* What a scan loads, by what the search of the command has found. *)
LEMMA WhatIsLoaded ==
  ASSUME PlacesInv, HasRules
  PROVE  /\ places.catalog = FindDefaultCatalog(world.levels)
         /\ places.rulesDir = FindDefaultRulesDir(world.levels)
         /\ Catalog = EnsureCatalog(world.levels, Configured("deps", places.catalog, << >>))
         /\ Packs = EnsurePacks(world.levels, Configured("source", places.rulesDir, args.rules))
<1>1. places.catalog = FindDefaultCatalog(world.levels) /\ places.rulesDir = FindDefaultRulesDir(world.levels)
  BY DEF PlacesInv
<1>2. Options.catalog = places.catalog /\ Options.rulesDir = places.rulesDir /\ Options.added = args.rules
  BY DEF Options
<1>3. /\ TheOne("deps", ActiveDetectors(Options)) = Configured("deps", Options.catalog, << >>)
      /\ TheOne("source", ActiveDetectors(Options)) = Configured("source", Options.rulesDir, Options.added)
  BY HandedOn
<1> QED BY <1>1, <1>2, <1>3 DEF Catalog, Packs

(* The search ends at the nearest of the levels that have what is sought.           *)
LEMMA SearchIsNearest ==
  ASSUME NEW n \in Nat, NEW candidates \in SUBSET (1..n)
  PROVE  IsNearest(Nearest(candidates), candidates)
<1>1. CASE candidates = {}
  BY <1>1 DEF Nearest, IsNearest
<1>2. CASE candidates # {}
  BY <1>2, NearestIsNearest DEF IsNearest
<1> QED BY <1>1, <1>2

(* The catalog comes from one place, that which was handed over, or what the detector  *)
(* finds if nothing was.                                                          *)
LEMMA CatalogTried ==
  ASSUME NEW levels, NEW d
  PROVE  Tried(EnsureCatalog(levels, d)) = {IF d.place # Embedded THEN d.place ELSE FindDefaultCatalog(levels)}
<1> DEFINE place == IF d.place # Embedded THEN d.place ELSE FindDefaultCatalog(levels)
<1>1. EnsureCatalog(levels, d) \in {Refused(place), Loaded(<<place>>, {place})}
  BY DEF EnsureCatalog
<1> HIDE DEF place
<1>2. Tried(Refused(place)) = {place} /\ Tried(Loaded(<<place>>, {place})) = {place}
  BY DEF Tried, Refused, Loaded, ToSet
<1> QED BY <1>1, <1>2 DEF place

(* Packs are loaded from the places they are sought at, and refused at one of them.   *)
LEMMA PacksTried ==
  ASSUME NEW levels, NEW d, NEW m \in Nat, DOMAIN PackPlaces(levels, d) = 1..m
  PROVE  \A p \in Tried(EnsurePacks(levels, d)) : \E k \in 1..m : p = PackPlaces(levels, d)[k]
<1> DEFINE sought == PackPlaces(levels, d)
           Bad == {k \in DOMAIN sought : PacksAt(levels, d, sought[k]) \in {"none", "invalid"}}
           useful == {p \in ToSet(sought) : PacksAt(levels, d, p) = "valid"}
<1>1. EnsurePacks(levels, d) = IF Bad # {} THEN Refused(sought[Min(Bad)]) ELSE Loaded(sought, useful)
  BY DEF EnsurePacks
<1>2. DOMAIN sought = 1..m /\ Bad \in SUBSET (1..m)
  OBVIOUS
<1> HIDE DEF sought, Bad, useful
<1>3. CASE Bad # {}
  <2>1. Min(Bad) \in 1..m
    BY <1>2, <1>3, NearestIsNearest DEF Nearest
  <2>2. Tried(Refused(sought[Min(Bad)])) = {sought[Min(Bad)]}
    BY DEF Tried, Refused, ToSet
  <2> QED BY <1>1, <1>3, <2>1, <2>2 DEF sought
<1>4. CASE Bad = {}
  <2>1. Tried(Loaded(sought, useful)) = {sought[k] : k \in 1..m}
    BY <1>2 DEF Tried, Loaded, ToSet
  <2> QED BY <1>1, <1>4, <2>1 DEF sought
<1> QED BY <1>3, <1>4

(* A scan uses the rules and the catalog of the nearest levels that have them, and    *)
(* those in the binary only if no level has any, whichever of the two searches has    *)
(* found them.                                                                    *)
THEOREM NearestRulesAreUsed == Spec => []DefaultsAsDocumented
<1>1. TypeOK /\ PlacesInv => DefaultsAsDocumented
  <2> DEFINE n == Len(world.levels)
             m == Len(args.rules)
             d == Configured("source", places.rulesDir, args.rules)
             c == FindDefaultCatalog(world.levels)
             r == FindDefaultRulesDir(world.levels)
  <2> SUFFICES ASSUME TypeOK, PlacesInv, HasRules
               PROVE  DefaultsAsDocumented
    BY DEF DefaultsAsDocumented
  <2>1. /\ world.levels \in Seq(Level) /\ n \in Nat /\ DOMAIN world.levels = 1..n
        /\ m \in Nat /\ DOMAIN args.rules = 1..m
    BY GivenRules DEF TypeOK, Given
  <2>2. IsNearest(c, CatalogLevels) /\ IsNearest(r, PackLevels)
    <3>1. CatalogLevels \in SUBSET (1..n) /\ PackLevels \in SUBSET (1..n)
      BY <2>1 DEF CatalogLevels, PackLevels
    <3>2. c = Nearest(CatalogLevels) /\ r = Nearest(PackLevels)
      BY DEF FindDefaultCatalog, FindDefaultRulesDir, CatalogLevels, PackLevels
    <3> QED BY <2>1, <3>1, <3>2, SearchIsNearest
  <2>3. c \in 0..n /\ r \in 0..n
    BY <2>1, SearchEnds
  <2>4. Tried(Catalog) = {c}
    <3> DEFINE e == Configured("deps", places.catalog, << >>)
    <3>1. Catalog = EnsureCatalog(world.levels, e) /\ e.place = c
      BY WhatIsLoaded DEF Configured
    <3> HIDE DEF e
    <3> QED BY <3>1, CatalogTried
  <2>5. /\ Packs = EnsurePacks(world.levels, d)
        /\ d.place = r /\ d.added = args.rules
    BY WhatIsLoaded DEF Configured
  <2> HIDE DEF n, m, d, c, r
  <2>6. /\ DOMAIN PackPlaces(world.levels, d) = 1..(m + 1)
        /\ PackPlaces(world.levels, d)[1] = r
        /\ \A k \in 1..m : PackPlaces(world.levels, d)[k + 1] = n + k
    <3>1. DOMAIN d.added = 1..m
      BY <2>1, <2>5
    <3>2. DOMAIN PackPlaces(world.levels, d) = 1..(m + 1)
      BY <2>1, <3>1, PlacesInOrder
    <3>3. PackPlaces(world.levels, d)[1] = r
      <4>1. PackPlaces(world.levels, d)[1] =
              IF d.place # Embedded THEN d.place ELSE FindDefaultRulesDir(world.levels)
        BY <2>1, <3>1, PlacesInOrder
      <4> QED BY <2>5, <4>1 DEF r
    <3>4. \A k \in 1..m : PackPlaces(world.levels, d)[k + 1] = n + k
      BY <2>1, <3>1, PlacesInOrder DEF n
    <3> QED BY <3>2, <3>3, <3>4
  <2>7. \A p \in Tried(Packs) : p <= n => p = r
    <3> SUFFICES ASSUME NEW p \in Tried(Packs), p <= n PROVE p = r
      OBVIOUS
    <3>1. PICK k \in 1..(m + 1) : p = PackPlaces(world.levels, d)[k]
      BY <2>1, <2>5, <2>6, PacksTried
    <3>2. CASE k = 1
      BY <2>6, <3>1, <3>2
    <3>3. CASE k # 1
      <4>1. k - 1 \in 1..m /\ (k - 1) + 1 = k
        BY <2>1, <3>3
      <4>2. p = n + (k - 1)
        BY <2>6, <3>1, <4>1
      <4> QED BY <2>1, <4>1, <4>2
    <3> QED BY <3>2, <3>3
  <2>8. Packs.invalid = << >> => Packs.places[1] <= n
    <3>1. Packs.invalid = << >> => Packs.places = PackPlaces(world.levels, d)
      BY <2>5, LoadedOrRefused
    <3> QED BY <2>1, <2>3, <2>6, <3>1
  <2>9. c # Embedded => r \in 1..c
    BY <2>1, CatalogAmongPacks DEF c, r
  <2> QED BY <2>2, <2>4, <2>7, <2>8, <2>9 DEF DefaultsAsDocumented, n
<1> QED BY TypeCorrect, PlacesInvariance, <1>1, PTL

(* What is found at a place: the packs of a level, or an added directory.          *)
LEMMA WhatIsThere ==
  ASSUME NEW levels \in Seq(Level), NEW d
  PROVE  /\ \A place : place = Embedded => PacksAt(levels, d, place) = "valid"
         /\ \A place \in 1..Len(levels) : PacksAt(levels, d, place) = levels[place].packs
         /\ \A k \in Nat \ {0} : PacksAt(levels, d, Len(levels) + k) = d.added[k]
<1> DEFINE n == Len(levels)
<1>0. n \in Nat /\ DOMAIN levels = 1..n /\ Len(levels) = n
  OBVIOUS
<1> HIDE DEF n
<1>1. \A place : place = Embedded => PacksAt(levels, d, place) = "valid"
  BY <1>0 DEF PacksAt, Embedded
<1>2. \A place \in 1..n : PacksAt(levels, d, place) = levels[place].packs
  BY <1>0 DEF PacksAt, Embedded
<1>3. ASSUME NEW k \in Nat \ {0}
      PROVE  PacksAt(levels, d, n + k) = d.added[k]
  <2>1. n + k # Embedded /\ n + k \notin DOMAIN levels /\ n + k - n = k
    BY <1>0 DEF Embedded
  <2> DEFINE place == n + k
  <2> HIDE DEF place
  <2>2. PacksAt(levels, d, place) = d.added[place - n]
    BY <1>0, <2>1 DEF PacksAt, place
  <2>3. place - n = k
    BY <1>0 DEF place
  <2>4. PacksAt(levels, d, place) = d.added[k]
    BY <2>2, <2>3
  <2> QED BY <2>4 DEF place
<1> QED BY <1>1, <1>2, <1>3 DEF n

(* Places in the order of the search: the first is a level or the binary, the others  *)
(* are numbered upwards from the last level.                                       *)
LEMMA Ascending ==
  ASSUME NEW n \in Nat, NEW m \in Nat, NEW f, f[1] \in 0..n, \A k \in 1..m : f[k + 1] = n + k
  PROVE  \A i, j \in 1..(m + 1) : i < j => f[j] > f[i] /\ f[j] > n
<1> SUFFICES ASSUME NEW i \in 1..(m + 1), NEW j \in 1..(m + 1), i < j
             PROVE  f[j] > f[i] /\ f[j] > n
  OBVIOUS
<1>1. j - 1 \in 1..m /\ (j - 1) + 1 = j
  OBVIOUS
<1>2. f[j] = n + (j - 1)
  BY <1>1
<1>3. i = 1 \/ (i - 1 \in 1..m /\ (i - 1) + 1 = i)
  OBVIOUS
<1>4. f[i] \in 0..n \/ f[i] = n + (i - 1)
  BY <1>3
<1> QED BY <1>2, <1>4

(* No scan that has rule packs goes on without a directory that it was told to add,  *)
(* nor without the default packs, and later directories come later.               *)
THEOREM AddedDirectoriesAreRead == Spec => []AddedRulesUsed
<1>1. TypeOK /\ PlacesInv => AddedRulesUsed
  <2> DEFINE n == Len(world.levels)
             m == Len(args.rules)
             d == Configured("source", places.rulesDir, args.rules)
             sought == PackPlaces(world.levels, d)
  <2> SUFFICES ASSUME TypeOK, PlacesInv, HasRules, Packs.invalid = << >>
               PROVE  /\ \A k \in DOMAIN args.rules :
                           args.rules[k] = "valid" => n + k \in Packs.giving
                      /\ \A k \in DOMAIN args.rules : args.rules[k] # "invalid"
                      /\ \A i, j \in DOMAIN Packs.places :
                           i < j => Packs.places[j] > Packs.places[i] /\ Packs.places[j] > n
                      /\ (\A k \in DOMAIN world.levels : world.levels[k].packs # "unrelated") =>
                           \E k \in DOMAIN Packs.places :
                             Packs.places[k] <= n /\ Packs.places[k] \in Packs.giving
    BY DEF AddedRulesUsed
  <2>1. /\ world.levels \in Seq(Level) /\ n \in Nat /\ DOMAIN world.levels = 1..n
        /\ m \in Nat /\ DOMAIN args.rules = 1..m
    BY GivenRules DEF TypeOK, Given
  <2>2. Packs = EnsurePacks(world.levels, d) /\ places.rulesDir = FindDefaultRulesDir(world.levels)
    BY WhatIsLoaded
  <2>3. /\ Packs.places = sought
        /\ Packs.giving = {p \in ToSet(sought) : PacksAt(world.levels, d, p) = "valid"}
        /\ \A k \in DOMAIN sought : PacksAt(world.levels, d, sought[k]) \notin {"none", "invalid"}
    BY <2>2, LoadedOrRefused
  <2>4. d.added = args.rules /\ d.place = places.rulesDir
    BY DEF Configured
  <2>5. /\ DOMAIN sought = 1..(m + 1)
        /\ sought[1] = FindDefaultRulesDir(world.levels)
        /\ \A k \in 1..m : sought[k + 1] = n + k
    <3> HIDE DEF d, m
    <3>1. DOMAIN d.added = 1..m
      BY <2>1, <2>4
    <3>2. DOMAIN sought = 1..(m + 1)
      BY <2>1, <3>1, PlacesInOrder
    <3>3. sought[1] = IF d.place # Embedded THEN d.place ELSE FindDefaultRulesDir(world.levels)
      BY <2>1, <3>1, PlacesInOrder
    <3>4. \A k \in 1..m : sought[k + 1] = n + k
      BY <2>1, <3>1, PlacesInOrder
    <3> QED BY <2>2, <2>4, <3>2, <3>3, <3>4
  <2>6. sought[1] \in 0..n
    BY <2>1, <2>5, SearchEnds
  <2>7. /\ \A place : place = Embedded => PacksAt(world.levels, d, place) = "valid"
        /\ \A place \in 1..n : PacksAt(world.levels, d, place) = world.levels[place].packs
        /\ \A k \in Nat \ {0} : PacksAt(world.levels, d, n + k) = d.added[k]
    BY <2>1, WhatIsThere
  <2>8. \A k \in 1..m : /\ k + 1 \in DOMAIN sought
                       /\ sought[k + 1] = n + k
                       /\ PacksAt(world.levels, d, n + k) = args.rules[k]
    <3> HIDE DEF n, m, d, sought
    <3>1. \A k \in 1..m : k + 1 \in DOMAIN sought /\ sought[k + 1] = n + k
      BY <2>1, <2>5
    <3>2. \A k \in 1..m : PacksAt(world.levels, d, n + k) = args.rules[k]
      BY <2>1, <2>4, <2>7
    <3> QED BY <3>1, <3>2
  <2> HIDE DEF n, m, d, sought
  <2>9. \A k \in DOMAIN args.rules : args.rules[k] = "valid" => n + k \in Packs.giving
    BY <2>1, <2>3, <2>8 DEF ToSet
  <2>10. \A k \in DOMAIN args.rules : args.rules[k] # "invalid"
    BY <2>1, <2>3, <2>8
  <2>11. \A i, j \in DOMAIN Packs.places :
           i < j => Packs.places[j] > Packs.places[i] /\ Packs.places[j] > n
    <3>1. \A i, j \in 1..(m + 1) : i < j => sought[j] > sought[i] /\ sought[j] > n
      BY <2>1, <2>5, <2>6, Ascending
    <3> QED BY <2>3, <2>5, <3>1
  <2>12. ASSUME \A k \in DOMAIN world.levels : world.levels[k].packs # "unrelated"
         PROVE  \E k \in DOMAIN Packs.places : Packs.places[k] <= n /\ Packs.places[k] \in Packs.giving
    <3>1. 1 \in DOMAIN sought /\ sought[1] <= n
      BY <2>1, <2>5, <2>6
    <3>2. PacksAt(world.levels, d, sought[1]) = "valid"
      <4>1. CASE sought[1] = Embedded
        BY <2>7, <4>1
      <4>2. CASE sought[1] # Embedded
        <5>1. sought[1] \in 1..n
          BY <2>1, <2>6, <4>2 DEF Embedded
        <5>2. PacksAt(world.levels, d, sought[1]) = world.levels[sought[1]].packs
          BY <2>7, <5>1
        <5>3. world.levels[sought[1]] \in Level /\ world.levels[sought[1]].packs # "unrelated"
          BY <2>1, <2>12, <5>1
        <5>4. world.levels[sought[1]].packs \notin {"none", "invalid"}
          BY <2>3, <3>1, <5>2
        <5> QED BY <5>2, <5>3, <5>4 DEF Level
      <4> QED BY <4>1, <4>2
    <3>3. sought[1] \in Packs.giving
      BY <2>3, <3>1, <3>2 DEF ToSet
    <3> QED BY <2>3, <3>1, <3>3
  <2> QED BY <2>9, <2>10, <2>11, <2>12 DEF n
<1> QED BY TypeCorrect, PlacesInvariance, <1>1, PTL
=============================================================================
