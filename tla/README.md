# Verification of cryptarium

cryptarium reads a source tree, finds the cryptography in it (calls in source
code, libraries in `go.mod`, certificates and keys, TLS and JSON configuration),
correlates what it found, scores it by quantum risk, writes reports and sets an
exit code for CI. This directory models that program in TLA+, model-checks the
models with TLC and proves theorems about them with TLAPS. Paths below are
relative to the repository root.

Contents: 1 inventory, 2 modules, 3 runs, 4 fairness, 5 proofs, 6 disagreements
found, 7 what is not modelled, 8 plan, 9 how to run.

## 1. Inventory

The data flow is one line:

    main.runScan -> collector.Resolve -> rules.FindDefault* -> pipeline.Run
      pipeline.Run: collector.Walk -> activeDetectors
                    -> one goroutine per (file, detector): Detect
                    -> sort -> correlate.AllLinks -> score.All
    -> report.Write per format -> --fail-on gate -> Cleanup -> exit code

| Component (source) | State it keeps | Operations | What is hard | What makes it correct |
|---|---|---|---|---|
| Command line (`cmd/cryptarium`) | arguments, open output, exit code | run, runScan, openOutput | every return must pass the deferred cleanup or come before there is something to clean; several reports, of which any may fail | exit 0/1 only with all reports whole; the gate tells the truth; earlier reports survive a scan that cannot run |
| Target (`internal/collector/resolve.go`) | temporary clone directory | Resolve, cloneRemote, Cleanup | failure between MkdirTemp and the end of git | the clone stays while it is read, and every exit of main has tried to remove it |
| Walk (`internal/collector/walk.go`) | files found so far | Walk and its callback | the tree changes while it is read; `fs.SkipDir`; cancellation | a success lists everything that stayed, nothing else, in path order; a failure has a cause |
| Pipeline (`internal/pipeline`) | shared slices `findings`, `warnings`, semaphore, wait group, mutex, context | Run, its goroutines, sortFindings | all interleavings; cancellation half way | complete or failed, never partial; the same listing for every schedule; bounded concurrency; it ends |
| Detector contract and registry (`internal/detector`) | map of detectors under an RWMutex | Register, All, Detect | Detect runs concurrently on one shared detector value; registered detectors know no rules directories | the answer depends on the file and the rules only; the detectors that run are the configured ones |
| Dependency detector (`internal/detector/deps`) | `loaded`, `catalogErr`, `catalog`, with no lock | ensureCatalog, detectGoMod | lazy load by concurrent goroutines | every manifest gets its findings or its error |
| Source detector (`internal/detector/source`) | `loaded`, `err`, `packs` under `mu`; package-wide `parseMu` | ensurePacks, packsFor, Detect, matchCalls, matchIdentifiers, regexFallback | lazy load, a read without the lock, partial load of several directories, one rule that fails; packages told by imports, aliases and last names | packs load once, all or none; parses run alone; findings up to an error come with the error; a call of the rule's package is reported and one of another is not |
| Certificate detector (`internal/detector/certs`) | none | PEM loop, PKCS#12 passwords, DER | one bad block among good ones | what the decoders hand over is answered for by a finding or by the error, wherever it is in the file |
| Configuration detector (`internal/detector/config`) | none | three line scanners, JSON walk, tables of algorithms | several primitives on a line and in a name, over-long lines, JSON that does not parse | each known name in force on a line that is read gives a finding for every role it tells; nothing comes from a comment, or twice |
| Rule loading (`internal/rules`, `rules`) | none (files, embedded files) | search upwards, load, validate | shadowing, two searches that must agree, invalid packs among valid ones | the nearest rules on disk or the embedded ones, the added ones after them, or an error |
| Correlation (`internal/correlate`) | union-find forest, clusters | Link, Materialize, AllLinks | a link relation that is not transitive; identifiers that are not unique | clusters are connected components; nothing is dropped or played down |
| Classification, scoring (`internal/classify`, `internal/score`) | none | Classify, Score, MeetsFailOn | integer arithmetic against bands | priority never contradicts the class |
| Finding identifiers (`internal/model`) | none | FindingID | leaves out the column | used as sort key and to tell members apart |
| Reports (`internal/report`) | none | json, markdown, cbom, sarif | errors part of the way; one sorts and the others do not; results that refer to rule descriptors | errors reach the exit code; the reports agree with one another |
| Policy engine (`internal/policy`) | none | a package comment only | - | - |
| GitHub Action, site, documentation | none | shell, YAML, text | - | - |

`--exclude`, `--include-tests` and `--policy` are parsed and then not used; they
do not occur in the models. PROJECT.json lists the hazards line by line with the
properties that would catch them.

## 2. Modules and how they correspond to the code

Strings (paths, rule identifiers, warning texts) are ranks in string order or
members of small sets; nothing here depends on their characters. In every module
an operator headed "Fault:" is a plausible bug in the operator below it, kept so
that each property can be shown to catch one.

**Pipeline** is `pipeline.Run`. `run` is the program counter of Run, `pc[j]` that of
the goroutine of job j; a goroutine's steps are the select (`GiveUp`,
`TakeToken`), Detect (`DetectCut`, `DetectReturns`), the mutex, the two halves of
`findings = append(findings, got...)` (`LoadFindings`, `StoreFindings`), the warning,
and the deferred calls in Go's order: unlock, token back, `wg.Done`. The select may
take the token although the context is cancelled, as in Go. `sort.Slice` is any
permutation that leaves nothing out of order, because it promises no more. Every
slice, counter and lock of the source is a variable. **ScanContract** is the
abstract specification: Run answers once, with a failure if it was interrupted or
could not start, or with all the findings and warnings in the documented order; no
goroutine occurs in it. `ImplementsContract` is the refinement. That the answer is also
the only one (`Deterministic`) needs `TiesAreEqual`: findings that sortFindings cannot
tell apart are equal.

**Walk** is `collector.Walk` over a tree that other processes change (`Change`:
remove, create, replace, lock, unlock). `todo` is the stack of the depth-first
search: each entry is kept as its parent's listing described it, and stat, lstat,
listing and `d.Info` are steps of their own between which the tree may change.

**DepsCatalog** is the lazy load of `deps.Detector` one load or store at a time.
The fields have no lock, so the catalog's slice header is two words which are
stored, and copied, separately. **RulePacks** is the same for `source.Detector`,
with its two locks, the load of several rule directories, the unlocked read in
packsFor, the loop over rules with its early end, and the fallback when there is no
syntax tree. **LazyLoad** is what such a detector promises: each call's answer is a
function of the disk and its own file. RulePacks implements it (`ImplementsLazyLoad`);
DepsCatalog keeps its promise with one worker only, and `ExactOrLess` and
`CacheSettled` say what is left of it with several.

**DetectCall** is one call of Detect of a detector that keeps nothing between calls:
context, read, content, return, with findings, an error or both. Three modules say what
happens to the content, one step per block, name, call or line: `at` is the place of the
outer loop and `within` that of the inner one. **Certs**: the PEM loop with
its refusals, the two passwords of PKCS#12 (whose places are the certificate, 1, and the key, 2), DER;
`Unheard` is what the code passes over without a finding or an error. **Config**: WalkJSON, then the scanner of
the file's format, line after line, until bufio.Scanner stops; the tables of `suites.go`
with the order of their switches. **SourceRules**: the rules of a language in order, the
import table, packageMatches, arguments, identifiers and the fallback by lines; what a
file has in it are its imports, calls and identifiers, as the parser would give them. Two
packages may be collected under one name (a package need not be called what its path
ends in); the code keeps the last, and the properties that resolve names ask that all the
paths under a name be one (`Suggests`).
**FileDetectors** is their union, on any job the pipeline may have. How the source
detector comes by its rules is in RulePacks, and that calls do not disturb one another is
what LazyLoad adds, so that one call is enough here.

**RuleSearch** has the pure functions of `internal/rules`, of the registry and of
activeDetectors: levels are the directories from the working directory up, and the
functions tell at which one the catalog and the packs are found, how the detectors are
configured with it, which places they then read (`PackPlaces`), and which of these give
rules or are refused. ScanCommand searches and passes
the places on; the detector searches once more if it got none.

**UnionFind** is the loops of `correlate.Link`: pairs in order, find with path
halving one round at a time, union by smaller root, grouping. `links` is an arbitrary
relation chosen at the start, so what shouldLink computes does not matter here.
**Partition** is the abstract machine that merges the classes of linked findings in
any order; `ImplementsPartition` maps the forest to the classes of its roots.
**Connected** says what connected components are: the least sets that no link leaves.

**Risk** has the pure functions: canonical names, quantum class, the four axes,
score, band, threshold. **Correlate** composes them with the join keys of
shouldLink, the canonical and the strongest member, related identifiers and raised
confidence: findings -> clusters -> assets -> priorities, which are the last stages
of Run. Clusters are connected components (module Connected), which is what UnionFind
shows Link to compute; a cluster is a set of indices into the pool of findings. `sort.Slice`
is not stable, so what ties may come either way: the canonical member, the strongest and
the next cluster are any that no other comes before. `IdAssumption` says what findings of
one identifier share, since it is a hash of that. **Reports** adds what SARIF, CBOM and Markdown say of the scored assets:
identifiers, references, levels, regions, counts and order, without the texts; WriteCBOM
sorts the assets once more, with the same freedom.

**ScanCommand** is `run` and `runScan` with every return in order. `world` is what the
command will meet (target, git, working directory, levels with rules, worst asset),
`places` where the searches ended, `reports` what is in each output. `clone` is "left" once cleanup has
been called and `os.RemoveAll`, whose error resolve.go:78 drops, has not removed it. The pipeline is one step, of which it uses what Pipeline and
Walk show: Run fails when Walk does, and not when rules are invalid. `Kill` may come
at any moment and runs no deferred call.

`MC*.tla` give the constants for TLC. `*Proofs.tla` hold theorems.

## 3. Runs

| Run | States | Question and bounds |
|---|---|---|
| MCPipeline | 19,383 | Three jobs from four files and two detectors, on one, two or three workers (Concurrency 0 means NumCPU, here 2), empty root, unreadable tree, cancelled at any moment. Two findings of one file differ in their identifiers only and come in the wrong order; one job returns findings with an error. |
| MCWalk | 452,856 | Every tree over seven paths (a directory with a file, a file between them in path order, `bin` as a skipped directory or a file, something that may be a link, roots of all kinds), two changes at any moment, cancellation at any moment. |
| MCSymlinkRoot | violation | A target that is a link to a directory. |
| MCDepsCatalog | 32,402 | A manifest of each kind (requires a listed library, does not, malformed, unreadable), every state of the catalog, one or three workers. |
| MCDepsRace | violation | The same with two workers. |
| MCRulePacks | 41,877 | A file of each kind (parses, has no grammar, parse error, unreadable), three workers, all choices of one or two rule directories that load, have a rule that cannot be applied, or do not load, and two choices of three. |
| MCFileDetectors | 104,103 | Every PEM bundle of up to three of nine blocks, every PKCS#12 bundle, every configuration file of two or three of ten lines under five names, and source files with up to two of six imports and two of seven calls, with and without a syntax tree, under seven rules. |
| MCSilentOmission | violation | The configuration files of it. |
| MCUnionFind | 35,562 | All 1024 relations over five findings. |
| MCCorrelate | 54,076 | All subsets of twelve findings chosen so that each join key links some pair and only some, chains link findings that are not linked themselves, identifiers coincide, and each path heuristic occurs; then the three reports. |
| MCScanCommand | 209,436 | All command lines over lists of formats, outputs, four kinds of target, thresholds and up to two `--rules` directories, in every world with two levels of rule directories, killed at any moment. |
| MCInvalidRules | violation | The same with invalid rules. |

What the passing runs show:

- MCPipeline: never more than `workers` goroutines past the semaphore
  (`BoundedConcurrency`); none alive after `wg.Wait` (`NoStragglers`); no append lost
  (`NoLostAppend`); a success has everything every job found, however late the
  cancellation (`NoPartialResult`); the listing is the same for all schedules
  (`Deterministic`); nothing writes it after Run has returned (`ResultIsFinal`); Run
  ends (`Termination`); and all of that amounts to ScanContract (`ImplementsContract`).
- MCWalk: on success what nobody touched is listed, and nothing else, once and in
  path order (`ListsWhatStayed`); the order of the walk is not that of the
  paths, so the sort at walk.go:79 is needed. `FailureHasCause`: cancellation, a
  change, an unreadable directory in scope or a target that is no directory.
- MCDepsCatalog: exact with one worker; with three, a Detect may report less than it
  owes and never anything else (`ExactOrLess`), and only while it overlaps the first
  load (`CacheSettled`).
- MCRulePacks: `ParsesAlone`, `CacheFrozen` (why the unlocked read is
  sound) and the contract, liveness included; in particular rules of half the
  directories are never applied.
- MCFileDetectors: of a certificate file, every block, certificate and key that the
  decoders hand over is reported or blamed for the error, whatever its neighbours, but for the
  two cases of section 6.10 (`AllButUnheardAnswered`); each algorithm name in force on a line that
  the scanner gets to has a finding for every role that the tables know, except the sizeless `aes` of
  section 6.4, and every finding is backed by a name on its line, in force or excluded (bare
  suite tokens are reported after an exclamation mark too), or by the JSON structure
  (`ReportsWhatItReads`); a call is reported if what its package stands for is the
  rule's package, and every finding is backed by a rule of the language and by something on
  its line that is not of another package with another name (`CallsResolved`).
- MCUnionFind: the forest is acyclic (`Downhill`), find and Link end, and the clusters
  are the connected components, in order and headed by their first finding.
- MCCorrelate: every finding is accounted for by one asset, several only when its
  primitive is unknown (`OneStoryEach`); no asset has a better class than a finding it
  accounts for (`NeverUnderstated`); high confidence has a high-confidence member behind
  it (`ConfidenceEarned`); a broken asset is at least medium, a safe one at most, and
  only a broken one critical (`ClassBoundsPriority`). The k-th SARIF result, CBOM
  component and Markdown row are about one asset, no SARIF result lacks its rule, and an
  error in SARIF is what `--fail-on high` exits 1 for (`ReportsAgree`).
- MCScanCommand: the clone is there for as long as something may read it, and every exit of main has
  called its cleanup, which may fail unnoticed (`CloneNotForgotten`); exit 0 or 1 means that every
  requested report is whole and says whether the gate was met; a scan whose target
  cannot be read leaves earlier reports alone, and at most one report is unfinished even
  after a kill. Whoever searches, no level nearer than the one whose packs, or
  catalog, are used has any, and the embedded ones are used only if no level has
  (`DefaultsAsDocumented`), and added rules are loaded after them or refused
  aloud (`AddedRulesUsed`).

Why the bounds are enough. *Workers and jobs*: the pipeline's bugs need a goroutine
that waits, one that holds the lock and one that appends, hence three jobs; with one
and two workers some wait for a token, with three none does. The four files of the
detectors are one of each kind that the code tells apart, on three workers, so that a
fourth call always comes after one has returned. *Walk*: two changes let something
vanish and come back as something else between its listing and its use; a third
only touches more paths, and what is touched is exempt from the properties. *Union-find*:
with five findings there are two unions of classes with two members each followed by
a path of length two to be halved. *Correlation*: no rule of the code looks at more than
two findings at a time except through connectedness, the strongest member and the
sorts, and the pool has clusters of up to five. *Command line*: two formats
distinguish "the first", "a later one" and "the same file again"; the loop has no other
memory. Two levels tell the nearest from a farther one, and two added directories their
order. *File detectors*: a bad block before, between and after good ones takes three; the
scanners remember nothing from line to line but where they are, and a third line shows what
comes after a line that stops them; a call is told by one import, and two show one
shadowing the other.

## 4. Fairness

Only runs with a liveness property use it. Pipeline and RulePacks: weak fairness of
each goroutine and of Run, because the Go scheduler eventually runs a goroutine that can run;
a mutex or token that is passed on may be passed to others first, but each goroutine asks for
each of them once, so others run out. Cancelling is never required. UnionFind:
weak fairness of the one thread there is. The properties of all other runs are safety only;
their violations are finite traces, so no fairness enters them.

## 5. Proofs

For every value of the constants under the named assumptions of each module, and
checked by TLAPS with no step left out:

- **PipelineProofs** (any files, detectors, findings, warnings, concurrency, at least
  one CPU): `TypeCorrect`, `ConcurrencyIsBounded`, `WaitIsComplete`, `AppendIsAtomic`,
  `SuccessIsComplete`, `ResultStaysFinal`, and `AnswersAsPromised`, the safety half of
  `ImplementsContract`. None of the first six is inductive by itself. The
  inductive invariant `IInv` counts: `sem` is the number of goroutines between taking and
  returning a token (`TokensCounted`), `wg` the number of those started and not done
  (`DebtsCounted`), so `wg = 0` after the last launch means that all are gone; whoever is
  in the guarded section holds `mu` (`LockHeld`), so what it read is still `findings`; a
  goroutine that gave up or was cut has seen a cancelled context, and contexts do not
  revive (`CutOnlyWhenCancelled`), so a context alive after the wait means that every Detect
  ran to its end; and what was appended stays (`AppendsKept`) until the sort rearranges it.
  There is a lemma for each kind of step. For the refinement `AccountInv` keeps the books:
  until Run returns, `findings` lists exactly the occurrences whose job has appended them and
  `warnings` those whose job has warned, each once. An append adds a disjoint set of
  occurrences (`ListsAppended`) and a sort permutes the list (`ListsRearranged`), so at the
  sort, when every job has run its Detect to the end, the slices list all of them
  (`AllArrived`), which is the answer ScanContract asks for (`SortAnswers`).
  `OutputIsDeterministic` adds that there is one answer: two sequences that list the same
  occurrences and never go back in an order that tells their values apart are equal
  (`SortedOnce`). At the first place where they differ, the one with the smaller value would
  have to hold more occurrences of what is not above it than it has places for.
- **WalkProofs** (any finite set of paths, any number of changes to the tree): `TypeCorrect`,
  `ListingIsRight`, `FailuresHaveCauses`. `EntriesInv`: the entries still to visit are below
  no skipped directory, are what the tree says they are unless somebody touched them, and no
  one is another's ancestor, so nothing is visited twice; `FoundInv`: what has been found is a
  file the walk may list; `PendingInv`: every file nobody touched has been found, or is or lies below
  an entry still to visit, so an empty stack means that all have been found.
- **RulePacksProofs** (any files, workers and lists of rule directories): `TypeCorrect`,
  `ParsersExclude`, `UnlockedReadIsSafe`, and `AnswersAsPromised`, the safety half of
  `ImplementsLazyLoad`. The cache goes through three phases, `NotLoaded`, `LoadingBy` one
  call, and `Settled`, where it has all the directories or none and an error; a call is past
  the load only in the last (`PastTheLoad`), which is why packsFor may read without the lock.
  `LocksHeld` ties both mutexes to the calls between lock and unlock. What a call has found
  so far is what the rules it has applied give (`CallInv`).
- **DepsProofs** (any finite set of manifests, any number of workers): `TypeCorrect`,
  `AnswersAreExactOrLess`, `RaceEnds`. The invariant is `Stored`: once `loaded` is set, what
  the catalog still lacks, some call is about to store. So a catalog can be incomplete only
  while a call is inside the load. With one worker (`Serial`) nobody else can be, and there
  the finiteness of the manifests is used: one call in Detect means that no other is.
- **ScanProofs** (any set of command lines and worlds, so any list of formats and any
  number of directory levels): `TypeCorrect`, `NoCloneForgotten`, `ReportsSurvive`,
  `ExitCodeTrue`, `NearestRulesAreUsed`, `AddedDirectoriesAreRead`. `CloneInv`: there is no clone
  before it is made, it is there up to the cleanup, and an exit code is there only behind that; `ReportsInv`: reports are opened only behind a
  pipeline that could walk the target, and at most the current one is unfinished;
  `ExitInv`: the reports behind the loop are whole, so they all are at the gate, and only the
  gate gives a code other than 2. `PlacesInv`: what the command searched for is what the
  detectors are given. A search that goes up one level at a time and stops at the first that has
  something ends at the nearest, or has passed them all (`SearchIsNearest`), whether the
  command made it or the detector (`CatalogTried`, `PacksTried`). Lemma `WhatStepsChange` gives the frame of each step.
- **FileDetectorsProofs** (any jobs and rules, so files of any length): `TypeCorrect`,
  `EveryBlockAnswered`, `ConfigIsTold`, `CallsAreResolved`. For certificates, `CertsInv`: the
  blocks before the loop's position are reported exactly if they are neither refused nor unheard, and
  the loop stops at the end of the data only; the passwords tried on a bundle so far have not opened it. For configuration, the lemmas from `FirstOfMeets` to `ParseSays` go through the
  tables: what Parse gives of a name is of a row that meets it, or UNKNOWN if no row does,
  and each table that knows a part of it has its row there. `ConfigInv` carries that through both
  loops: the lines passed, and of the present line the names passed, are told; every
  finding is named at its place; and lines are read only if the structure gave nothing, which
  keeps the findings in order. For source, `SourceInv`: what the rules passed owe, and what
  the present one owes for the calls passed, is reported (`OwedMatches`: a call through an
  import of the rule's package is a match); every finding is backed (`MatchIsOfPackage`: a
  match is no call through an import of another package).
- **UnionFindProofs** (any number of findings, any relation): `TypeCorrect` (no index
  leaves its slice), `ForestGoesDownhill`, `ClustersCorrect`, and `RefinesPartition`, the safety
  half of `ImplementsPartition`. The strengthening `Positions` says where the loops are: the
  pair at hand is i < j < N, and find stands on a finding. The recursive function `root` would
  ask for induction; instead `Labelling` says what a root is without recursion, and
  `RootIsTheLabelling` that a forest which has a labelling has one only and root is it. Path halving
  and joining turn a labelling into a labelling (`HalvingKeepsRoots` and the lemmas after
  it). Connectedness goes by closed sets: `Telling` says that no link seen leaves a set exactly when
  no parent pointer does, so the classes of the roots are the components at the end.
- **CorrelateProofs** (any findings, any path heuristics, any choice of the unstable sorts):
  `TypeCorrect`, `OneStory`, `NothingPlayedDown`, `HighIsEarned`, `PriorityFollowsClass`,
  `ReportsTellOneStory`. `MadeInv`: an asset has been made of each component that is no longer to
  come, and of none twice, so what an asset mentions are the members of its component;
  two components never share a known identifier, because findings of one identifier are linked
  (`IdAssumption`). `OrderInv`: assets are in the order of their canonical findings. For the
  priority, each axis takes a few values, so the score of a broken asset is in 52..89, of a safe
  one in 12..49 and of any other in 32..69, and the bands do the rest. For the reports,
  `WrittenInv`: each component that WriteCBOM has put out is of an asset level with the one at its
  place in the scan (`NextIsLevel`, by counting: were it earlier or later, too many assets would be
  left or gone), and findings that are level have one identifier, hence one primitive.

Every invariant and every action property that a passing run checks is stated by one of these
theorems. Model-checked only: liveness (`Termination`, and with it the fairness halves of
`ImplementsContract`, `ImplementsLazyLoad` and `ImplementsPartition`), which is not in the prover's reach.

Two assumptions are worth a word. `IdAssumption` (Correlate) leaves out collisions of a hash cut to
64 bits. `TiesAreEqual` (Pipeline) is a hypothesis inside `Deterministic`: findings
that tie in sortFindings have one path, line, column, rule and identifier, and the identifier is a
hash of the detector, the primitive and the parameters too. What is not hashed, such as the
confidence or the snippet, could still differ between two of them, and then their order is the
sort's choice.

## 6. Where the code disagrees with its documentation

Each of the first four has a run that TLC ends with a counterexample:

1. **MCDepsRace** - `deps.go:86` sets `loaded` before loading and without a lock, so a
   second goroutine scans its manifest against an empty catalog and reports nothing and
   no error; a torn slice header can also make it panic. `detector.go:11`: "Implementations
   must be goroutine-safe"; line 22: "it never panics".
2. **MCSymlinkRoot** - a target that is a symbolic link to a directory passes `os.Stat`, but
   `filepath.WalkDir` starts with `os.Lstat`: the scan succeeds with no files. `walk.go:22`:
   "Walk lists files under target.Root."
3. **MCInvalidRules** - invalid rules become warnings, which are counted with `--verbose`
   only, and the exit code is 0 or 1. `main.go:44`: "2 - scan error (unreadable target,
   invalid rules)".
4. **MCSilentOmission** - nobody asks the line scanner for its error (`config.go:106`), so the
   rest of a file behind a line of more than 64 KiB is passed over without a word; and
   OpenSSL's cipher names, which the token pattern at `config.go:234` does not know, give
   neither a finding nor an error. Nor does an SSH name that begins with `aes` and has no size
   (`suites.go:164-168`: the case is entered and the default, which is UNKNOWN, is not).
   `DESIGN.md:152`: "It never guesses and never drops the
   finding. Silent omission is the worst failure mode this tool has"; `docs/cli/scan.mdx:49`:
   "Unparseable files produce warnings".

The models show these too; they have no run:

5. The score is computed from the canonical member's path, source and functions; only the
   class is the strongest member's (`correlate.go:114`). `DESIGN.md:302`: "scored on the
   strongest member".
6. Two calls on one line have one identifier, which leaves out the column, and the second is
   dropped from RelatedIDs (`correlate.go:138`). `correlate.go:103`: "RelatedIDs list every
   other finding."
7. Assets that share an identifier for the same reason make two CBOM components with one
   `bom-ref` (`cbom.go:90`).
8. Any directory called `rules` above the working directory ends the search for packs
   (`pack.go:87`), although it may hold none, and the embedded ones are not used.
9. The error of `os.RemoveAll` is dropped (`resolve.go:78`), so a clone that cannot be removed stays
   and the scan does not say so. `docs/cli/scan.mdx:46`: "scanned, then removed".
10. A PKCS#12 bundle with a certificate and a private key of a kind that publicKeyInfo does not know
   (X25519, say) gives the finding of the certificate, none of the key and no error
   (`certs.go:98-116`), although the same key in a PEM file is refused with an error; and armour
   that `pem.Decode` passes over, between blocks that it does not, is never mentioned. `DESIGN.md:152`
   again: "never drops the finding".

## 7. What is not modelled

- What libraries do with bytes: the syntax tree of a source file, X.509, PKCS#12, PEM and JSON
  decoding, `go.mod` parsing. The models start from what the decoder returns.
- The matching of a module path against the library catalog (`deps.go:130`ff): a manifest
  requires a listed library or does not.
- The hash in FindingID and the rendering of parameters it takes in; identifiers are ranks that
  coincide for findings alike in what is hashed (`IdAssumption`).
- In SourceRules, what the code does when one of its own tree queries does not compile
  (`source.go:220`, `source.go:259`): with the grammars that are built in, it never happens.
- The single checks of parseRulePack: each makes a directory one that does not load.
- The texts of reports, explanations, usage and verbose output.
- The policy engine (no code), the GitHub Action, the site.

## 8. Plan

Done, in this order: Pipeline with ScanContract; DepsCatalog and RulePacks with LazyLoad;
UnionFind with Partition, Risk and Correlate; ScanCommand; Walk; DetectCall with Certs,
Config, SourceRules and their union FileDetectors; RuleSearch, composed with ScanCommand;
Reports, composed with Correlate.

Left: the matching of module paths in detectGoMod, as a fourth part of FileDetectors; FindingID
as a function of what it hashes, which would replace the ranks in Correlate's pool; the checks
of parseRulePack.

Theorems worth proving next: that the detectors' answers, as FileDetectors gives them, are what
the pipeline's constants stand for, once detectGoMod is among them; the sound half of
`NoSilentOmission` for files without over-long lines.

## 9. How to run

    tlc -workers 2 -config MCPipeline.cfg MCPipeline.tla
    tlapm PipelineProofs.tla

The configurations that share a module are MCDepsCatalog and MCDepsRace; MCWalk and
MCSymlinkRoot; MCScanCommand and MCInvalidRules; MCFileDetectors and MCSilentOmission.
PROJECT.json lists the runs, the faults that each property catches, and for every
definition the lines of code it stands for.
