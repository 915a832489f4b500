-------------------------------- MODULE Walk --------------------------------
(***************************************************************************)
(* collector.Walk (internal/collector/walk.go) over a tree that others change *)
(* while it is read.  filepath.WalkDir hands each entry to the callback as its *)
(* parent's listing described it, and lists each directory that the callback   *)
(* lets through by a system call of its own, before the entries that follow.   *)
(* `todo' holds the entries still to be handed over: the recursion is a stack. *)
(*                                                                         *)
(* A path is the sequence of the names in it, relative to the root.            *)
(***************************************************************************)
EXTENDS Integers, Sequences, FiniteSets, SequencesExt

CONSTANTS
  Paths,        \* the root and the paths there may be something at
  KindsAt,      \* KindsAt[p]: what may be at path p
  NameRank,     \* the names in string order, the order of a listing
  PathRank,     \* the paths in string order: a.txt comes before a/b
  MaxChanges    \* bound: how often others change the tree during the walk

Root == << >>
defaultSkipDirs == {".git", ".hg", ".svn", "node_modules", "bin"}

(* A "locked" directory may not be read; a "link" leads to a directory.         *)
Kinds == {"absent", "file", "dir", "locked", "link"}

ASSUME PathsAssumption ==
  /\ Paths \subseteq Seq(STRING) /\ IsFiniteSet(Paths)
  /\ Root \in Paths /\ \A p \in Paths \ {Root} : Front(p) \in Paths
ASSUME KindsAssumption == KindsAt \in [Paths -> SUBSET Kinds] /\ \A p \in Paths : "absent" \in KindsAt[p]
ASSUME RankAssumption ==
  /\ \A p \in Paths \ {Root} : NameRank[Last(p)] \in Nat
  /\ PathRank \in [Paths -> Nat] /\ \A p, q \in Paths : PathRank[p] = PathRank[q] => p = q
ASSUME MaxChangesAssumption == MaxChanges \in Nat

VARIABLES
  disk,         \* what is at each path
  changes,      \* how often others have changed it
  touched,      \* history: the paths these changes concerned
  ctx,          \* the context: "live" or "cancelled"
  pc,           \* where Walk is
  todo,         \* the entries listed and not yet done with
  out,          \* the files appended
  result        \* what Walk returned

vars == <<disk, changes, touched, ctx, pc, todo, out, result>>
world == <<disk, changes, touched, ctx>>

Below(p) == {q \in Paths : IsStrictPrefix(p, q)}
Above(p) == {q \in Paths : IsStrictPrefix(q, p)}

(* What is at a path has directories above it, or links to directories.         *)
WellFormed(d) ==
  \A p \in Paths \ {Root} : d[p] # "absent" => d[Front(p)] \in {"dir", "locked", "link"}

Disks == {d \in [Paths -> Kinds] : (\A p \in Paths : d[p] \in KindsAt[p]) /\ WellFormed(d)}

(* A system call on the path finds something there. *)
Reachable(p) == disk[p] # "absent" /\ \A q \in Above(p) : disk[q] # "locked"

NoResult == [kind |-> "none", files |-> << >>]
Failed   == [kind |-> "failed", files |-> << >>]

Init ==
  /\ disk \in Disks
  /\ changes = 0
  /\ touched = {}
  /\ ctx \in {"live", "cancelled"}
  /\ pc = "stat"
  /\ todo = << >>
  /\ out = << >>
  /\ result = NoResult

(* Others remove, create, replace, lock or unlock something. *)
Change(p) ==
  /\ pc # "returned" /\ changes < MaxChanges
  /\ \E kind \in KindsAt[p] \ {disk[p]} :
       disk' = [q \in Paths |->
                  IF q = p THEN kind
                  ELSE IF q \in Below(p) /\ kind \in {"absent", "file"} THEN "absent" ELSE disk[q]]
  /\ WellFormed(disk')
  /\ changes' = changes + 1
  /\ touched' = touched \cup {p} \cup Below(p)
  /\ UNCHANGED <<ctx, pc, todo, out, result>>

Cancel ==
  /\ pc # "returned" /\ ctx = "live"
  /\ ctx' = "cancelled"
  /\ UNCHANGED <<disk, changes, touched, pc, todo, out, result>>
-----------------------------------------------------------------------------
Goto(from, to) == pc = from /\ pc' = to

Fail(from) ==
  /\ Goto(from, "returned")
  /\ result' = Failed
  /\ UNCHANGED <<world, todo, out>>

(* os.Stat follows links: no directory there. *)
StatFails == disk[Root] \in {"absent", "file"} /\ Fail("stat")

StatRoot ==
  /\ disk[Root] \notin {"absent", "file"}
  /\ Goto("stat", "lstat")
  /\ UNCHANGED <<world, todo, out, result>>

(* filepath.WalkDir begins with os.Lstat, which does not follow them: the entry  *)
(* of the root is what is at its path, or an error for the callback.             *)
LstatFails == disk[Root] = "absent" /\ Fail("lstat")

LstatRoot ==
  /\ disk[Root] # "absent"
  /\ Goto("lstat", "visit")
  /\ todo' = <<[path |-> Root, kind |-> disk[Root]]>>
  /\ UNCHANGED <<world, out, result>>

Entry == Head(todo)
IsDir(e) == e.kind \in {"dir", "locked"}
Skipped(p) == p # Root /\ Last(p) \in defaultSkipDirs

(* The callback is called, and finds the context alive. *)
Visit(to) ==
  /\ todo # << >>
  /\ ctx = "live"
  /\ Goto("visit", to)

(* Fault: the files found so far are returned with the error. *)
VisitCancelledPartial ==
  /\ todo # << >>
  /\ ctx = "cancelled"
  /\ Goto("visit", "returned")
  /\ result' = [kind |-> "failed", files |-> out]
  /\ UNCHANGED <<world, todo, out>>

VisitCancelled == todo # << >> /\ ctx = "cancelled" /\ Fail("visit")

(* Fault: the name is looked at before the type, and fs.SkipDir for what is not  *)
(* a directory leaves out the rest of the directory it is in.                    *)
PassOverByName ==
  /\ Visit("visit")
  /\ IF IsDir(Entry) THEN Skipped(Entry.path) ELSE Entry.kind # "file" \/ Skipped(Entry.path)
  /\ todo' = IF ~IsDir(Entry) /\ Skipped(Entry.path)
             THEN SelectSeq(todo, LAMBDA e : Front(e.path) # Front(Entry.path))
             ELSE Tail(todo)
  /\ UNCHANGED <<world, out, result>>

(* return fs.SkipDir, or nil for what is not a regular file. *)
PassOver ==
  /\ Visit("visit")
  /\ IF IsDir(Entry) THEN Skipped(Entry.path) ELSE Entry.kind # "file"
  /\ todo' = Tail(todo)
  /\ UNCHANGED <<world, out, result>>

(* d.Info is os.Lstat once more: whatever is there now will do. *)
InfoFails ==
  /\ Visit("returned")
  /\ Entry.kind = "file" /\ ~Reachable(Entry.path)
  /\ result' = Failed
  /\ UNCHANGED <<world, todo, out>>

AppendFile ==
  /\ Visit("visit")
  /\ Entry.kind = "file" /\ Reachable(Entry.path)
  /\ out' = Append(out, Entry.path)
  /\ todo' = Tail(todo)
  /\ UNCHANGED <<world, result>>

(* Fault: defaultSkipDirs are listed too. *)
EnterAnyDir ==
  /\ Visit("list")
  /\ IsDir(Entry)
  /\ UNCHANGED <<world, todo, out, result>>

EnterDir ==
  /\ Visit("list")
  /\ IsDir(Entry) /\ ~Skipped(Entry.path)
  /\ UNCHANGED <<world, todo, out, result>>

(* os.ReadDir fails, the callback is called with the error and returns it.       *)
ListFails ==
  /\ Fail("list")
  /\ ~Reachable(Entry.path) \/ disk[Entry.path] \in {"file", "locked"}

Children(p) == {q \in Paths \ {Root} : Front(q) = p /\ disk[q] # "absent"}

InNameOrder(paths) ==
  {s \in Bijection(1..Cardinality(paths), paths) :
     \A k, l \in DOMAIN s : k < l => NameRank[Last(s[k])] <= NameRank[Last(s[l])]}

(* os.ReadDir: what is in the directory now, in the order of the names.          *)
ListDir ==
  /\ Goto("list", "visit")
  /\ Reachable(Entry.path) /\ disk[Entry.path] \in {"dir", "link"}
  /\ \E listing \in InNameOrder(Children(Entry.path)) :
       todo' = [k \in DOMAIN listing |-> [path |-> listing[k], kind |-> disk[listing[k]]]] \o Tail(todo)
  /\ UNCHANGED <<world, out, result>>

(* sortFileRefs: any rearrangement with no path before a lesser one. *)
Sorted(paths) ==
  {s \in {[k \in DOMAIN paths |-> paths[p[k]]] : p \in Bijection(DOMAIN paths, DOMAIN paths)} :
     \A k, l \in DOMAIN s : k < l => PathRank[s[k]] <= PathRank[s[l]]}

(* WalkDir is through. *)
SortAndReturn ==
  /\ todo = << >>
  /\ Goto("visit", "returned")
  /\ \E files \in Sorted(out) : result' = [kind |-> "ok", files |-> files]
  /\ UNCHANGED <<world, todo, out>>

Step ==
  \/ StatFails \/ StatRoot \/ LstatFails \/ LstatRoot \/ VisitCancelled \/ PassOver \/ InfoFails
  \/ AppendFile \/ EnterDir \/ ListFails \/ ListDir \/ SortAndReturn

Terminating == pc = "returned" /\ UNCHANGED vars

Next == Step \/ Cancel \/ (\E p \in Paths : Change(p)) \/ Terminating

Spec == Init /\ [][Next]_vars
-----------------------------------------------------------------------------
(* Types; in particular an error never comes with files. *)
TypeOK ==
  /\ disk \in Disks
  /\ changes \in 0..MaxChanges
  /\ touched \subseteq Paths
  /\ ctx \in {"live", "cancelled"}
  /\ pc \in {"stat", "lstat", "visit", "list", "returned"}
  /\ todo \in Seq([path : Paths, kind : Kinds])
  /\ out \in Seq(Paths)
  /\ result \in {NoResult, Failed} \cup [kind : {"ok"}, files : Seq(Paths)]

Succeeded == result.kind = "ok"
Listed == {result.files[k] : k \in DOMAIN result.files}

(* The regular files in scope that nobody has touched since Walk began: no skipped *)
(* directory, and no link but the root, is above them.                            *)
Stayed ==
  {p \in Paths \ touched :
     disk[p] = "file" /\ \A q \in Above(p) : q = Root \/ (disk[q] = "dir" /\ ~Skipped(q))}

(* A success is no partial listing: whatever happens elsewhere in the tree while   *)
(* it is walked, every file in scope that is left alone is listed.  Nothing else   *)
(* is: no file twice, none below a skipped directory, nothing that is not a regular *)
(* file unless it was replaced meanwhile, and all in the order of their paths, on    *)
(* which the order of the jobs rests.                                             *)
ListsWhatStayed ==
  Succeeded =>
    /\ disk[Root] # "link" => Stayed \subseteq Listed
    /\ \A k, l \in DOMAIN result.files :
         k < l => PathRank[result.files[k]] < PathRank[result.files[l]]
    /\ \A p \in Listed :
         /\ \A q \in Above(p) : ~Skipped(q)
         /\ disk[p] = "file" \/ p \in touched

(* A walk fails for a reason: it was cancelled, something changed under it, the     *)
(* target is no directory, or one in scope may not be read.                        *)
FailureHasCause ==
  result = Failed =>
    \/ ctx = "cancelled"
    \/ touched # {}
    \/ disk[Root] \in {"absent", "file"}
    \/ \E p \in Paths : disk[p] = "locked" /\ \A q \in Above(p) \cup {p} : ~Skipped(q)

(* walk.go: Walk lists files under target.Root, also when the target, which os.Stat *)
(* takes for a directory, is a link to one.                                        *)
ListsFilesUnderRoot == Succeeded => Stayed \subseteq Listed
=============================================================================
