----------------------------- MODULE WalkProofs ------------------------------
(***************************************************************************)
(* Walk lists the right files and fails only with a cause, in every tree and  *)
(* however often others change it meanwhile.                                 *)
(***************************************************************************)
EXTENDS Walk, SequenceTheorems, FiniteSetTheorems, WellFoundedInduction, TLAPS

(* A path as a place in the tree. *)
LEMMA StrictPrefix ==
  ASSUME NEW s \in Seq(STRING), NEW t \in Seq(STRING)
  PROVE  IsStrictPrefix(s, t) <=> Len(s) < Len(t) /\ \A i \in 1..Len(s) : s[i] = t[i]
<1>1. Len(s) \in Nat /\ Len(t) \in Nat
  OBVIOUS
<1>2. SubSeq(s, 1, Len(s)) = s
  BY SubSeqFull
<1>3. ASSUME Len(s) <= Len(t)
      PROVE  /\ SubSeq(t, 1, Len(s)) \in Seq(STRING) /\ Len(SubSeq(t, 1, Len(s))) = Len(s)
             /\ \A i \in 1..Len(s) : SubSeq(t, 1, Len(s))[i] = t[i]
  <2>1. \A i \in 1..Len(s) : t[i] \in STRING
    BY <1>1, <1>3, ElementOfSeq
  <2> QED BY <1>1, <2>1, SubSeqProperties
<1>4. ASSUME IsStrictPrefix(s, t) PROVE Len(s) < Len(t) /\ \A i \in 1..Len(s) : s[i] = t[i]
  <2>1. Len(s) <= Len(t) /\ s = SubSeq(t, 1, Len(s)) /\ s # t
    BY <1>2, <1>4 DEF IsStrictPrefix, IsPrefix
  <2>2. \A i \in 1..Len(s) : s[i] = t[i]
    BY <1>3, <2>1
  <2>3. Len(s) # Len(t)
    BY <2>1, <2>2, SeqEqual
  <2> QED BY <1>1, <2>1, <2>2, <2>3
<1>5. ASSUME Len(s) < Len(t), \A i \in 1..Len(s) : s[i] = t[i] PROVE IsStrictPrefix(s, t)
  <2>1. Len(s) <= Len(t) /\ s # t
    BY <1>1, <1>5
  <2>2. s = SubSeq(t, 1, Len(s))
    BY <1>3, <1>5, <2>1, SeqEqual
  <2> QED BY <1>2, <2>1, <2>2 DEF IsStrictPrefix, IsPrefix
<1> QED BY <1>4, <1>5

LEMMA PathsAreSequences == Paths \subseteq Seq(STRING)
BY PathsAssumption

LEMMA BelowIsTransitive ==
  ASSUME NEW p \in Paths, NEW q \in Below(p), NEW r \in Below(q)
  PROVE  r \in Below(p)
<1>1. p \in Seq(STRING) /\ q \in Seq(STRING) /\ r \in Seq(STRING)
  BY PathsAreSequences DEF Below
<1>2. Len(p) < Len(q) /\ \A i \in 1..Len(p) : p[i] = q[i]
  BY <1>1, StrictPrefix DEF Below
<1>3. Len(q) < Len(r) /\ \A i \in 1..Len(q) : q[i] = r[i]
  BY <1>1, StrictPrefix DEF Below
<1>4. Len(p) < Len(r) /\ \A i \in 1..Len(p) : p[i] = r[i]
  BY <1>1, <1>2, <1>3
<1> QED BY <1>1, <1>4, StrictPrefix DEF Below

LEMMA NoneBelowItself ==
  ASSUME NEW p \in Paths
  PROVE  p \notin Below(p)
BY DEF Below, IsStrictPrefix

LEMMA FrontOf ==
  ASSUME NEW p \in Seq(STRING), p # Root
  PROVE  /\ Front(p) \in Seq(STRING) /\ Len(Front(p)) = Len(p) - 1 /\ Len(p) \in Nat \ {0}
         /\ \A i \in 1..(Len(p) - 1) : Front(p)[i] = p[i]
<1>1. Len(p) \in Nat \ {0}
  BY EmptySeq DEF Root
<1>2. \A i \in 1..(Len(p) - 1) : p[i] \in STRING
  BY <1>1, ElementOfSeq
<1>3. Front(p) = SubSeq(p, 1, Len(p) - 1)
  BY DEF Front
<1> DEFINE n == Len(p) - 1
<1>4. n \in Nat /\ \A i \in 1..n : p[i] \in STRING
  BY <1>1, <1>2
<1> HIDE DEF n
<1>5. /\ SubSeq(p, 1, n) \in Seq(STRING)
      /\ Len(SubSeq(p, 1, n)) = IF 1 <= n THEN n - 1 + 1 ELSE 0
      /\ \A i \in 1..(n - 1 + 1) : SubSeq(p, 1, n)[i] = p[1 + i - 1]
  BY <1>4, SubSeqProperties
<1>6. Len(SubSeq(p, 1, n)) = n /\ \A i \in 1..n : SubSeq(p, 1, n)[i] = p[i]
  BY <1>4, <1>5
<1> QED BY <1>1, <1>3, <1>5, <1>6 DEF n

(* What is above an entry of a directory is the directory, or above it. *)
LEMMA AboveAChild ==
  ASSUME NEW p \in Paths, p # Root
  PROVE  /\ Front(p) \in Paths /\ Front(p) \in Above(p)
         /\ Above(p) = Above(Front(p)) \cup {Front(p)}
<1>1. Front(p) \in Paths /\ p \in Seq(STRING)
  BY PathsAssumption
<1> DEFINE f == Front(p)
<1>2. f \in Seq(STRING) /\ Len(f) = Len(p) - 1 /\ Len(p) \in Nat \ {0} /\ \A i \in 1..(Len(p) - 1) : f[i] = p[i]
  BY <1>1, FrontOf
<1> HIDE DEF f
<1>3. IsStrictPrefix(f, p)
  BY <1>1, <1>2, StrictPrefix
<1>4. ASSUME NEW q \in Above(p) PROVE q = f \/ q \in Above(f)
  <2>1. q \in Paths /\ q \in Seq(STRING) /\ Len(q) \in Nat
    BY PathsAreSequences DEF Above
  <2>2. Len(q) < Len(p) /\ \A i \in 1..Len(q) : q[i] = p[i]
    BY <1>1, <2>1, StrictPrefix DEF Above
  <2>3. \A i \in 1..Len(q) : q[i] = f[i]
    BY <1>2, <2>1, <2>2
  <2>4. CASE Len(q) = Len(p) - 1
    BY <1>2, <2>1, <2>3, <2>4, SeqEqual
  <2>5. CASE Len(q) < Len(p) - 1
    BY <1>2, <2>1, <2>3, <2>5, StrictPrefix DEF Above
  <2> QED BY <1>2, <2>1, <2>2, <2>4, <2>5
<1>5. ASSUME NEW q \in Above(f) PROVE q \in Above(p)
  <2>1. q \in Paths /\ f \in Below(q) /\ p \in Below(f)
    BY <1>1, <1>3, <1>5 DEF Above, Below, f
  <2>2. p \in Below(q)
    BY <2>1, BelowIsTransitive
  <2> QED BY <2>1, <2>2 DEF Above, Below
<1> QED BY <1>1, <1>3, <1>4, <1>5 DEF f, Above

(* The root is above every other path. *)
LEMMA RootAbove ==
  ASSUME NEW p \in Paths \ {Root}
  PROVE  Root \in Above(p)
<1>1. p \in Seq(STRING) /\ Root \in Seq(STRING) /\ Len(Root) = 0 /\ Root \in Paths
  BY PathsAssumption DEF Root
<1>2. Len(p) \in Nat \ {0}
  BY <1>1, FrontOf
<1>3. Len(Root) < Len(p) /\ \A i \in 1..Len(Root) : Root[i] = p[i]
  BY <1>1, <1>2
<1>4. IsStrictPrefix(Root, p)
  BY <1>1, <1>3, StrictPrefix
<1> QED BY <1>1, <1>4 DEF Above

(* Between a directory and what is below it there is an entry of the directory.     *)
LEMMA ChildTowards ==
  ASSUME NEW p \in Paths, NEW d \in Above(p)
  PROVE  \E c \in Paths \ {Root} : Front(c) = d /\ (c = p \/ c \in Above(p))
<1> DEFINE Between == {c \in Paths : d \in Above(c) /\ (c = p \/ c \in Above(p))}
           Lengths == {Len(c) : c \in Between}
<1>1. p \in Between
  OBVIOUS
<1>2. Lengths \subseteq Nat /\ Lengths # {}
  <2>1. \A c \in Between : Len(c) \in Nat
    BY PathsAreSequences
  <2>2. Len(p) \in Lengths
    BY <1>1
  <2> QED BY <2>1, <2>2
<1>3. PICK n \in Lengths : \A m \in Lengths : ~(<<m, n>> \in OpToRel(<, Nat))
  BY <1>2, NatLessThanWellFounded, WFMin
<1>4. PICK c \in Between : Len(c) = n
  BY <1>3
<1>5. \A b \in Between : ~(Len(b) < Len(c))
  BY <1>2, <1>3, <1>4 DEF OpToRel
<1>6. c \in Paths \ {Root} /\ c \in Seq(STRING)
  <2>1. d \in Above(c) /\ c \in Paths /\ c \in Seq(STRING) /\ d \in Seq(STRING)
    BY <1>4, PathsAreSequences DEF Above
  <2>2. Len(d) < Len(c) /\ Len(d) \in Nat
    BY <2>1, StrictPrefix DEF Above
  <2> QED BY <2>1, <2>2 DEF Root
<1>7. Front(c) = d
  <2>1. Front(c) \in Paths /\ Front(c) \in Above(c) /\ (d = Front(c) \/ d \in Above(Front(c)))
    BY <1>4, <1>6, AboveAChild
  <2>2. Front(c) \in Above(p)
    <3>1. CASE c = p
      BY <2>1, <3>1
    <3>2. CASE c \in Above(p)
      BY <2>1, <3>2, BelowIsTransitive DEF Above, Below
    <3> QED BY <1>4, <3>1, <3>2
  <2>3. Len(Front(c)) < Len(c)
    BY <1>6, FrontOf
  <2>4. Front(c) \notin Between
    BY <1>5, <2>3
  <2> QED BY <2>1, <2>2, <2>4
<1> QED BY <1>4, <1>6, <1>7
-----------------------------------------------------------------------------
Apart(p, q) == p # q /\ p \notin Below(q) /\ q \notin Below(p)
Clear(p) == \A q \in Above(p) : ~Skipped(q)

(* An entry on the stack is as the tree has it, unless somebody was there; nothing  *)
(* above it is skipped; and no entry is above another one.                        *)
EntriesInv ==
  /\ \A k \in DOMAIN todo :
       /\ Clear(todo[k].path)
       /\ disk[todo[k].path] = todo[k].kind \/ todo[k].path \in touched
  /\ \A k, l \in DOMAIN todo : k # l => Apart(todo[k].path, todo[l].path)

(* So is what has been found, which is neither found twice nor to be met again.      *)
FoundInv ==
  /\ \A i \in DOMAIN out : Clear(out[i]) /\ (disk[out[i]] = "file" \/ out[i] \in touched)
  /\ \A i, j \in DOMAIN out : i # j => out[i] # out[j]
  /\ \A i \in DOMAIN out : \A k \in DOMAIN todo :
       out[i] # todo[k].path /\ out[i] \notin Below(todo[k].path)

PlaceInv ==
  /\ pc \in {"stat", "lstat"} => todo = << >> /\ out = << >>
  /\ pc = "lstat" => disk[Root] \notin {"absent", "file"} \/ Root \in touched
  /\ pc = "list" => todo # << >> /\ IsDir(Entry) /\ ~Skipped(Entry.path)
  /\ result # NoResult => pc = "returned"

(* An entry leads to a file if it is the file, or a directory above it. *)
Leads(e, p) == (e.path = p /\ e.kind = "file") \/ (p \in Below(e.path) /\ IsDir(e))

(* Whatever file nobody touches is found or will be. *)
PendingInv ==
  pc \in {"visit", "list"} /\ disk[Root] # "link" =>
    \A p \in Stayed :
      (\E i \in DOMAIN out : out[i] = p) \/ (\E k \in DOMAIN todo : Leads(todo[k], p))

IInv ==
  /\ TypeOK /\ EntriesInv /\ FoundInv /\ PlaceInv /\ PendingInv
  /\ ListsWhatStayed /\ FailureHasCause
-----------------------------------------------------------------------------
Entries == [path : Paths, kind : Kinds]

(* The stack without its first entry. *)
LEMMA RestOfStack ==
  ASSUME TypeOK, todo # << >>
  PROVE  /\ Entry = todo[1] /\ Entry \in Entries /\ Entry.path \in Paths /\ Entry.kind \in Kinds
         /\ Len(todo) \in Nat \ {0} /\ DOMAIN todo = 1..Len(todo)
         /\ Tail(todo) \in Seq(Entries) /\ Len(Tail(todo)) = Len(todo) - 1
         /\ DOMAIN Tail(todo) = 1..(Len(todo) - 1)
         /\ \A k \in 1..(Len(todo) - 1) : Tail(todo)[k] = todo[k + 1]
<1>1. todo \in Seq(Entries)
  BY DEF TypeOK, Entries
<1>2. Entry = todo[1] /\ Len(todo) \in Nat \ {0} /\ DOMAIN todo = 1..Len(todo)
  BY <1>1 DEF Entry
<1>3. Entry \in Entries
  BY <1>1, HeadTailProperties DEF Entry
<1>4. Tail(todo) \in Seq(Entries) /\ Len(Tail(todo)) = Len(todo) - 1
      /\ \A k \in 1..Len(Tail(todo)) : Tail(todo)[k] = todo[k + 1]
  BY <1>1, HeadTailProperties
<1>5. DOMAIN Tail(todo) = 1..Len(Tail(todo))
  BY <1>4, LenProperties
<1> QED BY <1>2, <1>3, <1>4, <1>5 DEF Entries

LEMMA PathsOfStack ==
  ASSUME TypeOK
  PROVE  \A k \in DOMAIN todo : todo[k] \in Entries /\ todo[k].path \in Paths
<1>1. todo \in Seq(Entries)
  BY DEF TypeOK, Entries
<1>2. DOMAIN todo = 1..Len(todo)
  BY <1>1, LenProperties
<1>3. \A k \in DOMAIN todo : todo[k] \in Entries
  BY <1>1, <1>2, ElementOfSeq
<1> QED BY <1>3 DEF Entries

(* What ListDir puts on the stack: the children of the directory, each once, and     *)
(* then what was on it.                                                           *)
Replaces(n, s) ==
  /\ todo' \in Seq(Entries) /\ DOMAIN todo' = 1..(n + Len(todo) - 1)
  /\ \A k \in 1..n :
       /\ s[k] \in Children(Entry.path)
       /\ todo'[k] = [path |-> s[k], kind |-> disk[s[k]]]
  /\ \A k \in (n + 1)..(n + Len(todo) - 1) : todo'[k] = todo[k - n + 1]
  /\ \A k, l \in 1..n : k # l => s[k] # s[l]
  /\ \A c \in Children(Entry.path) : \E k \in 1..n : s[k] = c

LEMMA ListDirReplaces ==
  ASSUME TypeOK, todo # << >>, ListDir
  PROVE  \E n \in Nat : \E s : Replaces(n, s)
<1> DEFINE C == Children(Entry.path)
           n == Cardinality(C)
<1>1. C \subseteq Paths
  BY DEF Children
<1>2. n \in Nat
  BY <1>1, PathsAssumption, FS_Subset, FS_CardinalityType
<1>3. PICK s \in InNameOrder(C) :
        todo' = [k \in DOMAIN s |-> [path |-> s[k], kind |-> disk[s[k]]]] \o Tail(todo)
  BY DEF ListDir
<1> HIDE DEF C, n
<1>4. s \in [1..n -> C] /\ (\A k, l \in 1..n : k # l => s[k] # s[l]) /\ (\A c \in C : \E k \in 1..n : s[k] = c)
  BY <1>3 DEF InNameOrder, n, Bijection, Injection, Surjection, IsInjective
<1> DEFINE new == [k \in 1..n |-> [path |-> s[k], kind |-> disk[s[k]]]]
           rest == Tail(todo)
<1>5. \A k \in 1..n : [path |-> s[k], kind |-> disk[s[k]]] \in Entries
  BY <1>1, <1>4 DEF Entries, TypeOK, Disks
<1>6. new \in Seq(Entries) /\ Len(new) = n
  BY <1>2, <1>5
<1>7. rest \in Seq(Entries) /\ Len(rest) = Len(todo) - 1 /\ Len(todo) \in Nat \ {0}
      /\ \A k \in 1..(Len(todo) - 1) : rest[k] = todo[k + 1]
  BY RestOfStack
<1>8. todo' = new \o rest
  BY <1>3, <1>4
<1>9. \A k \in 1..n : new[k] = [path |-> s[k], kind |-> disk[s[k]]]
  OBVIOUS
<1> HIDE DEF new, rest
<1>10. todo' \in Seq(Entries) /\ Len(todo') = n + Len(rest)
       /\ \A k \in 1..(n + Len(rest)) : todo'[k] = IF k <= n THEN new[k] ELSE rest[k - n]
  BY <1>6, <1>7, <1>8, ConcatProperties
<1>11. DOMAIN todo' = 1..(n + Len(todo) - 1)
  <2>1. DOMAIN todo' = 1..Len(todo')
    BY <1>10, LenProperties
  <2>2. Len(todo') = n + Len(todo) - 1
    BY <1>2, <1>7, <1>10
  <2> QED BY <2>1, <2>2
<1>12. ASSUME NEW k \in 1..n PROVE s[k] \in C /\ todo'[k] = [path |-> s[k], kind |-> disk[s[k]]]
  <2>1. k \in 1..(n + Len(rest)) /\ k <= n
    BY <1>2, <1>7
  <2> QED BY <1>4, <1>9, <1>10, <2>1
<1>13. ASSUME NEW k \in (n + 1)..(n + Len(todo) - 1) PROVE todo'[k] = todo[k - n + 1]
  <2>1. k \in 1..(n + Len(rest)) /\ ~(k <= n) /\ k - n \in 1..(Len(todo) - 1)
    BY <1>2, <1>7
  <2> QED BY <1>7, <1>10, <2>1
<1>14. Replaces(n, s)
  BY <1>4, <1>10, <1>11, <1>12, <1>13 DEF Replaces, C
<1> QED BY <1>2, <1>14

(* Every state is a state of the variables. *)
LEMMA TypesKept == TypeOK /\ PlaceInv /\ [Next]_vars => TypeOK'
<1> SUFFICES ASSUME TypeOK, PlaceInv, [Next]_vars PROVE TypeOK'
  OBVIOUS
<1> USE DEF TypeOK, world, Goto, Fail
<1>1. CASE StatFails \/ StatRoot \/ LstatFails \/ VisitCancelled \/ EnterDir \/ InfoFails \/ ListFails
  BY <1>1 DEF StatFails, StatRoot, LstatFails, VisitCancelled, EnterDir, InfoFails, ListFails, Visit
<1>2. CASE LstatRoot
  <2>1. [path |-> Root, kind |-> disk[Root]] \in [path : Paths, kind : Kinds]
    BY PathsAssumption DEF Disks
  <2> QED BY <1>2, <2>1 DEF LstatRoot
<1>3. CASE PassOver
  BY <1>3, RestOfStack DEF PassOver, Visit, Entries
<1>4. CASE AppendFile
  <2>1. Entry.path \in Paths /\ Tail(todo) \in Seq(Entries)
    BY <1>4, RestOfStack DEF AppendFile, Visit
  <2>2. out' \in Seq(Paths)
    BY <1>4, <2>1 DEF AppendFile
  <2> QED BY <1>4, <2>1, <2>2 DEF AppendFile, Visit, Entries
<1>5. CASE ListDir
  <2>1. todo' \in Seq(Entries)
    BY <1>5, ListDirReplaces DEF Replaces, ListDir, PlaceInv
  <2> QED BY <1>5, <2>1 DEF ListDir, Entries
<1>6. CASE SortAndReturn
  <2>1. PICK files \in Sorted(out) : result' = [kind |-> "ok", files |-> files]
    BY <1>6 DEF SortAndReturn
  <2>2. files \in Seq(Paths)
    <3>1. DOMAIN out = 1..Len(out) /\ Len(out) \in Nat
      OBVIOUS
    <3>2. PICK p \in [DOMAIN out -> DOMAIN out] : files = [k \in DOMAIN out |-> out[p[k]]]
      BY <2>1 DEF Sorted, Bijection, Injection
    <3>3. \A k \in 1..Len(out) : out[p[k]] \in Paths
      BY <3>1, <3>2, ElementOfSeq
    <3> QED BY <3>1, <3>2, <3>3
  <2> QED BY <1>6, <2>1, <2>2 DEF SortAndReturn
<1>7. CASE Cancel \/ Terminating \/ UNCHANGED vars
  BY <1>7 DEF Cancel, Terminating, vars
<1>8. ASSUME NEW p \in Paths, Change(p) PROVE TypeOK'
  <2>1. changes' \in 0..MaxChanges /\ touched' \subseteq Paths
    BY <1>8, MaxChangesAssumption DEF Change, Below
  <2>2. disk' \in Disks
    BY <1>8, KindsAssumption DEF Change, Disks
  <2> QED BY <1>8, <2>1, <2>2 DEF Change
<1> QED BY <1>1, <1>2, <1>3, <1>4, <1>5, <1>6, <1>7, <1>8 DEF Next, Step
-----------------------------------------------------------------------------
(* A step of Walk leaves the tree alone, and seldom moves the stack. *)
LEMMA StepsOfWalk ==
  ASSUME Step
  PROVE  /\ disk' = disk /\ touched' = touched /\ ctx' = ctx
         /\ (todo' = todo /\ out' = out) \/ LstatRoot \/ PassOver \/ AppendFile \/ ListDir
BY DEF Step, StatFails, StatRoot, LstatFails, LstatRoot, VisitCancelled, PassOver, InfoFails, AppendFile,
   EnterDir, ListFails, ListDir, SortAndReturn, Fail, Visit, world

LEMMA ChildrenAreBelow ==
  ASSUME NEW d \in Paths, NEW c \in Children(d)
  PROVE  c \in Below(d) /\ c \in Paths /\ Above(c) = Above(d) \cup {d} /\ disk[c] # "absent"
<1>1. c \in Paths \ {Root} /\ Front(c) = d /\ disk[c] # "absent"
  BY DEF Children
<1> QED BY <1>1, AboveAChild DEF Above, Below

LEMMA SiblingsApart ==
  ASSUME NEW d \in Paths, NEW b \in Children(d), NEW c \in Children(d), b # c
  PROVE  Apart(b, c)
<1>1. Above(b) = Above(c) /\ b \in Paths /\ c \in Paths
  BY ChildrenAreBelow
<1>2. b \notin Above(b) /\ c \notin Above(c)
  BY <1>1, NoneBelowItself DEF Above, Below
<1> QED BY <1>1, <1>2 DEF Apart, Above, Below

(* An entry of a directory is apart from what the directory is apart from. *)
LEMMA ChildApart ==
  ASSUME NEW d \in Paths, NEW c \in Children(d), NEW p \in Paths, Apart(d, p)
  PROVE  Apart(c, p)
<1>1. c \in Below(d) /\ c \in Paths /\ Above(c) = Above(d) \cup {d}
  BY ChildrenAreBelow
<1>2. c # p
  BY <1>1 DEF Apart
<1>3. c \notin Below(p)
  BY <1>1 DEF Apart, Above, Below
<1>4. p \notin Below(c)
  BY <1>1, BelowIsTransitive DEF Apart
<1> QED BY <1>2, <1>3, <1>4 DEF Apart

LEMMA EntriesKept ==
  ASSUME IInv, Step
  PROVE  EntriesInv'
<1>1. TypeOK /\ EntriesInv /\ PlaceInv /\ disk' = disk /\ touched' = touched
  BY StepsOfWalk DEF IInv
<1>2. CASE todo' = todo
  BY <1>1, <1>2 DEF EntriesInv, Clear
<1>3. CASE LstatRoot
  <2>1. todo' = <<[path |-> Root, kind |-> disk[Root]]>>
    BY <1>3 DEF LstatRoot
  <2>2. Clear(Root)
    <3>1. ASSUME NEW q \in Above(Root) PROVE FALSE
      <4>1. q \in Seq(STRING) /\ Root \in Seq(STRING) /\ IsStrictPrefix(q, Root)
        BY PathsAssumption DEF Above
      <4>2. Len(q) < Len(Root) /\ Len(q) \in Nat
        BY <4>1, StrictPrefix
      <4> QED BY <4>2 DEF Root
    <3> QED BY <3>1 DEF Clear
  <2>3. \A k \in DOMAIN todo' : k = 1
    BY <2>1
  <2>4. todo'[1] = [path |-> Root, kind |-> disk[Root]]
    BY <2>1
  <2> QED BY <1>1, <2>2, <2>3, <2>4 DEF EntriesInv, Clear
<1>4. CASE todo # << >> /\ todo' = Tail(todo)
  <2>1. \A k \in DOMAIN todo' : k + 1 \in DOMAIN todo /\ todo'[k] = todo[k + 1] /\ k \in Nat
    BY <1>1, <1>4, RestOfStack
  <2>2. \A k \in DOMAIN todo' :
          Clear(todo'[k].path) /\ (disk[todo'[k].path] = todo'[k].kind \/ todo'[k].path \in touched)
    BY <1>1, <2>1 DEF EntriesInv
  <2>3. \A k, l \in DOMAIN todo' : k # l => Apart(todo'[k].path, todo'[l].path)
    <3> SUFFICES ASSUME NEW k \in DOMAIN todo', NEW l \in DOMAIN todo', k # l
                 PROVE  Apart(todo[k + 1].path, todo[l + 1].path)
      BY <2>1
    <3>1. k + 1 # l + 1
      BY <2>1
    <3> QED BY <1>1, <2>1, <3>1 DEF EntriesInv
  <2> QED BY <1>1, <2>2, <2>3 DEF EntriesInv, Clear
<1>5. CASE ListDir
  <2>1. todo # << >> /\ ~Skipped(Entry.path)
    BY <1>1, <1>5 DEF PlaceInv, ListDir, Goto
  <2>2. PICK n \in Nat : \E s : Replaces(n, s)
    BY <1>1, <1>5, <2>1, ListDirReplaces
  <2>3. PICK s : Replaces(n, s)
    BY <2>2
  <2> DEFINE d == Entry.path
  <2>4. d = todo[1].path /\ d \in Paths /\ Len(todo) \in Nat \ {0} /\ DOMAIN todo = 1..Len(todo)
    BY <1>1, <2>1, RestOfStack
  <2>5. Clear(d) /\ \A k \in DOMAIN todo : k # 1 => Apart(d, todo[k].path)
    BY <1>1, <2>4 DEF EntriesInv
  <2>6. \A k \in DOMAIN todo : todo[k].path \in Paths
    BY <1>1, PathsOfStack
  <2>7. ASSUME NEW k \in 1..n
        PROVE  todo'[k].path \in Children(d) /\ todo'[k].kind = disk[todo'[k].path] /\ todo'[k].path = s[k]
    <3>1. s[k] \in Children(d) /\ todo'[k] = [path |-> s[k], kind |-> disk[s[k]]]
      BY <2>3 DEF Replaces
    <3> QED BY <3>1
  <2>8. ASSUME NEW k \in DOMAIN todo', k \notin 1..n
        PROVE  todo'[k] = todo[k - n + 1] /\ k - n + 1 \in DOMAIN todo /\ k - n + 1 # 1
    <3>1. k \in (n + 1)..(n + Len(todo) - 1)
      BY <2>3, <2>4, <2>8 DEF Replaces
    <3>2. todo'[k] = todo[k - n + 1]
      BY <2>3, <3>1 DEF Replaces
    <3> QED BY <2>4, <3>1, <3>2
  <2>9. ASSUME NEW k \in DOMAIN todo'
        PROVE  Clear(todo'[k].path) /\ (disk[todo'[k].path] = todo'[k].kind \/ todo'[k].path \in touched)
    <3>1. CASE k \in 1..n
      <4>1. Above(todo'[k].path) = Above(d) \cup {d}
        BY <2>4, <2>7, <3>1, ChildrenAreBelow
      <4> QED BY <2>1, <2>5, <2>7, <3>1, <4>1 DEF Clear
    <3>2. CASE k \notin 1..n
      BY <1>1, <2>8, <3>2 DEF EntriesInv
    <3> QED BY <3>1, <3>2
  <2>10. ASSUME NEW k \in DOMAIN todo', NEW l \in DOMAIN todo', k # l
         PROVE  Apart(todo'[k].path, todo'[l].path)
    <3>1. CASE k \in 1..n /\ l \in 1..n
      <4>1. s[k] # s[l]
        BY <2>3, <2>10, <3>1 DEF Replaces
      <4> QED BY <2>4, <2>7, <3>1, <4>1, SiblingsApart
    <3>2. CASE k \in 1..n /\ l \notin 1..n
      <4>1. todo'[k].path \in Children(d) /\ todo'[l].path \in Paths /\ Apart(d, todo'[l].path)
        BY <2>5, <2>6, <2>7, <2>8, <3>2
      <4> QED BY <2>4, <4>1, ChildApart
    <3>3. CASE k \notin 1..n /\ l \in 1..n
      <4>1. todo'[l].path \in Children(d) /\ todo'[k].path \in Paths /\ Apart(d, todo'[k].path)
        BY <2>5, <2>6, <2>7, <2>8, <3>3
      <4>2. Apart(todo'[l].path, todo'[k].path)
        BY <2>4, <4>1, ChildApart
      <4> QED BY <4>2 DEF Apart
    <3>4. CASE k \notin 1..n /\ l \notin 1..n
      <4>1. k - n + 1 # l - n + 1
        <5>1. k \in Int /\ l \in Int
          BY <2>3 DEF Replaces
        <5> QED BY <2>10, <5>1
      <4> QED BY <1>1, <2>8, <3>4, <4>1 DEF EntriesInv
    <3> QED BY <3>1, <3>2, <3>3, <3>4
  <2> QED BY <1>1, <2>9, <2>10 DEF EntriesInv, Clear
<1> QED BY <1>2, <1>3, <1>4, <1>5, StepsOfWalk DEF PassOver, AppendFile, Visit

(* The two kinds of entries there are behind ListDir. *)
LEMMA NewAndOldEntries ==
  ASSUME TypeOK, EntriesInv, PlaceInv, ListDir
  PROVE  /\ todo # << >> /\ Entry.path = todo[1].path /\ Entry.path \in Paths
         /\ 1 \in DOMAIN todo
         /\ \A k \in DOMAIN todo' :
              \/ todo'[k].path \in Children(Entry.path)
              \/ \E l \in DOMAIN todo : l # 1 /\ todo'[k] = todo[l]
         /\ \A c \in Children(Entry.path) :
              \E k \in DOMAIN todo' : todo'[k].path = c /\ todo'[k].kind = disk[c]
         /\ \A l \in DOMAIN todo \ {1} : \E k \in DOMAIN todo' : todo'[k] = todo[l]
<1>1. todo # << >>
  BY DEF PlaceInv, ListDir, Goto
<1>2. PICK n \in Nat : \E s : Replaces(n, s)
  BY <1>1, ListDirReplaces
<1>3. PICK s : Replaces(n, s)
  BY <1>2
<1>4. Entry = todo[1] /\ Entry.path \in Paths /\ Len(todo) \in Nat \ {0} /\ DOMAIN todo = 1..Len(todo)
  BY <1>1, RestOfStack
<1>5. DOMAIN todo' = 1..(n + Len(todo) - 1)
  BY <1>3 DEF Replaces
<1>6. ASSUME NEW k \in 1..n
      PROVE  s[k] \in Children(Entry.path) /\ todo'[k].path = s[k] /\ todo'[k].kind = disk[s[k]] /\ k \in DOMAIN todo'
  <2>1. s[k] \in Children(Entry.path) /\ todo'[k] = [path |-> s[k], kind |-> disk[s[k]]]
    BY <1>3 DEF Replaces
  <2>2. k \in DOMAIN todo'
    BY <1>4, <1>5
  <2> QED BY <2>1, <2>2
<1>7. ASSUME NEW k \in DOMAIN todo', k \notin 1..n
      PROVE  \E l \in DOMAIN todo : l # 1 /\ todo'[k] = todo[l]
  <2>1. k \in (n + 1)..(n + Len(todo) - 1) /\ k - n + 1 \in 1..Len(todo) /\ k - n + 1 # 1
    BY <1>4, <1>5, <1>7
  <2>2. todo'[k] = todo[k - n + 1]
    BY <1>3, <2>1 DEF Replaces
  <2> QED BY <1>4, <2>1, <2>2
<1>8. ASSUME NEW l \in DOMAIN todo \ {1}
      PROVE  \E k \in DOMAIN todo' : todo'[k] = todo[l]
  <2>1. l \in 2..Len(todo)
    BY <1>4, <1>8
  <2> DEFINE k == l + n - 1
  <2>2. k \in (n + 1)..(n + Len(todo) - 1) /\ k \in 1..(n + Len(todo) - 1) /\ k - n + 1 = l
    BY <1>4, <2>1
  <2> HIDE DEF k
  <2>3. todo'[k] = todo[k - n + 1]
    BY <1>3, <2>2 DEF Replaces
  <2> QED BY <1>5, <2>2, <2>3
<1>9. ASSUME NEW c \in Children(Entry.path)
      PROVE  \E k \in DOMAIN todo' : todo'[k].path = c /\ todo'[k].kind = disk[c]
  <2>1. PICK k \in 1..n : s[k] = c
    BY <1>3 DEF Replaces
  <2> QED BY <1>6, <2>1
<1> QED BY <1>1, <1>4, <1>6, <1>7, <1>8, <1>9

LEMMA FoundKept ==
  ASSUME IInv, Step
  PROVE  FoundInv'
<1>1. TypeOK /\ EntriesInv /\ FoundInv /\ PlaceInv /\ disk' = disk /\ touched' = touched
  BY StepsOfWalk DEF IInv
<1>2. CASE todo' = todo /\ out' = out
  BY <1>1, <1>2 DEF FoundInv, Clear
<1>3. CASE LstatRoot
  <2>1. out' = << >> /\ DOMAIN out' = {}
    BY <1>1, <1>3 DEF LstatRoot, Goto, PlaceInv
  <2> QED BY <2>1 DEF FoundInv
<1> DEFINE Later(o) == \A k \in DOMAIN todo' : o # todo'[k].path /\ o \notin Below(todo'[k].path)
<1>4. CASE PassOver \/ AppendFile
  <2>1. todo # << >> /\ todo' = Tail(todo)
    BY <1>4 DEF PassOver, AppendFile, Visit
  <2>2. \A k \in DOMAIN todo' : k + 1 \in DOMAIN todo /\ k + 1 # 1 /\ todo'[k] = todo[k + 1]
    BY <1>1, <2>1, RestOfStack
  <2>3. Entry = todo[1] /\ 1 \in DOMAIN todo /\ Entry.path \in Paths
    BY <1>1, <2>1, RestOfStack
  <2>4. \A i \in DOMAIN out : Later(out[i])
    BY <1>1, <2>2 DEF FoundInv
  <2>5. CASE out' = out
    BY <1>1, <2>4, <2>5 DEF FoundInv, Clear
  <2>6. CASE AppendFile
    <3>1. out \in Seq(Paths) /\ DOMAIN out = 1..Len(out) /\ Len(out) \in Nat
      BY <1>1 DEF TypeOK
    <3>2. out' = Append(out, Entry.path) /\ Entry.kind = "file"
      BY <2>6 DEF AppendFile
    <3> DEFINE new == Len(out) + 1
    <3>3. DOMAIN out' = DOMAIN out \cup {new} /\ new \notin DOMAIN out
      BY <3>1, <3>2
    <3>4. (\A i \in DOMAIN out : out'[i] = out[i]) /\ out'[new] = Entry.path
      BY <2>3, <3>1, <3>2, AppendProperties
    <3> HIDE DEF new
    <3>5. Clear(Entry.path) /\ (disk[Entry.path] = "file" \/ Entry.path \in touched)
      BY <1>1, <2>3, <3>2 DEF EntriesInv
    <3>6. \A i \in DOMAIN out' : Clear(out'[i]) /\ (disk[out'[i]] = "file" \/ out'[i] \in touched)
      BY <1>1, <3>3, <3>4, <3>5 DEF FoundInv
    <3>7. \A i \in DOMAIN out : out[i] # Entry.path
      BY <1>1, <2>3 DEF FoundInv
    <3>8. \A i, j \in DOMAIN out' : i # j => out'[i] # out'[j]
      BY <1>1, <3>3, <3>4, <3>7 DEF FoundInv
    <3>9. Later(Entry.path)
      BY <1>1, <2>2, <2>3 DEF EntriesInv, Apart
    <3>10. \A i \in DOMAIN out' : Later(out'[i])
      BY <2>4, <3>3, <3>4, <3>9
    <3> QED BY <1>1, <3>6, <3>8, <3>10 DEF FoundInv, Clear
  <2> QED BY <1>4, <2>5, <2>6 DEF PassOver
<1>5. CASE ListDir
  <2>1. out' = out
    BY <1>5 DEF ListDir
  <2>2. \A i \in DOMAIN out : Later(out[i])
    <3> SUFFICES ASSUME NEW i \in DOMAIN out, NEW k \in DOMAIN todo'
                 PROVE  out[i] # todo'[k].path /\ out[i] \notin Below(todo'[k].path)
      OBVIOUS
    <3>1. CASE todo'[k].path \in Children(Entry.path)
      <4>1. todo'[k].path \in Below(Entry.path) /\ Entry.path \in Paths
        BY <1>1, <1>5, <3>1, NewAndOldEntries, ChildrenAreBelow
      <4>2. out[i] \notin Below(Entry.path)
        BY <1>1, <1>5, NewAndOldEntries DEF FoundInv
      <4> QED BY <4>1, <4>2, BelowIsTransitive
    <3>2. CASE \E l \in DOMAIN todo : l # 1 /\ todo'[k] = todo[l]
      BY <1>1, <3>2 DEF FoundInv
    <3> QED BY <1>1, <1>5, <3>1, <3>2, NewAndOldEntries
  <2> QED BY <1>1, <2>1, <2>2 DEF FoundInv, Clear
<1> QED BY <1>2, <1>3, <1>4, <1>5, StepsOfWalk

LEMMA PendingKept ==
  ASSUME IInv, Step
  PROVE  PendingInv'
<1>1. TypeOK /\ PlaceInv /\ disk' = disk /\ touched' = touched
  BY StepsOfWalk DEF IInv
<1>2. Stayed' = Stayed
  BY <1>1 DEF Stayed
<1> SUFFICES ASSUME pc' \in {"visit", "list"}, disk[Root] # "link", NEW p \in Stayed
             PROVE  \/ \E i \in DOMAIN out' : out'[i] = p
                    \/ \E k \in DOMAIN todo' : Leads(todo'[k], p)
  BY <1>1, <1>2 DEF PendingInv, Leads, IsDir
<1>3. /\ p \in Paths /\ p \notin touched /\ disk[p] = "file"
      /\ \A q \in Above(p) : ~Skipped(q) /\ (q = Root \/ disk[q] = "dir")
  BY DEF Stayed, Skipped
<1>4. CASE LstatRoot
  <2>1. p # Root
    BY <1>1, <1>3, <1>4 DEF LstatRoot, Goto, PlaceInv
  <2>2. Root \in Above(p) /\ p \in Below(Root)
    BY <1>3, <2>1, RootAbove DEF Above, Below
  <2>3. PICK c \in Paths \ {Root} : Front(c) = Root /\ (c = p \/ c \in Above(p))
    BY <1>3, <2>2, ChildTowards
  <2>4. disk[c] # "absent"
    BY <1>3, <2>3
  <2>5. disk[Root] \in {"dir", "locked", "link"}
    BY <1>1, <2>3, <2>4 DEF TypeOK, Disks, WellFormed
  <2>6. todo' = <<[path |-> Root, kind |-> disk[Root]]>>
    BY <1>4 DEF LstatRoot
  <2>7. 1 \in DOMAIN todo' /\ todo'[1].path = Root /\ todo'[1].kind = disk[Root]
    BY <2>6
  <2> QED BY <2>2, <2>5, <2>7 DEF Leads, IsDir
<1>5. CASE pc \in {"visit", "list"}
  <2>1. (\E i \in DOMAIN out : out[i] = p) \/ (\E k \in DOMAIN todo : Leads(todo[k], p))
    BY <1>5 DEF IInv, PendingInv
  <2>2. CASE todo' = todo /\ out' = out
    BY <2>1, <2>2
  <2>3. CASE PassOver \/ AppendFile
    <3>1. todo # << >> /\ todo' = Tail(todo)
      BY <2>3 DEF PassOver, AppendFile, Visit
    <3>2. /\ Entry = todo[1] /\ Len(todo) \in Nat \ {0} /\ DOMAIN todo = 1..Len(todo)
          /\ DOMAIN todo' = 1..(Len(todo) - 1) /\ \A k \in 1..(Len(todo) - 1) : todo'[k] = todo[k + 1]
      BY <1>1, <3>1, RestOfStack
    <3>3. ASSUME NEW k \in DOMAIN todo, k # 1, Leads(todo[k], p)
          PROVE  \E l \in DOMAIN todo' : Leads(todo'[l], p)
      <4>1. k - 1 \in DOMAIN todo' /\ (k - 1) + 1 = k
        BY <3>2, <3>3
      <4>2. todo'[k - 1] = todo[k]
        BY <3>2, <4>1
      <4> QED BY <3>3, <4>1, <4>2
    <3>4. CASE AppendFile
      <4>1. out \in Seq(Paths) /\ Entry.path \in Paths /\ out' = Append(out, Entry.path) /\ Entry.kind = "file"
        BY <1>1, <3>1, <3>4, RestOfStack DEF TypeOK, AppendFile
      <4>2. /\ \A i \in DOMAIN out : i \in DOMAIN out' /\ out'[i] = out[i]
            /\ \E i \in DOMAIN out' : out'[i] = Entry.path
        BY <4>1, AppendProperties, LenProperties
      <4>3. Leads(Entry, p) => p = Entry.path
        BY <4>1 DEF Leads, IsDir
      <4> QED BY <2>1, <3>2, <3>3, <4>2, <4>3
    <3>5. CASE PassOver
      <4>1. out' = out /\ (IF IsDir(Entry) THEN Skipped(Entry.path) ELSE Entry.kind # "file")
        BY <3>5 DEF PassOver
      <4>2. Entry.path \in Paths
        BY <1>1, <3>1, RestOfStack
      <4>3. ~Leads(Entry, p)
        <5> SUFFICES ASSUME Leads(Entry, p) PROVE FALSE
          OBVIOUS
        <5>1. CASE Entry.path = p /\ Entry.kind = "file"
          BY <4>1, <5>1 DEF IsDir
        <5>2. CASE p \in Below(Entry.path) /\ IsDir(Entry)
          <6>1. Entry.path \in Above(p)
            BY <4>2, <5>2 DEF Above, Below
          <6> QED BY <1>3, <4>1, <5>2, <6>1
        <5> QED BY <5>1, <5>2 DEF Leads
      <4> QED BY <2>1, <3>2, <3>3, <4>1, <4>3
    <3> QED BY <2>3, <3>4, <3>5
  <2>4. CASE ListDir
    <3>1. out' = out /\ pc = "list" /\ IsDir(Entry) /\ Entry.path \in Paths /\ Entry = todo[1]
      BY <1>1, <2>4, RestOfStack DEF ListDir, Goto, PlaceInv
    <3>2. ASSUME NEW k \in DOMAIN todo, k # 1, Leads(todo[k], p)
          PROVE  \E l \in DOMAIN todo' : Leads(todo'[l], p)
      <4>1. PICK l \in DOMAIN todo' : todo'[l] = todo[k]
        BY <1>1, <2>4, <3>2, NewAndOldEntries DEF IInv
      <4> QED BY <3>2, <4>1
    <3>3. ASSUME Leads(Entry, p)
          PROVE  \E l \in DOMAIN todo' : Leads(todo'[l], p)
      <4>1. p \in Below(Entry.path) /\ Entry.path \in Above(p)
        BY <3>1, <3>3 DEF Leads, IsDir, Above, Below
      <4>2. PICK c \in Paths \ {Root} : Front(c) = Entry.path /\ (c = p \/ c \in Above(p))
        BY <1>3, <4>1, ChildTowards
      <4>3. disk[c] = IF c = p THEN "file" ELSE "dir"
        BY <1>3, <4>2
      <4>4. c \in Children(Entry.path)
        BY <4>2, <4>3 DEF Children
      <4>5. PICK l \in DOMAIN todo' : todo'[l].path = c /\ todo'[l].kind = disk[c]
        BY <1>1, <2>4, <4>4, NewAndOldEntries DEF IInv
      <4>6. c = p \/ p \in Below(c)
        BY <1>3, <4>2 DEF Above, Below
      <4> QED BY <4>3, <4>5, <4>6 DEF Leads, IsDir
    <3> QED BY <2>1, <3>1, <3>2, <3>3
  <2> QED BY <1>5, <2>2, <2>3, <2>4, StepsOfWalk DEF LstatRoot, Goto
<1>6. pc \in {"visit", "list"} \/ LstatRoot
  BY DEF Step, StatFails, StatRoot, LstatFails, LstatRoot, VisitCancelled, PassOver, InfoFails, AppendFile,
     EnterDir, ListFails, ListDir, SortAndReturn, Fail, Visit, Goto
<1> QED BY <1>4, <1>5, <1>6

LEMMA PlaceKept ==
  ASSUME IInv, Step
  PROVE  PlaceInv'
<1>1. TypeOK /\ PlaceInv
  BY DEF IInv
<1>2. disk' = disk /\ touched' = touched
  BY StepsOfWalk
<1>3. CASE EnterDir
  <2>1. todo' = todo /\ todo # << >> /\ IsDir(Entry) /\ ~Skipped(Entry.path) /\ pc' = "list" /\ result' = result
        /\ pc = "visit"
    BY <1>3 DEF EnterDir, Visit, Goto
  <2> QED BY <1>1, <2>1 DEF PlaceInv, Entry, IsDir, Skipped
<1>4. CASE StatFails \/ StatRoot \/ LstatFails \/ LstatRoot \/ VisitCancelled \/ ListFails
  BY <1>1, <1>2, <1>4 DEF StatFails, StatRoot, LstatFails, LstatRoot, VisitCancelled, ListFails, Fail, Goto, PlaceInv
<1>5. CASE PassOver \/ InfoFails \/ AppendFile \/ ListDir \/ SortAndReturn
  BY <1>1, <1>2, <1>5 DEF PassOver, InfoFails, AppendFile, ListDir, SortAndReturn, Visit, Goto, PlaceInv
<1> QED BY <1>3, <1>4, <1>5 DEF Step

(* A sorted rearrangement of what was found has the same files, each once, in the    *)
(* order of their paths.                                                          *)
LEMMA SortedIsTheSame ==
  ASSUME TypeOK, FoundInv, NEW s \in Sorted(out)
  PROVE  /\ \A i \in DOMAIN out : \E k \in DOMAIN s : s[k] = out[i]
         /\ \A k \in DOMAIN s : \E i \in DOMAIN out : s[k] = out[i]
         /\ \A k, l \in DOMAIN s : k < l => PathRank[s[k]] < PathRank[s[l]]
<1>1. PICK p \in Bijection(DOMAIN out, DOMAIN out) : s = [k \in DOMAIN out |-> out[p[k]]]
  BY DEF Sorted
<1>2. /\ p \in [DOMAIN out -> DOMAIN out]
      /\ \A k, l \in DOMAIN out : p[k] = p[l] => k = l
      /\ \A i \in DOMAIN out : \E k \in DOMAIN out : p[k] = i
  BY <1>1 DEF Bijection, Injection, Surjection, IsInjective
<1>3. DOMAIN s = DOMAIN out /\ \A k \in DOMAIN out : p[k] \in DOMAIN out /\ s[k] = out[p[k]]
  BY <1>1, <1>2
<1>4. \A i \in DOMAIN out : \E k \in DOMAIN s : s[k] = out[i]
  BY <1>2, <1>3
<1>5. \A k \in DOMAIN s : \E i \in DOMAIN out : s[k] = out[i]
  BY <1>3
<1>6. ASSUME NEW k \in DOMAIN s, NEW l \in DOMAIN s, k < l
      PROVE  PathRank[s[k]] < PathRank[s[l]]
  <2>1. PathRank[s[k]] <= PathRank[s[l]]
    BY <1>6 DEF Sorted
  <2>2. DOMAIN out = 1..Len(out) /\ Len(out) \in Nat /\ \A i \in DOMAIN out : out[i] \in Paths
    BY LenProperties, ElementOfSeq DEF TypeOK
  <2>3. k # l
    BY <1>3, <1>6, <2>2
  <2>4. s[k] # s[l]
    BY <1>2, <1>3, <2>3 DEF FoundInv
  <2>5. s[k] \in Paths /\ s[l] \in Paths
    BY <1>3, <2>2
  <2>6. PathRank[s[k]] # PathRank[s[l]]
    BY <2>4, <2>5, RankAssumption
  <2>7. PathRank[s[k]] \in Nat /\ PathRank[s[l]] \in Nat
    BY <2>5, RankAssumption
  <2> QED BY <2>1, <2>6, <2>7
<1> QED BY <1>4, <1>5, <1>6

LEMMA ListingKept ==
  ASSUME IInv, Step
  PROVE  ListsWhatStayed'
<1>1. TypeOK /\ FoundInv /\ PlaceInv /\ PendingInv /\ disk' = disk /\ touched' = touched
  BY StepsOfWalk DEF IInv
<1>2. pc # "returned" /\ result = NoResult
  BY <1>1 DEF PlaceInv, Step, StatFails, StatRoot, LstatFails, LstatRoot, VisitCancelled, PassOver, InfoFails,
     AppendFile, EnterDir, ListFails, ListDir, SortAndReturn, Fail, Visit, Goto
<1>3. CASE result' \in {NoResult, Failed}
  BY <1>3 DEF ListsWhatStayed, Succeeded, NoResult, Failed
<1>4. CASE SortAndReturn
  <2>1. PICK s \in Sorted(out) : result' = [kind |-> "ok", files |-> s]
    BY <1>4 DEF SortAndReturn
  <2>2. result'.files = s
    BY <2>1
  <2>3. Listed' = {out[i] : i \in DOMAIN out}
    BY <1>1, <2>2, SortedIsTheSame DEF Listed
  <2>4. Stayed' = Stayed
    BY <1>1 DEF Stayed
  <2>5. pc = "visit" /\ todo = << >>
    BY <1>4 DEF SortAndReturn, Goto
  <2>6. disk[Root] # "link" => \A p \in Stayed : \E i \in DOMAIN out : out[i] = p
    <3>1. DOMAIN todo = {}
      BY <2>5
    <3> QED BY <1>1, <2>5, <3>1 DEF PendingInv
  <2>7. \A p \in Listed' : Clear(p) /\ (disk[p] = "file" \/ p \in touched)
    BY <1>1, <2>3 DEF FoundInv
  <2>8. \A k, l \in DOMAIN s : k < l => PathRank[s[k]] < PathRank[s[l]]
    BY <1>1, SortedIsTheSame
  <2> QED BY <1>1, <2>2, <2>3, <2>4, <2>6, <2>7, <2>8 DEF ListsWhatStayed, Clear
<1> QED BY <1>2, <1>3, <1>4 DEF Step, StatFails, StatRoot, LstatFails, LstatRoot, VisitCancelled, PassOver,
     InfoFails, AppendFile, EnterDir, ListFails, ListDir, Fail, Visit

LEMMA CauseKept ==
  ASSUME IInv, Step
  PROVE  FailureHasCause'
<1>1. TypeOK /\ EntriesInv /\ PlaceInv /\ FailureHasCause
      /\ disk' = disk /\ touched' = touched /\ ctx' = ctx
  BY StepsOfWalk DEF IInv
<1> DEFINE Cause ==
      \/ ctx = "cancelled"
      \/ touched # {}
      \/ disk[Root] \in {"absent", "file"}
      \/ \E p \in Paths : disk[p] = "locked" /\ \A q \in Above(p) \cup {p} : ~Skipped(q)
<1> SUFFICES ASSUME result' = Failed, touched = {}
             PROVE  Cause
  BY <1>1 DEF FailureHasCause
<1>2. CASE StatFails \/ LstatFails \/ VisitCancelled
  BY <1>2 DEF StatFails, LstatFails, VisitCancelled
<1>3. CASE InfoFails \/ ListFails
  <2>1. todo # << >>
    BY <1>1, <1>3 DEF InfoFails, ListFails, Visit, Fail, Goto, PlaceInv
  <2>2. Entry.path \in Paths /\ Clear(Entry.path) /\ disk[Entry.path] = Entry.kind
    BY <1>1, <2>1, RestOfStack DEF EntriesInv
  <2>3. CASE \E q \in Above(Entry.path) : disk[q] = "locked"
    <3>1. PICK q \in Above(Entry.path) : disk[q] = "locked"
      BY <2>3
    <3>2. \A r \in Above(q) : r \in Above(Entry.path)
      BY <2>2, <3>1, BelowIsTransitive DEF Above, Below
    <3> QED BY <2>2, <3>1, <3>2 DEF Clear, Above
  <2>4. CASE disk[Entry.path] = "locked" /\ ~Skipped(Entry.path)
    BY <2>2, <2>4 DEF Clear
  <2>5. CASE InfoFails
    BY <2>2, <2>3, <2>5 DEF InfoFails, Reachable
  <2>6. CASE ListFails
    <3>1. IsDir(Entry) /\ ~Skipped(Entry.path)
      BY <1>1, <2>6 DEF ListFails, Fail, Goto, PlaceInv
    <3> QED BY <2>2, <2>3, <2>4, <2>6, <3>1 DEF ListFails, Reachable, IsDir
  <2> QED BY <1>3, <2>5, <2>6
<1>4. CASE ~(StatFails \/ LstatFails \/ VisitCancelled \/ InfoFails \/ ListFails)
  <2>1. result = NoResult
    BY <1>1 DEF PlaceInv, Step, StatFails, StatRoot, LstatFails, LstatRoot, VisitCancelled, PassOver, InfoFails,
       AppendFile, EnterDir, ListFails, ListDir, SortAndReturn, Fail, Visit, Goto
  <2>2. result' # Failed
    BY <1>4, <2>1 DEF Step, StatRoot, LstatRoot, PassOver, AppendFile, EnterDir, ListDir, SortAndReturn,
       NoResult, Failed
  <2> QED BY <2>2
<1> QED BY <1>2, <1>3, <1>4
-----------------------------------------------------------------------------
(* What others do to the tree takes nothing from what is known of the rest of it.   *)
LEMMA OthersDisturbNothing ==
  ASSUME IInv, NEW p \in Paths, Change(p)
  PROVE  IInv'
<1>1. TypeOK /\ EntriesInv /\ FoundInv /\ PlaceInv /\ PendingInv /\ FailureHasCause
  BY DEF IInv
<1>2. /\ touched' = touched \cup {p} \cup Below(p)
      /\ pc # "returned" /\ UNCHANGED <<ctx, pc, todo, out, result>>
  BY DEF Change
<1>3. \A q \in Paths : q # p /\ q \notin Below(p) => disk'[q] = disk[q]
  BY DEF Change
<1>4. \A q \in Paths : disk'[q] = disk[q] \/ q \in touched'
  BY <1>2, <1>3
<1>5. TypeOK'
  BY <1>1, TypesKept DEF Next
<1>6. result' = NoResult
  BY <1>1, <1>2 DEF PlaceInv
<1>7. ListsWhatStayed' /\ FailureHasCause'
  BY <1>6 DEF ListsWhatStayed, FailureHasCause, Succeeded, NoResult, Failed
<1>8. EntriesInv'
  BY <1>1, <1>2, <1>4, PathsOfStack DEF EntriesInv, Clear
<1>9. FoundInv'
  <2>1. \A i \in DOMAIN out : out[i] \in Paths
    BY <1>1, LenProperties, ElementOfSeq DEF TypeOK
  <2> QED BY <1>1, <1>2, <1>4, <2>1 DEF FoundInv, Clear
<1>10. PlaceInv'
  <2>1. Root \in Paths
    BY PathsAssumption
  <2> QED BY <1>1, <1>2, <1>4, <2>1 DEF PlaceInv, Entry, IsDir, Skipped
<1>11. PendingInv'
  <2> SUFFICES ASSUME pc \in {"visit", "list"}, disk'[Root] # "link", NEW f \in Stayed'
               PROVE  (\E i \in DOMAIN out : out[i] = f) \/ (\E k \in DOMAIN todo : Leads(todo[k], f))
    BY <1>2 DEF PendingInv, Leads, IsDir
  <2>1. /\ f \in Paths /\ f \notin touched /\ f # p /\ f \notin Below(p) /\ disk'[f] = "file"
        /\ \A q \in Above(f) : q = Root \/ (disk'[q] = "dir" /\ ~Skipped(q))
    BY <1>2 DEF Stayed
  <2>2. \A q \in Above(f) \cup {f} : q \in Paths /\ q # p /\ q \notin Below(p)
    BY <2>1, BelowIsTransitive DEF Above, Below
  <2>3. \A q \in Above(f) \cup {f} : disk'[q] = disk[q]
    BY <1>3, <2>2
  <2>4. f \in Stayed
    BY <2>1, <2>3 DEF Stayed
  <2>5. disk[Root] # "link"
    <3>1. Root \in Above(f) \cup {f}
      BY <2>1, RootAbove
    <3> QED BY <2>3, <3>1
  <2> QED BY <1>1, <2>4, <2>5 DEF PendingInv
<1> QED BY <1>5, <1>7, <1>8, <1>9, <1>10, <1>11 DEF IInv

LEMMA Initially == Init => IInv
<1> SUFFICES ASSUME Init PROVE IInv
  OBVIOUS
<1>1. TypeOK
  BY MaxChangesAssumption DEF Init, TypeOK
<1>2. DOMAIN todo = {} /\ DOMAIN out = {}
  BY DEF Init
<1> QED BY <1>1, <1>2 DEF IInv, Init, EntriesInv, FoundInv, PlaceInv, PendingInv, ListsWhatStayed,
     FailureHasCause, Succeeded, NoResult, Failed

LEMMA InvKept == IInv /\ [Next]_vars => IInv'
<1> SUFFICES ASSUME IInv, [Next]_vars PROVE IInv'
  OBVIOUS
<1>1. TypeOK'
  BY TypesKept DEF IInv
<1>2. CASE Step
  BY <1>1, <1>2, EntriesKept, FoundKept, PlaceKept, PendingKept, ListingKept, CauseKept DEF IInv
<1>3. ASSUME NEW p \in Paths, Change(p) PROVE IInv'
  BY <1>3, OthersDisturbNothing
<1>4. CASE Cancel
  <2>1. UNCHANGED <<disk, touched, pc, todo, out, result>> /\ ctx' = "cancelled"
    BY <1>4 DEF Cancel
  <2>2. EntriesInv' /\ FoundInv' /\ PlaceInv'
    BY <2>1 DEF IInv, EntriesInv, FoundInv, PlaceInv, Clear, Entry, IsDir, Skipped
  <2>3. PendingInv'
    BY <2>1 DEF IInv, PendingInv, Stayed, Leads, IsDir
  <2>4. ListsWhatStayed' /\ FailureHasCause'
    BY <2>1 DEF IInv, ListsWhatStayed, FailureHasCause, Succeeded, Listed, Stayed
  <2> QED BY <1>1, <2>2, <2>3, <2>4 DEF IInv
<1>5. CASE UNCHANGED vars
  <2>1. UNCHANGED <<disk, touched, ctx, pc, todo, out, result>>
    BY <1>5 DEF vars
  <2>2. EntriesInv' /\ FoundInv' /\ PlaceInv'
    BY <2>1 DEF IInv, EntriesInv, FoundInv, PlaceInv, Clear, Entry, IsDir, Skipped
  <2>3. PendingInv'
    BY <2>1 DEF IInv, PendingInv, Stayed, Leads, IsDir
  <2>4. ListsWhatStayed' /\ FailureHasCause'
    BY <2>1 DEF IInv, ListsWhatStayed, FailureHasCause, Succeeded, Listed, Stayed
  <2> QED BY <1>1, <2>2, <2>3, <2>4 DEF IInv
<1> QED BY <1>2, <1>3, <1>4, <1>5 DEF Next, Terminating

LEMMA AlwaysIInv == Spec => []IInv
BY Initially, InvKept, PTL DEF Spec

(* Every state is a state of the variables; an error never comes with files. *)
THEOREM TypeCorrect == Spec => []TypeOK
<1>1. IInv => TypeOK
  BY DEF IInv
<1> QED BY <1>1, AlwaysIInv, PTL

(* However the tree changes meanwhile, a success lists every file that nobody       *)
(* touched, nothing else, each once and in the order of the paths.                *)
THEOREM ListingIsRight == Spec => []ListsWhatStayed
<1>1. IInv => ListsWhatStayed
  BY DEF IInv
<1> QED BY <1>1, AlwaysIInv, PTL

(* A walk that nothing and nobody disturbs succeeds. *)
THEOREM FailuresHaveCauses == Spec => []FailureHasCause
<1>1. IInv => FailureHasCause
  BY DEF IInv
<1> QED BY <1>1, AlwaysIInv, PTL
=============================================================================
