------------------------------ MODULE LazyLoad ------------------------------
(***************************************************************************)
(* What a detector that loads its rules on first use promises to the        *)
(* goroutines that call Detect: the answer of each call depends on what is   *)
(* on disk and on the call's own file, never on which call came first or on  *)
(* what the others were doing (internal/detector/detector.go: goroutine-     *)
(* safe, and pure with respect to the file contents).                        *)
(***************************************************************************)
CONSTANTS
  Callers,      \* the calls of Detect
  Disks,        \* what the rule files on disk may be
  Promised,     \* Promised[disk][c]: the answer call c must get
  NoAnswer      \* the call has not returned

VARIABLES disk, answer

Init == disk \in Disks /\ answer = [c \in Callers |-> NoAnswer]

Answer(c) ==
  /\ answer[c] = NoAnswer
  /\ answer' = [answer EXCEPT ![c] = Promised[disk][c]]
  /\ UNCHANGED disk

Next == \E c \in Callers : Answer(c)

vars == <<disk, answer>>

Spec == Init /\ [][Next]_vars /\ \A c \in Callers : WF_vars(Answer(c))
=============================================================================
