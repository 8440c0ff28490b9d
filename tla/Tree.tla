-------------------------------- MODULE Tree --------------------------------
(***************************************************************************)
(* What the names of a file system promise: a tree of directories and      *)
(* files. A call that is refused has changed nothing; one that is not has  *)
(* done what was asked. Removing a directory removes all that is below it. *)
(***************************************************************************)
EXTENDS Integers, Sequences, SequencesExt

CONSTANTS
  Paths,  \* sequences of names; <<>> is the root
  ENOENT, EEXIST, ENOSPC

VARIABLES
  tree,   \* what there is at each path: "dir" or "file"
  answer, \* of the last call
  turn    \* of the calls that succeeded: two are still two

treeVars == <<tree, answer, turn>>

Root == [p \in {<<>>} |-> "dir"]

Init ==
  /\ tree = Root
  /\ answer = 0
  /\ turn = 0

(* What calls make of a tree t. *)
Created(t, p) ==
  {[q \in DOMAIN t \cup {p} |-> IF q = p THEN kind ELSE t[q]] : kind \in {"dir", "file"}}

Pruned(t, p) == [q \in {o \in DOMAIN t : ~IsPrefix(p, o)} |-> t[q]]

Succeed ==
  /\ answer' = 0
  /\ turn' = 1 - turn

Refuse(e) ==
  /\ answer' = -e
  /\ turn' = 0

Call(p) ==
  LET t == tree
      u == tree'
  IN  \/ /\ p \notin DOMAIN t
         /\ Front(p) \in DOMAIN t /\ t[Front(p)] = "dir"
         /\ u \in Created(t, p)
         /\ Succeed
      \/ /\ p \in DOMAIN t
         /\ u = Pruned(t, p)
         /\ Succeed
      \/ /\ u = t
         /\ IF p \in DOMAIN t THEN Refuse(EEXIST) ELSE Refuse(ENOENT) \/ Refuse(ENOSPC)

Format ==
  /\ tree' = Root
  /\ answer' = 0
  /\ turn' = 0

Next == (\E p \in Paths : Call(p)) \/ Format

Spec == Init /\ [][Next]_treeVars

=============================================================================
