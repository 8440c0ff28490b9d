----------------------------- MODULE Directories ----------------------------
(***************************************************************************)
(* What directories promise: each one is a set of entries; an entry that   *)
(* was added is there until it is removed, and no change to one directory  *)
(* shows in another.                                                       *)
(***************************************************************************)
EXTENDS Naturals

CONSTANTS
  Nodes,    \* the directories
  Entries   \* what can be entered in one

VARIABLES
  present   \* the entries of each directory there is

Init == present = [n \in Nodes |-> {}]

Add(n, x) ==
  /\ x \notin present[n]
  /\ present' = [present EXCEPT ![n] = @ \cup {x}]

Remove(n, x) ==
  /\ x \in present[n]
  /\ present' = [present EXCEPT ![n] = @ \ {x}]

Destroy(n) ==
  present' = [m \in DOMAIN present \ {n} |-> present[m]]

Next ==
  \E n \in DOMAIN present :
    \/ \E x \in Entries : Add(n, x) \/ Remove(n, x)
    \/ Destroy(n)

Spec == Init /\ [][Next]_present

=============================================================================
