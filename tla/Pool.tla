-------------------------------- MODULE Pool --------------------------------
(***************************************************************************)
(* What an allocator of OS_fuse promises its callers, whatever it keeps on *)
(* disk: the free block list of free_block.c and the inode bitmap of       *)
(* inode.c are both checked against this specification.                    *)
(*                                                                         *)
(* An item is handed out only while nobody holds it; a request is refused  *)
(* only when every item is held; only a held item is given back.           *)
(***************************************************************************)
EXTENDS Integers

CONSTANTS
  Items,  \* what the pool hands out
  FAIL    \* what a refused request returns

VARIABLES
  held,   \* the items handed out and not yet given back
  got,    \* what the last request returned
  parity  \* of the requests answered: equal answers are still two

poolVars == <<held, got, parity>>

Init ==
  /\ held = {}
  /\ got = FAIL
  /\ parity = 0

(* A request that succeeds: some item that nobody holds is handed out. *)
Take ==
  \E i \in Items \ held :
    /\ held' = held \cup {i}
    /\ got' = i
    /\ parity' = 1 - parity

(* A request that is refused: only when there is nothing left. *)
Refuse ==
  /\ held = Items
  /\ got' = FAIL
  /\ parity' = 1 - parity
  /\ UNCHANGED held

(* A holder gives an item back. *)
Give ==
  \E i \in held :
    /\ held' = held \ {i}
    /\ UNCHANGED <<got, parity>>

(* The pool is formatted again: every item is free. *)
Format ==
  /\ held' = {}
  /\ UNCHANGED <<got, parity>>

Next == Take \/ Refuse \/ Give \/ Format

Spec == Init /\ [][Next]_poolVars

=============================================================================
