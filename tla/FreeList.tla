------------------------------ MODULE FreeList ------------------------------
(***************************************************************************)
(* The on-disk free list of free_block.c as operators on a volume v:       *)
(*   v.head  first word of block 0, free_block_head of the superblock      *)
(*   v.size  second word of block 0, free_block_size                       *)
(*   v.link  the first word of every other block: free_block_next while    *)
(*           the block is on the list, data of its holder otherwise        *)
(* FreeBlock and Stream are built from these operators; a volume may have  *)
(* further fields, which they leave alone.                                 *)
(***************************************************************************)
EXTENDS Integers

NIL == -1          \* end of the list, and what an exhausted list returns
ENOSPC == 28

(* Some block is on the list: block_num > 0. *)
HasFree(v) == v.head > 0

(* free_block_next of block b; block_read fills the buffer with zeros when *)
(* there is nothing to read at b.                                          *)
Successor(v, b) == IF b \in DOMAIN v.link THEN v.link[b] ELSE 0

(***************************************************************************)
(* Faulty variants, one slip in one line each. The properties are          *)
(* confronted with them to show that they can fail.                        *)
(***************************************************************************)
UnlinkedNextBlock(v) ==           \* takes the list to be contiguous
  [v EXCEPT !.head = v.head + 1, !.size = @ - 1]

LinkedBeforeSave(v, b) ==         \* head set before it is saved in the block
  [v EXCEPT !.head = b, !.size = @ + 1, !.link = [@ EXCEPT ![b] = b]]

(***************************************************************************)
(* The operations on the list.                                             *)
(***************************************************************************)

(* The first block is taken off the list and the superblock rewritten. *)
Unlinked(v) ==
  [v EXCEPT !.head = Successor(v, v.head), !.size = @ - 1]

(* Block b becomes the first block of the list, whatever b is; a write *)
(* outside the disk leaves no trace.                                   *)
Linked(v, b) ==
  [v EXCEPT !.head = b, !.size = @ + 1, !.link = [@ EXCEPT ![b] = v.head]]

(***************************************************************************)
(* What a list is.                                                         *)
(***************************************************************************)

(* s, read from its last element to its first, is the walk along the list  *)
(* of v: it starts at the head, follows the first words, ends with NIL.    *)
Walk(v, s) ==
  /\ v.head = IF v.size = 0 THEN NIL ELSE s[v.size]
  /\ \A i \in 1 .. v.size :
       v.link[s[i]] = IF i = 1 THEN NIL ELSE s[i - 1]

(* The walk along the list of v meets every block of F once, and no other. *)
ListsExactly(v, F) ==
  /\ v.size \in Nat
  /\ \E s \in [1 .. v.size -> F] :
       /\ \A i, j \in 1 .. v.size : s[i] = s[j] => i = j
       /\ \A b \in F : \E i \in 1 .. v.size : s[i] = b
       /\ Walk(v, s)

=============================================================================
