------------------------------ MODULE FreeBlock -----------------------------
(***************************************************************************)
(* The free block list: src/src/prelude/free_block.c, one call at a time.  *)
(*                                                                         *)
(* The list has no storage of its own: it is threaded through the first    *)
(* word of the free blocks themselves, and a block that has been handed    *)
(* out has its first word overwritten with whatever its holder stores.     *)
(* The state is block 0's two superblock words and the first word of every *)
(* other block (vol), the copy of the superblock in memory that            *)
(* free_block_size() answers from (SuperBlockBuf), and the error cell of   *)
(* err.c (ERRNO). The holders of blocks - the inode table and the files -  *)
(* are the environment: held is the set of blocks handed out to them.      *)
(***************************************************************************)
EXTENDS FreeList, FiniteSets

CONSTANTS
  MAX_BLOCK_NUM,  \* blocks on the disk, the superblock included
  DataWords       \* what a holder may leave in the first word of a block

ASSUME VolumeAssumption ==
  /\ MAX_BLOCK_NUM \in Nat
  /\ MAX_BLOCK_NUM >= 2
  /\ DataWords \subseteq Int
  /\ 0 \in DataWords

VARIABLES
  vol,            \* the disk: superblock words and first words
  SuperBlockBuf,  \* the superblock as last read or written
  ERRNO,          \* error of the last failing call not yet collected
  held,           \* blocks handed out and not pushed back
  got,            \* what the last pop or allocate returned
  parity          \* of the requests answered: equal answers are still two

vars == <<vol, SuperBlockBuf, ERRNO, held, got, parity>>

Blocks == 1 .. MAX_BLOCK_NUM - 1

Free == Blocks \ held

(* What superblock_read and superblock_write copy between disk and memory. *)
SuperBlock(v) == [head |-> v.head, size |-> v.size]

(***************************************************************************)
(* free_block_init: every block but block 0 on the list, in order.         *)
(***************************************************************************)
Formatted ==
  [head |-> 1,
   size |-> MAX_BLOCK_NUM - 1,
   link |-> [b \in Blocks |-> IF b = MAX_BLOCK_NUM - 1 THEN NIL ELSE b + 1]]

Init ==
  /\ vol = Formatted
  /\ SuperBlockBuf = SuperBlock(Formatted)
  /\ ERRNO = 0
  /\ held = {}
  /\ got = NIL
  /\ parity = 0

free_block_init ==
  /\ vol' = Formatted
  /\ SuperBlockBuf' = SuperBlock(Formatted)
  /\ held' = {}
  /\ UNCHANGED <<ERRNO, got, parity>>

(***************************************************************************)
(* A request on an exhausted list: both pop and allocate have read the     *)
(* superblock, record the error and return the head they found.            *)
(***************************************************************************)
NoSpace ==
  /\ ~HasFree(vol)
  /\ SuperBlockBuf' = SuperBlock(vol)
  /\ ERRNO' = -ENOSPC
  /\ got' = vol.head
  /\ parity' = 1 - parity
  /\ UNCHANGED <<vol, held>>

(* Faulty variants of the two calls that hand out blocks. *)
PopWithoutSave ==                 \* superblock_write forgotten
  \/ /\ HasFree(vol)
     /\ SuperBlockBuf' = SuperBlock(Unlinked(vol))
     /\ held' = held \cup {vol.head}
     /\ got' = vol.head
     /\ parity' = 1 - parity
     /\ UNCHANGED <<vol, ERRNO>>
  \/ NoSpace

PopStaleCopy ==                   \* the counter changed on disk only
  \/ /\ HasFree(vol)
     /\ vol' = Unlinked(vol)
     /\ SuperBlockBuf' = SuperBlock(vol)
     /\ held' = held \cup {vol.head}
     /\ got' = vol.head
     /\ parity' = 1 - parity
     /\ UNCHANGED ERRNO
  \/ NoSpace

free_block_pop ==
  \/ /\ HasFree(vol)
     /\ vol' = Unlinked(vol)
     /\ SuperBlockBuf' = SuperBlock(vol')
     /\ held' = held \cup {vol.head}
     /\ got' = vol.head
     /\ parity' = 1 - parity
     /\ UNCHANGED ERRNO
  \/ NoSpace

(* As pop, and the new block is written at once: with the caller's data, *)
(* whose first word is w, or with EmptyBlk, whose first word is 0.       *)
free_block_allocate(w) ==
  \/ /\ HasFree(vol)
     /\ vol' = [Unlinked(vol) EXCEPT !.link[vol.head] = w]
     /\ SuperBlockBuf' = SuperBlock(vol')
     /\ held' = held \cup {vol.head}
     /\ got' = vol.head
     /\ parity' = 1 - parity
     /\ UNCHANGED ERRNO
  \/ NoSpace

(* Callers push back blocks they hold. *)
free_block_push(b) ==
  /\ vol' = Linked(vol, b)
  /\ SuperBlockBuf' = SuperBlock(vol')
  /\ held' = held \ {b}
  /\ UNCHANGED <<ERRNO, got, parity>>

(* The holder of block b stores data in it: block_write outside this file. *)
block_write(b, w) ==
  /\ vol' = [vol EXCEPT !.link[b] = w]
  /\ UNCHANGED <<SuperBlockBuf, ERRNO, held, got, parity>>

(* A caller collects the error. *)
errno_pop ==
  /\ ERRNO' = 0
  /\ UNCHANGED <<vol, SuperBlockBuf, held, got, parity>>

Next ==
  \/ free_block_init
  \/ free_block_pop
  \/ \E w \in DataWords : free_block_allocate(w)
  \/ \E b \in held : free_block_push(b)
  \/ \E b \in held, w \in DataWords : block_write(b, w)
  \/ errno_pop

Spec == Init /\ [][Next]_vars

-----------------------------------------------------------------------------
(***************************************************************************)
(* Properties.                                                             *)
(***************************************************************************)

(* A volume as the disk can hold it. *)
Volumes == [head : Int, size : Int, link : [Blocks -> Int]]

(* The types of the variables. *)
TypeOK ==
  /\ vol \in Volumes
  /\ SuperBlockBuf \in [head : Int, size : Int]
  /\ ERRNO \in {0, -ENOSPC}
  /\ held \subseteq Blocks
  /\ got \in Blocks \cup {NIL}
  /\ parity \in {0, 1}

(***************************************************************************)
(* free_block.c keeps the list through any mix of pops, allocations,       *)
(* pushes and writes by the holders: following free_block_next from        *)
(* free_block_head meets every block that is not handed out, meets it      *)
(* once, meets no other, and ends after free_block_size blocks.            *)
(***************************************************************************)
FreeListExact == ListsExactly(vol, Free)

(***************************************************************************)
(* free_block_size() answers from memory without reading the disk: its     *)
(* answer is the number of blocks not handed out.                          *)
(***************************************************************************)
CountExact == SuperBlockBuf.size = Cardinality(Free)

(***************************************************************************)
(* The list is a pool: pop and allocate return a block nobody holds, and   *)
(* NIL only when all are held.                                             *)
(***************************************************************************)
BlockPool == INSTANCE Pool WITH Items <- Blocks, FAIL <- NIL

PoolImplemented == BlockPool!Spec

=============================================================================
