-------------------------- MODULE FreeBlockThreads --------------------------
(***************************************************************************)
(* free_block.c statement by statement, run by one or several threads.     *)
(*                                                                         *)
(* Every call works through two static buffers, BlockBuf and SuperBlockBuf,*)
(* and no call takes a lock. fuse_main (sfs.c) runs the file system's      *)
(* operations on several threads unless the mount asks for one; with one   *)
(* thread the steps below implement the calls of FreeBlock, and the list   *)
(* on the disk is exact between any two of them.                           *)
(*                                                                         *)
(* A block is its first two words: those of block 0 are the superblock,    *)
(* the first one of another block is free_block_next while it is free. A   *)
(* step is one read, write or copy of a block, or the statements between.  *)
(***************************************************************************)
EXTENDS FreeList

CONSTANTS
  MAX_BLOCK_NUM,  \* blocks on the disk, the superblock included
  Threads,        \* the threads that run file system operations
  DataWords       \* what a holder may leave in a word of a block

ASSUME ThreadsAssumption ==
  /\ MAX_BLOCK_NUM \in Nat
  /\ MAX_BLOCK_NUM >= 2
  /\ DataWords \subseteq Int

VARIABLES
  disk,           \* the disk
  BlockBuf,       \* static buffer: one block
  SuperBlockBuf,  \* static buffer: the superblock
  ERRNO,          \* static: error of the last failing call
  pc,             \* what each thread does next
  call,           \* the call each thread is in
  block_num,      \* each thread's block: argument of push, result of pop
  held,           \* blocks handed out and not pushed back
  got,            \* what the last pop or allocate found
  parity          \* of the requests answered: equal answers are still two

vars == <<disk, BlockBuf, SuperBlockBuf, ERRNO, pc, call, block_num, held, got, parity>>
local == <<call, block_num>>
users == <<held, got, parity>>

Blocks == 1 .. MAX_BLOCK_NUM - 1

Words(first, second) == [first |-> first, second |-> second]

(* After free_block_init: BlockBuf is what it wrote last. *)
Init ==
  /\ disk = [b \in 0 .. MAX_BLOCK_NUM - 1 |->
               Words(IF b = MAX_BLOCK_NUM - 1 THEN NIL ELSE b + 1, MAX_BLOCK_NUM - 1)]
  /\ BlockBuf = Words(NIL, MAX_BLOCK_NUM - 1)
  /\ SuperBlockBuf = Words(1, MAX_BLOCK_NUM - 1)
  /\ ERRNO = 0
  /\ pc = [t \in Threads |-> "idle"]
  /\ call = [t \in Threads |-> "pop"]
  /\ block_num = [t \in Threads |-> NIL]
  /\ held = {}
  /\ got = NIL
  /\ parity = 0

Goto(t, there) == pc' = [pc EXCEPT ![t] = there]

At(t, here) == pc[t] = here

(* Thread u is pushing block b. *)
Pushing(u, b) == pc[u] # "idle" /\ call[u] = "push" /\ block_num[u] = b

(* A thread calls free_block_pop or free_block_allocate. *)
begin_pop(t, c) ==
  /\ At(t, "idle")
  /\ Goto(t, "read_super")
  /\ call' = [call EXCEPT ![t] = c]
  /\ UNCHANGED <<disk, BlockBuf, SuperBlockBuf, ERRNO, block_num, users>>

(* A thread calls free_block_push(b); nobody else is giving b back. *)
begin_push(t, b) ==
  /\ At(t, "idle")
  /\ \A u \in Threads : ~Pushing(u, b)
  /\ Goto(t, "read_super")
  /\ call' = [call EXCEPT ![t] = "push"]
  /\ block_num' = [block_num EXCEPT ![t] = b]
  /\ UNCHANGED <<disk, BlockBuf, SuperBlockBuf, ERRNO, users>>

(* superblock_read: block_read(0, &BlockBuf), then memcpy. *)
read_super(t) ==
  /\ At(t, "read_super")
  /\ BlockBuf' = disk[0]
  /\ Goto(t, "copy_super")
  /\ UNCHANGED <<disk, SuperBlockBuf, ERRNO, local, users>>

copy_super(t) ==
  /\ At(t, "copy_super")
  /\ SuperBlockBuf' = BlockBuf
  /\ Goto(t, IF call[t] = "push" THEN "set_next" ELSE "take_head")
  /\ UNCHANGED <<disk, BlockBuf, ERRNO, local, users>>

(* pop, allocate: block_num = free_block_head, and the test for an empty list. *)
take_head(t) ==
  /\ At(t, "take_head")
  /\ block_num' = [block_num EXCEPT ![t] = SuperBlockBuf.first]
  /\ \/ /\ SuperBlockBuf.first > 0
        /\ Goto(t, "load_next")
        /\ UNCHANGED <<ERRNO, got, parity>>
     \/ /\ SuperBlockBuf.first <= 0
        /\ ERRNO' = -ENOSPC
        /\ got' = SuperBlockBuf.first
        /\ parity' = 1 - parity
        /\ Goto(t, "idle")
  /\ UNCHANGED <<disk, BlockBuf, SuperBlockBuf, call, held>>

(* pop, allocate: freeblock_read(block_num), then the head moves on. *)
load_next(t) ==
  /\ At(t, "load_next")
  /\ BlockBuf' = disk[block_num[t]]
  /\ Goto(t, "move_head")
  /\ UNCHANGED <<disk, SuperBlockBuf, ERRNO, local, users>>

move_head(t) ==
  /\ At(t, "move_head")
  /\ SuperBlockBuf' = Words(BlockBuf.first, SuperBlockBuf.second - 1)
  /\ Goto(t, "fetch_super")
  /\ UNCHANGED <<disk, BlockBuf, ERRNO, local, users>>

(* push: free_block_next = free_block_head, and freeblock_write(block_num). *)
set_next(t) ==
  /\ At(t, "set_next")
  /\ BlockBuf' = [BlockBuf EXCEPT !.first = SuperBlockBuf.first]
  /\ Goto(t, "store_next")
  /\ UNCHANGED <<disk, SuperBlockBuf, ERRNO, local, users>>

(* Faulty variant: the block is not written before the head points to it. *)
StoreNextForgotten(t) ==
  /\ At(t, "store_next")
  /\ Goto(t, "new_head")
  /\ UNCHANGED <<disk, BlockBuf, SuperBlockBuf, ERRNO, local, users>>

store_next(t) ==
  /\ At(t, "store_next")
  /\ disk' = [disk EXCEPT ![block_num[t]] = BlockBuf]
  /\ Goto(t, "new_head")
  /\ UNCHANGED <<BlockBuf, SuperBlockBuf, ERRNO, local, users>>

(* push: the counter and the head. *)
new_head(t) ==
  /\ At(t, "new_head")
  /\ SuperBlockBuf' = Words(block_num[t], SuperBlockBuf.second + 1)
  /\ Goto(t, "fetch_super")
  /\ UNCHANGED <<disk, BlockBuf, ERRNO, local, users>>

(* superblock_write: block_read(0, &BlockBuf), memcpy, block_write(0). *)
fetch_super(t) ==
  /\ At(t, "fetch_super")
  /\ BlockBuf' = disk[0]
  /\ Goto(t, "fill_super")
  /\ UNCHANGED <<disk, SuperBlockBuf, ERRNO, local, users>>

(* Faulty variant: the block is written back as it was read. *)
FillForgotten(t) ==
  /\ At(t, "fill_super")
  /\ Goto(t, "store_super")
  /\ UNCHANGED <<disk, BlockBuf, SuperBlockBuf, ERRNO, local, users>>

fill_super(t) ==
  /\ At(t, "fill_super")
  /\ BlockBuf' = SuperBlockBuf
  /\ Goto(t, "store_super")
  /\ UNCHANGED <<disk, SuperBlockBuf, ERRNO, local, users>>

(* The write of block 0 is where a block changes hands. *)
store_super(t) ==
  /\ At(t, "store_super")
  /\ disk' = [disk EXCEPT ![0] = BlockBuf]
  /\ \/ /\ call[t] = "push"
        /\ held' = held \ {block_num[t]}
        /\ UNCHANGED <<got, parity>>
     \/ /\ call[t] # "push"
        /\ held' = held \cup {block_num[t]}
        /\ got' = block_num[t]
        /\ parity' = 1 - parity
  /\ Goto(t, IF call[t] = "allocate" THEN "store_data" ELSE "idle")
  /\ UNCHANGED <<BlockBuf, SuperBlockBuf, ERRNO, local>>

(* allocate: the new block is written with the caller's data or with zeros. *)
store_data(t) ==
  /\ At(t, "store_data")
  /\ \E w \in DataWords : disk' = [disk EXCEPT ![block_num[t]] = Words(w, w)]
  /\ Goto(t, "idle")
  /\ UNCHANGED <<BlockBuf, SuperBlockBuf, ERRNO, local, users>>

(* The holder of block b, not busy giving it back, stores data in it. *)
write_held(b) ==
  /\ \A u \in Threads : ~Pushing(u, b)
  /\ \E w \in DataWords : disk' = [disk EXCEPT ![b] = Words(w, w)]
  /\ UNCHANGED <<BlockBuf, SuperBlockBuf, ERRNO, pc, local, users>>

errno_pop ==
  /\ ERRNO' = 0
  /\ UNCHANGED <<disk, BlockBuf, SuperBlockBuf, pc, local, users>>

Step(t) ==
  \/ \E c \in {"pop", "allocate"} : begin_pop(t, c)
  \/ \E b \in held : begin_push(t, b)
  \/ read_super(t) \/ copy_super(t)
  \/ take_head(t) \/ load_next(t) \/ move_head(t)
  \/ set_next(t) \/ store_next(t) \/ new_head(t)
  \/ fetch_super(t) \/ fill_super(t) \/ store_super(t)
  \/ store_data(t)

Next ==
  \/ \E t \in Threads : Step(t)
  \/ \E b \in held : write_held(b)
  \/ errno_pop

Spec == Init /\ [][Next]_vars

-----------------------------------------------------------------------------
(***************************************************************************)
(* Properties.                                                             *)
(***************************************************************************)

(* The disk as the calls of FreeBlock see it. *)
Volume ==
  [head |-> disk[0].first,
   size |-> disk[0].second,
   link |-> [b \in Blocks |-> disk[b].first]]

(* Between two calls SuperBlockBuf is the superblock; within a call the  *)
(* call of FreeBlock has not happened until the superblock is written.   *)
SuperBlockSeen ==
  IF \A t \in Threads : pc[t] \in {"idle", "store_data"}
    THEN [head |-> SuperBlockBuf.first, size |-> SuperBlockBuf.second]
    ELSE [head |-> disk[0].first, size |-> disk[0].second]

(* What may be in a first word: data, or a link that push writes. *)
FirstWords == DataWords \cup Blocks \cup {NIL}

Calls == INSTANCE FreeBlock WITH
  vol <- Volume, SuperBlockBuf <- SuperBlockSeen, DataWords <- FirstWords

(***************************************************************************)
(* The list on the disk is exact before and after every single write, so   *)
(* the order of the two writes of free_block_push never leaves a list that *)
(* leads into a block somebody holds. It takes one thread.                 *)
(***************************************************************************)
DiskListExact == ListsExactly(Volume, Blocks \ held)

(***************************************************************************)
(* With one thread the statements of pop, allocate and push amount to the  *)
(* calls that FreeBlock describes as one step each.                        *)
(***************************************************************************)
CallsImplemented == Calls!Init /\ [][Calls!Next]_(Calls!vars)

(***************************************************************************)
(* main.c, test_fb_pop: blocks popped and not pushed back are distinct,    *)
(* whatever the threads that pop them.                                     *)
(***************************************************************************)
PopsDistinct ==
  [][\A t \in Threads :
       store_super(t) /\ call[t] # "push" => block_num[t] \notin held]_vars

=============================================================================
