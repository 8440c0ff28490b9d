------------------------------ MODULE InodeMap ------------------------------
(***************************************************************************)
(* The inode bitmap of src/src/prelude/inode.c, one call at a time: one    *)
(* bit per inode, in the block that follows the inode table. A byte of it  *)
(* is the set of its set bits, bit 0 being the most significant: bit j of  *)
(* byte i is set while inode 8i + j is free. The holders of inodes - files,*)
(* directories and the page inodes they own - are the environment: held is *)
(* the set of inodes handed out to them.                                   *)
(***************************************************************************)
EXTENDS Integers, FiniteSets

CONSTANTS
  INODE_BLK_SIZE,  \* blocks of the inode table, four inodes to a block
  SIGNED_CHAR      \* the implementation's choice for plain char

ASSUME InodeMapAssumption ==
  /\ INODE_BLK_SIZE \in Nat
  /\ INODE_BLK_SIZE >= 8
  /\ INODE_BLK_SIZE % 8 = 0
  /\ SIGNED_CHAR \in BOOLEAN

VARIABLES
  map,    \* the bitmap block
  ERRNO,  \* error of the last failing call not yet collected
  held,   \* inodes handed out and not pushed back
  got,    \* what the last pop returned
  parity  \* of the requests answered: equal answers are still two

vars == <<map, ERRNO, held, got, parity>>

ENOSPC == 28

Bits == 0 .. 7

\* the bytes that stand for the inodes of the table
Bytes == 0 .. (4 * INODE_BLK_SIZE) \div 8 - 1

\* inodes 0 and 1 lie where the superblock and padding are, 2 is the root
Reserved == {0, 1, 2}

\* the bytes free_inode_pop looks at
Scanned == 0 .. INODE_BLK_SIZE \div 8 - 1

\* the inodes these bytes stand for, the reserved ones left out
Poppable == 3 .. INODE_BLK_SIZE - 1

(* inode_init: b.buf[0] = 0001 1111, every other byte 1111 1111. *)
inode_init_map == [i \in Bytes |-> IF i = 0 THEN 3 .. 7 ELSE Bits]

Init ==
  /\ map = inode_init_map
  /\ ERRNO = 0
  /\ held = {}
  /\ got = 0
  /\ parity = 0

inode_init ==
  /\ map' = inode_init_map
  /\ held' = {}
  /\ UNCHANGED <<ERRNO, got, parity>>

(***************************************************************************)
(* The mask ptr after j shifts of 0x80. Where char is signed the shift     *)
(* copies the sign, and the mask is the j + 1 leading bits.                *)
(***************************************************************************)
ptr(j) == IF SIGNED_CHAR THEN 0 .. j ELSE {j}

(* A faulty variant: the mask starts at the other end of a byte. *)
ScanFromRight(i, j) ==
  /\ \A k \in Scanned : k < i => map[k] = {}
  /\ j \in map[i]
  /\ \A k \in Bits : k > j => k \notin map[i]

(* The scan stops at byte i with mask ptr(j). *)
ScanStops(i, j) ==
  /\ \A k \in Scanned : k < i => map[k] = {}
  /\ map[i] \cap ptr(j) # {}
  /\ \A k \in Bits : k < j => map[i] \cap ptr(k) = {}

NoInode ==
  /\ \A i \in Scanned : map[i] = {}
  /\ ERRNO' = -ENOSPC
  /\ got' = 0
  /\ parity' = 1 - parity
  /\ UNCHANGED <<map, held>>

(***************************************************************************)
(* Faulty variants, each with one slip in one line.                        *)
(***************************************************************************)
PopWithoutWrite ==                \* the byte is changed in memory only
  \/ \E i \in Scanned, j \in Bits :
       /\ ScanStops(i, j)
       /\ got' = 8 * i + j
       /\ parity' = 1 - parity
       /\ held' = held \cup {8 * i + j}
       /\ UNCHANGED <<map, ERRNO>>
  \/ NoInode

PopClearsByte ==                  \* b.buf[i] &= ptr - 1, say
  \/ \E i \in Scanned, j \in Bits :
       /\ ScanStops(i, j)
       /\ map' = [map EXCEPT ![i] = @ \ 0 .. j + 1]
       /\ got' = 8 * i + j
       /\ parity' = 1 - parity
       /\ held' = held \cup {8 * i + j}
       /\ UNCHANGED ERRNO
  \/ NoInode

PushUnguarded(inum) ==            \* no test for the reserved inodes
  /\ map' = [map EXCEPT ![inum \div 8] = @ \cup {inum % 8}]
  /\ held' = held \ {inum}
  /\ UNCHANGED <<ERRNO, got, parity>>

(***************************************************************************)
(* The code.                                                               *)
(***************************************************************************)
free_inode_pop ==
  \/ \E i \in Scanned, j \in Bits :
       /\ ScanStops(i, j)
       /\ map' = [map EXCEPT ![i] = @ \ ptr(j)]
       /\ got' = 8 * i + j
       /\ parity' = 1 - parity
       /\ held' = held \cup {8 * i + j}
       /\ UNCHANGED ERRNO
  \/ NoInode

(* The inode a caller gives back: one it holds, or the 0 that a refused *)
(* pop gave it - sfs_create and sfs_mkdir push that when they revert.   *)
free_inode_push(inum) ==
  /\ map' = IF inum < 2 THEN map
            ELSE [map EXCEPT ![inum \div 8] = @ \cup {inum % 8}]
  /\ held' = held \ {inum}
  /\ UNCHANGED <<ERRNO, got, parity>>

(* A caller collects the error. *)
errno_pop ==
  /\ ERRNO' = 0
  /\ UNCHANGED <<map, held, got, parity>>

Next ==
  \/ inode_init
  \/ free_inode_pop
  \/ \E inum \in held \cup {0} : free_inode_push(inum)
  \/ errno_pop

Spec == Init /\ [][Next]_vars

-----------------------------------------------------------------------------
(***************************************************************************)
(* Properties.                                                             *)
(***************************************************************************)

(* The types of the variables. *)
TypeOK ==
  /\ map \in [Bytes -> SUBSET Bits]
  /\ ERRNO \in {0, -ENOSPC}
  /\ held \subseteq Poppable
  /\ got \in Poppable \cup {0}
  /\ parity \in {0, 1}

(***************************************************************************)
(* The bit that free_inode_pop clears is the bit of the inode it returns,  *)
(* and no other, although its mask may hold all the bits before it; the    *)
(* bit that free_inode_push sets is the bit of the inode pushed: at all    *)
(* times the clear bits are the held inodes and the reserved ones.         *)
(***************************************************************************)
BitsExact ==
  \A i \in Bytes, j \in Bits :
    j \in map[i] <=> 8 * i + j \notin held \cup Reserved

(***************************************************************************)
(* The bitmap is a pool of the inodes from 3: free_inode_pop never returns *)
(* an inode that is in use, nor a reserved one, and it returns 0 only when *)
(* all that it can see are in use - also after its callers push that 0.    *)
(***************************************************************************)
InodePool == INSTANCE Pool WITH Items <- Poppable, FAIL <- 0

PoolImplemented == InodePool!Spec

(***************************************************************************)
(* free_inode_pop returns the lowest inode that is not in use, whichever   *)
(* were given back and in what order, although the mask of a later bit     *)
(* holds all those before it. main.c, test_inode_push_pop_create, pushes 5 *)
(* and 8 and pops 5 and 8; NodePages and Namespace build on it.            *)
(***************************************************************************)
PopsLowest ==
  [][\A n \in held' \ held :
       got' = n /\ \A k \in Poppable : k < n => k \in held]_vars

=============================================================================
