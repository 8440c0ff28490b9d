-------------------------- MODULE DirectoryThreads --------------------------
(***************************************************************************)
(* dnode_append and dnode_listing of inode.c statement by statement, run   *)
(* by several threads on directories that fit into their inodes.           *)
(*                                                                         *)
(* Two static buffers serve all threads, without a lock: _iblockbuf, which *)
(* holds the block of four inodes that inode_load and inode_dump last      *)
(* read, and the array d, in which entries are listed and changed. The     *)
(* kernel lets one thread at a time change a directory; two directories    *)
(* are changed at once where fuse_main runs several threads (sfs.c).       *)
(***************************************************************************)
EXTENDS Integers, FiniteSets

CONSTANTS
  DIRECT,         \* entries in an inode, two or more
  Nodes,          \* inode numbers of the directories
  Names,          \* the names appended
  Dot, DotDot, Blank,  \* the entries "." and "..", and one of zeroes
  Threads

VARIABLES
  disk,           \* the blocks of inodes
  iblockbuf,      \* static buffer: four inodes
  d,              \* static array of entries
  pc,             \* what each thread does next
  part,           \* the part of its call that each thread is in
  inum,           \* each thread's directory
  new_item,       \* and the entry it appends
  inodebuf,       \* a local inode
  size,           \* the size that dnode_listing returned
  done            \* the entries appended to each directory by calls that ended

vars == <<disk, iblockbuf, d, pc, part, inum, new_item, inodebuf, size, done>>
arguments == <<inum, new_item>>

Block(n) == n \div 4
Place(n) == n % 4

Inode(n, dinum) == [size |-> n, nlink |-> n, dinum |-> dinum]

(* dnode_init of all directories; what else is in their blocks is blank. *)
Init ==
  LET zeroes == Inode(0, [s \in 0 .. DIRECT - 1 |-> Blank])
      empty == Inode(2, [s \in 0 .. DIRECT - 1 |->
                           IF s = 0 THEN Dot ELSE IF s = 1 THEN DotDot ELSE Blank])
  IN  /\ disk = [b \in {Block(n) : n \in Nodes} |->
                   [i \in 0 .. 3 |-> IF 4 * b + i \in Nodes THEN empty ELSE zeroes]]
      /\ iblockbuf = [i \in 0 .. 3 |-> zeroes]
      /\ d = [s \in 0 .. DIRECT - 1 |-> Blank]
      /\ pc = [t \in Threads |-> "idle"]
      /\ part = [t \in Threads |-> "list"]
      /\ inum = [t \in Threads |-> 0]
      /\ new_item = [t \in Threads |-> Blank]
      /\ inodebuf = [t \in Threads |-> zeroes]
      /\ size = [t \in Threads |-> 0]
      /\ done = [n \in Nodes |-> {}]

Goto(t, there) == pc' = [pc EXCEPT ![t] = there]

At(t, here) == pc[t] = here

(* A thread appends x, which its lookup has not found, while there is room *)
(* in the inode, or lists the directory (x is Blank).                      *)
begin(t, n, x) ==
  /\ At(t, "idle")
  /\ \A u \in Threads : At(u, "idle") \/ inum[u] # n
  /\ x # Blank => x \notin done[n] /\ Cardinality(done[n]) + 2 < DIRECT
  /\ inum' = [inum EXCEPT ![t] = n]
  /\ new_item' = [new_item EXCEPT ![t] = x]
  /\ part' = [part EXCEPT ![t] = "list"]
  /\ Goto(t, "load")
  /\ UNCHANGED <<disk, iblockbuf, d, inodebuf, size, done>>

(* inode_load: block_read, then memcpy. *)
load(t) ==
  /\ At(t, "load")
  /\ iblockbuf' = disk[Block(inum[t])]
  /\ Goto(t, "copy")
  /\ UNCHANGED <<disk, d, part, arguments, inodebuf, size, done>>

copy(t) ==
  /\ At(t, "copy")
  /\ inodebuf' = [inodebuf EXCEPT ![t] = iblockbuf[Place(inum[t])]]
  /\ Goto(t, part[t])
  /\ UNCHANGED <<disk, iblockbuf, d, part, arguments, size, done>>

(* dnode_listing: the entries copied into d. *)
list(t) ==
  /\ At(t, "list")
  /\ d' = inodebuf[t].dinum
  /\ size' = [size EXCEPT ![t] = inodebuf[t].size]
  /\ Goto(t, IF new_item[t] = Blank THEN "idle" ELSE "place")
  /\ UNCHANGED <<disk, iblockbuf, part, arguments, inodebuf, done>>

(* d[size] = new_item, and the call of dnode_listing_set. *)
place(t) ==
  /\ At(t, "place")
  /\ d' = [d EXCEPT ![size[t]] = new_item[t]]
  /\ part' = [part EXCEPT ![t] = "set"]
  /\ Goto(t, "load")
  /\ UNCHANGED <<disk, iblockbuf, arguments, inodebuf, size, done>>

(* dnode_listing_set: the new size and the entries, into the inode. *)
set(t) ==
  /\ At(t, "set")
  /\ inodebuf' = [inodebuf EXCEPT ![t] = [@ EXCEPT !.size = size[t] + 1, !.dinum = d]]
  /\ Goto(t, "fetch")
  /\ UNCHANGED <<disk, iblockbuf, d, part, arguments, size, done>>

(* _inodebuf.metadata.nlink++ *)
nlink(t) ==
  /\ At(t, "nlink")
  /\ inodebuf' = [inodebuf EXCEPT ![t].nlink = @ + 1]
  /\ Goto(t, "fetch")
  /\ UNCHANGED <<disk, iblockbuf, d, part, arguments, size, done>>

(* inode_dump: block_read, memcpy, block_write. *)
fetch(t) ==
  /\ At(t, "fetch")
  /\ iblockbuf' = disk[Block(inum[t])]
  /\ Goto(t, "fill")
  /\ UNCHANGED <<disk, d, part, arguments, inodebuf, size, done>>

fill(t) ==
  /\ At(t, "fill")
  /\ iblockbuf' = [iblockbuf EXCEPT ![Place(inum[t])] = inodebuf[t]]
  /\ Goto(t, "store")
  /\ UNCHANGED <<disk, d, part, arguments, inodebuf, size, done>>

store(t) ==
  /\ At(t, "store")
  /\ disk' = [disk EXCEPT ![Block(inum[t])] = iblockbuf]
  /\ \/ /\ part[t] = "set"
        /\ part' = [part EXCEPT ![t] = "nlink"]
        /\ Goto(t, "load")
        /\ UNCHANGED done
     \/ /\ part[t] = "nlink"
        /\ done' = [done EXCEPT ![inum[t]] = @ \cup {new_item[t]}]
        /\ Goto(t, "idle")
        /\ UNCHANGED part
  /\ UNCHANGED <<iblockbuf, d, arguments, inodebuf, size>>

Next ==
  \E t \in Threads :
    \/ \E n \in Nodes, x \in Names \cup {Blank} : begin(t, n, x)
    \/ load(t) \/ copy(t) \/ list(t) \/ place(t) \/ set(t) \/ nlink(t)
    \/ fetch(t) \/ fill(t) \/ store(t)

Spec == Init /\ [][Next]_vars

-----------------------------------------------------------------------------
(* The entries of directory n on the disk, without the dots. *)
Present(n) ==
  LET inode == disk[Block(n)][Place(n)]
  IN  {inode.dinum[s] : s \in 0 .. inode.size - 1} \ {Dot, DotDot}

(***************************************************************************)
(* When no call runs, a directory has the entries that dnode_append was    *)
(* called with, and no others. The code keeps it with one thread; with two *)
(* it does not, though each has a directory of its own: one lists its      *)
(* directory between the other's dnode_listing and dnode_listing_set, or   *)
(* undoes the other's inode_dump to the same block.                        *)
(***************************************************************************)
AppendsKept ==
  (\A t \in Threads : At(t, "idle")) => \A n \in Nodes : Present(n) = done[n]

=============================================================================
