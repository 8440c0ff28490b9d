------------------------------ MODULE Namespace -----------------------------
(***************************************************************************)
(* Directories and files by their names: the calls of src/src/sfs.c, over  *)
(* the path lookup of path.c and the inodes of inode.c.                    *)
(*                                                                         *)
(* An inode has its entries, in order, and the page inodes that hold those *)
(* beyond the first DIRECT. NodePages has how pages are laid out, also in  *)
(* tables; here it matters that they are inodes of the same bitmap, and    *)
(* that the bitmap may have none left. The entries of a file are blocks of *)
(* data, whose numbers and contents Stream has: enough stands for whether  *)
(* the free list has those a call wants.                                   *)
(*                                                                         *)
(* Every failing call leaves its error in ERRNO. sfs_create and sfs_mkdir  *)
(* look there after they have changed all, and take it back if need be.    *)
(***************************************************************************)
EXTENDS Paths, FiniteSets

CONSTANTS
  DIRECT, PER_PAGE,  \* entries in an inode, and in a page inode
  LAST,              \* the last inode that the bitmap hands out
  Names,             \* the names programs use
  DotDot,            \* the name ".."
  Block,             \* an entry of a file
  Sizes              \* the blocks of files that programs write

ASSUME NamespaceAssumption ==
  /\ {DIRECT, PER_PAGE} \subseteq Nat \ {0} /\ DIRECT >= 2
  /\ LAST \in Nat /\ 3 <= LAST /\ LAST < USHORTS - 1
  /\ ROOT = 2
  /\ Dot # DotDot /\ {Dot, DotDot} \cap Names = {}
  /\ Sizes \subseteq Nat

VARIABLES
  inode,       \* the inode table
  free,        \* inodes whose bit is set in the bitmap
  ERRNO,       \* error of the last failing call not yet collected
  superblock,  \* whether block 0 still begins with the superblock
  answer,      \* what the last call on names returned
  turn         \* of the calls that succeeded: two are still two

vars == <<inode, free, ERRNO, superblock, answer, turn>>

ENOENT == 2
EEXIST == 17
ENOSPC == 28

(* Programs use paths of one or two names. *)
Top == {<<n>> : n \in Names}
Deep == {<<m, n>> : m, n \in Names}
UsedPaths == Top \cup Deep

-----------------------------------------------------------------------------
(***************************************************************************)
(* Inodes. r is what a call has made of the state so far.                  *)
(***************************************************************************)
State == [inode |-> inode, free |-> free, err |-> ERRNO, super |-> superblock]

(* The pages that n entries need. *)
Pages(n) == IF n <= DIRECT THEN 0 ELSE ((n - DIRECT - 1) \div PER_PAGE) + 1

Void == [isdir |-> 0, nlink |-> 0, pno |-> 0, ents |-> <<>>, pages |-> <<>>]

dnode(inum, pnum) ==
  [isdir |-> 1, nlink |-> 2, pno |-> pnum,
   ents |-> <<<<Dot, inum>>, <<DotDot, pnum>>>>, pages |-> <<>>]

fnode(inum, pnum) == [Void EXCEPT !.nlink = 1, !.pno = pnum]

(* free_inode_pop: the lowest, or 0 with an error. *)
PoppedInode(r) ==
  IF r.free = {} THEN 0 ELSE CHOOSE i \in r.free : \A j \in r.free : i <= j

(* A faulty variant: the bitmap is not written back. *)
PopUnsaved(r) == IF r.free = {} THEN [r EXCEPT !.err = -ENOSPC] ELSE r

(* A faulty variant: a refused pop leaves no error. *)
PopSilent(r) ==
  IF r.free = {} THEN r ELSE [r EXCEPT !.free = @ \ {PoppedInode(r)}]

Pop(r) ==
  IF r.free = {} THEN [r EXCEPT !.err = -ENOSPC]
  ELSE [r EXCEPT !.free = @ \ {PoppedInode(r)}]

(* What an inode holds that nothing leads to is not kept: nothing reads it *)
(* before the inode is initialised.                                        *)
Forget(r, i) == [r EXCEPT !.inode[i] = Void]

(* A faulty variant: the 0 of a refused pop is pushed like any other. *)
PushUnguarded(r, i) == [Forget(r, i) EXCEPT !.free = @ \cup {i}]

(* free_inode_push. *)
Push(r, i) == IF i < 2 THEN r ELSE [Forget(r, i) EXCEPT !.free = @ \cup {i}]

(* inode_dump: inode 0 lies where the superblock is. *)
Dumped(r, i, node) ==
  IF i = 0 THEN [r EXCEPT !.super = "lost"] ELSE [r EXCEPT !.inode[i] = node]

(* The next inode as one more page of inum. *)
NewPage(r, inum) ==
  LET i == PoppedInode(r)
  IN  [Dumped(Pop(r), i, Void) EXCEPT !.inode[inum].pages = Append(@, i)]

(* So many more pages. *)
MorePages(r, inum, many) ==
  LET after[k \in 0 .. many] == IF k = 0 THEN r ELSE NewPage(after[k - 1], inum)
  IN  after[many]

(* The pages after the first n given up. *)
GiveUp(r, inum, n) ==
  LET pages == r.inode[inum].pages
      after[k \in 0 .. Len(pages) - n] ==
        IF k = 0 THEN r ELSE Push(after[k - 1], pages[n + k])
  IN  [after[Len(pages) - n] EXCEPT !.inode[inum].pages = SubSeq(@, 1, n)]

(* dnode_listing_set and fnode_listing_set, with the entries to be stored. *)
listing_set(r, inum, ents) ==
  LET have == Len(r.inode[inum].pages)
      need == Pages(Len(ents))
      paged == IF need > have THEN MorePages(r, inum, need - have)
               ELSE GiveUp(r, inum, need)
  IN  [paged EXCEPT !.inode[inum].ents = ents]

dnode_append(r, inum, e) ==
  [listing_set(r, inum, Append(r.inode[inum].ents, e))
     EXCEPT !.inode[inum].nlink = @ + 1]

(* A faulty variant: the link count is left as it is. *)
RemoveUncounted(r, inum, name) ==
  LET ents == r.inode[inum].ents
      i == SelectInSeq(ents, LAMBDA e : e[1] = name)
  IN  IF i = 0 THEN r
      ELSE listing_set(r, inum, Front([ents EXCEPT ![i] = Last(ents)]))

(* dnode_remove: the last entry takes the place of the one removed. *)
dnode_remove(r, inum, name) ==
  LET ents == r.inode[inum].ents
      i == SelectInSeq(ents, LAMBDA e : e[1] = name)
  IN  IF i = 0 THEN r
      ELSE [listing_set(r, inum, Front([ents EXCEPT ![i] = Last(ents)]))
              EXCEPT !.inode[inum].nlink = @ - 1]

-----------------------------------------------------------------------------
(* Lookup, through the listings of the directories. *)
Listings == [n \in DOMAIN inode |-> inode[n].ents]

Inum(p) == path_to_inum(Listings, p).inum
Parent(p) == path_to_inum(Listings, p).parent
Found(p) == Inum(p) >= 0
IsDir(p) == Found(p) /\ inode[Inum(p)].isdir = 1
IsFile(p) == Found(p) /\ inode[Inum(p)].isdir = 0

(* What getattr and readdir tell of a path that exists; open and opendir. *)
sfs_getattr(p) ==
  LET node == inode[Inum(p)]
  IN  [mode |-> IF node.isdir = 1 THEN "dir" ELSE "file",
       nlink |-> node.nlink, size |-> Len(node.ents)]

sfs_readdir(p) == {inode[Inum(p)].ents[i][1] : i \in 1 .. Len(inode[Inum(p)].ents)}

sfs_open(p) == IF Found(p) THEN 0 ELSE -ENOENT

-----------------------------------------------------------------------------
(* The disk after sfs_init: the root in inode 2, all else free. *)
Formatted ==
  [inode |-> [i \in 0 .. LAST |-> IF i = ROOT THEN dnode(ROOT, ROOT) ELSE Void],
   free |-> 3 .. LAST, err |-> 0, super |-> "kept"]

Becomes(r) ==
  /\ inode' = r.inode
  /\ free' = r.free
  /\ ERRNO' = r.err
  /\ superblock' = r.super

Answer(a) ==
  /\ answer' = a
  /\ turn' = IF a = 0 THEN 1 - turn ELSE 0

Init ==
  /\ inode = Formatted.inode
  /\ free = Formatted.free
  /\ ERRNO = 0
  /\ superblock = "kept"
  /\ answer = 0
  /\ turn = 0

(* The file system is unmounted, or killed, and mounted again: a new       *)
(* process formats the disk.                                               *)
sfs_init ==
  /\ Becomes(Formatted)
  /\ answer' = 0 /\ turn' = 0

(* Faulty variants of the reverting. *)
RevertKeepsInode(r, p, i) == dnode_remove(r, Parent(p), path_basename(p))

RevertKeepsEntry(r, p, i) == Push(r, i)

Reverted(r, p, i) == Push(dnode_remove(r, Parent(p), path_basename(p)), i)

(* sfs_create and sfs_mkdir. *)
Make(p, node(_, _)) ==
  LET i == PoppedInode(State)
      r == dnode_append(Dumped(Pop(State), i, node(i, Parent(p))),
                        Parent(p), <<path_basename(p), i>>)
      collected == [r EXCEPT !.err = 0]
  IN  IF Inum(p) > 0
        THEN /\ Answer(-EEXIST)
             /\ UNCHANGED <<inode, free, ERRNO, superblock>>
        ELSE /\ Answer(r.err)
             /\ Becomes(IF r.err = 0 THEN r ELSE Reverted(collected, p, i))

sfs_create(p) == Make(p, fnode)
sfs_mkdir(p) == Make(p, dnode)

Refused(p) ==
  /\ ~Found(p)
  /\ Answer(-ENOENT)
  /\ UNCHANGED <<inode, free, ERRNO, superblock>>

sfs_unlink(p) ==
  \/ /\ Found(p)
     /\ Becomes(dnode_remove(Push(listing_set(State, Inum(p), <<>>), Inum(p)),
                             Parent(p), path_basename(p)))
     /\ Answer(0)
  \/ Refused(p)

(* The directory is emptied, whatever is in it, and its inode not freed. *)
sfs_rmdir(p) ==
  \/ /\ Found(p)
     /\ Becomes(dnode_remove(Forget(listing_set(State, Inum(p), <<>>), Inum(p)),
                             Parent(p), path_basename(p)))
     /\ Answer(0)
  \/ Refused(p)

BlocksOf(n) == [i \in 1 .. n |-> Block]
BlocksIn(p) == Len(inode[Inum(p)].ents)
HasBlocks(p) == IsFile(p) /\ BlocksIn(p) > 0

(* A write that makes the file n blocks long, or finds the free list empty *)
(* when it has n. sfs_write tries a pop after an error, and keeps what it  *)
(* gets; an error left by an earlier call does as well.                    *)
sfs_write(p, n, enough) ==
  LET r == listing_set([State EXCEPT !.err = IF enough THEN @ ELSE -ENOSPC],
                       Inum(p), BlocksOf(n))
  IN  /\ n >= BlocksIn(p)
      /\ Becomes(IF r.err = 0 THEN r ELSE [Pop(r) EXCEPT !.err = 0])
      /\ UNCHANGED <<answer, turn>>

(* A truncation to n blocks, for which the free list may not have enough.  *)
(* It leaves the error where it is.                                        *)
sfs_truncate(p, n, enough) ==
  /\ enough \/ n > BlocksIn(p)
  /\ Becomes(listing_set([State EXCEPT !.err = IF enough THEN @ ELSE -ENOSPC],
                         Inum(p), BlocksOf(n)))
  /\ UNCHANGED <<answer, turn>>

(* The kernel looks up the parent before it passes a call on, and what the *)
(* path is, but not before another call may have removed it. What a call   *)
(* does to the free list when the superblock is lost depends on the bytes  *)
(* written over it: those calls are left out then.                         *)
Next ==
  \/ \E p \in UsedPaths :
       /\ IsDir(Front(p))
       /\ \/ sfs_create(p)
          \/ sfs_mkdir(p)
          \/ ~IsFile(p) /\ sfs_rmdir(p)
          \/ /\ ~IsDir(p)
             /\ HasBlocks(p) => superblock = "kept"
             /\ sfs_unlink(p)
          \/ /\ IsFile(p) /\ superblock = "kept"
             /\ \E n \in Sizes, enough \in BOOLEAN :
                  sfs_write(p, n, enough) \/ sfs_truncate(p, n, enough)
  \/ sfs_init

Spec == Init /\ [][Next]_vars

-----------------------------------------------------------------------------
(***************************************************************************)
(* Properties.                                                             *)
(***************************************************************************)

(* The types of the variables. *)
TypeOK ==
  /\ \A i \in 0 .. LAST :
       LET node == inode[i]
       IN  /\ node.isdir \in {0, 1} /\ node.nlink \in Nat /\ node.pno \in 0 .. LAST
           /\ Len(node.pages) = Pages(Len(node.ents))
           /\ Range(node.pages) \subseteq {0} \cup 3 .. LAST
  /\ free \subseteq 3 .. LAST
  /\ ERRNO \in {0, -ENOSPC}
  /\ superblock \in {"kept", "lost"}
  /\ answer \in {0, -ENOENT, -EEXIST, -ENOSPC}
  /\ turn \in {0, 1}

(* The tree as it is stored: <<path, inode>> of all there is. *)
Dir(n) == inode[n].isdir = 1

Below(n) == {inode[n].ents[i] : i \in 3 .. Len(inode[n].ents)}

Stored ==
  {<<<<>>, ROOT>>}
    \cup {<<<<e[1]>>, e[2]>> : e \in Below(ROOT)}
    \cup UNION {{<<<<e[1], g[1]>>, g[2]>> : g \in Below(e[2])} :
                   e \in {x \in Below(ROOT) : Dir(x[2])}}

(* The inodes that part of the tree takes. Page 0 stands for one that could*)
(* not be had.                                                             *)
PagesOf(n) == Range(inode[n].pages) \ {0}

InodesOf(part) == UNION {{x[2]} \cup PagesOf(x[2]) : x \in part}

(***************************************************************************)
(* No inode is used twice, as directory, file or page, under whatever path,*)
(* and none that is used is free.                                          *)
(***************************************************************************)
InodesOwned ==
  /\ InodesOf(Stored) \cap free = {}
  /\ \A x, y \in Stored :
       /\ x[2] = y[2] => x = y
       /\ x[2] \notin PagesOf(y[2])
       /\ x # y => PagesOf(x[2]) \cap PagesOf(y[2]) = {}

(***************************************************************************)
(* What stat, ls and the lookup tell agrees with the tree: each path leads *)
(* to its inode and its parent's; a directory names itself and its parent, *)
(* and counts each name as a link.                                         *)
(***************************************************************************)
LookupExact ==
  LET paths == {x[1] : x \in Stored}
  IN  /\ \A x \in Stored :
           LET p == x[1]
               up == IF p = <<>> THEN ROOT ELSE (CHOOSE y \in Stored : y[1] = Front(p))[2]
           IN  /\ path_to_inum(Listings, p) = [inum |-> x[2], parent |-> up]
               /\ inode[x[2]].pno = up
               /\ Dir(x[2]) =>
                    /\ path_to_inum_elem(Listings, Dot, x[2]) = x[2]
                    /\ path_to_inum_elem(Listings, DotDot, x[2]) = up
                    /\ sfs_getattr(p).nlink = Cardinality(sfs_readdir(p))
                    /\ sfs_getattr(p).size = Cardinality(sfs_readdir(p))
      /\ \A p \in UsedPaths \ paths : IsDir(Front(p)) => sfs_open(p) = -ENOENT

(***************************************************************************)
(* Through entries, pages, lookups and reverting, the names form a tree: a *)
(* call that returns an error has changed none, and any other exactly what *)
(* it was asked to.                                                        *)
(***************************************************************************)
TreeStored ==
  LET stored == Stored
  IN  [p \in {x[1] : x \in stored} |->
         IF \E x \in stored : x[1] = p /\ Dir(x[2]) THEN "dir" ELSE "file"]

Abstract == INSTANCE Tree WITH Paths <- UsedPaths, tree <- TreeStored

TreeImplemented == Abstract!Spec

(***************************************************************************)
(* Inodes are lost, neither used nor free, only by sfs_rmdir, with all     *)
(* that is below the directory, and one at a time by writes that return an *)
(* error; reverting a call loses none.                                     *)
(***************************************************************************)
Lost == (3 .. LAST) \ (InodesOf(Stored) \cup free)

LostByRmdirOrWrite ==
  [][LET lost == Lost' \ Lost
     IN  \/ lost = {}
         \/ \E x \in Stored \ Stored' :
              Dir(x[2]) /\ lost \subseteq InodesOf({y \in Stored : IsPrefix(x[1], y[1])})
         \/ Stored' = Stored /\ UNCHANGED turn /\ ERRNO' = 0 /\ Cardinality(lost) = 1]_vars

(***************************************************************************)
(* "Reverting" (sfs.c:130, 303) is exact, whatever failed first and        *)
(* however far the call had come: an sfs_create or sfs_mkdir that returns  *)
(* an error leaves the inode table and the bitmap as they were, entry by   *)
(* entry and page by page, and no error of its own.                        *)
(***************************************************************************)
RefusalsUndone ==
  [][\A p \in UsedPaths :
       IsDir(Front(p)) /\ (sfs_create(p) \/ sfs_mkdir(p)) /\ answer' # 0 =>
         UNCHANGED <<inode, free>> /\ ERRNO' \in {0, ERRNO}]_vars

(***************************************************************************)
(* inode_dump puts an inode in the place of the superblock (as inode 0, by *)
(* sfs.c:126 and 300 or inode.c:311) only when the bitmap is exhausted, or *)
(* has one inode left that the call takes for the new node: sfs_create and *)
(* sfs_mkdir then answer ENOSPC and take all else back, sfs_write and      *)
(* sfs_truncate change no name.                                            *)
(***************************************************************************)
SuperBlockLostOnlyWhenFull ==
  [][superblock = "kept" /\ superblock' = "lost" =>
       \/ answer' = -ENOSPC /\ Cardinality(free) <= 1 /\ UNCHANGED <<inode, free>>
       \/ free' = {} /\ UNCHANGED <<TreeStored, answer, turn>>]_vars

(***************************************************************************)
(* src/README.md:15-16 sets apart "SuperBlock 128 Bytes" and "Inodes 4095  *)
(* * 128 Bytes", and sfs.c:130 calls what sfs_create does on an error      *)
(* "reverting": no call on inodes writes over the superblock.              *)
(***************************************************************************)
SuperBlockKept == superblock = "kept"

=============================================================================
