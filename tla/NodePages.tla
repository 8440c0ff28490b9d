------------------------------ MODULE NodePages -----------------------------
(***************************************************************************)
(* How a directory grows and shrinks: dnode_listing, dnode_listing_set,    *)
(* dnode_append and dnode_remove of src/src/prelude/inode.c. The tables    *)
(* of files are kept by fnode_listing and fnode_listing_set, which are the *)
(* same loops over entries of another size: Listed and SetListing of an    *)
(* instance with the shape of a file.                                      *)
(*                                                                         *)
(* An inode has DIRECT entries of its own, LV1 page inodes with PER_PAGE   *)
(* entries each, and LV2 table inodes, each naming FAN page inodes. Pages  *)
(* and tables are inodes from the same bitmap as files and directories. A  *)
(* change is made in the static array d, which all directories share, and  *)
(* dnode_listing_set then takes or gives up the page inodes that the new   *)
(* size needs more or less than the size before.                           *)
(***************************************************************************)
EXTENDS Integers, FiniteSets

CONSTANTS
  DIRECT, PER_PAGE, LV1, LV2, FAN,  \* the shape of an inode
  Spare,      \* entries the clamp keeps back: one of a directory, none of a file
  Nodes,      \* inode numbers of the directories
  Inodes,     \* inode numbers the bitmap hands out for pages
  Names,      \* the names there can be in a directory
  NamesOf,    \* those that programs use in each directory
  Dot, DotDot, Blank   \* the entries "." and "..", and one of zeroes

ASSUME NodePagesAssumption ==
  /\ {DIRECT, PER_PAGE, FAN} \subseteq Nat \ {0}
  /\ {LV1, LV2} \subseteq Nat
  /\ DIRECT >= 2 /\ DIRECT + (LV1 + LV2 * FAN) * PER_PAGE - Spare >= 2
  /\ Nodes \cup Inodes \subseteq Nat \ {0}
  /\ IsFiniteSet(Inodes)
  /\ Dot # DotDot /\ {Dot, DotDot} \cap Names = {}
  /\ Spare \in 0 .. 1
  /\ NamesOf \in [Nodes -> SUBSET Names]

VARIABLES
  size,    \* metadata.size of each directory
  nlink,   \* metadata.nlink
  direct,  \* dinum: the entries in the inode
  dpnum,   \* the page inodes of a directory
  expnum,  \* the table inodes of a directory (ex_dpnum)
  exnum,   \* what each table inode names
  page,    \* what each page inode holds
  d,       \* the static array
  free,    \* inodes whose bit is set in the bitmap
  ERRNO,   \* error of the last failing call not yet collected
  live     \* the directories not removed

vars == <<size, nlink, direct, dpnum, expnum, exnum, page, d, free, ERRNO, live>>
tables == <<dpnum, expnum, exnum>>

ENOSPC == 28
EFBIG == 27

Pages == LV1 + LV2 * FAN                    \* pages a directory can have
ENTRY_MAX_SIZE == DIRECT + Pages * PER_PAGE

Slots == 0 .. ENTRY_MAX_SIZE - 1
PageNums == 0 .. Pages - 1
TableNums == 0 .. LV2 - 1
PageSlots == 0 .. PER_PAGE - 1
Table(k) == (k - LV1) \div FAN              \* the table that page k is in
InTable(k) == (k - LV1) % FAN               \* and its place there
FirstOfTable(k) == k >= LV1 /\ InTable(k) = 0
FirstPage(t) == LV1 + t * FAN               \* the first page of table t
Start(k) == DIRECT + k * PER_PAGE           \* the first slot of page k

Dots == {Dot, DotDot}

NoPages == [k \in 0 .. LV1 - 1 |-> 0]
NoTables == [t \in 0 .. LV2 - 1 |-> 0]
NoNames == [j \in 0 .. FAN - 1 |-> 0]
BlankPage == [s \in PageSlots |-> Blank]

(* dnode_init of every directory. *)
Init ==
  /\ size = [n \in Nodes |-> 2]
  /\ nlink = [n \in Nodes |-> 2]
  /\ direct = [n \in Nodes |->
                 [s \in 0 .. DIRECT - 1 |->
                    IF s = 0 THEN Dot ELSE IF s = 1 THEN DotDot ELSE Blank]]
  /\ dpnum = [n \in Nodes |-> NoPages]
  /\ expnum = [n \in Nodes |-> NoTables]
  /\ exnum = [i \in Inodes \cup {0} |-> NoNames]
  /\ page = [i \in Inodes \cup {0} |-> BlankPage]
  /\ d = [s \in Slots |-> Blank]
  /\ free = Inodes
  /\ ERRNO = 0
  /\ live = Nodes

-----------------------------------------------------------------------------
(* The inode that holds page k of directory n. *)
PageInode(n, k) ==
  IF k < LV1 THEN dpnum[n][k] ELSE exnum[expnum[n][Table(k)]][InTable(k)]

(* Entry s of directory n, where inodes hold dir and pages hold pg. *)
EntryIn(dir, pg, n, s) ==
  IF s < DIRECT THEN dir[n][s]
  ELSE LET k == (s - DIRECT) \div PER_PAGE
       IN  pg[PageInode(n, k)][(s - DIRECT) % PER_PAGE]

(* Entry s of directory n as it is on the disk. *)
Stored(n, s) == EntryIn(direct, page, n, s)

(* A faulty variant: the page of the last entry is not read when that is   *)
(* its only one.                                                           *)
ListedShort(n) ==
  [s \in Slots |->
     IF s < DIRECT \/ Start((s - DIRECT) \div PER_PAGE) + 1 < size[n]
       THEN Stored(n, s) ELSE d[s]]

(* dnode_listing: d filled as far as the pages of n reach. *)
Listed(n) ==
  [s \in Slots |->
     IF s < DIRECT \/ Start((s - DIRECT) \div PER_PAGE) < size[n]
       THEN Stored(n, s) ELSE d[s]]

-----------------------------------------------------------------------------
(***************************************************************************)
(* dnode_listing_set. Its loops go over the pages in order; in one call    *)
(* pages are only taken or only given up, so that the inode taken for a    *)
(* page is the lowest that is free when those before it have theirs.       *)
(***************************************************************************)

(* A faulty variant: the first entry of a new page finds no page. *)
NeverHadLate(k, old) == Start(k) > old

(* A page that the size before had no use for. *)
NeverHad(k, old) == Start(k) >= old

(* The pages taken when the size changes from old to new. *)
Taken(old, new) == {k \in PageNums : NeverHad(k, old) /\ Start(k) < new}

(* A page is given up with the size that needed it; in a table, only when *)
(* the whole table is given up.                                           *)
GivenUp(old, new) ==
  LET first(k) == IF k < LV1 THEN k ELSE FirstPage(Table(k))
  IN  {k \in PageNums : ~NeverHad(k, old) /\ Start(first(k)) >= new}

(* Which of the inodes taken is for page k: those of the pages before it   *)
(* and of the tables are taken first.                                      *)
Tables(taken) == {t \in TableNums : FirstPage(t) \in taken}

Turn(k, taken) ==
  Cardinality(taken \cap (0 .. k)) + Cardinality({t \in Tables(taken) : FirstPage(t) <= k})

(* What free_inode_pop returns the first, the second, the m-th time: the   *)
(* lowest, or 0 when there is nothing left. lower tells how many free      *)
(* inodes are below one.                                                   *)
Lower == [i \in free |-> Cardinality(free \cap (0 .. i - 1))]

Pops(lower, many) ==
  [m \in 1 .. many |->
     IF m <= Cardinality(free) THEN CHOOSE i \in free : lower[i] = m - 1 ELSE 0]

(* A faulty variant: one entry more than a page holds. *)
FilledOneMore(k, dd) == [s \in 0 .. PER_PAGE |-> dd[(Start(k) + s) % ENTRY_MAX_SIZE]]

(* Page k as far as the array dd has it. *)
Filled(k, dd) == [s \in PageSlots |-> dd[Start(k) + s]]

Largest == ENTRY_MAX_SIZE - Spare
Clamped(new) == IF new > Largest THEN Largest ELSE new

(* dnode_listing_set(n, wanted) with the array at dd: what becomes of the  *)
(* inodes when page k is in inode inum[k] and table t in table[t].         *)
Stores(n, wanted, taken, given, inum, table, dd) ==
  LET stored == {k \in PageNums : Start(k) < Clamped(wanted)}
      fresh == Tables(taken)
      changed == {Table(k) : k \in {l \in taken : l >= LV1}}
      names(t) == [j \in 0 .. FAN - 1 |->
                     IF t \in fresh /\ FirstPage(t) + j \notin taken THEN 0
                     ELSE inum[FirstPage(t) + j]]
      pop == {inum[k] : k \in taken} \cup {table[t] : t \in fresh}
      push == {inum[k] : k \in given}
                \cup {table[Table(k)] : k \in {l \in given : FirstOfTable(l)}}
  IN  /\ dpnum' = [dpnum EXCEPT ![n] = [k \in 0 .. LV1 - 1 |-> inum[k]]]
      /\ expnum' = [expnum EXCEPT ![n] = table]
      /\ exnum' = [i \in DOMAIN exnum |->
                     IF \E t \in changed : table[t] = i
                       THEN names(CHOOSE t \in changed : table[t] = i) ELSE exnum[i]]
      /\ page' = [i \in DOMAIN page |->
                    IF \E k \in stored : inum[k] = i
                      THEN Filled(CHOOSE k \in stored : inum[k] = i, dd) ELSE page[i]]
      /\ free' = (free \ pop) \cup {i \in push : i >= 2}
      /\ ERRNO' = IF 0 \in pop THEN -ENOSPC ELSE IF wanted > Largest THEN -EFBIG ELSE ERRNO

(* A value bound in a singleton is computed once, other than one of a LET. *)
SetListing(n, wanted, dd) ==
  \E new \in {Clamped(wanted)}, array \in {dd}, lower \in {Lower} :
  \E taken \in {Taken(size[n], new)}, given \in {GivenUp(size[n], new)} :
  \E popped \in {Pops(lower, Cardinality(taken) + Cardinality(Tables(taken)))} :
  \E table \in {[t \in TableNums |->
                  IF FirstPage(t) \in taken THEN popped[Turn(FirstPage(t), taken) - 1]
                  ELSE expnum[n][t]]},
     inum \in {[k \in PageNums |->
                 IF k \in taken THEN popped[Turn(k, taken)] ELSE PageInode(n, k)]} :
    /\ Stores(n, wanted, taken, given, inum, table, array)
    /\ size' = [size EXCEPT ![n] = new]
    /\ direct' = [direct EXCEPT ![n] = [s \in 0 .. DIRECT - 1 |-> array[s]]]
    /\ d' = array

-----------------------------------------------------------------------------
(***************************************************************************)
(* One entry by its offset: dnode_entry_get, dnode_entry_set and their     *)
(* twins for files, a second way through the pages that nothing calls yet. *)
(* Their index of a table is right for the first FAN entries in tables     *)
(* only: further on it is no table of the inode.                           *)
(***************************************************************************)
Lv2Offset(off) == off - DIRECT - LV1 * PER_PAGE

(* A faulty variant: offsets in tables counted from the inode's end. *)
EntryPageFromDirect(n, off) ==
  IF Lv2Offset(off) < 0 THEN dpnum[n][(off - DIRECT) \div PER_PAGE]
  ELSE exnum[expnum[n][(Lv2Offset(off) \div FAN) * PER_PAGE]][((off - DIRECT) \div PER_PAGE) % FAN]

EntryPage(n, off) ==
  IF Lv2Offset(off) < 0 THEN dpnum[n][(off - DIRECT) \div PER_PAGE]
  ELSE exnum[expnum[n][(Lv2Offset(off) \div FAN) * PER_PAGE]][Lv2Offset(off) \div PER_PAGE]

dnode_entry_get(n, off) ==
  IF off >= size[n] THEN Blank
  ELSE IF off < DIRECT THEN direct[n][off]
  ELSE page[EntryPage(n, off)][(off - DIRECT) % PER_PAGE]

(* What inodes and pages hold when entry off of n has been set to x. *)
dnode_entry_set(n, off, x) ==
  IF off >= size[n] THEN [direct |-> direct, page |-> page]
  ELSE IF off < DIRECT THEN [direct |-> [direct EXCEPT ![n][off] = x], page |-> page]
  ELSE [direct |-> direct,
        page |-> [page EXCEPT ![EntryPage(n, off)][(off - DIRECT) % PER_PAGE] = x]]

-----------------------------------------------------------------------------
(* The entries of n, without the dots. *)
Present(n) == {Stored(n, s) : s \in 0 .. size[n] - 1} \ Dots

(* The inodes that one entry more takes. *)
NewInodes(n) ==
  LET k == {l \in 0 .. Pages - 1 : Start(l) = size[n]}
  IN  Cardinality(k) + Cardinality({l \in k : FirstOfTable(l)})

(* dnode_append, for a name that is not there yet, while there is room. *)
dnode_append(n, x) ==
  /\ x \notin Present(n)
  /\ size[n] + 1 <= Largest
  /\ NewInodes(n) <= Cardinality(free)
  /\ SetListing(n, size[n] + 1, [Listed(n) EXCEPT ![size[n]] = x])
  /\ nlink' = [nlink EXCEPT ![n] = @ + 1]
  /\ UNCHANGED live

(* A faulty variant: what is past the last entry is moved, not the last. *)
RemoveFromEnd(n, x) ==
  LET dd == Listed(n)
      found == {s \in 0 .. size[n] - 1 : dd[s] = x}
  IN  /\ found # {}
      /\ SetListing(n, size[n] - 1, [s \in Slots |-> IF s \in found THEN dd[size[n]] ELSE dd[s]])
      /\ nlink' = [nlink EXCEPT ![n] = @ - Cardinality(found)]
      /\ UNCHANGED live

(* dnode_remove: the last entry takes the place of the one removed. The    *)
(* loop goes on after that, to the end there was; a change to a second     *)
(* entry of the name stores the array once more, with the size it has now. *)
dnode_remove(n, x) ==
  LET dd == Listed(n)
      found == {s \in 0 .. size[n] - 1 : dd[s] = x}
  IN  /\ found # {}
      /\ SetListing(n, size[n] - 1,
           [s \in Slots |-> IF s \in found THEN dd[size[n] - 1] ELSE dd[s]])
      /\ nlink' = [nlink EXCEPT ![n] = @ - Cardinality(found)]
      /\ UNCHANGED live

(* dnode_listing_set(n, 0), which is how sfs_rmdir empties a directory. d  *)
(* is what the listing before has left there.                              *)
dnode_clear(n) ==
  /\ SetListing(n, 0, d)
  /\ live' = live \ {n}
  /\ UNCHANGED nlink

(* dnode_listing, as every lookup does it. *)
dnode_listing(n) ==
  /\ d' = Listed(n)
  /\ UNCHANGED <<size, nlink, direct, tables, page, free, ERRNO, live>>

errno_pop ==
  /\ ERRNO' = 0
  /\ UNCHANGED <<size, nlink, direct, tables, page, d, free, live>>

Next ==
  \/ \E n \in live : \E x \in NamesOf[n] : dnode_append(n, x)
  \/ \E n \in live : \E x \in NamesOf[n] : dnode_remove(n, x)
  \/ \E n \in live : dnode_clear(n)
  \/ \E n \in live : dnode_listing(n)
  \/ errno_pop

Spec == Init /\ [][Next]_vars

-----------------------------------------------------------------------------
(***************************************************************************)
(* Properties.                                                             *)
(***************************************************************************)

(* The types of the variables. *)
TypeOK ==
  LET Entry == Names \cup Dots \cup {Blank}
  IN  /\ size \in [Nodes -> 0 .. Largest]
      /\ nlink \in [Nodes -> Nat]
      /\ direct \in [Nodes -> [0 .. DIRECT - 1 -> Entry]]
      /\ dpnum \in [Nodes -> [0 .. LV1 - 1 -> Inodes \cup {0}]]
      /\ expnum \in [Nodes -> [0 .. LV2 - 1 -> Inodes \cup {0}]]
      /\ exnum \in [Inodes \cup {0} -> [0 .. FAN - 1 -> Inodes \cup {0}]]
      /\ page \in [Inodes \cup {0} -> [PageSlots -> Entry]]
      /\ d \in [Slots -> Entry]
      /\ free \subseteq Inodes
      /\ ERRNO \in {0, -ENOSPC, -EFBIG}
      /\ live \subseteq Nodes

(* Where the pages and tables are that the size of a directory needs. *)
Needed(n) == {k \in 0 .. Pages - 1 : Start(k) < size[n]}

Owned(n) ==
  {PageInode(n, k) : k \in Needed(n)}
    \cup {expnum[n][Table(k)] : k \in {l \in Needed(n) : FirstOfTable(l)}}

Need(n) == Cardinality(Needed(n)) + Cardinality({k \in Needed(n) : FirstOfTable(k)})

(***************************************************************************)
(* No page or table inode that a directory needs is free, or serves it     *)
(* twice, or serves another directory.                                     *)
(***************************************************************************)
PagesOwned ==
  /\ \A n \in live :
       /\ Owned(n) \subseteq Inodes \ free
       /\ Cardinality(Owned(n)) = Need(n)
  /\ \A m, n \in live : m # n => Owned(m) \cap Owned(n) = {}

(***************************************************************************)
(* Through the shared array, the pages and the swap on removal, each       *)
(* directory is the set of the entries added and not removed.              *)
(***************************************************************************)
Abstract == INSTANCE Directories WITH
  Entries <- Names, present <- [n \in live |-> Present(n)]

DirectoriesImplemented == Abstract!Spec

(***************************************************************************)
(* The accessors of inode.c by offset and the listings mean the same entry:*)
(* what one reads the other has, and setting one changes that entry of     *)
(* that directory, and no other of any.                                    *)
(***************************************************************************)
AccessorsAgree ==
  \A n \in live : \A off \in {s \in 0 .. size[n] - 1 : Lv2Offset(s) < FAN} :
    /\ dnode_entry_get(n, off) = Stored(n, off)
    /\ \A x \in Names :
         LET r == dnode_entry_set(n, off, x)
         IN  \A m \in live : \A s \in 0 .. size[m] - 1 :
               EntryIn(r.direct, r.page, m, s) =
                 IF m = n /\ s = off THEN x ELSE Stored(m, s)

(***************************************************************************)
(* nlink, which stat reports, is the number of entries, each there once.   *)
(***************************************************************************)
NlinkCounts ==
  \A n \in live : nlink[n] = size[n] /\ Cardinality(Present(n)) = size[n] - 2

=============================================================================
