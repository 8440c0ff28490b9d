------------------------------- MODULE Stream -------------------------------
(***************************************************************************)
(* The contents of files: src/src/prelude/stream.c, the listing functions  *)
(* of inode.c it goes through, and the calls of sfs.c above it.            *)
(*                                                                         *)
(* A file is a table of block numbers in its inode and page inodes, a      *)
(* count of entries and a size. Every call works on the table of one file  *)
(* in a static array f that all files share: fnode_listing fills the part  *)
(* of f that the file's pages cover, and the rest of f keeps the entries   *)
(* of whichever file was there before. Blocks come from the free list.     *)
(***************************************************************************)
EXTENDS FreeList, FiniteSets, Sequences

CONSTANTS
  MAX_BLOCK_NUM,     \* blocks on the disk
  INODE_BLK_SIZE,    \* blocks 0 .. INODE_BLK_SIZE are not for data
  BLOCK_SIZE,        \* words in a block
  DIRECT,            \* entries in the inode itself
  PER_PAGE,          \* entries in a page inode
  FENTRY_MAX_SIZE,   \* entries a file can have
  Names,             \* the files there can be
  Data,              \* the words programs write
  MaxRequest,        \* the longest write, in words
  OutOfOrder         \* which requests out of the ordinary programs make

ASSUME StreamAssumption ==
  /\ {MAX_BLOCK_NUM, BLOCK_SIZE, DIRECT, PER_PAGE, FENTRY_MAX_SIZE, MaxRequest}
       \subseteq Nat \ {0}
  /\ INODE_BLK_SIZE \in 0 .. MAX_BLOCK_NUM - 2
  /\ BLOCK_SIZE >= 2 /\ DIRECT <= FENTRY_MAX_SIZE
  /\ Data \subseteq Nat \ {0}
  /\ OutOfOrder \subseteq {"hole", "oversize", "grow"}

VARIABLES
  vol,     \* the disk: superblock words, and the words of every other block
  ERRNO,   \* error of the last failing call not yet collected
  live,    \* the files there are
  tab,     \* block numbers of each file, as far as pages were ever written
  b_size,  \* metadata.size: how many of them count
  f_size,  \* metadata.fsize
  f,       \* the static array
  failed   \* ghost: the last call returned an error

vars == <<vol, ERRNO, live, tab, b_size, f_size, f, failed>>
inodes == <<tab, b_size, f_size>>

EFBIG == 27

Max2(a, b) == IF a > b THEN a ELSE b
Min2(a, b) == IF a < b THEN a ELSE b

Entries == 0 .. FENTRY_MAX_SIZE - 1
FCONTENT_MAX_SIZE == FENTRY_MAX_SIZE * BLOCK_SIZE
DataBlocks == INODE_BLK_SIZE + 1 .. MAX_BLOCK_NUM - 1
Positions == 0 .. BLOCK_SIZE - 1

ZeroBlock == [k \in Positions |-> 0]

-----------------------------------------------------------------------------
(***************************************************************************)
(* Blocks. Word 0 of a block is vol.link, where the free list runs; the    *)
(* others are vol.rest. The words of block 0 are the superblock's.         *)
(***************************************************************************)

(* block_read: zeros where there is no block. *)
BlockRead(v, b) ==
  [k \in Positions |->
     IF b = 0 THEN IF k = 0 THEN v.head ELSE IF k = 1 THEN v.size ELSE 0
     ELSE IF b \in DOMAIN v.link THEN IF k = 0 THEN v.link[b] ELSE v.rest[b][k]
     ELSE 0]

(* block_write: nothing where there is no block. *)
BlockWritten(v, b, image) ==
  IF b = 0 THEN [v EXCEPT !.head = image[0], !.size = image[1]]
  ELSE IF b \in DOMAIN v.link
    THEN [v EXCEPT !.link[b] = image[0],
                   !.rest[b] = [k \in Positions \ {0} |-> image[k]]]
  ELSE v

(* free_block_allocate on a list that is not exhausted. *)
Allocated(v, image) == BlockWritten(Unlinked(v), v.head, image)

-----------------------------------------------------------------------------
(***************************************************************************)
(* The table of a file, through the static array.                          *)
(***************************************************************************)

(* How far the pages of a table with n entries reach. *)
Covered(n) ==
  IF n <= DIRECT THEN DIRECT
  ELSE Min2(FENTRY_MAX_SIZE, DIRECT + PER_PAGE * (((n - DIRECT - 1) \div PER_PAGE) + 1))

(* f after fnode_listing(g). *)
Listing(g) ==
  [e \in Entries |-> IF e < Covered(b_size[g]) THEN tab[g][e] ELSE f[e]]

(* Faulty variant: the count is one too many. *)
SetOneMore(g, n, ff) ==
  /\ tab' = [tab EXCEPT ![g] =
               [e \in Entries |-> IF e < Covered(n) THEN ff[e] ELSE @[e]]]
  /\ b_size' = [b_size EXCEPT ![g] = n + 1]

(* fnode_listing_set(g, n) with the array at ff. *)
SetListing(g, n, ff) ==
  /\ tab' = [tab EXCEPT ![g] =
               [e \in Entries |-> IF e < Covered(n) THEN ff[e] ELSE @[e]]]
  /\ b_size' = [b_size EXCEPT ![g] = n]

-----------------------------------------------------------------------------
(* The disk after inode_init has taken the first blocks off the list. *)
Init ==
  /\ vol =
       [head |-> INODE_BLK_SIZE + 1,
        size |-> MAX_BLOCK_NUM - 1 - INODE_BLK_SIZE,
        link |-> [b \in 1 .. MAX_BLOCK_NUM - 1 |->
                    IF b <= INODE_BLK_SIZE THEN 0
                    ELSE IF b = MAX_BLOCK_NUM - 1 THEN NIL ELSE b + 1],
        rest |-> [b \in 1 .. MAX_BLOCK_NUM - 1 |-> [k \in Positions \ {0} |-> 0]]]
  /\ ERRNO = 0
  /\ live = {}
  /\ tab = [g \in Names |-> [e \in Entries |-> 0]]
  /\ b_size = [g \in Names |-> 0]
  /\ f_size = [g \in Names |-> 0]
  /\ f = [e \in Entries |-> 0]
  /\ failed = FALSE

(***************************************************************************)
(* sfs_create: fnode_init clears the inode; an error that some earlier     *)
(* call left in ERRNO is taken for a failure of this one, and the file is  *)
(* removed again. The directory and the inode bitmap are other modules'.   *)
(***************************************************************************)
sfs_create(g) ==
  /\ g \notin live
  /\ tab' = [tab EXCEPT ![g] = [e \in Entries |-> 0]]
  /\ b_size' = [b_size EXCEPT ![g] = 0]
  /\ f_size' = [f_size EXCEPT ![g] = 0]
  /\ failed' = (ERRNO # 0)
  /\ live' = IF ERRNO # 0 THEN live ELSE live \cup {g}
  /\ ERRNO' = 0
  /\ UNCHANGED <<vol, f>>

(* free_block_push: apart from its first word block b becomes a copy of *)
(* block 0, which is what BlockBuf holds.                               *)
Pushed(v, b) == Linked(BlockWritten(v, b, [BlockRead(v, 0) EXCEPT ![0] = v.head]), b)

(* Faulty variant: the first block to free is kept. *)
FreedFromNext(v, g, n, ff) ==
  LET before[i \in 0 .. b_size[g]] ==
        IF i <= n + 1 THEN v ELSE Pushed(before[i - 1], ff[i - 1])
  IN  before[b_size[g]]

(* The blocks n and up of g pushed back, from the array at ff: before[i] is *)
(* the disk before the round for entry i.                                   *)
Freed(v, g, n, ff) ==
  LET before[i \in 0 .. b_size[g]] ==
        IF i <= n THEN v ELSE Pushed(before[i - 1], ff[i - 1])
  IN  before[b_size[g]]

(* sfs_unlink: every block is pushed back, the inode is given up. *)
sfs_unlink(g) ==
  /\ vol' = Freed(vol, g, 0, Listing(g))
  /\ f' = Listing(g)
  /\ SetListing(g, 0, f')
  /\ live' = live \ {g}
  /\ failed' = FALSE
  /\ UNCHANGED <<ERRNO, f_size>>

(***************************************************************************)
(* fstream_write of n words w at off, through sfs_write.                   *)
(***************************************************************************)

(* Faulty variant: a block is filled up with zeros, not with what it held. *)
ImageNotRead(g, ff, i, off, n, w) ==
  [k \in Positions |-> IF i * BLOCK_SIZE + k \in off .. off + n - 1 THEN w ELSE 0]

(* What block i of g is to hold: the blocks there are were read before the *)
(* first of them is written.                                               *)
Image(g, ff, i, off, n, w) ==
  LET old == IF i < b_size[g] THEN BlockRead(vol, ff[i]) ELSE ZeroBlock
  IN  [k \in Positions |->
         IF i * BLOCK_SIZE + k \in off .. off + n - 1 THEN w ELSE old[k]]

(* What a loop that allocates works on: the disk, the array, the next entry, *)
(* the error cell, and whether it has broken off.                            *)
Round(v, ff, i, err, full) == [vol |-> v, f |-> ff, i |-> i, err |-> err, full |-> full]

(* One round: the next block is overwritten or allocated. A list whose head *)
(* is neither a block nor negative refuses, but the loop goes on.           *)
Put(r, g, off, n, w) ==
  LET image == Image(g, Listing(g), r.i, off, n, w)
  IN  IF r.full THEN r
      ELSE IF r.i < b_size[g]
        THEN Round(BlockWritten(r.vol, r.f[r.i], image), r.f, r.i + 1, r.err, FALSE)
      ELSE IF HasFree(r.vol)
        THEN Round(Allocated(r.vol, image), [r.f EXCEPT ![r.i] = r.vol.head], r.i + 1,
                   r.err, FALSE)
      ELSE IF r.vol.head < 0 THEN Round(r.vol, r.f, r.i, -ENOSPC, TRUE)
      ELSE Round(r.vol, [r.f EXCEPT ![r.i] = r.vol.head], r.i + 1, -ENOSPC, FALSE)

(* The blocks written one after the other, until one cannot be had. *)
Written(g, off, n, w) ==
  LET b_start == off \div BLOCK_SIZE
      b_end == ((off + n - 1) \div BLOCK_SIZE) + 1
      rounds == Min2(b_end, FENTRY_MAX_SIZE) - b_start
      after[k \in 0 .. rounds] ==
        IF k = 0 THEN Round(vol, Listing(g), b_start, ERRNO, FALSE)
                 ELSE Put(after[k - 1], g, off, n, w)
  IN  after[rounds]

(* Faulty variant: a refused block is not an error. *)
WriteErrorLost(r) == ERRNO

(* The error that fstream_write collects: its own, or one left in ERRNO. *)
WriteError(r) ==
  IF r.i > FENTRY_MAX_SIZE THEN -EFBIG ELSE r.err

(* What errno_pop leaves there; faulty variant: the error it returns. *)
ErrorKept(r) == WriteError(r)

ErrorLeft(r) == 0

sfs_write(g, off, n, w) ==
  LET r == Written(g, off, n, w)
  IN  /\ f' = r.f
      /\ SetListing(g, Min2(Max2(b_size[g], r.i), FENTRY_MAX_SIZE), r.f)
      /\ f_size' = [f_size EXCEPT ![g] = Min2(Max2(@, off + n), FCONTENT_MAX_SIZE)]
      /\ failed' = (WriteError(r) # 0)
      \* on an error sfs_write tries a pop, and does not push back what it gets
      /\ vol' = IF failed' /\ HasFree(r.vol) THEN Unlinked(r.vol) ELSE r.vol
      /\ ERRNO' = ErrorLeft(r)
      /\ UNCHANGED live

(***************************************************************************)
(* sfs_truncate to off words: blocks for the new size are put into f, then *)
(* fstream_free lists the table into f again before it stores it.          *)
(***************************************************************************)
Grow(r) ==
  IF HasFree(r.vol)
    THEN Round(Allocated(r.vol, ZeroBlock), [r.f EXCEPT ![r.i] = r.vol.head], r.i + 1,
               r.err, FALSE)
    ELSE Round(r.vol, [r.f EXCEPT ![r.i] = r.vol.head], r.i + 1, -ENOSPC, FALSE)

Grown(g, n) ==
  LET before[i \in 0 .. n] ==
        IF i <= b_size[g] THEN Round(vol, Listing(g), b_size[g], ERRNO, FALSE)
                          ELSE Grow(before[i - 1])
  IN  before[n]

sfs_truncate(g, off) ==
  LET n == (off \div BLOCK_SIZE) + 1
      r == Grown(g, n)
      relisted == [e \in Entries |->
                     IF e < Covered(b_size[g]) THEN tab[g][e] ELSE r.f[e]]
  IN  /\ vol' = Freed(r.vol, g, n, relisted)
      /\ f' = relisted
      /\ SetListing(g, n, relisted)
      /\ f_size' = [f_size EXCEPT ![g] = off]
      /\ ERRNO' = r.err
      /\ failed' = FALSE
      /\ UNCHANGED live

(***************************************************************************)
(* fstream_read of n words at off: the words returned, and the array.      *)
(***************************************************************************)
ReadShort(g, off, n) ==           \* faulty: the last block is not read
  LET b_end == (off + n) \div BLOCK_SIZE
      block(i) == IF i < b_size[g] /\ i < b_end THEN BlockRead(vol, Listing(g)[i])
                  ELSE ZeroBlock
      size == Max2(0, Min2(n, f_size[g] - off))
  IN  [p \in 1 .. size |->
         block((off + p - 1) \div BLOCK_SIZE)[(off + p - 1) % BLOCK_SIZE]]

ReadWords(g, off, n) ==
  LET b_end == ((off + n) \div BLOCK_SIZE) + 1
      block(i) == IF i < b_size[g] /\ i < b_end THEN BlockRead(vol, Listing(g)[i])
                  ELSE ZeroBlock
      size == Max2(0, Min2(n, f_size[g] - off))
  IN  [p \in 1 .. size |->
         block((off + p - 1) \div BLOCK_SIZE)[(off + p - 1) % BLOCK_SIZE]]

sfs_read(g) ==
  /\ f' = Listing(g)
  /\ failed' = FALSE
  /\ UNCHANGED <<vol, ERRNO, live, inodes>>

-----------------------------------------------------------------------------
(***************************************************************************)
(* Requests in order begin where the file has blocks, write no further     *)
(* than a file can reach, and truncate to a size that needs no new block.  *)
(* The rest are a write that leaves a hole, a write past the largest size, *)
(* and a truncation that lets the file grow.                               *)
(***************************************************************************)
Backed(g) == Min2(f_size[g], b_size[g] * BLOCK_SIZE)

WriteRequested(g, off, n) ==
  /\ off <= Backed(g) \/ "hole" \in OutOfOrder
  /\ off + n <= FCONTENT_MAX_SIZE \/ "oversize" \in OutOfOrder

TruncateRequested(g, off) ==
  \/ off <= f_size[g] /\ off \div BLOCK_SIZE < b_size[g]
  \/ "grow" \in OutOfOrder

Next ==
  \/ \E g \in Names : sfs_create(g)
  \/ \E g \in live : sfs_unlink(g)
  \/ \E g \in live : sfs_read(g)
  \/ \E g \in live, off \in 0 .. FCONTENT_MAX_SIZE, n \in 1 .. MaxRequest, w \in Data :
       WriteRequested(g, off, n) /\ sfs_write(g, off, n, w)
  \/ \E g \in live, off \in 0 .. FCONTENT_MAX_SIZE - 1 :
       TruncateRequested(g, off) /\ sfs_truncate(g, off)

Spec == Init /\ [][Next]_vars

-----------------------------------------------------------------------------
(***************************************************************************)
(* Properties.                                                             *)
(***************************************************************************)

(* A volume as the disk can hold it. *)
Volumes ==
  [head : Int, size : Int,
   link : [1 .. MAX_BLOCK_NUM - 1 -> Int],
   rest : [1 .. MAX_BLOCK_NUM - 1 -> [Positions \ {0} -> Int]]]

(* The types of the variables. *)
TypeOK ==
  /\ vol \in Volumes
  /\ ERRNO \in {0, -ENOSPC, -EFBIG}
  /\ live \subseteq Names
  /\ tab \in [Names -> [Entries -> Int]]
  /\ b_size \in [Names -> 0 .. FENTRY_MAX_SIZE]
  /\ f_size \in [Names -> 0 .. FCONTENT_MAX_SIZE]
  /\ f \in [Entries -> Int]
  /\ failed \in BOOLEAN

(* The table entries of the files there are: <<file, entry>>. *)
Slots == UNION {{g} \X (0 .. b_size[g] - 1) : g \in live}

BlockAt(s) == tab[s[1]][s[2]]

(***************************************************************************)
(* Every data block is either on the free list or in one entry of one file,*)
(* and no file has a block that is not for data: no block is shared, lost, *)
(* or freed while a file still has it.                                     *)
(***************************************************************************)
BlocksAccounted ==
  LET used == {BlockAt(s) : s \in Slots}
  IN  /\ used \subseteq DataBlocks
      /\ \A s, t \in Slots : BlockAt(s) = BlockAt(t) => s = t
      /\ ListsExactly(vol, DataBlocks \ used)

(* The words of a file, as its table and size tell. *)
Content(g) ==
  [p \in 1 .. f_size[g] |->
     LET e == (p - 1) \div BLOCK_SIZE
     IN  IF e < b_size[g] THEN BlockRead(vol, tab[g][e])[(p - 1) % BLOCK_SIZE] ELSE 0]

(***************************************************************************)
(* Through the shared array, the free list and the block buffers, files    *)
(* behave as sequences of words that do not know of each other.            *)
(***************************************************************************)
Abstract == INSTANCE Files WITH content <- [g \in live |-> Content(g)]

FilesImplemented == Abstract!Spec

(***************************************************************************)
(* fstream_read returns the words between off and the end of the file,     *)
(* whatever part of a block either end falls on.                           *)
(***************************************************************************)
ReadsExact ==
  \A g \in live, off \in 0 .. FCONTENT_MAX_SIZE, n \in 1 .. MaxRequest :
    ReadWords(g, off, n) = SubSeq(Content(g), off + 1, Min2(off + n, f_size[g]))

(***************************************************************************)
(* A call reports an error only if the files have every block there is:    *)
(* ERRNO is one cell for all calls, and what one call leaves in it another *)
(* one would report.                                                       *)
(***************************************************************************)
ErrorsFresh == [][failed' => Cardinality(Slots') = Cardinality(DataBlocks)]_vars

(***************************************************************************)
(* A file is not longer than its blocks, except by a write that reported   *)
(* an error.                                                               *)
(***************************************************************************)
SizeBacked ==
  [][\A g \in live \cap live' :
       f_size'[g] > b_size'[g] * BLOCK_SIZE =>
         failed' \/ f_size[g] > b_size[g] * BLOCK_SIZE]_vars

(***************************************************************************)
(* main.c, test_stream_io: "blknum assign error" when a file has a block   *)
(* blknum <= INODE_BLK_SIZE, one of the superblock and the inode table.    *)
(***************************************************************************)
NoTableBlocks == \A s \in Slots : BlockAt(s) > INODE_BLK_SIZE

=============================================================================
