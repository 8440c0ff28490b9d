------------------------------ MODULE UnitTests -----------------------------
(***************************************************************************)
(* The program of src/src/prelude/main.c: its tests, one after the other,  *)
(* on the free list of FreeBlock, the bitmap, the directories and files of *)
(* NodePages in the shape they have on the disk, and the lookup of Paths.  *)
(*                                                                         *)
(* Tests lists what main.c does, statement by statement; the actions say   *)
(* what the statements do. A name is a negative number; the random bytes   *)
(* that a test stores are pairs of a round and a place, so that an entry   *)
(* stored elsewhere or earlier differs. Two tests are left out:            *)
(* test_dnode_add_rm, whose checks do not hold for every random choice,    *)
(* and test_stream_io, which uses blocks as inode numbers.                 *)
(***************************************************************************)
EXTENDS Integers, FiniteSets, Sequences

CONSTANT MAX_BLOCK_NUM   \* blocks on the disk: those of the inode table and a few

VARIABLES
  diskfile,               \* the descriptor of the disk
  vol, SuperBlockBuf, held, got, parity,   \* free_block.c, as in FreeBlock
  ERRNO,
  size, nlink, direct, dpnum, expnum, exnum, page,  \* inodes, as in NodePages
  d, f,                   \* the static arrays
  free,                   \* the inode bitmap
  dirs, files,            \* the inodes initialised as one or the other
  t, pc,                  \* the test that runs, and its statement
  count,                  \* of a loop
  rnd,                    \* which bytes rndbuf holds
  failures                \* <<test, statement>> of the assertions that failed

blocks == <<vol, SuperBlockBuf, held, got, parity>>
inodes == <<size, nlink, direct, dpnum, expnum, exnum, page, free, dirs, files>>
arrays == <<d, f>>
vars == <<diskfile, blocks, ERRNO, inodes, arrays, t, pc, count, rnd, failures>>

INODE_BLK_SIZE == 1024
ENOSPC == 28
INODE_SIZE == 128

Nodes == {2, 3, 4}
AllInodes == 3 .. INODE_BLK_SIZE - 1

(* Inodes in which the tests store pages or tables: a file or a directory  *)
(* through all its tables takes 4 + 256 + 4, after its own; the tables come *)
(* before the 64 pages that they name.                                     *)
PageInodes == 3 .. 270
TableInodes == {8 + 65 * i : i \in 0 .. 3}

Dot == -1
DotDot == -2
A == -3
B == -4
Blank == <<0, 0>>

FB == INSTANCE FreeBlock WITH DataWords <- {0}
P == INSTANCE Paths WITH ROOT <- 2
D == INSTANCE NodePages WITH
  DIRECT <- 6, PER_PAGE <- 8, LV1 <- 4, LV2 <- 4, FAN <- 64, Spare <- 1,
  Inodes <- AllInodes, Names <- {}, NamesOf <- [n \in Nodes |-> {}], live <- dirs
F == INSTANCE NodePages WITH
  DIRECT <- 24, PER_PAGE <- 32, LV1 <- 4, LV2 <- 4, FAN <- 64, Spare <- 0,
  Inodes <- AllInodes, Names <- {}, NamesOf <- [n \in Nodes |-> {}], live <- files, d <- f

-----------------------------------------------------------------------------
(***************************************************************************)
(* The tests. A statement is what it does, what on, and what the assertion *)
(* about it wants.                                                         *)
(***************************************************************************)
Do(what) == <<[do |-> what]>>
On(what, on) == <<[do |-> what, on |-> on]>>
Want(what, want) == <<[do |-> what, want |-> want]>>
OnWant(what, on, want) == <<[do |-> what, on |-> on, want |-> want]>>

Repeat(s, n) == [i \in 1 .. n * Len(s) |-> s[((i - 1) % Len(s)) + 1]]

test_block_io == Do("block_io")

test_fb_init == Do("free_block_init")

test_fb_pop ==
  Do("free_block_init") \o Want("pop", 1) \o Want("pop", 2) \o Want("pop", 3) \o Want("pop", 4)

test_fb_pop_till_empty ==
  Do("free_block_init") \o Do("pop all") \o Want("errno", -ENOSPC)
    \o Want("count", MAX_BLOCK_NUM - 1) \o Want("pop", -1) \o Want("free_block_size", 0)

test_fb_push ==
  LET blk_base == 512
      rand_blk_list == <<1, 6, 7, 14, 5, 8>>
      pushes == [i \in 1 .. 6 |-> On("push", rand_blk_list[7 - i] + blk_base)[1]]
      pops == [i \in 1 .. 6 |-> Want("pop", rand_blk_list[i] + blk_base)[1]]
  IN  Do("free_block_init") \o On("pops", 20 + blk_base)
        \o On("push", 4 + blk_base) \o Want("pop", 4 + blk_base)
        \o pushes \o pops \o On("pops", MAX_BLOCK_NUM)
        \o On("push", 20 + blk_base) \o Want("free_block_size", 1) \o Want("pop", 20 + blk_base)

test_inode_struct == Do("sizeof")

(* inode_init: its loop, then the bitmap and the root. *)
Mkfs == Do("free_block_init") \o On("pops", INODE_BLK_SIZE) \o Do("inode_init")

Metadata(n, sz, isdir, links) == OnWant("metadata", n, <<sz, isdir, links>>)

test_inode_init == Mkfs \o Metadata(2, 2, 1, 2)

test_inode_stat == Mkfs \o Metadata(2, 2, 1, 2)

test_inode_push_pop_create ==
  Mkfs \o Want("ipop", 3) \o Want("ipop", 4) \o On("ipush", 3) \o Want("ipop", 3)
    \o Want("ipop", 5) \o Want("ipop", 6) \o Want("ipop", 7) \o Want("ipop", 8)
    \o Want("ipop", 9) \o On("ipush", 5) \o On("ipush", 8)
    \o Want("ipop", 5) \o Want("ipop", 8)
    \o Mkfs \o Do("ipop all") \o Want("count", 1021)
    \o On("fnode_init", 3) \o On("dnode_init", 4)
    \o Metadata(3, 0, 0, 1) \o Metadata(4, 2, 1, 2)

(* The tests of dnode_listing and of fnode_listing are the same, in sizes  *)
(* of their own: kind tells which.                                         *)
NewNode(kind) ==
  Mkfs \o Want("ipop", 3) \o On(IF kind = "d" THEN "dnode_init" ELSE "fnode_init", 3)

Free(inum) == Want("ipop", inum) \o On("ipush", inum)
Store(kind, n) == On("store " \o kind, n)
Load(kind, n) == On("memset " \o kind, n) \o On("listing " \o kind, n)

test_list_adhoc(kind, first, n) ==
  Do("rand") \o NewNode(kind) \o On("size " \o kind, first)
    \o Store(kind, n) \o Free(4) \o Load(kind, n)

test_list_lv1exp(kind, n, m) ==
  NewNode(kind) \o Store(kind, n) \o Free(5) \o Want("pnum", <<4>>)
    \o OnWant("page", 4, n - 1) \o Load(kind, n)
    \o Store(kind, m) \o Free(8) \o Want("pnum", <<4, 5, 6, 7>>) \o Load(kind, m)

test_list_lv2exp(kind, n, m, l) ==
  Do("rand") \o NewNode(kind) \o Store(kind, n) \o Free(10) \o Load(kind, n)
    \o Store(kind, m) \o Load(kind, m)
    \o Store(kind, l) \o (IF kind = "f" THEN Want("errno", 0) ELSE <<>>) \o Load(kind, l)

test_list_scale_and_srink(kind, n, m) ==
  NewNode(kind)
    \o Repeat(Do("rand") \o Store(kind, n) \o Load(kind, n)
                \o Store(kind, m) \o Load(kind, m), 10)

test_path_2_inum ==
  Mkfs \o OnWant("elem", A, -1) \o OnWant("path", <<>>, [inum |-> 2, parent |-> 2])
    \o OnWant("path", <<A>>, [inum |-> -1, parent |-> 2])
    \o Do("enter a and b")
    \o OnWant("elem", A, 3) \o OnWant("path", <<B>>, [inum |-> 4, parent |-> 2])

Tests ==
  <<test_block_io, test_fb_init, test_fb_pop, test_fb_pop_till_empty, test_fb_push,
    test_inode_struct, test_inode_init, test_inode_stat, test_inode_push_pop_create,
    test_list_adhoc("f", 0, 24), test_list_lv1exp("f", 25, 151),
    test_list_lv2exp("f", 153, 185, D!ENTRY_MAX_SIZE - 1),
    test_list_scale_and_srink("f", 5000, 50),
    test_list_adhoc("d", 2, 6), test_list_lv1exp("d", 7, 38),
    test_list_lv2exp("d", 39, 47, D!ENTRY_MAX_SIZE - 1),
    test_list_scale_and_srink("d", 1000, 10),
    test_path_2_inum>>

-----------------------------------------------------------------------------
(* The program has ended when no test is left and the disk is closed. *)
Running == t \in 1 .. Len(Tests) /\ pc \in 1 .. Len(Tests[t])
Step == Tests[t][pc]

Doing(what) == Running /\ Step.do = what /\ diskfile >= 0

(* What an assertion does: the statement after it, or the end of the test. *)
Assert(ok) ==
  /\ pc' = IF ok THEN pc + 1 ELSE Len(Tests[t]) + 1
  /\ failures' = IF ok THEN failures ELSE failures \cup {<<t, pc>>}
  /\ UNCHANGED <<diskfile, t, rnd>>

Proceed == Assert(TRUE) /\ UNCHANGED count

(* One more turn of a loop. A turn that ends a loop only when there is     *)
(* nothing left, and takes nothing, will be repeated: it is not counted.   *)
Loop(counted) ==
  /\ count' = IF counted THEN count + 1 ELSE count
  /\ UNCHANGED <<diskfile, t, pc, rnd, failures>>

Init ==
  /\ diskfile = -1
  /\ vol = [head |-> 0, size |-> 0, link |-> [b \in 1 .. MAX_BLOCK_NUM - 1 |-> 0]]
  /\ SuperBlockBuf = [head |-> 0, size |-> 0]
  /\ held = {} /\ got = -1 /\ parity = 0
  /\ ERRNO = 0
  /\ size = [n \in Nodes |-> 0]
  /\ nlink = [n \in Nodes |-> 0]
  /\ direct = [n \in Nodes |-> [s \in 0 .. 5 |-> Blank]]
  /\ dpnum = [n \in Nodes |-> D!NoPages]
  /\ expnum = [n \in Nodes |-> D!NoTables]
  /\ exnum = [i \in {0} \cup TableInodes |-> D!NoNames]
  /\ page = [i \in {0} \cup PageInodes |-> D!BlankPage]
  /\ d = [s \in D!Slots |-> Blank]
  /\ f = [s \in F!Slots |-> Blank]
  /\ free = {} /\ dirs = {} /\ files = {}
  /\ t = 1 /\ pc = 1 /\ count = 0 /\ rnd = 1 /\ failures = {}

(* A descriptor is 3 or more; one that is open is not opened again. *)
disk_open ==
  /\ t = 1 /\ diskfile < 0
  /\ diskfile' = 3
  /\ UNCHANGED <<blocks, ERRNO, inodes, arrays, t, pc, count, rnd, failures>>

(* MU_RUN_TEST calls the teardown, which collects the error. *)
teardown ==
  /\ t \in 1 .. Len(Tests) /\ pc = Len(Tests[t]) + 1
  /\ t' = t + 1 /\ pc' = 1 /\ count' = 0
  /\ ERRNO' = 0
  /\ UNCHANGED <<diskfile, blocks, inodes, arrays, rnd, failures>>

(* The block is read back as it was written. *)
block_io ==
  /\ Doing("block_io")
  /\ FB!block_write(1, 7)
  /\ Assert(vol'.link[1] = 7)
  /\ UNCHANGED <<inodes, arrays, count>>

free_block_init ==
  /\ Doing("free_block_init")
  /\ FB!free_block_init
  /\ Proceed
  /\ UNCHANGED <<inodes, arrays>>

free_block_pop ==
  /\ Doing("pop") \/ Doing("pops") \/ Doing("pop all")
  /\ FB!free_block_pop
  /\ \/ /\ Step.do = "pop"
        /\ Assert(got' = Step.want)
        /\ UNCHANGED count
     \/ /\ Step.do = "pops" /\ count < Step.on - 1
        /\ Loop(TRUE)
     \/ /\ Step.do = "pops" /\ count = Step.on - 1
        /\ Assert(TRUE)
        /\ count' = 0
     \/ /\ Step.do = "pop all"
        /\ IF got' > 0 THEN Loop(vol' # vol) ELSE Proceed
  /\ UNCHANGED <<inodes, arrays>>

free_block_push ==
  /\ Doing("push")
  /\ FB!free_block_push(Step.on)
  /\ Proceed
  /\ UNCHANGED <<inodes, arrays>>

(* Statements that look at what there is. *)
StructSizes ==
  LET metadata == 16
      di_ent == 14 + 2
      nums == 4 * 2 + 4 * 2
  IN  {64 * 2, metadata + 24 * 4 + nums, 32 * 4, metadata + 6 * di_ent + nums, 8 * di_ent}

(* inode_load, and inode_get_attr_upc, which tells the same of a directory. *)
MetadataOf(n) == <<size[n], IF n \in dirs THEN 1 ELSE 0, nlink[n]>>

look ==
  /\ \/ Doing("free_block_size") /\ Assert(SuperBlockBuf.size = Step.want)
     \/ Doing("sizeof") /\ Assert(StructSizes = {INODE_SIZE})
     \/ Doing("metadata") /\ Assert(MetadataOf(Step.on) = Step.want)
     \/ Doing("count") /\ Assert(count = Step.want)
     \/ /\ Doing("pnum")
        /\ Assert(\A k \in 1 .. Len(Step.want) : dpnum[3][k - 1] = Step.want[k])
     \/ Doing("page") /\ Assert(page[Step.on][0] = <<rnd, Step.want>>)
  /\ count' = IF Step.do = "count" THEN 0 ELSE count
  /\ UNCHANGED <<blocks, ERRNO, inodes, arrays>>

errno_pop ==
  /\ Doing("errno")
  /\ Assert(ERRNO = Step.want)
  /\ ERRNO' = 0
  /\ UNCHANGED <<blocks, inodes, arrays, count>>

rand ==
  /\ Doing("rand")
  /\ rnd' = rnd + 1
  /\ pc' = pc + 1
  /\ UNCHANGED <<diskfile, blocks, ERRNO, inodes, arrays, t, count, failures>>

-----------------------------------------------------------------------------
(* Inodes. *)
pages == <<dpnum, expnum, exnum, page>>

dnode(n, p) ==
  /\ size' = [size EXCEPT ![n] = 2]
  /\ nlink' = [nlink EXCEPT ![n] = 2]
  /\ direct' = [direct EXCEPT ![n] =
                  [s \in 0 .. 5 |-> IF s = 0 THEN <<Dot, n>>
                                    ELSE IF s = 1 THEN <<DotDot, p>> ELSE Blank]]
  /\ dpnum' = [dpnum EXCEPT ![n] = D!NoPages]
  /\ expnum' = [expnum EXCEPT ![n] = D!NoTables]
  /\ UNCHANGED <<exnum, page>>

(* inode_init after its loop: the bitmap, and the root, all others gone. *)
inode_init ==
  /\ Doing("inode_init")
  /\ free' = AllInodes
  /\ dnode(2, 2)
  /\ dirs' = {2} /\ files' = {}
  /\ Proceed
  /\ UNCHANGED <<blocks, ERRNO, arrays>>

dnode_init ==
  /\ Doing("dnode_init")
  /\ dnode(Step.on, 2)
  /\ dirs' = dirs \cup {Step.on}
  /\ Proceed
  /\ UNCHANGED <<blocks, ERRNO, free, files, arrays>>

fnode_init ==
  /\ Doing("fnode_init")
  /\ size' = [size EXCEPT ![Step.on] = 0]
  /\ nlink' = [nlink EXCEPT ![Step.on] = 1]
  /\ direct' = [direct EXCEPT ![Step.on] = [s \in 0 .. 23 |-> Blank]]
  /\ dpnum' = [dpnum EXCEPT ![Step.on] = D!NoPages]
  /\ expnum' = [expnum EXCEPT ![Step.on] = D!NoTables]
  /\ files' = files \cup {Step.on}
  /\ Proceed
  /\ UNCHANGED <<blocks, ERRNO, exnum, page, free, dirs, arrays>>

Lowest == IF free = {} THEN 0 ELSE CHOOSE i \in free : \A j \in free : i <= j

free_inode_pop ==
  /\ Doing("ipop") \/ Doing("ipop all")
  /\ free' = free \ {Lowest}
  /\ \/ Step.do = "ipop" /\ Assert(Lowest = Step.want) /\ UNCHANGED count
     \/ Step.do = "ipop all" /\ IF Lowest > 0 THEN Loop(free' # free) ELSE Proceed
  /\ ERRNO' = IF free = {} THEN -ENOSPC ELSE ERRNO
  /\ UNCHANGED <<blocks, size, nlink, direct, pages, dirs, files, arrays>>

free_inode_push ==
  /\ Doing("ipush")
  /\ free' = free \cup {Step.on}
  /\ Proceed
  /\ UNCHANGED <<blocks, ERRNO, size, nlink, direct, pages, dirs, files, arrays>>

-----------------------------------------------------------------------------
(* The listings of inode 3. *)
Random(array, n) == [s \in DOMAIN array |-> IF s < n THEN <<rnd, s>> ELSE array[s]]
Zeroes(array, n) == [s \in DOMAIN array |-> IF s < n THEN Blank ELSE array[s]]
IsRandom(array, n) == \A s \in 0 .. n - 1 : array[s] = <<rnd, s>>

store ==
  /\ \/ /\ Doing("store d")
        /\ D!SetListing(3, Step.on, Random(D!Listed(3), Step.on))
        /\ UNCHANGED f
     \/ /\ Doing("store f")
        /\ F!SetListing(3, Step.on, Random(F!Listed(3), Step.on))
        /\ UNCHANGED d
  /\ Proceed
  /\ UNCHANGED <<blocks, nlink, dirs, files>>

memset ==
  /\ \/ Doing("memset d") /\ d' = Zeroes(d, Step.on) /\ UNCHANGED f
     \/ Doing("memset f") /\ f' = Zeroes(f, Step.on) /\ UNCHANGED d
  /\ Proceed
  /\ UNCHANGED <<blocks, ERRNO, inodes>>

(* The listing has the size and the entries stored. *)
listing ==
  /\ \/ /\ Doing("listing d") /\ D!dnode_listing(3) /\ UNCHANGED f
        /\ Assert(size[3] = Step.on /\ IsRandom(d', Step.on))
     \/ /\ Doing("listing f") /\ F!dnode_listing(3) /\ UNCHANGED d
        /\ Assert(size[3] = Step.on /\ IsRandom(f', Step.on))
     \/ /\ Doing("size d") /\ D!dnode_listing(3) /\ UNCHANGED f
        /\ Assert(size[3] = Step.on)
     \/ /\ Doing("size f") /\ F!dnode_listing(3) /\ UNCHANGED d
        /\ Assert(size[3] = Step.on)
  /\ UNCHANGED <<blocks, dirs, files, count>>

(* The lookups, from the root. *)
Root == [n \in {2} |-> [i \in 1 .. size[2] |-> D!Stored(2, i - 1)]]

lookup ==
  /\ \/ Doing("elem") /\ Assert(P!path_to_inum_elem(Root, Step.on, 2) = Step.want)
     \/ Doing("path") /\ Assert(P!path_to_inum(Root, Step.on) = Step.want)
  /\ D!dnode_listing(2)
  /\ UNCHANGED <<blocks, files, f, count>>

enter ==
  /\ Doing("enter a and b")
  /\ D!SetListing(2, 3, [D!Listed(2) EXCEPT ![1] = <<A, 3>>, ![2] = <<B, 4>>])
  /\ Proceed
  /\ UNCHANGED <<blocks, nlink, dirs, files, f>>

(* The descriptor is closed, but its number kept. *)
disk_close ==
  /\ t = Len(Tests) + 1
  /\ t' = t + 1
  /\ UNCHANGED <<diskfile, blocks, ERRNO, inodes, arrays, pc, count, rnd, failures>>

Next ==
  \/ disk_open \/ teardown \/ disk_close
  \/ block_io \/ free_block_init \/ free_block_pop \/ free_block_push
  \/ look \/ errno_pop \/ rand
  \/ inode_init \/ dnode_init \/ fnode_init \/ free_inode_pop \/ free_inode_push
  \/ store \/ memset \/ listing \/ lookup \/ enter

(* One program, which nothing holds up. *)
Spec == Init /\ [][Next]_vars /\ WF_vars(Next)

-----------------------------------------------------------------------------
(***************************************************************************)
(* Properties.                                                             *)
(***************************************************************************)

(***************************************************************************)
(* Every assertion of the tests of main.c holds, with the numbers that are *)
(* written there and inodes, pages and tables in the size that they have.  *)
(***************************************************************************)
AssertsHold == failures = {}

(***************************************************************************)
(* The tests end: the loops that call free_block_pop and free_inode_pop    *)
(* until there is nothing left come to where there is nothing left.        *)
(***************************************************************************)
TestsEnd == <>(t > Len(Tests) + 1)

=============================================================================
