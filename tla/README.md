# OS_fuse in TLA+

OS_fuse is a small file system for FUSE 2: `src/src/sfs.c` over the files of
`src/src/prelude/`. It keeps everything in one disk image of 512-byte blocks.
This directory models the parts of it that keep state, model-checks them with
TLC and proves the allocators, directories, contents of files and the tree of names correct
with TLAPS. Paths below that do not begin with `src/` are relative to `src/src/`.

## 1. The system

| component | code | state it keeps | operations |
|---|---|---|---|
| free block list | `prelude/free_block.c` | the superblock (block 0: head and count), its copy `SuperBlockBuf`, the first word of every free block, the scratch block `BlockBuf` | `free_block_init`, `pop`, `allocate`, `push`, `size` |
| inode bitmap | `prelude/inode.c:29-41, 463-492` | block `INODE_BLK_SIZE` | `inode_init`, `free_inode_pop`, `free_inode_push` |
| inode store | `prelude/inode.c:12-27, 43-119` | four inodes in each of the blocks 0 to `INODE_BLK_SIZE - 1`, `_iblockbuf` | `inode_load`, `inode_dump`, the attribute calls, `dnode_init`, `fnode_init` |
| directory listings | `prelude/inode.c:257-358, 495-525` | entries in an inode, in page inodes and in page inodes named by table inodes; the array `d` | `dnode_listing`, `dnode_listing_set`, `dnode_append`, `dnode_remove` |
| file tables | `prelude/inode.c:360-461` | block numbers, kept the same way; the array `f` | `fnode_listing`, `fnode_listing_set` |
| file contents | `prelude/stream.c` | the data blocks | `fstream_read`, `fstream_write`, `fstream_free` |
| path lookup | `prelude/path.c` | none (it fills `d`) | `path_to_inum`, `path_basename` |
| error cell | `prelude/err.c` | `ERRNO` | `errno_push`, `errno_pop` |
| file system calls | `sfs.c` | none of their own | `sfs_init` to `sfs_releasedir` |
| block I/O | `prelude/block.c` | the descriptor of the image | `disk_open`, `disk_close`, `block_read`, `block_write` |
| unit tests | `prelude/main.c`, `prelude/minunit.h` | the static bytes and counters of each test | the tests of `test_suite` |
| logging, build | `log.c`, ... | | not modelled |

How they interact: libfuse calls an `sfs_` function; that looks its path up
through the directory listings and works on the inode it gets. Contents go
through the array `f` to the table of the file, blocks come from the free list,
inodes (also those for pages) from the bitmap. A lower layer reports an error by
`errno_push`; some of the calls above collect it with `errno_pop`, some do not.
All the buffers are static: `SuperBlockBuf`, `BlockBuf`, `_iblockbuf`, `d`, `f`
and `ERRNO` serve every file, every directory and every thread, without a lock,
while `fuse_main` (`sfs.c:452`) runs several threads unless it is given `-s`.

What makes each part correct:

- free list: it leads to exactly the blocks nobody holds, each once; a block
  handed out is held by nobody; the count in memory is their number.
- bitmap: a bit is clear exactly for the inodes in use and the reserved ones.
- directory listings: a directory is the set of the entries appended and not
  removed; its pages are taken, and serve it alone.
- names: they form a tree; a call that returns an error has changed none of them; every
  inode is free, or in one place of the tree, or lost in a way that is known.
- contents: a file is the sequence of what was written to it; every data block
  is free or in one place of one file; errors and sizes tell what happened.

What is hard to test: the order of statements of two threads; what a static array
still holds of the file or directory before; the free list, whose links lie in the
very words that holders of blocks overwrite; calls that run out of blocks or inodes
halfway; sizes at the boundary of a block, a page or a table; an error that stays in
the cell until another call finds it. `PROJECT.json` lists each at its line, with the
properties that are about it.

## 2. The modules

| module | what it is | state and actions against the code |
|---|---|---|
| `Pool` | what an allocator promises: it hands out what nobody holds, and fails only when nothing is left | abstract |
| `FreeList` | the list as it is on the disk: `HasFree`, `Unlinked`, `Linked`, `ListsExactly` | `vol` = superblock and first words |
| `FreeBlock` | `free_block.c`, one action per call | `vol`, `SuperBlockBuf`, `ERRNO`; `held` (ghost) = what the callers have; `block_write` = a holder overwrites its block |
| `FreeBlockThreads` | the same calls, one action per access to the disk or to a static buffer, for a set of threads | adds `BlockBuf`, the program counters and the locals; refines `FreeBlock` with one thread |
| `FreeListProofs` | lemmas: what taking, putting and formatting do to a list | |
| `FreeBlockProofs` | theorems about `FreeBlock` | |
| `FreeBlockThreadsProofs` | theorems about `FreeBlockThreads` with one thread | |
| `InodeMap` | the bitmap, byte by byte | `map`; `ptr` = the mask, with `SIGNED_CHAR`; `held` ghost |
| `InodeMapProofs` | theorems about `InodeMap` | |
| `Files` | what files promise: sequences of words that do not know of each other | abstract |
| `Stream` | contents of files: `stream.c`, the table calls and the block calls it makes, and `sfs_create`, `unlink`, `read`, `write`, `truncate` above it | `vol` (as in `FreeList`, and the other words), `tab`, `b_size`, `f_size` per file, the array `f`, `ERRNO` |
| `LoopProofs` | lemmas: induction over the rounds of a loop; quotients; counting | |
| `StreamProofs` | what the loops of `stream.c` yield; theorems about the types, blocks, errors, sizes and contents of files | |
| `Directories` | what directories promise: sets of entries | abstract |
| `NodePages` | directories: `dnode_listing`, `dnode_listing_set`, `dnode_append`, `dnode_remove` and the page and table inodes; with another shape the tables of files; the accessors by offset | `size`, `nlink`, `direct`, `dpnum`, `expnum`, `exnum`, `page`, the array `d`, the free inodes |
| `NodePagesProofs` | theorems about `NodePages` | |
| `DirectoryThreads` | `dnode_append` and `dnode_listing`, one action per access to the disk or to a static buffer, for a set of threads | `disk` (blocks of four inodes), `iblockbuf`, `d`, program counters and locals; `done` (ghost) |
| `Paths` | `path.c`: a walk from the root through listings | operators |
| `Tree` | what names promise: a tree; refused calls change nothing | abstract |
| `Namespace` | the calls of `sfs.c` on paths, over `Paths`, inodes with their entries and pages, and one bitmap | `inode`, `free`, `ERRNO`, whether inode 0 still is the superblock, and the answer of the last call |
| `NamespaceProofs` | theorems about `Namespace` | |
| `UnitTests` | the program of `main.c`: its statements as data, on `FreeBlock`, `Paths` and two instances of `NodePages` in the shape of the disk | the state of those modules, the bitmap, and where the program is |
| `MCStream`, `MCNodePages`, `MCNamespace` | instances with symmetry | |

`FreeBlock` and `InodeMap` refine `Pool` (the ghost `parity` makes each answer to a
request a step, so that a block handed out twice in a row cannot pass as nothing having
happened), `FreeBlockThreads` refines `FreeBlock`
(one thread), `Stream` builds on the operators of `FreeList` and refines `Files`,
`NodePages` refines `Directories`, `Namespace` refines `Tree`.

Abstractions. A block is its first words: the words that can be links, and a few
more. A word of a file or a name in a directory is a member of a small set: the code
never looks inside; none is longer than an entry holds. `Stream` keeps a file's table
in one piece, with `Covered` for the part that its pages reach; `NodePages` has the
page inodes and their shapes. In `dnode_listing_set` pages are only taken or only given
up in one call, so `NodePages` says at once which inodes the loops take: the m-th page or
table gets the m-th lowest free inode, which is what the scan of `InodeMap` finds one
after the other. In `Stream` inodes never run out; in `NodePages` the guard of
`dnode_append` keeps them from it, since a table and a page that are both stored in inode
0 would be two things there. `Namespace` is where they run out: there an inode is its
list of entries and its pages, a page that could not be had is page 0, and the first
store into inode 0 sets `superblock` to "lost". What `Namespace` does not keep is what an
inode holds that nothing leads to (`Forget`): nothing reads it before it is initialised.

Requests. The guards say what the callers do. libfuse looks up a path and its parent
before it passes a call on (external); between that and the call another call may
succeed, so `Namespace` lets `sfs_create` find that the name exists and `sfs_unlink` that
it does not, but never passes a directory to `sfs_unlink` or a file to `sfs_rmdir`. Once
the superblock is lost, calls that use the free list are left out: what they do depends
on the bytes written over it. In `Stream`, `OutOfOrder` says which requests beyond the
ordinary there are: writes that leave a hole, writes past the largest size, truncations
that let a file grow. The passing runs have writes past the largest size, which are
shorter writes, and leave out the two after which the code does not do what it should. In `NodePages` a full directory is not appended
to (see `inode.c:287` below).

## 3. The runs

Passing runs:

| run | question | properties |
|---|---|---|
| `free_block` | is the list exact after any mix of calls and writes? | `FreeListExact`, `CountExact`, `PoolImplemented` |
| `free_block_one_thread` | is it exact between any two writes, is what is handed out held by nobody, and do the statements amount to the calls? | `DiskListExact`, `PopsDistinct`, `CallsImplemented` |
| `inode_map` | do the bits say what is in use, with a signed mask and after a refused pop was pushed back, and is the lowest inode handed out first? | `BitsExact`, `PopsLowest`, `PoolImplemented` |
| `stream_blocks` | is every data block free or in one place of one file, up to a full disk and full tables? | `BlocksAccounted`, `SizeBacked`, `ErrorsFresh` |
| `stream_contents` | are files what was written to them? | `ReadsExact`, `FilesImplemented` |
| `directories` | are directories sets that do not show in each other, is nlink right, are the inodes they need theirs alone, and do accessors and listings mean the same entry? | `PagesOwned`, `NlinkCounts`, `AccessorsAgree`, `DirectoriesImplemented` |
| `namespace` | do names form a tree whatever fails halfway, is no inode used twice, how can inodes get lost, is a reverted call undone exactly, and when is the superblock written over? | `InodesOwned`, `LookupExact`, `TreeImplemented`, `LostByRmdirOrWrite`, `RefusalsUndone`, `SuperBlockLostOnlyWhenFull` |
| `unit_tests` | does the model do what the tests of the repository say, in the shape of the disk, and do they end? | `AssertsHold`, `TestsEnd` |

`unit_tests` also ties the models to the code: the numbers in it (inode 10 after the first
table, 1021 inodes, 5000 entries of a file, 2085 of a directory) are those of `main.c`, whose
tests the authors ran against the program.

Violation runs; each is a place where the code and a comment, test or document of
the repository disagree (`findings` in `PROJECT.json` quotes both):

| run | property | what TLC finds |
|---|---|---|
| `free_block_two_threads` | `PopsDistinct` | two threads pop the same block |
| `stream_grow` | `NoTableBlocks` | truncation of an empty file puts block 0 in it |
| `namespace_no_inode` | `SuperBlockKept` | with no inode left, a page or a new inode is stored in the place of the superblock |
| `directory_two_threads` | `AppendsKept` | two threads in two directories lose an entry, or put it in the wrong one |

Other disagreements, met while modelling and kept out of the passing runs or visible in
a definition, which have no run of their own:

- a write past a file's blocks leaves entries of its table unset, block 0 in a new file
  (`stream.c:57`; `NoTableBlocks` with `OutOfOrder = {"hole"}`);
- a write past the largest size reports all its bytes as written (`stream.c:64`);
- a truncation that runs out of blocks reports nothing, and the next write, which needs no
  block, reports its error and pops an inode and a block (`sfs.c:283`, `250`);
- a directory that shrinks within a table keeps the page inodes it no longer needs, forgets
  them, and takes others when it grows again (`inode.c:341`; `GivenUp`), where `main.c:240`
  counts the inodes that a directory takes exactly;
- a directory refuses the 2084th entry, which `src/README.md:30` allows (`inode.c:287`;
  `Clamped`), and counts it in `nlink`;
- inodes are refused when a quarter of the table is in use, where `src/README.md:32` has
  4091 (`inode.c:467`; `Scanned`);
- `sfs_rmdir` removes a directory with all that is in it, without giving its inode, or any
  below it, back (`sfs.c:322`; `LostByRmdirOrWrite`);
- the accessors by offset are right only for the first 64 entries of tables (`inode.c:142`;
  `AccessorsAgree`); nothing calls them.

Bounds, and why they are enough. `free_block`: four blocks give every order of a list
that long, an empty and a full one, and data words that look like links or the end.
The statement-level run has three blocks. `inode_map`: `INODE_BLK_SIZE = 16` has two
bytes that the scan sees and six that it does not. `stream_blocks`: two files of up to
three blocks on three data blocks, so that the disk fills up before a file does and
the other way round; the table has two entries in the inode and two pages' worth of
one. `stream_contents`: two words of data, blocks of two words, so that writes begin
and end inside a block and at its ends, and requests of up to three, which with files of at most four
words go past the largest size. `directories`: inodes with two entries, one page and
a table of three pages of one entry, three names in one directory and one in the other, and
four inodes for the pages of both: both can have a page, one reaches its table while the
other takes and gives up a page, and the bitmap is emptied. `namespace`: two names on two
levels, inodes with one entry besides the dots, pages of one, and four inodes, so that
inodes run out for the new node, for the page of its parent and for pages of files. Files of
one or four blocks have no page or one, and both may fail for want of blocks.
`unit_tests` is one long behaviour: `MAX_BLOCK_NUM` is 1040, the inode table and 16 blocks, where the
disk has 32768, and pages are kept for the inodes that the tests reach (`PageInodes`,
`TableInodes`; any other would be an error of TLC).
`directory_two_threads`: two directories in one block of inodes.
`nlink`, sizes and counts are bounded by these; no state constraint is used. Deadlock is
checked in every run but `unit_tests`, whose program ends.

Liveness and fairness. The file system waits for nothing: every call runs to its end,
there is no retry, timer or lock, and whether a call is made at all is up to the kernel;
that a call returns holds by the shape of models that have calls as steps. The program of
`main.c` has loops that end only when the allocators say that nothing is left, and
`TestsEnd` says that it comes to its end. It assumes weak fairness of the whole program,
`WF_vars(Next)`: one thread of one process, which the system does not stop. A turn of such
a loop that takes nothing is not counted in `count`, so that a loop without end is a cycle
of the model.

## 4. The proofs

What is proved, and for which instances (`*` marks a refinement):

| module | theorems | for every |
|---|---|---|
| `FreeBlockProofs` | `TypeOK`, `FreeListExact`, `CountExact`, `PoolImplemented`* | disk size, set of data words |
| `FreeBlockThreadsProofs` | `DiskListExact`, `PopsDistinct`, `CallsImplemented`* | disk size, set of data words; one thread |
| `InodeMapProofs` | `TypeOK`, `BitsExact`, `PopsLowest`, `PoolImplemented`* | size of the inode table, sign of char |
| `StreamProofs` | `TypeOK`, `ReadsExact`, `SizeBacked` | disk, files, tables, blocks, requests; any `OutOfOrder` |
| | `BlocksAccounted`, `NoTableBlocks`, `ErrorsFresh`, `FilesImplemented`* | the same; `OutOfOrder` at most writes past the largest size |
| `NodePagesProofs` | `TypeOK`, `PagesOwned`, `NlinkCounts`, `AccessorsAgree`, `DirectoriesImplemented`* | shape of an inode, directories, inodes, names |
| `NamespaceProofs` | `TypeOK`, `InodesOwned`, `LookupExact`, `TreeImplemented`*, `LostByRmdirOrWrite`, `RefusalsUndone`, `SuperBlockLostOnlyWhenFull` | shape of an inode, size of the table, names, lengths of files |

The assumptions are those named in the modules (`VolumeAssumption`, `ThreadsAssumption`,
`InodeMapAssumption`, `StreamAssumption`, `NodePagesAssumption`, `NamespaceAssumption`); TLC evaluates them in the
runs. The conditions of the last column are hypotheses of the theorems, and none can be
dropped: `free_block_two_threads` is the counterexample with a second thread, `stream_grow`
the one with a file grown by truncation, and section 3 names the one with a hole. With either, TLC
finds `ErrorsFresh` violated as well.

**The free list** is not a recursive walk in these proofs: `ListsExactly(v, F)` says that
there is a sequence that names each member of `F` once, starts at the head, follows
the links and ends in NIL. The lemmas of `FreeListProofs` speak of volumes and sets only, so
that `FreeBlock`, its threads and `Stream` share them: `UnlinkedList` and `LinkedList` say
what taking and putting a head does to such a sequence, `ForeignWrite` that a block
outside the list may be overwritten, `FormattedList` that formatting makes one.
`FreeListExact` alone is not inductive: a pop stores `SuperBlockBuf` after changing it,
and the count and the emptiness of the list have to agree. `IInv` adds `TypeOK` and
`Counted`, which says that the copy is the superblock and that the count is
`Cardinality(Free)`.

**One thread, statement by statement.** `FreeBlockThreadsProofs` adds to `DiskListExact` what
the thread knows at each statement (`ControlKept`): what `BlockBuf` and `SuperBlockBuf` hold
of which block, and which block is in between the list and its holder. A call takes effect
at its one write to the superblock, or where it finds the list empty; the writes to the
block itself, before that in a push and after it in an allocation, are writes of its holder
(`WriteIsHolders`), and every other statement stutters. `PopsDistinct` follows from the same invariant: the block in between is neither
in the list nor held.

**The bitmap.** `IInv` is `TypeOK /\ BitsExact`. The lemma that carries it is
`MaskHitsOneBit`: the sign-extended mask holds all bits up to `j`, but the scan has
found the bits before `j` clear, so that clearing by the mask clears bit `j` alone. It
is why the code works although its mask is wrong. `PopsLowest` rests on the same fact, read the
other way: a bit before the one where the scan stops is clear (`BelowTheStop`), which `BitsExact`
makes an inode in use. It is what lets `NodePages` and `Namespace` take the lowest free inode.

**Loops.** `fstream_write`, `fstream_free` and their kind are recursive functions of the
number of rounds done. The induction theorems of the library take an operator as a parameter,
which the provers cannot instantiate, so `LoopProofs` has induction over a set of numbers
(`UpTo`) and the existence of such functions (`LoopRuns`), from the well-foundedness of
finite subsets. A proof about a loop names the set of states that are good after `k` rounds and
shows that a round leads from one to the next (`RoundIsState`, `GoodRound`, `FreedRuns`).

**Files.** `BlocksAccounted` is not inductive: an error left in `ERRNO` would make the next
`sfs_create` or `sfs_write` report the failure of an earlier call, and `sfs_write` pops a
block whenever it does. The invariant is `TypeOK /\ Accounted /\ ERRNO = 0`, where
`Accounted` says that the free list and the entries of the files up to `b_size` are
disjoint, hold each block once and have all of them. `GoodRound` follows one round of a
write: the block allocated leaves the list and enters the table of this file, and no other.
`FilesImplemented` rests on `ReadIsSlice`: what the rounds of a read copy is, word by word,
what the abstract file has, wherever in a block the offset lies; and on `WrittenWord`, the
same for a write. A step of `Stream` is then one step of `Files` or a stutter. A write past the
largest size ends where the file does, so that it is a shorter write of `Files`, or a read when
nothing is left to write (`WriteImplemented`, `SameSequence`).

`SizeBacked` needs none of this, and holds with holes and grown files too: whatever the table and
the list are like, a round of a write either leaves an error, which no later round clears
(`RefusedOrDone`), or goes on to the next entry; a write that ends without an error has gone through
all its blocks (`UnrefusedWrite`, `WriteIsBacked`).

**Directories.** The properties rest on one invariant, `TypeOK /\ InodesPlaced /\
EntriesPlaced`. `InodesPlaced` says that each page and each table a directory needs is an
inode that is not free, and that two of them are the same inode only if they are the same
place: the same kind, directory and number. `EntriesPlaced` says that the entries are the dots, then names, each
once, and that `nlink` is their number. `PagesOwned` alone is not inductive, since it counts inodes
and does not say that the one that is page `k` stays so. The step is in three lemmas
about `dnode_listing_set`: `Allots` (what it takes is free, each once, and is the right number
of inodes), `PlacesStay` (every place keeps its inode, or gets one of those taken) and
`EntriesStored` (what is stored is the array, and other directories keep what they had).
Page tables are a matter of quotients, which the SMT solver does not find on its own:
`PageOfTable`, `TableOfPage` and `SlotInPage` have them once. For the accessors,
`SamePage` shows that their wrong index of a table is the right one for the first `FAN`
entries in tables, and `SettingOne` that no second slot is in that place of that page.

Two assumptions of `NodePages` are there for the proofs: the inodes of the bitmap are
finitely many, and the names that programs use are not "." and "..", which the kernel
resolves before it calls. The room for two entries is what `dnode_init` needs.

**Names.** Neither `InodesOwned` nor `LookupExact` is inductive: they speak of the tree that
lookups find, and a call changes inodes. `IInv` is about the inode table itself. `DirsGood`
says that every directory that can be reached has the dots, then names, each once, of inodes
that have it as their parent, that `nlink` is the number of entries, and that a directory at
the end of a path of two names has only its dots. `Owned` says that the inodes that are reached
and their pages are all different, and none is free; `PagesFit`, that each inode has the pages
that its entries need, page 0 standing for one that could not be had. Every call is a
`listing_set`, or several. What such a store does is one lemma, `Exchanges`: it trades inodes
between the free ones and the pages of one inode, changes no other, and clears no error.
`MorePagesExchanges` and `GiveUpExchanges` prove it for the loops, by `LoopRuns`. From there
`MadeIs` says what `sfs_create` and `sfs_mkdir` have made before they look at the error,
`RevertedFine` that taking it back leaves the tree there was, and `TakenFine` that `sfs_unlink` and
`sfs_rmdir`, which give up an inode while its entry is still there, end in a good table all
the same. `AppendedTree`, `RemovedTree` and `SameTree` say which inodes are reached then.
`LookupExact` follows by the cases of a path of no, one or two names: `NameLeads` (a name is in
a directory once, so the scan finds its entry), `StoredOnce` (a path, and an inode, are in the
tree once) and `OthersNotFound`. The path of two names is a bound of `Namespace` (`UsedPaths`),
in the proofs as in the runs.

`TreeImplemented` is about three ways to change a table, whatever calls come to that:
`Alike` (no directory has changed), `Appended` and `Removed` (one entry of one directory
more or less). `AlikeStored`, `AppendedStored` and `RemovedStored` say what is stored then, as
pairs of a path and an inode: the same; one more pair; all but the pairs whose path begins
with that of the entry. `SameTreeOf`, `GrownTree` and `PrunedTree` turn that into the trees of
`Tree`. It is `CallAt` that ties a call to its path: the directory a call works on is the one that its
path goes through. A reverted `sfs_create` is `Alike`, so that its error is a refusal; so are
`sfs_write` and `sfs_truncate`, whether they succeed or not, which makes them stutters.

`LostByRmdirOrWrite` weighs what a table holds before and after: `Held` is the free inodes, those
that are reached and their pages, and a lost inode is one outside (`LostIs`). Each lemma about
a call also says what became of `Held`: after `sfs_create`, `sfs_mkdir`, their reverting and a
new listing it has all it had (`Kept`), after an entry is removed all but the inode it was of and
what only that one led to (`Loses`). `sfs_unlink` pushes that inode, and nothing is below a
file (`FileLeaf`); `sfs_rmdir` does not push it, and what it led to was stored below the path
(`LostBelow`). In `sfs_write` it is the `Pop` after the error that takes one inode out.

`RefusalsUndone` is about the table itself and not the tree in it, and made the invariant longer:
giving an inode or a page back leaves it void, so that a reverted call restores the table only if what
it took was void before. `Blank` says so of the inodes that are free and of those that are pages, whose entries the model
keeps with the inode they belong to. With it `Restores` follows for what `sfs_create` and `sfs_mkdir` have made (`MakeUndone`). `Spares` says
that these reach the superblock only if no inode but the one popped was free; for the writes,
`WriteOverwrites` has that the bitmap is empty afterwards. Together they are
`SuperBlockLostOnlyWhenFull`.

`NamespaceAssumption` has what the proofs need of the constants: the two dots of a new
directory fit in its inode, names are not dots, and the table ends before inode 65535, which
is what `path_to_inum` makes of the -1 of a name that is not found: were it an inode, a lookup
through a missing directory could succeed. The loops over pages are recursive functions of
the number of pages in `Namespace`, and a ushort is `(USHORTS + n) % USHORTS` in `Paths`, which is
the same as `n % USHORTS` but that the provers know remainders of natural numbers only.

## 5. What is only model-checked, and what is not modelled

Only model-checked: `UnitTests`. `TestsEnd` is liveness, which TLAPS cannot prove, and
`AssertsHold` is about one program in the shape of one disk, where TLC visits every state there
is. Nothing is proved about two threads, nor, but for types, reads and sizes, about files with a
hole or grown by a truncation: what the code does there is what the violation runs show.

Not modelled:

- `test_dnode_add_rm`, whose checks on sizes do not hold for every random choice, and
  `test_stream_io`, which takes blocks for inode numbers and fills the disk;
- names longer than 13 bytes, which `di_ent_c` cuts off;
- threads in `stream.c` and in the table calls for files: they share `f` as directories
  share `d`;
- failing system calls: `block_read` and `block_write` report them, no caller looks;
- `inode_set_attr_upc` but for what `Stream` has of it, `log.c`, the build.

`release`, `opendir` and `releasedir` change nothing. There is no crash recovery:
`sfs_init` formats the disk at every mount, which `FreeBlock`, `InodeMap` and `Namespace`
have as an action.

## 6. The plan

1. `Pool`, `FreeList`, `FreeBlock` and its proofs; `InodeMap` and its proofs (done).
2. `FreeBlockThreads`, `Files` and `Stream`, `Directories` and `NodePages` (done).
3. `Paths`, `Tree` and `Namespace`; `DirectoryThreads`; `UnitTests` (done).
4. Proofs about `FreeBlockThreads` with one thread, `Stream` and `NodePages` (done).
5. Proofs about `Namespace`: `TypeOK`, `InodesOwned`, `LookupExact` and `TreeImplemented`
   (done).
6. A proof of `LostByRmdirOrWrite`, from lemmas that say which inodes a store takes and
   gives up (done).
7. What reverting and running out of inodes leave behind (`RefusalsUndone`,
   `SuperBlockLostOnlyWhenFull`), `PopsLowest`, `PopsDistinct` with one thread, and the contents of
   files with writes past the largest size (done).

## 7. Running

In this directory, `tlc -config FreeBlock.cfg FreeBlock.tla` runs a configuration
(`PROJECT.json` lists each with its module), and `tlapm FreeBlockProofs.tla` checks the
proofs of a module; the modules with proofs are the eight whose names end in `Proofs`. The
longest run takes about two minutes, the longest proof (`NamespaceProofs`) less than ten.
