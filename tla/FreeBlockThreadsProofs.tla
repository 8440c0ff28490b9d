----------------------- MODULE FreeBlockThreadsProofs -----------------------
(***************************************************************************)
(* With one thread, on a disk of any size: the list on the disk is exact   *)
(* between any two statements of free_block.c, and the statements of a     *)
(* call implement the call.                                                *)
(***************************************************************************)
EXTENDS FreeBlockThreads, FreeListProofs

Places ==
  {"idle", "read_super", "copy_super", "take_head", "load_next", "move_head",
   "set_next", "store_next", "new_head", "fetch_super", "fill_super",
   "store_super", "store_data"}

Pairs == [first : Int, second : Int]

Types ==
  /\ disk \in [0 .. MAX_BLOCK_NUM - 1 -> Pairs]
  /\ BlockBuf \in Pairs
  /\ SuperBlockBuf \in Pairs
  /\ pc \in [Threads -> Places]
  /\ call \in [Threads -> {"pop", "allocate", "push"}]
  /\ block_num \in [Threads -> Int]
  /\ held \subseteq Blocks

(***************************************************************************)
(* What the thread t knows where it is. Only from the statement that       *)
(* computes the new superblock to the one that writes it does the copy in  *)
(* memory differ from block 0; what it holds then is decided by the call,  *)
(* and a block that is pushed already leads to the old head.               *)
(***************************************************************************)
CopyCurrent(t) ==
  pc[t] \notin {"fetch_super", "fill_super", "store_super"} => SuperBlockBuf = disk[0]

PushesHeld(t) == pc[t] # "idle" /\ call[t] = "push" => block_num[t] \in held

InPop(t) ==
  /\ pc[t] \in {"take_head", "load_next", "move_head"} => call[t] # "push"
  /\ pc[t] \in {"load_next", "move_head"} =>
       block_num[t] = disk[0].first /\ block_num[t] > 0
  /\ pc[t] = "move_head" => BlockBuf.first = disk[block_num[t]].first

InPush(t) ==
  /\ pc[t] \in {"set_next", "store_next", "new_head"} => call[t] = "push"
  /\ pc[t] = "store_next" => BlockBuf.first = disk[0].first
  /\ pc[t] = "new_head" => disk[block_num[t]].first = disk[0].first

(* The superblock that a call is about to write. *)
PopDone(t) ==
  /\ call[t] # "push"
  /\ block_num[t] = disk[0].first /\ block_num[t] > 0
  /\ SuperBlockBuf = Words(disk[block_num[t]].first, disk[0].second - 1)

PushDone(t) ==
  /\ call[t] = "push"
  /\ disk[block_num[t]].first = disk[0].first
  /\ SuperBlockBuf = Words(block_num[t], disk[0].second + 1)

InWrite(t) ==
  /\ pc[t] = "copy_super" => BlockBuf = disk[0]
  /\ pc[t] \in {"fetch_super", "fill_super", "store_super"} => PopDone(t) \/ PushDone(t)
  /\ pc[t] = "store_super" => BlockBuf = SuperBlockBuf
  /\ pc[t] = "store_data" => block_num[t] \in held /\ call[t] = "allocate"

Control(t) ==
  CopyCurrent(t) /\ PushesHeld(t) /\ InPop(t) /\ InPush(t) /\ InWrite(t)

IInv(t) == Types /\ DiskListExact /\ Control(t)

-----------------------------------------------------------------------------
(* The disk as a volume. *)
LEMMA VolumeFields ==
  /\ Volume.head = disk[0].first
  /\ Volume.size = disk[0].second
  /\ Volume.link = [b \in Blocks |-> disk[b].first]
BY DEF Volume

LEMMA FreeListed ==
  ASSUME Types
  PROVE  Blocks \ held \in BlockSets /\ Blocks \in BlockSets
BY ThreadsAssumption DEF Blocks, BlockSets

(* A head above 0 is a free block. *)
LEMMA HeadFree ==
  ASSUME Types, DiskListExact, disk[0].first > 0
  PROVE  disk[0].first \in Blocks \ held
BY FreeListed, HeadIsFree, VolumeFields DEF DiskListExact, HasFree

(* A step that leaves block 0, the free blocks' words and who holds what   *)
(* leaves the list exact.                                                  *)
LEMMA ListUndisturbed ==
  ASSUME Types, DiskListExact,
         held' = held, disk'[0] = disk[0],
         \A b \in Blocks \ held : disk'[b] = disk[b]
  PROVE  DiskListExact'
<1>1. /\ Volume'.head = Volume.head
      /\ Volume'.size = Volume.size
      /\ \A b \in Blocks \ held : Volume'.link[b] = Volume.link[b]
  BY DEF Volume
<1> QED
  BY <1>1, FreeListed, ForeignWrite DEF DiskListExact

(* The write of block 0 that ends a pop takes the head off the list. *)
LEMMA PopEnds ==
  ASSUME Types, DiskListExact, NEW t, PopDone(t),
         disk' = [disk EXCEPT ![0] = SuperBlockBuf],
         held' = held \cup {block_num[t]}
  PROVE  DiskListExact' /\ block_num[t] \in Blocks \ held
<1>1. block_num[t] \in Blocks \ held
  BY HeadFree DEF PopDone
<1>2. HasFree(Volume) /\ Volume.head = block_num[t]
  BY VolumeFields DEF PopDone, HasFree
<1>3. /\ Volume'.head = Volume.link[Volume.head]
      /\ Volume'.size = Volume.size - 1
      /\ \A b \in Blocks : Volume'.link[b] = Volume.link[b]
  BY <1>1, ThreadsAssumption DEF Volume, PopDone, Words, Types, Pairs, Blocks
<1>4. ListsExactly(Volume', (Blocks \ held) \ {block_num[t]})
  BY <1>2, <1>3, FreeListed, UnlinkedList DEF DiskListExact
<1>5. Blocks \ held' = (Blocks \ held) \ {block_num[t]}
  OBVIOUS
<1> QED
  BY <1>1, <1>4, <1>5 DEF DiskListExact

(* The one that ends a push puts the block in front of it. *)
LEMMA PushEnds ==
  ASSUME Types, DiskListExact, NEW t, PushDone(t), block_num[t] \in held,
         disk' = [disk EXCEPT ![0] = SuperBlockBuf],
         held' = held \ {block_num[t]}
  PROVE  DiskListExact'
<1>1. block_num[t] \in Blocks
  BY DEF Types
<1>2. /\ Volume'.head = block_num[t]
      /\ Volume'.size = Volume.size + 1
      /\ Volume'.link[block_num[t]] = Volume.head
      /\ \A b \in Blocks : Volume'.link[b] = Volume.link[b]
  BY <1>1, ThreadsAssumption DEF Volume, PushDone, Words, Types, Pairs, Blocks
<1>3. block_num[t] \in (Nat \ {0}) \ (Blocks \ held)
  BY <1>1 DEF Blocks
<1>4. ListsExactly(Volume', (Blocks \ held) \cup {block_num[t]})
  BY <1>2, <1>3, FreeListed, LinkedList DEF DiskListExact
<1>5. Blocks \ held' = (Blocks \ held) \cup {block_num[t]}
  BY <1>1
<1> QED
  BY <1>4, <1>5 DEF DiskListExact

-----------------------------------------------------------------------------
(***************************************************************************)
(* The invariant is inductive. t0 is the one thread there is.              *)
(***************************************************************************)
LEMMA InitInvariant ==
  ASSUME NEW t0, Threads = {t0}, Init
  PROVE  IInv(t0)
<1>1. Types
  BY ThreadsAssumption DEF Init, Types, Words, Pairs, Places, NIL
<1>2. DiskListExact
  <2>1. /\ Volume.head = 1
        /\ Volume.size = MAX_BLOCK_NUM - 1
        /\ \A b \in Blocks : Volume.link[b] = IF b = MAX_BLOCK_NUM - 1 THEN NIL ELSE b + 1
    <3>1. disk[0].first = 1 /\ disk[0].second = MAX_BLOCK_NUM - 1
      BY ThreadsAssumption DEF Init, Words
    <3>2. \A b \in Blocks : disk[b].first = IF b = MAX_BLOCK_NUM - 1 THEN NIL ELSE b + 1
      BY ThreadsAssumption DEF Init, Words, Blocks
    <3> QED
      BY <3>1, <3>2, VolumeFields
  <2>2. ListsExactly(Volume, Blocks)
    BY <2>1, FormattedList, ThreadsAssumption DEF Blocks
  <2> QED
    BY <2>2 DEF Init, DiskListExact
<1>3. Control(t0)
  BY ThreadsAssumption
     DEF Init, Control, CopyCurrent, PushesHeld, InPop, InPush, InWrite, Words
<1> QED
  BY <1>1, <1>2, <1>3 DEF IInv

(* Types, by the statement; the block of a pop is the head it took. *)
LEMMA TypesKept ==
  ASSUME NEW t0, Threads = {t0}, IInv(t0), [Next]_vars
  PROVE  Types'
<1> USE DEF Types, Pairs, Words, Places, Goto, At, local, users
<1>1. ASSUME NEW t \in Threads, Step(t)
      PROVE  Types'
  <2>0. t = t0 /\ pc[t] \in Places /\ block_num[t] \in Int
    BY DEF IInv
  <2>1. ASSUME NEW c \in {"pop", "allocate"}, begin_pop(t, c) PROVE Types'
    BY <2>1 DEF IInv, begin_pop
  <2>2. ASSUME NEW b \in held, begin_push(t, b) PROVE Types'
    BY <2>2 DEF IInv, begin_push, Blocks
  <2>3. CASE read_super(t)
    BY <2>3, ThreadsAssumption DEF IInv, read_super
  <2>4. CASE copy_super(t)
    BY <2>4 DEF IInv, copy_super
  <2>5. CASE take_head(t)
    BY <2>5 DEF IInv, take_head
  <2>6. CASE load_next(t)
    <3>1. block_num[t] \in Blocks
      BY <2>0, <2>6, HeadFree DEF IInv, Control, InPop, load_next
    <3> QED
      BY <2>6, <3>1 DEF IInv, load_next, Blocks
  <2>7. CASE move_head(t)
    BY <2>7 DEF IInv, move_head
  <2>8. CASE set_next(t)
    BY <2>8 DEF IInv, set_next
  <2>9. CASE store_next(t)
    BY <2>9 DEF IInv, store_next
  <2>10. CASE new_head(t)
    BY <2>10 DEF IInv, new_head
  <2>11. CASE fetch_super(t)
    BY <2>11, ThreadsAssumption DEF IInv, fetch_super
  <2>12. CASE fill_super(t)
    BY <2>12 DEF IInv, fill_super
  <2>13. CASE store_super(t)
    <3>1. call[t] # "push" => block_num[t] \in Blocks
      BY <2>0, <2>13, PopEnds, HeadFree DEF IInv, Control, InWrite, PopDone, PushDone, store_super
    <3> QED
      BY <2>13, <3>1 DEF IInv, store_super
  <2>14. CASE store_data(t)
    <3>1. PICK w \in DataWords : disk' = [disk EXCEPT ![block_num[t]] = Words(w, w)]
      BY <2>14 DEF store_data
    <3>2. disk' \in [0 .. MAX_BLOCK_NUM - 1 -> Pairs]
      BY <3>1, ThreadsAssumption DEF IInv
    <3> QED
      BY <2>14, <3>2 DEF IInv, store_data
  <2> QED
    BY <1>1, <2>1, <2>2, <2>3, <2>4, <2>5, <2>6, <2>7, <2>8, <2>9, <2>10, <2>11,
       <2>12, <2>13, <2>14 DEF Step
<1>2. ASSUME NEW b \in held, write_held(b)
      PROVE  Types'
  <2>1. PICK w \in DataWords : disk' = [disk EXCEPT ![b] = Words(w, w)]
    BY <1>2 DEF write_held
  <2>2. disk' \in [0 .. MAX_BLOCK_NUM - 1 -> Pairs]
    BY <2>1, ThreadsAssumption DEF IInv
  <2> QED
    BY <1>2, <2>2 DEF IInv, write_held
<1>3. CASE errno_pop
  BY <1>3 DEF IInv, errno_pop
<1>4. CASE UNCHANGED vars
  BY <1>4 DEF IInv, vars
<1> QED
  BY <1>1, <1>2, <1>3, <1>4 DEF Next

(* The list: two steps of the thread write to block 0, the other writes go *)
(* to blocks that are held.                                                *)
LEMMA ListKept ==
  ASSUME NEW t0, Threads = {t0}, IInv(t0), [Next]_vars
  PROVE  DiskListExact'
<1>1. ASSUME NEW b \in held, NEW x, disk' = [disk EXCEPT ![b] = x], UNCHANGED held
      PROVE  DiskListExact'
  <2>1. b \in Blocks
    BY DEF IInv, Types
  <2>2. disk'[0] = disk[0] /\ \A c \in Blocks \ held : disk'[c] = disk[c]
    BY <1>1, <2>1 DEF IInv, Types, Blocks
  <2> QED
    BY <1>1, <2>2, ListUndisturbed DEF IInv
<1>2. ASSUME UNCHANGED <<disk, held>>
      PROVE  DiskListExact'
  BY <1>2, ListUndisturbed DEF IInv
<1>3. CASE store_next(t0)
  <2>1. block_num[t0] \in held
    BY <1>3 DEF IInv, Control, PushesHeld, InPush, store_next, At
  <2> QED
    BY <1>1, <1>3, <2>1 DEF store_next, users
<1>4. CASE store_super(t0)
  <2>1. disk' = [disk EXCEPT ![0] = SuperBlockBuf] /\ (PopDone(t0) \/ PushDone(t0))
    BY <1>4 DEF IInv, Control, InWrite, store_super, At
  <2>2. CASE call[t0] = "push"
    <3>1. held' = held \ {block_num[t0]} /\ PushDone(t0) /\ block_num[t0] \in held
      BY <1>4, <2>1, <2>2 DEF IInv, Control, PushesHeld, PopDone, store_super, At
    <3> QED
      BY <2>1, <3>1, PushEnds DEF IInv
  <2>3. CASE call[t0] # "push"
    <3>1. held' = held \cup {block_num[t0]} /\ PopDone(t0)
      BY <1>4, <2>1, <2>3 DEF PushDone, store_super
    <3> QED
      BY <2>1, <3>1, PopEnds DEF IInv
  <2> QED
    BY <2>2, <2>3
<1>5. CASE store_data(t0)
  <2>1. block_num[t0] \in held
    BY <1>5 DEF IInv, Control, InWrite, store_data, At
  <2>2. PICK w \in DataWords : disk' = [disk EXCEPT ![block_num[t0]] = Words(w, w)]
    BY <1>5 DEF store_data
  <2> QED
    BY <1>1, <1>5, <2>1, <2>2 DEF store_data, users
<1>6. ASSUME NEW b \in held, write_held(b)
      PROVE  DiskListExact'
  <2>1. PICK w \in DataWords : disk' = [disk EXCEPT ![b] = Words(w, w)]
    BY <1>6 DEF write_held
  <2> QED
    BY <1>1, <1>6, <2>1 DEF write_held, users
<1>7. ASSUME Step(t0), ~store_next(t0), ~store_super(t0), ~store_data(t0)
      PROVE  UNCHANGED <<disk, held>>
  BY <1>7 DEF Step, begin_pop, begin_push, read_super, copy_super, take_head, load_next,
     move_head, set_next, new_head, fetch_super, fill_super, users
<1>8. CASE errno_pop
  BY <1>2, <1>8 DEF errno_pop, users
<1>9. CASE UNCHANGED vars
  BY <1>2, <1>9 DEF vars
<1> QED
  BY <1>2, <1>3, <1>4, <1>5, <1>6, <1>7, <1>8, <1>9 DEF Next

(* Where the thread is, by the statement. *)
LEMMA ControlKept ==
  ASSUME NEW t0, Threads = {t0}, IInv(t0), [Next]_vars
  PROVE  Control(t0)'
<1> USE DEF Control, CopyCurrent, PushesHeld, InPop, InPush, InWrite, PopDone, PushDone,
            At, Goto, local, users
<1>0. /\ Types /\ Control(t0) /\ DiskListExact
      /\ t0 \in DOMAIN pc /\ t0 \in DOMAIN call /\ t0 \in DOMAIN block_num
  BY DEF IInv, Types
<1>1. CASE Step(t0)
  <2>1. ASSUME NEW c \in {"pop", "allocate"}, begin_pop(t0, c) PROVE Control(t0)'
    BY <1>0, <2>1 DEF begin_pop
  <2>2. ASSUME NEW b \in held, begin_push(t0, b) PROVE Control(t0)'
    BY <1>0, <2>2 DEF begin_push
  <2>3. CASE read_super(t0)
    BY <1>0, <2>3 DEF read_super
  <2>4. CASE copy_super(t0)
    BY <1>0, <2>4 DEF copy_super
  <2>5. CASE take_head(t0)
    BY <1>0, <2>5 DEF take_head, Types, Pairs
  <2>6. CASE load_next(t0)
    BY <1>0, <2>6 DEF load_next
  <2>7. CASE move_head(t0)
    BY <1>0, <2>7 DEF move_head
  <2>8. CASE set_next(t0)
    BY <1>0, <2>8 DEF set_next, Types, Pairs
  <2>9. CASE store_next(t0)
    <3>1. block_num[t0] \in Blocks
      BY <1>0, <2>9 DEF store_next, Types
    <3> QED
      BY <1>0, <2>9, <3>1 DEF store_next, Types, Blocks
  <2>10. CASE new_head(t0)
    BY <1>0, <2>10 DEF new_head
  <2>11. CASE fetch_super(t0)
    BY <1>0, <2>11 DEF fetch_super
  <2>12. CASE fill_super(t0)
    BY <1>0, <2>12 DEF fill_super
  <2>13. CASE store_super(t0)
    BY <1>0, <2>13, ThreadsAssumption DEF store_super, Types
  <2>14. CASE store_data(t0)
    <3>1. block_num[t0] \in Blocks
      BY <1>0, <2>14 DEF store_data, Types
    <3> QED
      BY <1>0, <2>14, <3>1 DEF store_data, Types, Blocks
  <2> QED
    BY <1>1, <2>1, <2>2, <2>3, <2>4, <2>5, <2>6, <2>7, <2>8, <2>9, <2>10, <2>11,
       <2>12, <2>13, <2>14 DEF Step
<1>2. ASSUME NEW b \in held, write_held(b)
      PROVE  Control(t0)'
  <2>1. b \in Blocks /\ ~Pushing(t0, b)
    BY <1>0, <1>2 DEF write_held, Types
  <2>2. disk[0].first > 0 => disk[0].first # b
    BY <1>0, HeadFree
  <2>3. disk'[0] = disk[0] /\ \A c : c # b => disk'[c] = disk[c]
    BY <1>0, <1>2, <2>1 DEF write_held, Types, Blocks
  <2> QED
    BY <1>0, <1>2, <2>1, <2>2, <2>3 DEF write_held, Pushing
<1>3. CASE errno_pop
  BY <1>0, <1>3 DEF errno_pop
<1>4. CASE UNCHANGED vars
  BY <1>0, <1>4 DEF vars
<1> QED
  BY <1>1, <1>2, <1>3, <1>4 DEF Next

(***************************************************************************)
(* With one thread the list on the disk is exact before and after every    *)
(* write, on a disk of any size and whatever the holders of blocks write:  *)
(* the order of the two writes of free_block_push is right.                *)
(***************************************************************************)
THEOREM OneThreadKeepsListExact ==
  ASSUME NEW t0, Threads = {t0}
  PROVE  Spec => []DiskListExact
<1>1. Init => IInv(t0)
  BY InitInvariant
<1>2. IInv(t0) /\ [Next]_vars => IInv(t0)'
  BY TypesKept, ListKept, ControlKept DEF IInv
<1>3. IInv(t0) => DiskListExact
  BY DEF IInv
<1> QED
  BY <1>1, <1>2, <1>3, PTL DEF Spec

-----------------------------------------------------------------------------
(***************************************************************************)
(* The statements implement the calls.                                     *)
(***************************************************************************)

(* The copy in memory as FreeBlock sees it is always the superblock. *)
LEMMA SuperBlockSeenIs ==
  ASSUME NEW t0, Threads = {t0}, IInv(t0)
  PROVE  SuperBlockSeen = [head |-> disk[0].first, size |-> disk[0].second]
<1>1. CASE pc[t0] \in {"idle", "store_data"}
  BY <1>1 DEF SuperBlockSeen, IInv, Control, CopyCurrent
<1>2. CASE pc[t0] \notin {"idle", "store_data"}
  BY <1>2 DEF SuperBlockSeen
<1> QED
  BY <1>1, <1>2

LEMMA SuperBlockSeenAfter ==
  ASSUME NEW t0, Threads = {t0}, IInv(t0)'
  PROVE  SuperBlockSeen' = [head |-> disk'[0].first, size |-> disk'[0].second]
<1>1. CASE pc'[t0] \in {"idle", "store_data"}
  BY <1>1 DEF SuperBlockSeen, IInv, Control, CopyCurrent
<1>2. CASE pc'[t0] \notin {"idle", "store_data"}
  BY <1>2 DEF SuperBlockSeen
<1> QED
  BY <1>1, <1>2

(* A write of some word to a block that is held is one of a holder. *)
LEMMA WriteIsHolders ==
  ASSUME NEW t0, Threads = {t0}, IInv(t0), IInv(t0)',
         NEW b \in held, NEW x \in Pairs, x.first \in FirstWords,
         disk' = [disk EXCEPT ![b] = x],
         UNCHANGED <<ERRNO, held, got, parity>>
  PROVE  Calls!block_write(b, x.first)
<1>1. b \in Blocks /\ disk \in [0 .. MAX_BLOCK_NUM - 1 -> Pairs]
  BY DEF IInv, Types
<1>2. disk'[0] = disk[0]
  BY <1>1 DEF Blocks
<1>3. Volume' = [Volume EXCEPT !.link[b] = x.first]
  <2> DEFINE link == [c \in Blocks |-> disk[c].first]
             linkAfter == [link EXCEPT ![b] = x.first]
  <2>1. \A c \in Blocks : disk'[c].first = IF c = b THEN x.first ELSE disk[c].first
    BY <1>1 DEF Blocks
  <2>2. [c \in Blocks |-> disk'[c].first] = linkAfter
    BY <1>1, <2>1
  <2>3. Volume' = [head |-> disk[0].first, size |-> disk[0].second, link |-> linkAfter]
    BY <1>2, <2>2 DEF Volume
  <2>4. Volume = [head |-> disk[0].first, size |-> disk[0].second, link |-> link]
    BY DEF Volume
  <2> QED
    BY <2>3, <2>4
<1>4. SuperBlockSeen' = SuperBlockSeen
  BY <1>2, SuperBlockSeenIs, SuperBlockSeenAfter
<1> QED
  BY <1>3, <1>4 DEF Calls!block_write

(* A formatted disk is one for FreeBlock. *)
LEMMA InitImplemented ==
  ASSUME NEW t0, Threads = {t0}, Init
  PROVE  Calls!Init
<1> DEFINE link == [b \in Blocks |-> IF b = MAX_BLOCK_NUM - 1 THEN NIL ELSE b + 1]
<1>1. disk[0].first = 1 /\ disk[0].second = MAX_BLOCK_NUM - 1
  BY ThreadsAssumption DEF Init, Words
<1>2. Volume = Calls!Formatted
  <2>1. \A b \in Blocks : disk[b].first = link[b]
    BY ThreadsAssumption DEF Init, Words, Blocks
  <2>2. [b \in Blocks |-> disk[b].first] = link
    BY <2>1
  <2>3. Volume = [head |-> 1, size |-> MAX_BLOCK_NUM - 1, link |-> link]
    BY <1>1, <2>2 DEF Volume
  <2> QED
    BY <2>3 DEF Calls!Formatted, Calls!Blocks, Blocks, NIL, Calls!NIL
<1>3. SuperBlockSeen = [head |-> disk[0].first, size |-> disk[0].second]
  BY InitInvariant, SuperBlockSeenIs
<1> QED
  BY <1>1, <1>2, <1>3
     DEF Init, Words, Calls!Init, Calls!SuperBlock, Calls!Formatted, NIL, Calls!NIL

(* Volumes with the same fields are the same. *)
Disks == [head : Int, size : Int, link : [Blocks -> Int]]

LEMMA SameUnlinked ==
  ASSUME NEW v \in Disks, NEW w \in Disks, NEW h \in Int, NEW n \in Int,
         w.head = h, w.size = n, w.link = v.link
  PROVE  w = [v EXCEPT !.head = h, !.size = n]
<1>1. [v EXCEPT !.head = h, !.size = n] \in Disks
  BY DEF Disks
<1> QED
  BY <1>1 DEF Disks

(* The superblock a pop writes is that of FreeBlock's pop. *)
LEMMA PopImplemented ==
  ASSUME NEW t0, Threads = {t0}, IInv(t0), PopDone(t0),
         SuperBlockSeen' = [head |-> disk'[0].first, size |-> disk'[0].second],
         disk' = [disk EXCEPT ![0] = SuperBlockBuf],
         held' = held \cup {block_num[t0]},
         got' = block_num[t0],
         parity' = 1 - parity,
         UNCHANGED ERRNO
  PROVE  Calls!free_block_pop
<1>1. disk[0].first \in Blocks /\ disk \in [0 .. MAX_BLOCK_NUM - 1 -> Pairs]
  BY HeadFree DEF IInv, Types, PopDone
<1>2. disk'[0] = Words(disk[disk[0].first].first, disk[0].second - 1)
  BY <1>1, ThreadsAssumption DEF PopDone
<1>3. \A c \in Blocks : disk'[c] = disk[c]
  BY <1>1 DEF Blocks
<1>4. /\ Volume.head = disk[0].first /\ Volume.size = disk[0].second
      /\ Volume'.head = disk'[0].first /\ Volume'.size = disk'[0].second
      /\ Volume'.link = Volume.link
      /\ Volume.link[disk[0].first] = disk[disk[0].first].first
      /\ DOMAIN Volume.link = Blocks
  BY <1>1, <1>3 DEF Volume
<1>5. Volume \in Disks /\ Volume' \in Disks
  BY <1>1, <1>2, <1>3, ThreadsAssumption DEF Disks, Volume, Blocks, Pairs, Words
<1>6. Volume' = Calls!Unlinked(Volume)
  <2> DEFINE h == disk[disk[0].first].first
             n == Volume.size - 1
  <2>1. Calls!Successor(Volume, Volume.head) = h
    BY <1>1, <1>4 DEF Calls!Successor
  <2>2. Volume'.head = h /\ Volume'.size = n /\ h \in Int /\ n \in Int
    BY <1>2, <1>4, <1>5 DEF Words, Disks
  <2>3. Calls!Unlinked(Volume) = [Volume EXCEPT !.head = h, !.size = n]
    BY <2>1 DEF Calls!Unlinked
  <2> HIDE DEF h, n
  <2> QED
    BY <1>4, <1>5, <2>2, <2>3, SameUnlinked
<1>7. Calls!HasFree(Volume) /\ Volume.head = block_num[t0]
  BY <1>4 DEF Calls!HasFree, PopDone
<1>8. SuperBlockSeen' = Calls!SuperBlock(Volume')
  BY <1>4 DEF Calls!SuperBlock
<1> QED
  BY <1>6, <1>7, <1>8 DEF Calls!free_block_pop

(* And the one a push writes that of FreeBlock's push: the link has been   *)
(* written before.                                                         *)
LEMMA PushImplemented ==
  ASSUME NEW t0, Threads = {t0}, IInv(t0), PushDone(t0), block_num[t0] \in held,
         SuperBlockSeen' = [head |-> disk'[0].first, size |-> disk'[0].second],
         disk' = [disk EXCEPT ![0] = SuperBlockBuf],
         held' = held \ {block_num[t0]},
         UNCHANGED <<ERRNO, got, parity>>
  PROVE  Calls!free_block_push(block_num[t0])
<1> DEFINE b == block_num[t0]
<1>1. b \in Blocks /\ disk \in [0 .. MAX_BLOCK_NUM - 1 -> Pairs]
  BY DEF IInv, Types
<1>2. disk'[0] = Words(b, disk[0].second + 1)
  BY <1>1, ThreadsAssumption DEF PushDone
<1>3. \A c \in Blocks : disk'[c] = disk[c]
  BY <1>1 DEF Blocks
<1>4. /\ Volume.head = disk[0].first /\ Volume.size = disk[0].second
      /\ Volume'.head = disk'[0].first /\ Volume'.size = disk'[0].second
      /\ Volume'.link = Volume.link
      /\ Volume.link[b] = Volume.head
  BY <1>1, <1>3 DEF Volume, PushDone
<1>5. Volume \in Disks /\ Volume' \in Disks
  BY <1>1, <1>2, <1>3, ThreadsAssumption DEF Disks, Volume, Blocks, Pairs, Words
<1>6. Volume' = Calls!Linked(Volume, b)
  <2> DEFINE l == [Volume.link EXCEPT ![b] = Volume.head]
             n == Volume.size + 1
             linked == [Volume EXCEPT !.head = b, !.size = n, !.link = l]
  <2>1. l = Volume.link /\ l \in [Blocks -> Int]
    BY <1>4, <1>5 DEF Disks
  <2>2. Volume'.head = b /\ Volume'.size = n /\ b \in Int /\ n \in Int
    BY <1>1, <1>2, <1>4, <1>5 DEF Words, Disks, Blocks
  <2>3. Calls!Linked(Volume, b) = linked
    BY DEF Calls!Linked
  <2>4. Volume'.link = l
    BY <1>4, <2>1
  <2>5. linked \in Disks /\ linked.head = b /\ linked.size = n /\ linked.link = l
    <3> HIDE DEF l, n, b
    <3>1. linked \in Disks
      BY Zenon, <1>5, <2>1, <2>2 DEF Disks
    <3>2. linked.head = b /\ linked.size = n /\ linked.link = l
      BY <1>5 DEF Disks
    <3> QED
      BY <3>1, <3>2
  <2> HIDE DEF linked, l, n, b
  <2>6. Volume' = linked
    BY <1>5, <2>2, <2>4, <2>5 DEF Disks
  <2> QED
    BY <2>3, <2>6
<1>7. SuperBlockSeen' = Calls!SuperBlock(Volume')
  BY <1>4 DEF Calls!SuperBlock
<1> QED
  BY <1>6, <1>7 DEF Calls!free_block_push

(* A step that neither writes the disk nor answers a request changes      *)
(* nothing that FreeBlock sees.                                           *)
LEMMA SilentStep ==
  ASSUME NEW t0, Threads = {t0}, IInv(t0), IInv(t0)',
         UNCHANGED <<disk, ERRNO, held, got, parity>>
  PROVE  UNCHANGED Calls!vars
<1>1. SuperBlockSeen' = SuperBlockSeen
  BY SuperBlockSeenIs, SuperBlockSeenAfter
<1>2. Volume' = Volume
  BY DEF Volume
<1> QED
  BY <1>1, <1>2 DEF Calls!vars

(* A step of the thread is a call of FreeBlock or is silent. *)
LEMMA StepImplemented ==
  ASSUME NEW t0, Threads = {t0}, IInv(t0), IInv(t0)', Step(t0)
  PROVE  [Calls!Next]_(Calls!vars)
<1> USE DEF At, local, users
<1>0. Types /\ Control(t0) /\ DiskListExact
  BY DEF IInv
<1>1. CASE take_head(t0)
  <2>1. CASE SuperBlockBuf.first > 0
    <3>1. UNCHANGED <<disk, ERRNO, held, got, parity>>
      BY <1>1, <2>1, <1>0 DEF take_head, Types, Pairs
    <3> QED
      BY <3>1, SilentStep
  <2>2. CASE ~(SuperBlockBuf.first > 0)
    <3>1. SuperBlockBuf = disk[0]
      BY <1>0, <1>1 DEF take_head, Control, CopyCurrent
    <3>2. /\ Volume' = Volume /\ Volume.head = disk[0].first
          /\ Volume.size = disk[0].second
      BY <1>1 DEF take_head, Volume
    <3>3. /\ ERRNO' = -ENOSPC /\ got' = Volume.head /\ parity' = 1 - parity
          /\ held' = held /\ disk' = disk
      BY <1>1, <2>2, <3>1, <3>2 DEF take_head
    <3>4. SuperBlockSeen' = Calls!SuperBlock(Volume)
      BY <3>2, <3>3, SuperBlockSeenAfter DEF Calls!SuperBlock
    <3>5. Calls!NoSpace
      BY <2>2, <3>1, <3>2, <3>3, <3>4
         DEF Calls!NoSpace, Calls!HasFree, ENOSPC, Calls!ENOSPC
    <3> QED
      BY <3>5 DEF Calls!Next, Calls!free_block_pop
  <2> QED
    BY <2>1, <2>2
<1>2. CASE store_next(t0)
  <2>1. block_num[t0] \in held /\ BlockBuf \in Pairs /\ BlockBuf.first = disk[0].first
    BY <1>0, <1>2 DEF store_next, Control, PushesHeld, InPush, Types
  <2>2. disk[0].first \in FirstWords
    BY <1>0, FreeListed, HeadType, VolumeFields DEF DiskListExact, FirstWords
  <2>3. /\ disk' = [disk EXCEPT ![block_num[t0]] = BlockBuf]
        /\ UNCHANGED <<ERRNO, held, got, parity>>
    BY <1>2 DEF store_next
  <2>4. Calls!block_write(block_num[t0], BlockBuf.first)
    BY <2>1, <2>2, <2>3, WriteIsHolders
  <2> QED
    BY <2>1, <2>2, <2>4 DEF Calls!Next
<1>3. CASE store_super(t0)
  <2>0. SuperBlockSeen' = [head |-> disk'[0].first, size |-> disk'[0].second]
    BY SuperBlockSeenAfter
  <2>1. disk' = [disk EXCEPT ![0] = SuperBlockBuf] /\ UNCHANGED ERRNO
    BY <1>0, <1>3 DEF Control, InWrite, store_super
  <2>2. CASE call[t0] = "push"
    <3>1. /\ held' = held \ {block_num[t0]} /\ PushDone(t0) /\ block_num[t0] \in held
          /\ UNCHANGED <<got, parity>>
      BY <1>0, <1>3, <2>2 DEF Control, InWrite, PushesHeld, PopDone, store_super
    <3>2. Calls!free_block_push(block_num[t0])
      BY <2>0, <2>1, <3>1, PushImplemented
    <3> QED
      BY <3>1, <3>2 DEF Calls!Next
  <2>3. CASE call[t0] # "push"
    <3>1. /\ held' = held \cup {block_num[t0]} /\ PopDone(t0)
          /\ got' = block_num[t0] /\ parity' = 1 - parity
      BY <1>0, <1>3, <2>3 DEF Control, InWrite, PushDone, store_super
    <3>2. Calls!free_block_pop
      BY <2>0, <2>1, <3>1, PopImplemented
    <3> QED
      BY <3>2 DEF Calls!Next
  <2> QED
    BY <2>2, <2>3
<1>4. CASE store_data(t0)
  <2>1. block_num[t0] \in held
    BY <1>0, <1>4 DEF store_data, Control, InWrite
  <2>2. PICK w \in DataWords : disk' = [disk EXCEPT ![block_num[t0]] = Words(w, w)]
    BY <1>4 DEF store_data
  <2>3. Words(w, w) \in Pairs /\ Words(w, w).first = w /\ w \in FirstWords
    BY ThreadsAssumption DEF Words, Pairs, FirstWords
  <2>4. UNCHANGED <<ERRNO, held, got, parity>>
    BY <1>4 DEF store_data
  <2>5. Calls!block_write(block_num[t0], w)
    BY <2>1, <2>2, <2>3, <2>4, WriteIsHolders
  <2> QED
    BY <2>1, <2>3, <2>5 DEF Calls!Next
<1>5. ASSUME ~take_head(t0), ~store_next(t0), ~store_super(t0), ~store_data(t0)
      PROVE  UNCHANGED <<disk, ERRNO, held, got, parity>>
  BY <1>5 DEF Step, begin_pop, begin_push, read_super, copy_super, load_next, move_head,
     set_next, new_head, fetch_super, fill_super
<1> QED
  BY <1>1, <1>2, <1>3, <1>4, <1>5, SilentStep

(***************************************************************************)
(* With one thread the statements of free_block_pop, free_block_allocate   *)
(* and free_block_push, on a disk of any size, amount to the calls that    *)
(* FreeBlock takes as one step each, so that what is proved of the calls   *)
(* holds of the statements.                                                *)
(***************************************************************************)
THEOREM StatementsImplementCalls ==
  ASSUME NEW t0, Threads = {t0}
  PROVE  Spec => CallsImplemented
<1>1. Init => IInv(t0) /\ Calls!Init
  BY InitInvariant, InitImplemented
<1>2. IInv(t0) /\ [Next]_vars => IInv(t0)'
  BY TypesKept, ListKept, ControlKept DEF IInv
<1>3. IInv(t0) /\ IInv(t0)' /\ [Next]_vars => [Calls!Next]_(Calls!vars)
  <2> SUFFICES ASSUME IInv(t0), IInv(t0)', [Next]_vars
               PROVE  [Calls!Next]_(Calls!vars)
    OBVIOUS
  <2>1. CASE \E t \in Threads : Step(t)
    BY <2>1, StepImplemented
  <2>2. ASSUME NEW b \in held, write_held(b)
        PROVE  Calls!Next
    <3>1. PICK w \in DataWords : disk' = [disk EXCEPT ![b] = Words(w, w)]
      BY <2>2 DEF write_held
    <3>2. Words(w, w) \in Pairs /\ Words(w, w).first = w /\ w \in FirstWords
      BY ThreadsAssumption DEF Words, Pairs, FirstWords
    <3>3. UNCHANGED <<ERRNO, held, got, parity>>
      BY <2>2 DEF write_held, users
    <3>4. Calls!block_write(b, w)
      BY <3>1, <3>2, <3>3, WriteIsHolders
    <3> QED
      BY <3>2, <3>4 DEF Calls!Next
  <2>3. CASE errno_pop
    <3>1. ERRNO' = 0 /\ UNCHANGED <<disk, held, got, parity>>
      BY <2>3 DEF errno_pop, users
    <3>2. SuperBlockSeen' = SuperBlockSeen /\ Volume' = Volume
      BY <3>1, SuperBlockSeenIs, SuperBlockSeenAfter DEF Volume
    <3> QED
      BY <3>1, <3>2 DEF Calls!Next, Calls!errno_pop
  <2>4. CASE UNCHANGED vars
    BY <2>4, SilentStep DEF vars
  <2> QED
    BY <2>1, <2>2, <2>3, <2>4 DEF Next
<1> QED
  BY <1>1, <1>2, <1>3, PTL DEF Spec, CallsImplemented

(***************************************************************************)
(* What two threads break and one does not: the block that free_block_pop  *)
(* or free_block_allocate hands out is held by nobody, although the head   *)
(* was read, and the block behind it, long before the superblock is        *)
(* written.                                                                *)
(***************************************************************************)
PopIsDistinct ==
  \A t \in Threads : store_super(t) /\ call[t] # "push" => block_num[t] \notin held

THEOREM OneThreadPopsDistinct ==
  ASSUME NEW t0, Threads = {t0}
  PROVE  Spec => PopsDistinct
<1>1. Init => IInv(t0)
  BY InitInvariant
<1>2. IInv(t0) /\ [Next]_vars => IInv(t0)'
  BY TypesKept, ListKept, ControlKept DEF IInv
<1>3. IInv(t0) => PopIsDistinct
  <2> SUFFICES ASSUME IInv(t0), store_super(t0), call[t0] # "push"
               PROVE  block_num[t0] \notin held
    BY DEF PopIsDistinct
  <2>1. PopDone(t0)
    BY DEF IInv, Control, InWrite, PushDone, store_super, At
  <2> QED
    BY <2>1, HeadFree DEF IInv, PopDone
<1> QED
  BY <1>1, <1>2, <1>3, PTL DEF Spec, PopsDistinct, PopIsDistinct

=============================================================================
