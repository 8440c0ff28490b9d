--------------------------- MODULE FreeBlockProofs --------------------------
(***************************************************************************)
(* For every disk size and every data the holders write: the free list     *)
(* stays exact, its counter stays right, and it implements a pool.         *)
(***************************************************************************)
EXTENDS FreeBlock, FreeListProofs

-----------------------------------------------------------------------------
(***************************************************************************)
(* The operations on the volumes of this module.                           *)
(***************************************************************************)

(* Unlinking a block of the list leaves a volume, all links as they were. *)
LEMMA UnlinkedIsVolume ==
  ASSUME NEW v \in Volumes, v.head \in Blocks
  PROVE  /\ Unlinked(v) \in Volumes
         /\ Unlinked(v).head = v.link[v.head]
         /\ Unlinked(v).size = v.size - 1
         /\ Unlinked(v).link = v.link
<1> DEFINE h == v.link[v.head]
           n == v.size - 1
<1>1. h \in Int /\ n \in Int
  BY DEF Volumes
<1>2. Unlinked(v) = [v EXCEPT !.head = h, !.size = n]
  BY DEF Unlinked, Successor, Volumes
<1> HIDE DEF h, n
<1>3. [v EXCEPT !.head = h, !.size = n] \in Volumes
  BY <1>1 DEF Volumes
<1>4. /\ [v EXCEPT !.head = h, !.size = n].head = h
      /\ [v EXCEPT !.head = h, !.size = n].size = n
      /\ [v EXCEPT !.head = h, !.size = n].link = v.link
  BY DEF Volumes
<1> QED
  BY <1>2, <1>3, <1>4 DEF h, n

(* So does storing data in the first word of a block. *)
LEMMA WrittenIsVolume ==
  ASSUME NEW v \in Volumes, NEW b \in Blocks, NEW d \in Int
  PROVE  LET w == [v EXCEPT !.link[b] = d]
         IN  /\ w \in Volumes
             /\ w.head = v.head /\ w.size = v.size
             /\ \A c \in Blocks \ {b} : w.link[c] = v.link[c]
  BY DEF Volumes

(* Pushing a block leaves a volume as the list lemmas want it. *)
LEMMA LinkedIsVolume ==
  ASSUME NEW v \in Volumes, NEW b \in Blocks
  PROVE  LET w == Linked(v, b)
         IN  /\ w \in Volumes
             /\ w.head = b /\ w.size = v.size + 1
             /\ w.link = [v.link EXCEPT ![b] = v.head]
<1> DEFINE w == Linked(v, b)
           l == [v.link EXCEPT ![b] = v.head]
           n == v.size + 1
<1>1. b \in Int /\ n \in Int /\ l \in [Blocks -> Int]
  BY VolumeAssumption DEF Blocks, Volumes
<1>2. w = [v EXCEPT !.head = b, !.size = n, !.link = l]
  BY DEF Linked, Volumes
<1> HIDE DEF w, n, l
<1>3. w \in Volumes
  BY Zenon, <1>1, <1>2 DEF Volumes
<1>4. w.head = b /\ w.size = n /\ w.link = l
  BY <1>1, <1>2 DEF Volumes
<1> QED
  BY <1>3, <1>4 DEF w, n, l

(* Sets of blocks are sets that a list can have. *)
LEMMA BlocksListed ==
  ASSUME NEW F \in SUBSET Blocks
  PROVE  F \in BlockSets
BY VolumeAssumption DEF Blocks, BlockSets

(* A formatted disk lists every block but block 0. *)
LEMMA FormattedDisk ==
  Formatted \in Volumes /\ ListsExactly(Formatted, Blocks)
<1>1. /\ Formatted \in Volumes
      /\ Formatted.head = 1
      /\ Formatted.size = MAX_BLOCK_NUM - 1
      /\ Formatted.link = [b \in Blocks |-> IF b = MAX_BLOCK_NUM - 1 THEN NIL ELSE b + 1]
  BY VolumeAssumption DEF Formatted, Volumes, Blocks, NIL
<1> QED
  BY <1>1, FormattedList, VolumeAssumption DEF Blocks

-----------------------------------------------------------------------------
(***************************************************************************)
(* The inductive invariant. FreeListExact alone does not bound what        *)
(* free_block_size() answers: the copy in memory has to be the superblock. *)
(***************************************************************************)
CopyCurrent == SuperBlockBuf = SuperBlock(vol)

IInv == TypeOK /\ FreeListExact /\ CopyCurrent

LEMMA InitInvariant == Init => IInv
<1> SUFFICES ASSUME Init PROVE IInv
  OBVIOUS
<1>1. Free = Blocks
  BY DEF Init, Free
<1>2. TypeOK
  BY FormattedDisk, VolumeAssumption DEF Init, TypeOK, Volumes, SuperBlock, NIL
<1>3. FreeListExact
  BY <1>1, FormattedDisk DEF Init, FreeListExact
<1> QED
  BY <1>2, <1>3 DEF Init, IInv, CopyCurrent

(* A block is handed out, its first word left alone or overwritten. *)
LEMMA TakeKeepsInvariant ==
  ASSUME IInv, HasFree(vol),
         vol' \in Volumes,
         vol'.head = vol.link[vol.head],
         vol'.size = vol.size - 1,
         \A b \in Blocks \ {vol.head} : vol'.link[b] = vol.link[b],
         SuperBlockBuf' = SuperBlock(vol'),
         held' = held \cup {vol.head},
         got' = vol.head,
         parity' = 1 - parity,
         UNCHANGED ERRNO
  PROVE  IInv' /\ vol.head \in Free
<1>1. Free \in SUBSET Blocks /\ Free \in BlockSets /\ vol \in Volumes
  BY BlocksListed DEF IInv, TypeOK, Free
<1>2. vol.head \in Free /\ ListsExactly(vol', Free \ {vol.head})
  BY <1>1, UnlinkedList DEF IInv, FreeListExact
<1>3. Free' = Free \ {vol.head}
  BY DEF Free
<1>4. TypeOK'
  BY <1>2 DEF IInv, TypeOK, Free, SuperBlock, Volumes
<1> QED
  BY <1>2, <1>3, <1>4 DEF IInv, FreeListExact, CopyCurrent

(* A refused request: every block is held. *)
LEMMA NoSpaceKeepsInvariant ==
  ASSUME IInv, NoSpace
  PROVE  IInv' /\ Free = {} /\ got' = NIL
<1>1. Free = {} /\ vol.head = NIL
  BY BlocksListed, ExhaustedList DEF IInv, TypeOK, FreeListExact, NoSpace, Free
<1>2. TypeOK'
  BY <1>1 DEF IInv, TypeOK, NoSpace, SuperBlock, Volumes
<1>3. FreeListExact' /\ CopyCurrent'
  BY DEF IInv, FreeListExact, CopyCurrent, NoSpace, Free
<1> QED
  BY <1>1, <1>2, <1>3 DEF IInv, NoSpace

LEMMA NextInvariant == IInv /\ [Next]_vars => IInv'
<1> SUFFICES ASSUME IInv, [Next]_vars PROVE IInv'
  OBVIOUS
<1>1. CASE free_block_init
  <2>1. Free' = Blocks
    BY <1>1 DEF free_block_init, Free
  <2>2. TypeOK'
    BY <1>1, FormattedDisk DEF free_block_init, IInv, TypeOK, Volumes, SuperBlock
  <2>3. FreeListExact'
    BY <1>1, <2>1, FormattedDisk DEF free_block_init, FreeListExact
  <2> QED
    BY <1>1, <2>2, <2>3 DEF free_block_init, IInv, CopyCurrent
<1>2. CASE free_block_pop
  <2>1. CASE NoSpace
    BY <2>1, NoSpaceKeepsInvariant
  <2>2. CASE ~NoSpace
    <3>1. /\ HasFree(vol)
          /\ vol' = Unlinked(vol)
          /\ SuperBlockBuf' = SuperBlock(vol')
          /\ held' = held \cup {vol.head}
          /\ got' = vol.head
          /\ parity' = 1 - parity
          /\ UNCHANGED ERRNO
      BY <1>2, <2>2 DEF free_block_pop
    <3>2. vol \in Volumes /\ vol.head \in Blocks
      BY <3>1, BlocksListed, HeadIsFree DEF IInv, TypeOK, FreeListExact, Free
    <3> QED
      BY <3>1, <3>2, UnlinkedIsVolume, TakeKeepsInvariant
  <2> QED
    BY <2>1, <2>2
<1>3. ASSUME NEW w \in DataWords, free_block_allocate(w)
      PROVE  IInv'
  <2>1. CASE NoSpace
    BY <2>1, NoSpaceKeepsInvariant
  <2>2. CASE ~NoSpace
    <3>1. /\ HasFree(vol)
          /\ vol' = [Unlinked(vol) EXCEPT !.link[vol.head] = w]
          /\ SuperBlockBuf' = SuperBlock(vol')
          /\ held' = held \cup {vol.head}
          /\ got' = vol.head
          /\ parity' = 1 - parity
          /\ UNCHANGED ERRNO
      BY <1>3, <2>2 DEF free_block_allocate
    <3>2. vol \in Volumes /\ vol.head \in Blocks
      BY <3>1, BlocksListed, HeadIsFree DEF IInv, TypeOK, FreeListExact, Free
    <3>3. /\ vol' \in Volumes
          /\ vol'.head = vol.link[vol.head]
          /\ vol'.size = vol.size - 1
          /\ \A b \in Blocks \ {vol.head} : vol'.link[b] = vol.link[b]
      BY <3>1, <3>2, UnlinkedIsVolume, WrittenIsVolume, VolumeAssumption
    <3> QED
      BY <3>1, <3>3, TakeKeepsInvariant
  <2> QED
    BY <2>1, <2>2
<1>4. ASSUME NEW b \in held, free_block_push(b)
      PROVE  IInv'
  <2>1. b \in Blocks \ Free /\ Free \in SUBSET Blocks /\ vol \in Volumes
    BY DEF IInv, TypeOK, Free
  <2>2. Free' = Free \cup {b}
    BY <1>4, <2>1 DEF free_block_push, Free
  <2>3. /\ vol' \in Volumes
        /\ vol'.head = b /\ vol'.size = vol.size + 1
        /\ vol'.link[b] = vol.head
        /\ \A c \in Free : vol'.link[c] = vol.link[c]
    <3>1. /\ vol' \in Volumes
          /\ vol'.head = b /\ vol'.size = vol.size + 1
          /\ vol'.link = [vol.link EXCEPT ![b] = vol.head]
      BY <1>4, <2>1, LinkedIsVolume DEF free_block_push
    <3>2. vol.link \in [Blocks -> Int] /\ b \in Blocks \ Free
      BY <2>1 DEF Volumes
    <3> QED
      BY <2>1, <3>1, <3>2
  <2>4. Free \in BlockSets /\ b \in (Nat \ {0}) \ Free
    BY <2>1, BlocksListed DEF Blocks
  <2>5. FreeListExact'
    BY <2>2, <2>3, <2>4, LinkedList DEF IInv, FreeListExact
  <2>6. TypeOK'
    BY <1>4, <2>3 DEF free_block_push, IInv, TypeOK, SuperBlock, Volumes
  <2> QED
    BY <1>4, <2>5, <2>6 DEF free_block_push, IInv, CopyCurrent
<1>5. ASSUME NEW b \in held, NEW w \in DataWords, block_write(b, w)
      PROVE  IInv'
  <2>1. b \in Blocks \ Free /\ Free \in SUBSET Blocks /\ vol \in Volumes
    BY DEF IInv, TypeOK, Free
  <2>2. /\ vol' \in Volumes
        /\ vol'.head = vol.head
        /\ vol'.size = vol.size
        /\ \A c \in Free : vol'.link[c] = vol.link[c]
    BY <1>5, <2>1, WrittenIsVolume, VolumeAssumption DEF block_write
  <2>3. Free' = Free
    BY <1>5 DEF block_write, Free
  <2>4. TypeOK'
    BY <1>5, <2>2 DEF block_write, IInv, TypeOK
  <2>5. FreeListExact'
    BY <2>1, <2>2, <2>3, BlocksListed, ForeignWrite DEF IInv, FreeListExact
  <2>6. CopyCurrent'
    BY <1>5, <2>2 DEF block_write, IInv, CopyCurrent, SuperBlock
  <2> QED
    BY <2>4, <2>5, <2>6 DEF IInv
<1>6. CASE errno_pop
  BY <1>6 DEF errno_pop, IInv, TypeOK, FreeListExact, CopyCurrent, Free
<1>7. CASE UNCHANGED vars
  BY <1>7 DEF vars, IInv, TypeOK, FreeListExact, CopyCurrent, Free
<1> QED
  BY <1>1, <1>2, <1>3, <1>4, <1>5, <1>6, <1>7 DEF Next

(* The inductive invariant holds in every reachable state. *)
THEOREM Invariant == Spec => []IInv
<1> QED
  BY InitInvariant, NextInvariant, PTL DEF Spec

(***************************************************************************)
(* For every disk size, the walk along free_block_next stays exact through *)
(* any calls of free_block.c and any writes by the holders of blocks.      *)
(***************************************************************************)
THEOREM FreeListStaysExact == Spec => []FreeListExact
<1>1. IInv => FreeListExact
  BY DEF IInv
<1> QED
  BY <1>1, Invariant, PTL

(***************************************************************************)
(* For every disk size, free_block_size() answers the number of blocks     *)
(* that are not handed out, though it reads the copy in memory only.       *)
(***************************************************************************)
THEOREM CountStaysExact == Spec => []CountExact
<1>1. IInv => CountExact
  BY ListCounts DEF IInv, FreeListExact, CopyCurrent, CountExact, SuperBlock
<1> QED
  BY <1>1, Invariant, PTL

(***************************************************************************)
(* On a disk of any size the superblock, its copy in memory and the links  *)
(* keep their types: no block in use leaves the disk, and free_block_pop   *)
(* returns nothing but a block or NIL.                                     *)
(***************************************************************************)
THEOREM TypesStay == Spec => []TypeOK
<1>1. IInv => TypeOK
  BY DEF IInv
<1> QED
  BY <1>1, Invariant, PTL

(***************************************************************************)
(* The free list implements a pool: no block is handed out twice, and a    *)
(* request is refused only when every block is held.                       *)
(***************************************************************************)
THEOREM ImplementsPool == Spec => PoolImplemented
<1>1. Init => BlockPool!Init
  BY DEF Init, BlockPool!Init
<1>2. IInv /\ [Next]_vars => [BlockPool!Next]_(BlockPool!poolVars)
  <2> SUFFICES ASSUME IInv, [Next]_vars
               PROVE  BlockPool!Next \/ UNCHANGED <<held, got, parity>>
    BY DEF BlockPool!poolVars
  <2> USE DEF BlockPool!Next
  <2>1. ASSUME NoSpace
        PROVE  BlockPool!Next
    <3>1. held = Blocks /\ got' = NIL /\ parity' = 1 - parity /\ UNCHANGED held
      BY <2>1, NoSpaceKeepsInvariant DEF IInv, TypeOK, Free, NoSpace
    <3> QED
      BY <3>1 DEF BlockPool!Refuse
  <2>2. ASSUME HasFree(vol), held' = held \cup {vol.head}, got' = vol.head,
               parity' = 1 - parity
        PROVE  BlockPool!Next
    <3>1. vol.head \in Blocks \ held
      BY <2>2, BlocksListed, HeadIsFree DEF IInv, TypeOK, FreeListExact, Free
    <3> QED
      BY <2>2, <3>1 DEF BlockPool!Take
  <2>3. CASE free_block_init
    BY <2>3 DEF free_block_init, BlockPool!Format
  <2>4. CASE free_block_pop
    BY <2>1, <2>2, <2>4 DEF free_block_pop
  <2>5. ASSUME NEW w \in DataWords, free_block_allocate(w)
        PROVE  BlockPool!Next
    <3>1. NoSpace \/ /\ HasFree(vol)
                     /\ held' = held \cup {vol.head}
                     /\ got' = vol.head
                     /\ parity' = 1 - parity
      BY Zenon, <2>5 DEF free_block_allocate
    <3> QED
      BY <2>1, <2>2, <3>1
  <2>6. ASSUME NEW b \in held, free_block_push(b)
        PROVE  BlockPool!Next
    BY <2>6 DEF free_block_push, BlockPool!Give
  <2>7. ASSUME NEW b \in held, NEW w \in DataWords, block_write(b, w)
        PROVE  UNCHANGED <<held, got, parity>>
    BY <2>7 DEF block_write
  <2>8. CASE errno_pop
    BY <2>8 DEF errno_pop
  <2>9. CASE UNCHANGED vars
    BY <2>9 DEF vars
  <2> QED
    BY <2>3, <2>4, <2>5, <2>6, <2>7, <2>8, <2>9 DEF Next
<1> QED
  BY <1>1, <1>2, Invariant, PTL DEF Spec, PoolImplemented, BlockPool!Spec

=============================================================================
