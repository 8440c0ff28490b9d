---------------------------- MODULE StreamProofs ----------------------------
(***************************************************************************)
(* On disks, files and tables of any size: what the operations on the disk *)
(* and the loops over the blocks of a file yield, and the types. Then:     *)
(* every data block is on the free list or in one entry of one file,       *)
(* errors and sizes tell what the calls met, reads return what the file    *)
(* holds, and files are what Files says.                                   *)
(***************************************************************************)
EXTENDS Stream, FreeListProofs, LoopProofs, FunctionTheorems

Blocks == 1 .. MAX_BLOCK_NUM - 1

Images == [Positions -> Int]

Arrays == [Entries -> Int]

-----------------------------------------------------------------------------
(***************************************************************************)
(* The disk: what the operations do to a volume.                           *)
(***************************************************************************)

Tails == [Positions \ {0} -> Int]

LEMMA VolumeParts ==
  ASSUME NEW v \in Volumes
  PROVE  /\ v.head \in Int /\ v.size \in Int
         /\ v.link \in [Blocks -> Int]
         /\ v.rest \in [Blocks -> Tails]
BY DEF Volumes, Blocks, Tails

LEMMA ReadIsImage ==
  ASSUME NEW v \in Volumes, NEW b \in Int
  PROVE  BlockRead(v, b) \in Images
<1>1. CASE b = 0
  BY <1>1, VolumeParts DEF BlockRead, Images, Positions
<1>2. CASE b # 0 /\ b \in Blocks
  <2>1. \A k \in Positions : k # 0 => v.rest[b][k] \in Int
    BY <1>2, VolumeParts DEF Tails
  <2>2. v.link[b] \in Int /\ DOMAIN v.link = Blocks
    BY <1>2, VolumeParts
  <2> QED
    BY <1>2, <2>1, <2>2 DEF BlockRead, Images
<1>3. CASE b # 0 /\ b \notin Blocks
  BY <1>3, VolumeParts DEF BlockRead, Images
<1> QED
  BY <1>1, <1>2, <1>3

(* block_write to a block of the disk. *)
LEMMA WrittenBlock ==
  ASSUME NEW v \in Volumes, NEW b \in Blocks, NEW image \in Images
  PROVE  /\ BlockWritten(v, b, image) \in Volumes
         /\ BlockWritten(v, b, image).head = v.head
         /\ BlockWritten(v, b, image).size = v.size
         /\ BlockWritten(v, b, image).link[b] = image[0]
         /\ \A k \in Positions \ {0} : BlockWritten(v, b, image).rest[b][k] = image[k]
         /\ \A c \in Blocks \ {b} :
              /\ BlockWritten(v, b, image).link[c] = v.link[c]
              /\ BlockWritten(v, b, image).rest[c] = v.rest[c]
<1> DEFINE l == [v.link EXCEPT ![b] = image[0]]
           tail == [k \in Positions \ {0} |-> image[k]]
           r == [v.rest EXCEPT ![b] = tail]
           w == [v EXCEPT !.link = l, !.rest = r]
<1>1. 0 \in Positions /\ b # 0 /\ DOMAIN v.link = Blocks
  BY StreamAssumption, VolumeParts DEF Positions, Blocks
<1>2. BlockWritten(v, b, image) = w
  BY <1>1 DEF BlockWritten
<1>3. l \in [Blocks -> Int] /\ r \in [Blocks -> Tails]
  <2>1. image[0] \in Int /\ tail \in Tails
    BY <1>1 DEF Images, Tails
  <2> HIDE DEF tail
  <2> QED
    BY <2>1, VolumeParts
<1> HIDE DEF l, r
<1>4. w \in Volumes
  BY Zenon, <1>3 DEF Volumes, Blocks, Tails
<1>5. w.head = v.head /\ w.size = v.size /\ w.link = l /\ w.rest = r
  BY DEF Volumes
<1>6. /\ l[b] = image[0] /\ \A k \in Positions \ {0} : r[b][k] = image[k]
      /\ \A c \in Blocks \ {b} : l[c] = v.link[c] /\ r[c] = v.rest[c]
  BY VolumeParts DEF l, r
<1> QED
  BY <1>2, <1>4, <1>5, <1>6

(* Any block_write leaves a volume. *)
LEMMA WrittenIsVolume ==
  ASSUME NEW v \in Volumes, NEW b \in Int, NEW image \in Images
  PROVE  BlockWritten(v, b, image) \in Volumes
<1>1. CASE b = 0
  <2> DEFINE h == image[0]
             n == image[1]
  <2>1. h \in Int /\ n \in Int
    BY StreamAssumption DEF Images, Positions
  <2>2. BlockWritten(v, b, image) = [v EXCEPT !.head = h, !.size = n]
    BY <1>1 DEF BlockWritten
  <2> HIDE DEF h, n
  <2> QED
    BY <2>1, <2>2 DEF Volumes
<1>2. CASE b \in Blocks
  BY <1>2, WrittenBlock
<1>3. CASE b # 0 /\ b \notin Blocks
  BY <1>3, VolumeParts DEF BlockWritten
<1> QED
  BY <1>1, <1>2, <1>3

LEMMA UnlinkedIsVolume ==
  ASSUME NEW v \in Volumes
  PROVE  /\ Unlinked(v) \in Volumes
         /\ Unlinked(v).head = Successor(v, v.head)
         /\ Unlinked(v).size = v.size - 1
         /\ Unlinked(v).link = v.link
         /\ Unlinked(v).rest = v.rest
<1> DEFINE h == Successor(v, v.head)
           n == v.size - 1
           w == [v EXCEPT !.head = h, !.size = n]
<1>1. h \in Int /\ n \in Int
  BY VolumeParts DEF Successor
<1>2. Unlinked(v) = w
  BY DEF Unlinked
<1> HIDE DEF h, n
<1>3. w \in Volumes
  BY Zenon, <1>1 DEF Volumes
<1>4. w.head = h /\ w.size = n /\ w.link = v.link /\ w.rest = v.rest
  BY DEF Volumes
<1> QED
  BY <1>2, <1>3, <1>4 DEF h, n

LEMMA LinkedIsVolume ==
  ASSUME NEW v \in Volumes, NEW b \in Int
  PROVE  /\ Linked(v, b) \in Volumes
         /\ Linked(v, b).head = b
         /\ Linked(v, b).size = v.size + 1
         /\ b \in Blocks => Linked(v, b).link[b] = v.head
         /\ \A c \in Blocks \ {b} : Linked(v, b).link[c] = v.link[c]
         /\ Linked(v, b).rest = v.rest
<1> DEFINE l == [v.link EXCEPT ![b] = v.head]
           n == v.size + 1
           w == [v EXCEPT !.head = b, !.size = n, !.link = l]
<1>0. v.head \in Int /\ v.size \in Int /\ v.link \in [Blocks -> Int]
  BY VolumeParts
<1>1. l \in [Blocks -> Int]
  BY Zenon, <1>0
<1>2. n \in Int
  BY <1>0
<1>3. Linked(v, b) = w
  BY DEF Linked
<1>4. /\ b \in Blocks => l[b] = v.head
      /\ \A c \in Blocks \ {b} : l[c] = v.link[c]
  BY Zenon, <1>0
<1> HIDE DEF l, n
<1>5. w \in Volumes
  BY Zenon, <1>1, <1>2 DEF Volumes, Blocks
<1>6. w.head = b /\ w.size = n /\ w.link = l /\ w.rest = v.rest
  BY DEF Volumes
<1> QED
  BY <1>3, <1>4, <1>5, <1>6 DEF n

(* The list of F does not care for the words of other blocks, nor for the  *)
(* words after the first.                                                  *)
LEMMA WrittenKeepsList ==
  ASSUME NEW v \in Volumes, NEW b \in Blocks, NEW image \in Images,
         NEW F \in SUBSET Blocks, b \notin F, ListsExactly(v, F)
  PROVE  ListsExactly(BlockWritten(v, b, image), F)
<1> DEFINE w == BlockWritten(v, b, image)
<1>1. w.head = v.head /\ w.size = v.size /\ \A c \in F : w.link[c] = v.link[c]
  BY WrittenBlock
<1>2. F \in BlockSets
  BY DEF BlockSets, Blocks
<1> HIDE DEF w
<1>3. ListsExactly(w, F)
  BY <1>1, <1>2, ForeignWrite
<1> QED
  BY <1>3 DEF w

(* free_block_allocate: the head of the list comes off it, written.        *)
LEMMA AllocatedBlock ==
  ASSUME NEW v \in Volumes, NEW image \in Images,
         NEW F \in SUBSET Blocks, ListsExactly(v, F), HasFree(v)
  PROVE  /\ v.head \in F
         /\ Allocated(v, image) \in Volumes
         /\ ListsExactly(Allocated(v, image), F \ {v.head})
         /\ Allocated(v, image).link[v.head] = image[0]
         /\ \A k \in Positions \ {0} : Allocated(v, image).rest[v.head][k] = image[k]
         /\ \A c \in Blocks \ {v.head} :
              /\ Allocated(v, image).link[c] = v.link[c]
              /\ Allocated(v, image).rest[c] = v.rest[c]
<1> DEFINE u == Unlinked(v)
<1>1. F \in BlockSets
  BY DEF BlockSets, Blocks
<1>2. v.head \in F /\ v.head \in Blocks
  BY <1>1, HeadIsFree
<1>3. /\ u \in Volumes /\ u.link = v.link /\ u.rest = v.rest
      /\ u.head = v.link[v.head] /\ u.size = v.size - 1
  BY <1>2, UnlinkedIsVolume, VolumeParts DEF Successor
<1>4. Allocated(v, image) = BlockWritten(u, v.head, image)
  BY DEF Allocated
<1> HIDE DEF u
<1>5. ListsExactly(u, F \ {v.head})
  BY <1>1, <1>3, UnlinkedList
<1>6. ListsExactly(BlockWritten(u, v.head, image), F \ {v.head})
  BY <1>2, <1>3, <1>5, WrittenKeepsList
<1> QED
  BY <1>2, <1>3, <1>4, <1>6, WrittenBlock

(* free_block_allocate leaves a volume, whatever the state of the list.    *)
LEMMA AllocatedIsVolume ==
  ASSUME NEW v \in Volumes, NEW image \in Images
  PROVE  Allocated(v, image) \in Volumes
<1>1. Unlinked(v) \in Volumes /\ v.head \in Int
  BY UnlinkedIsVolume, VolumeParts
<1> QED
  BY <1>1, WrittenIsVolume DEF Allocated

(* What free_block_push leaves in the rest of the block it pushes. *)
Leftover(v) == [BlockRead(v, 0) EXCEPT ![0] = v.head]

LEMMA LeftoverIsImage ==
  ASSUME NEW v \in Volumes
  PROVE  Leftover(v) \in Images
<1>1. BlockRead(v, 0) \in Images /\ v.head \in Int
  BY ReadIsImage, VolumeParts
<1> QED
  BY <1>1 DEF Leftover, Images

(* free_block_push leaves a volume, whatever is pushed. *)
LEMMA PushedIsVolume ==
  ASSUME NEW v \in Volumes, NEW b \in Int
  PROVE  Pushed(v, b) \in Volumes
<1>1. BlockWritten(v, b, Leftover(v)) \in Volumes
  BY LeftoverIsImage, WrittenIsVolume
<1> QED
  BY <1>1, LinkedIsVolume DEF Pushed, Leftover

(* A block that is not on the list is, after its push, and no other block  *)
(* has changed.                                                            *)
LEMMA PushedBlock ==
  ASSUME NEW v \in Volumes, NEW F \in SUBSET Blocks, NEW b \in Blocks \ F,
         ListsExactly(v, F)
  PROVE  /\ ListsExactly(Pushed(v, b), F \cup {b})
         /\ \A c \in Blocks \ {b} :
              /\ Pushed(v, b).link[c] = v.link[c]
              /\ Pushed(v, b).rest[c] = v.rest[c]
<1> DEFINE w == BlockWritten(v, b, Leftover(v))
<1>1. Pushed(v, b) = Linked(w, b)
  BY DEF Pushed, Leftover
<1>2. /\ w \in Volumes /\ w.head = v.head /\ w.size = v.size
      /\ \A c \in Blocks \ {b} : w.link[c] = v.link[c] /\ w.rest[c] = v.rest[c]
  BY LeftoverIsImage, WrittenBlock
<1>3. ListsExactly(w, F)
  BY LeftoverIsImage, WrittenKeepsList
<1> HIDE DEF w
<1>4. /\ Linked(w, b).head = b /\ Linked(w, b).size = w.size + 1
      /\ Linked(w, b).link[b] = w.head
      /\ \A c \in Blocks \ {b} : Linked(w, b).link[c] = w.link[c]
      /\ Linked(w, b).rest = w.rest
  BY <1>2, LinkedIsVolume DEF Blocks
<1>5. F \in BlockSets /\ b \in (Nat \ {0}) \ F
  BY DEF BlockSets, Blocks
<1>6. ListsExactly(Linked(w, b), F \cup {b})
  <2> DEFINE x == Linked(w, b)
  <2>1. /\ x.head = b /\ x.size = w.size + 1 /\ x.link[b] = w.head
        /\ \A c \in F : x.link[c] = w.link[c]
    BY <1>4, <1>5
  <2> HIDE DEF x
  <2>2. ListsExactly(x, F \cup {b})
    BY <1>3, <1>5, <2>1, LinkedList
  <2> QED
    BY <2>2 DEF x
<1> QED
  BY <1>1, <1>2, <1>4, <1>6

-----------------------------------------------------------------------------
(***************************************************************************)
(* The loops.                                                              *)
(***************************************************************************)

(* fstream_free: a disk before every round. *)
FreeRun(before, v, g, n, ff) ==
  /\ before \in [0 .. b_size[g] -> Volumes]
  /\ \A i \in 0 .. b_size[g] : i <= n => before[i] = v
  /\ \A i \in 0 .. b_size[g] - 1 : i >= n => before[i + 1] = Pushed(before[i], ff[i])
  /\ Freed(v, g, n, ff) = before[b_size[g]]

LEMMA FreedRuns ==
  ASSUME NEW v \in Volumes, NEW g, NEW n \in Nat, NEW ff \in Arrays,
         b_size[g] \in 0 .. FENTRY_MAX_SIZE
  PROVE  \E before : FreeRun(before, v, g, n, ff)
<1> DEFINE N == b_size[g]
           loop == [i \in 0 .. N - 1 |->
                      [x \in Volumes |-> IF i < n THEN v ELSE Pushed(x, ff[i])]]
           Equation(h) ==
             h = [i \in 0 .. N |-> IF i <= n THEN v ELSE Pushed(h[i - 1], ff[i - 1])]
<1>1. N \in Nat
  OBVIOUS
<1>2. loop \in Loops(N, Volumes)
  <2>1. ASSUME NEW i \in 0 .. N - 1
        PROVE  ff[i] \in Int
    BY StreamAssumption DEF Arrays, Entries
  <2> QED
    BY <2>1, PushedIsVolume DEF Loops
<1>3. PICK h : Run(h, N, Volumes, v, loop)
  <2> HIDE DEF loop, N
  <2> QED
    BY <1>1, <1>2, LoopRuns
<1>4. /\ h \in [0 .. N -> Volumes] /\ h[0] = v
      /\ \A i \in 0 .. N - 1 : h[i + 1] = loop[i][h[i]]
  <2> HIDE DEF loop, N
  <2> QED
    BY <1>3 DEF Run
<1>5. ASSUME NEW i \in 0 .. N - 1
      PROVE  h[i + 1] = IF i < n THEN v ELSE Pushed(h[i], ff[i])
  <2>1. h[i] \in Volumes
    BY <1>1, <1>4
  <2>2. loop[i][h[i]] = IF i < n THEN v ELSE Pushed(h[i], ff[i])
    BY <2>1
  <2> QED
    BY <1>4, <2>2
<1>6. Equation(h)
  <2>1. ASSUME NEW i \in 0 .. N
        PROVE  h[i] = IF i <= n THEN v ELSE Pushed(h[i - 1], ff[i - 1])
    <3>1. CASE i = 0
      BY <1>4, <3>1
    <3>2. CASE i # 0
      <4>1. i - 1 \in 0 .. N - 1 /\ (i - 1) + 1 = i
        BY <1>1, <3>2
      <4> QED
        BY <1>5, <4>1
    <3> QED
      BY <3>1, <3>2
  <2> QED
    BY <1>4, <2>1
<1> DEFINE before[i \in 0 .. N] == IF i <= n THEN v ELSE Pushed(before[i - 1], ff[i - 1])
<1>7. Equation(before)
  BY <1>6
<1>8. Freed(v, g, n, ff) = before[N]
  BY DEF Freed
<1> HIDE DEF before
<1>9. /\ \A i \in 0 .. N : i <= n => before[i] = v
      /\ \A i \in 0 .. N - 1 : i >= n => before[i + 1] = Pushed(before[i], ff[i])
      /\ DOMAIN before = 0 .. N
  <2>1. \A i \in 0 .. N : i <= n => before[i] = v
    BY <1>7
  <2>2. ASSUME NEW i \in 0 .. N - 1, i >= n
        PROVE  before[i + 1] = Pushed(before[i], ff[i])
    <3>1. i + 1 \in 0 .. N /\ ~(i + 1 <= n) /\ (i + 1) - 1 = i
      BY <1>1, <2>2
    <3> QED
      BY <1>7, <3>1
  <2> QED
    BY <1>7, <2>1, <2>2
<1>10. before \in [0 .. N -> Volumes]
  <2> DEFINE T == {i \in 0 .. N : before[i] \in Volumes}
  <2>1. 0 \in T
    BY <1>1, <1>9
  <2>2. ASSUME NEW i \in 0 .. N - 1, i \in T
        PROVE  i + 1 \in T
    <3>1. ff[i] \in Int
      BY StreamAssumption DEF Arrays, Entries
    <3>2. i + 1 \in 0 .. N
      BY <1>1
    <3>3. CASE i >= n
      BY <1>9, <2>2, <3>1, <3>2, <3>3, PushedIsVolume
    <3>4. CASE ~(i >= n)
      BY <1>1, <1>9, <3>2, <3>4
    <3> QED
      BY <3>3, <3>4
  <2> HIDE DEF T
  <2>3. \A i \in 0 .. N : i \in T
    BY <1>1, <2>1, <2>2, UpTo
  <2>4. before = [i \in 0 .. N |-> before[i]]
    BY <1>7
  <2> QED
    BY <2>3, <2>4 DEF T
<1> QED
  BY <1>8, <1>9, <1>10 DEF FreeRun

(* A loop that allocates. *)
States ==
  [vol : Volumes, f : Arrays, i : Nat, err : {0, -ENOSPC, -EFBIG}, full : BOOLEAN]

LEMMA RoundIsState ==
  ASSUME NEW v \in Volumes, NEW ff \in Arrays, NEW i \in Nat,
         NEW err \in {0, -ENOSPC, -EFBIG}, NEW full \in BOOLEAN
  PROVE  /\ Round(v, ff, i, err, full) \in States
         /\ Round(v, ff, i, err, full).vol = v
         /\ Round(v, ff, i, err, full).f = ff
         /\ Round(v, ff, i, err, full).i = i
         /\ Round(v, ff, i, err, full).err = err
         /\ Round(v, ff, i, err, full).full = full
BY DEF Round, States

LEMMA StateParts ==
  ASSUME NEW r \in States
  PROVE  /\ r.vol \in Volumes /\ r.f \in Arrays /\ r.i \in Nat
         /\ r.err \in {0, -ENOSPC, -EFBIG} /\ r.full \in BOOLEAN
BY DEF States

(* An entry of the array is set. *)
LEMMA SetEntry ==
  ASSUME NEW ff \in Arrays, NEW i \in Nat, NEW b \in Int
  PROVE  /\ [ff EXCEPT ![i] = b] \in Arrays
         /\ i \in Entries => [ff EXCEPT ![i] = b][i] = b
         /\ \A e \in Entries \ {i} : [ff EXCEPT ![i] = b][e] = ff[e]
BY Zenon DEF Arrays

LEMMA TypeParts ==
  ASSUME TypeOK
  PROVE  /\ vol \in Volumes /\ live \subseteq Names /\ tab \in [Names -> Arrays]
         /\ \A g \in Names :
              /\ b_size[g] \in 0 .. FENTRY_MAX_SIZE
              /\ tab[g] \in Arrays
              /\ \A i \in Nat : i < b_size[g] => i \in Entries
<1>1. FENTRY_MAX_SIZE \in Nat
  BY StreamAssumption
<1> QED
  BY <1>1 DEF TypeOK, Arrays, Entries

LEMMA ListingType ==
  ASSUME TypeOK, NEW g \in Names
  PROVE  Listing(g) \in Arrays
BY DEF Listing, TypeOK, Arrays

LEMMA ImageType ==
  ASSUME TypeOK, NEW g \in Names, NEW i \in Nat, NEW off, NEW n, NEW w \in Data
  PROVE  Image(g, Listing(g), i, off, n, w) \in Images
<1> DEFINE old == IF i < b_size[g] THEN BlockRead(vol, Listing(g)[i]) ELSE ZeroBlock
<1>1. old \in Images
  <2>1. CASE i < b_size[g]
    <3>1. i \in Entries
      BY <2>1, StreamAssumption DEF TypeOK, Entries
    <3>2. Listing(g)[i] \in Int
      BY <3>1, ListingType DEF Arrays
    <3> QED
      BY <2>1, <3>2, ReadIsImage DEF TypeOK
  <2>2. CASE ~(i < b_size[g])
    BY <2>2 DEF ZeroBlock, Images
  <2> QED
    BY <2>1, <2>2
<1>2. w \in Int
  BY StreamAssumption
<1> HIDE DEF old
<1>3. [k \in Positions |->
         IF i * BLOCK_SIZE + k \in off .. off + n - 1 THEN w ELSE old[k]] \in Images
  BY <1>1, <1>2 DEF Images
<1> QED
  BY <1>3 DEF Image, old

LEMMA PutIsState ==
  ASSUME TypeOK, NEW g \in Names, NEW r \in States,
         NEW off, NEW n, NEW w \in Data
  PROVE  Put(r, g, off, n, w) \in States
<1> DEFINE image == Image(g, Listing(g), r.i, off, n, w)
<1>1. /\ r.vol \in Volumes /\ r.f \in Arrays /\ r.i \in Nat /\ r.i + 1 \in Nat
      /\ r.err \in {0, -ENOSPC, -EFBIG} /\ r.full \in BOOLEAN
  BY StateParts
<1>2. image \in Images
  BY <1>1, ImageType
<1>3. r.vol.head \in Int
  BY <1>1, VolumeParts
<1>4. [r.f EXCEPT ![r.i] = r.vol.head] \in Arrays
  BY <1>1, <1>3, SetEntry
<1>5. Allocated(r.vol, image) \in Volumes
  BY <1>1, <1>2, AllocatedIsVolume
<1>6. r.i < b_size[g] => BlockWritten(r.vol, r.f[r.i], image) \in Volumes
  <2>1. r.i < b_size[g] => r.f[r.i] \in Int
    BY <1>1, TypeParts DEF Arrays
  <2> QED
    BY <1>1, <1>2, <2>1, WrittenIsVolume
<1> HIDE DEF image
<1>7. CASE r.full
  BY <1>7 DEF Put
<1>8. CASE ~r.full /\ r.i < b_size[g]
  BY <1>1, <1>6, <1>8, RoundIsState DEF Put, image
<1>9. CASE ~r.full /\ ~(r.i < b_size[g]) /\ HasFree(r.vol)
  BY <1>1, <1>4, <1>5, <1>9, RoundIsState DEF Put, image
<1>10. CASE ~r.full /\ ~(r.i < b_size[g]) /\ ~HasFree(r.vol)
  BY <1>1, <1>4, <1>10, RoundIsState DEF Put
<1> QED
  BY <1>7, <1>8, <1>9, <1>10

LEMMA GrowIsState ==
  ASSUME NEW r \in States
  PROVE  Grow(r) \in States
<1>1. /\ r.vol \in Volumes /\ r.f \in Arrays /\ r.i \in Nat /\ r.i + 1 \in Nat
      /\ r.err \in {0, -ENOSPC, -EFBIG} /\ r.full \in BOOLEAN
  BY StateParts
<1>2. ZeroBlock \in Images
  BY DEF ZeroBlock, Images
<1>3. r.vol.head \in Int
  BY <1>1, VolumeParts
<1>4. [r.f EXCEPT ![r.i] = r.vol.head] \in Arrays
  BY <1>1, <1>3, SetEntry
<1>5. Allocated(r.vol, ZeroBlock) \in Volumes
  BY <1>1, <1>2, AllocatedIsVolume
<1> QED
  BY <1>1, <1>4, <1>5, RoundIsState DEF Grow

(* The first block of a request, the one after the last, and the rounds. *)
First(off) == off \div BLOCK_SIZE
End(off, n) == ((off + n - 1) \div BLOCK_SIZE) + 1
WriteRounds(off, n) == Min2(End(off, n), FENTRY_MAX_SIZE) - First(off)

LEMMA RequestRange ==
  ASSUME NEW off \in 0 .. FCONTENT_MAX_SIZE, NEW n \in Nat \ {0}
  PROVE  /\ First(off) \in 0 .. FENTRY_MAX_SIZE
         /\ End(off, n) \in Nat /\ First(off) < End(off, n)
         /\ WriteRounds(off, n) \in Nat
         /\ First(off) + WriteRounds(off, n) = Min2(End(off, n), FENTRY_MAX_SIZE)
<1>1. BLOCK_SIZE \in Nat \ {0} /\ FENTRY_MAX_SIZE \in Nat
  BY StreamAssumption
<1>2. off \in Nat /\ off + n - 1 \in Nat /\ off <= off + n - 1
  BY <1>1 DEF FCONTENT_MAX_SIZE
<1>3. First(off) \in Nat /\ End(off, n) \in Nat /\ First(off) < End(off, n)
  <2>1. off \div BLOCK_SIZE <= (off + n - 1) \div BLOCK_SIZE
    BY <1>1, <1>2, QuotientMonotone
  <2>2. off \div BLOCK_SIZE \in Nat /\ (off + n - 1) \div BLOCK_SIZE \in Nat
    BY <1>1, <1>2, Quotient
  <2> QED
    BY <2>1, <2>2 DEF First, End
<1>4. First(off) <= FENTRY_MAX_SIZE
  <2>1. off < (FENTRY_MAX_SIZE + 1) * BLOCK_SIZE
    BY <1>1 DEF FCONTENT_MAX_SIZE
  <2>2. off \div BLOCK_SIZE < FENTRY_MAX_SIZE + 1
    BY <1>1, <1>2, <2>1, QuotientBelow
  <2> QED
    BY <1>1, <1>3, <2>2 DEF First
<1> QED
  BY <1>1, <1>3, <1>4 DEF WriteRounds, Min2

(* fstream_write: a state before every round and after the last. *)
WriteRun(after, g, off, n, w) ==
  /\ after \in [0 .. WriteRounds(off, n) -> States]
  /\ after[0] = Round(vol, Listing(g), First(off), ERRNO, FALSE)
  /\ \A k \in 0 .. WriteRounds(off, n) - 1 :
       after[k + 1] = Put(after[k], g, off, n, w)
  /\ Written(g, off, n, w) = after[WriteRounds(off, n)]

LEMMA WrittenRuns ==
  ASSUME TypeOK, NEW g \in Names, NEW w \in Data,
         NEW off \in 0 .. FCONTENT_MAX_SIZE, NEW n \in Nat \ {0}
  PROVE  \E after : WriteRun(after, g, off, n, w)
<1> DEFINE N == WriteRounds(off, n)
           start == Round(vol, Listing(g), First(off), ERRNO, FALSE)
           loop == [k \in 0 .. N - 1 |-> [r \in States |-> Put(r, g, off, n, w)]]
           Equation(h) ==
             h = [k \in 0 .. N |-> IF k = 0 THEN start ELSE Put(h[k - 1], g, off, n, w)]
<1>1. N \in Nat
  BY RequestRange
<1>2. start \in States
  <2>1. First(off) \in Nat /\ Listing(g) \in Arrays /\ vol \in Volumes
    BY RequestRange, ListingType, TypeParts
  <2>2. ERRNO \in {0, -ENOSPC, -EFBIG}
    BY DEF TypeOK
  <2> QED
    BY <2>1, <2>2, RoundIsState
<1> HIDE DEF N, start
<1>3. loop \in Loops(N, States)
  BY PutIsState DEF Loops
<1>4. PICK h : Run(h, N, States, start, loop)
  <2> HIDE DEF loop
  <2> QED
    BY <1>1, <1>2, <1>3, LoopRuns
<1>5. /\ h \in [0 .. N -> States] /\ h[0] = start
      /\ \A k \in 0 .. N - 1 : h[k + 1] = loop[k][h[k]]
  <2> HIDE DEF loop
  <2> QED
    BY <1>4 DEF Run
<1>6. ASSUME NEW k \in 0 .. N - 1
      PROVE  h[k + 1] = Put(h[k], g, off, n, w)
  <2>1. h[k] \in States
    BY <1>1, <1>5
  <2>2. loop[k][h[k]] = Put(h[k], g, off, n, w)
    BY <2>1
  <2> QED
    BY <1>5, <2>2
<1>7. Equation(h)
  <2>1. ASSUME NEW k \in 0 .. N
        PROVE  h[k] = IF k = 0 THEN start ELSE Put(h[k - 1], g, off, n, w)
    <3>1. CASE k = 0
      BY <1>5, <3>1
    <3>2. CASE k # 0
      <4>1. k - 1 \in 0 .. N - 1 /\ (k - 1) + 1 = k
        BY <1>1, <3>2
      <4> QED
        BY <1>6, <3>2, <4>1
    <3> QED
      BY <3>1, <3>2
  <2> QED
    BY <1>5, <2>1
<1> DEFINE after[k \in 0 .. N] == IF k = 0 THEN start ELSE Put(after[k - 1], g, off, n, w)
<1>8. Equation(after)
  BY <1>7
<1>9. Written(g, off, n, w) = after[N]
  BY DEF Written, N, start, WriteRounds, First, End
<1> HIDE DEF after
<1>10. /\ after[0] = start
       /\ \A k \in 0 .. N - 1 : after[k + 1] = Put(after[k], g, off, n, w)
  <2>1. after[0] = start
    BY <1>1, <1>8
  <2>2. ASSUME NEW k \in 0 .. N - 1
        PROVE  after[k + 1] = Put(after[k], g, off, n, w)
    <3>1. k + 1 \in 0 .. N /\ k + 1 # 0 /\ (k + 1) - 1 = k
      BY <1>1
    <3> QED
      BY <1>8, <3>1
  <2> QED
    BY <2>1, <2>2
<1>11. after \in [0 .. N -> States]
  <2> DEFINE T == {k \in 0 .. N : after[k] \in States}
  <2>1. 0 \in T
    BY <1>1, <1>2, <1>10
  <2>2. ASSUME NEW k \in 0 .. N - 1, k \in T
        PROVE  k + 1 \in T
    BY <1>1, <1>10, <2>2, PutIsState
  <2> HIDE DEF T
  <2>3. \A k \in 0 .. N : k \in T
    BY <1>1, <2>1, <2>2, UpTo
  <2>4. after = [k \in 0 .. N |-> after[k]]
    BY <1>8
  <2> QED
    BY <2>3, <2>4 DEF T
<1> QED
  BY <1>9, <1>10, <1>11 DEF N, start, WriteRun

(* The loop of sfs_truncate; it does nothing for a file that has the blocks. *)
LEMMA GrownIsState ==
  ASSUME TypeOK, NEW g \in Names, NEW n \in Nat
  PROVE  /\ Grown(g, n) \in States
         /\ n <= b_size[g] =>
              Grown(g, n) = Round(vol, Listing(g), b_size[g], ERRNO, FALSE)
<1> DEFINE start == Round(vol, Listing(g), b_size[g], ERRNO, FALSE)
           m == b_size[g]
           loop == [i \in 0 .. n - 1 |-> [r \in States |-> IF i < m THEN start ELSE Grow(r)]]
           Equation(h) == h = [i \in 0 .. n |-> IF i <= m THEN start ELSE Grow(h[i - 1])]
<1>1. m \in Nat
  BY TypeParts, StreamAssumption
<1>2. start \in States
  <2>1. Listing(g) \in Arrays /\ vol \in Volumes
    BY ListingType, TypeParts
  <2>2. ERRNO \in {0, -ENOSPC, -EFBIG}
    BY DEF TypeOK
  <2> QED
    BY <1>1, <2>1, <2>2, RoundIsState
<1> HIDE DEF start, m
<1>3. loop \in Loops(n, States)
  BY <1>2, GrowIsState DEF Loops
<1>4. PICK h : Run(h, n, States, start, loop)
  <2> HIDE DEF loop
  <2> QED
    BY <1>2, <1>3, LoopRuns
<1>5. /\ h \in [0 .. n -> States] /\ h[0] = start
      /\ \A i \in 0 .. n - 1 : h[i + 1] = loop[i][h[i]]
  <2> HIDE DEF loop
  <2> QED
    BY <1>4 DEF Run
<1>6. ASSUME NEW i \in 0 .. n - 1
      PROVE  h[i + 1] = IF i < m THEN start ELSE Grow(h[i])
  <2>1. h[i] \in States
    BY <1>5
  <2>2. loop[i][h[i]] = IF i < m THEN start ELSE Grow(h[i])
    BY <2>1
  <2> QED
    BY <1>5, <2>2
<1>7. Equation(h)
  <2>1. ASSUME NEW i \in 0 .. n
        PROVE  h[i] = IF i <= m THEN start ELSE Grow(h[i - 1])
    <3>1. CASE i = 0
      BY <1>1, <1>5, <3>1
    <3>2. CASE i # 0
      <4>1. i - 1 \in 0 .. n - 1 /\ (i - 1) + 1 = i
        BY <3>2
      <4> QED
        BY <1>1, <1>6, <4>1
    <3> QED
      BY <3>1, <3>2
  <2> QED
    BY <1>5, <2>1
<1> DEFINE before[i \in 0 .. n] == IF i <= m THEN start ELSE Grow(before[i - 1])
<1>8. Equation(before)
  BY <1>7
<1>9. Grown(g, n) = before[n]
  BY DEF Grown, start, m
<1> HIDE DEF before
<1>10. /\ \A i \in 0 .. n : i <= m => before[i] = start
       /\ \A i \in 0 .. n - 1 : i >= m => before[i + 1] = Grow(before[i])
  <2>1. \A i \in 0 .. n : i <= m => before[i] = start
    BY <1>8
  <2>2. ASSUME NEW i \in 0 .. n - 1, i >= m
        PROVE  before[i + 1] = Grow(before[i])
    <3>1. i + 1 \in 0 .. n /\ ~(i + 1 <= m) /\ (i + 1) - 1 = i
      BY <1>1, <2>2
    <3> QED
      BY <1>8, <3>1
  <2> QED
    BY <2>1, <2>2
<1>11. before[n] \in States
  <2> DEFINE T == {i \in 0 .. n : before[i] \in States}
  <2>1. 0 \in T
    BY <1>1, <1>2, <1>10
  <2>2. ASSUME NEW i \in 0 .. n - 1, i \in T
        PROVE  i + 1 \in T
    <3>1. CASE i >= m
      BY <1>10, <2>2, <3>1, GrowIsState
    <3>2. CASE ~(i >= m)
      BY <1>1, <1>2, <1>10, <3>2
    <3> QED
      BY <3>1, <3>2
  <2> HIDE DEF T
  <2>3. \A i \in 0 .. n : i \in T
    BY <2>1, <2>2, UpTo
  <2> QED
    BY <2>3 DEF T
<1>12. n <= m => before[n] = start
  BY <1>10
<1> QED
  BY <1>9, <1>11, <1>12 DEF start, m

-----------------------------------------------------------------------------
(***************************************************************************)
(* Types.                                                                  *)
(***************************************************************************)

(* How far the pages of a table reach: not less than its entries. *)
LEMMA Reach ==
  ASSUME NEW n \in 0 .. FENTRY_MAX_SIZE
  PROVE  Covered(n) \in Nat /\ n <= Covered(n)
<1>1. {DIRECT, PER_PAGE, FENTRY_MAX_SIZE} \subseteq Nat \ {0} /\ DIRECT <= FENTRY_MAX_SIZE
  BY StreamAssumption
<1>2. CASE n <= DIRECT
  BY <1>1, <1>2 DEF Covered
<1>3. CASE ~(n <= DIRECT)
  <2> DEFINE pages == (n - DIRECT - 1) \div PER_PAGE
  <2>1. n - DIRECT - 1 \in Nat
    BY <1>1, <1>3
  <2>2. pages \in Nat /\ n - DIRECT - 1 < pages * PER_PAGE + PER_PAGE
    BY <1>1, <2>1, Quotient
  <2>3. PER_PAGE * (pages + 1) = pages * PER_PAGE + PER_PAGE
    BY <1>1, <2>2
  <2>4. Covered(n) = Min2(FENTRY_MAX_SIZE, DIRECT + PER_PAGE * (pages + 1))
    BY <1>3 DEF Covered
  <2>5. n - DIRECT - 1 < PER_PAGE * (pages + 1) /\ PER_PAGE * (pages + 1) \in Nat
    BY <1>1, <2>2, <2>3
  <2> HIDE DEF pages
  <2>6. ASSUME NEW x \in Nat, n - DIRECT - 1 < x
        PROVE  /\ Min2(FENTRY_MAX_SIZE, DIRECT + x) \in Nat
               /\ n <= Min2(FENTRY_MAX_SIZE, DIRECT + x)
    BY <1>1, <2>6 DEF Min2
  <2> QED
    BY <2>4, <2>5, <2>6
<1> QED
  BY <1>2, <1>3

(* The array after a listing holds the entries that count. *)
LEMMA ListingIs ==
  ASSUME TypeOK, NEW g \in Names
  PROVE  \A e \in 0 .. b_size[g] - 1 : Listing(g)[e] = tab[g][e]
<1>1. b_size[g] \in 0 .. FENTRY_MAX_SIZE /\ FENTRY_MAX_SIZE \in Nat
  BY TypeParts, StreamAssumption
<1>2. Covered(b_size[g]) \in Nat /\ b_size[g] <= Covered(b_size[g])
  BY <1>1, Reach
<1> QED
  BY <1>1, <1>2 DEF Listing, Entries

(* fnode_listing_set stores the entries that count, and no other file's. *)
LEMMA TableSet ==
  ASSUME TypeOK, NEW g \in Names, NEW n \in 0 .. FENTRY_MAX_SIZE, NEW ff \in Arrays,
         SetListing(g, n, ff)
  PROVE  /\ tab' \in [Names -> Arrays]
         /\ b_size' \in [Names -> 0 .. FENTRY_MAX_SIZE]
         /\ b_size'[g] = n
         /\ \A h \in Names \ {g} : tab'[h] = tab[h] /\ b_size'[h] = b_size[h]
         /\ \A e \in 0 .. n - 1 : tab'[g][e] = ff[e]
<1>1. /\ tab \in [Names -> Arrays] /\ b_size \in [Names -> 0 .. FENTRY_MAX_SIZE]
      /\ FENTRY_MAX_SIZE \in Nat
  BY TypeParts, StreamAssumption DEF TypeOK
<1>2. Covered(n) \in Nat /\ n <= Covered(n)
  BY Reach
<1> DEFINE stored == [e \in Entries |-> IF e < Covered(n) THEN ff[e] ELSE tab[g][e]]
<1>3. stored \in Arrays /\ \A e \in 0 .. n - 1 : stored[e] = ff[e]
  <2>1. tab[g] \in Arrays
    BY <1>1
  <2>2. stored \in Arrays
    BY <2>1 DEF Arrays
  <2>3. \A e \in 0 .. n - 1 : stored[e] = ff[e]
    BY <1>1, <1>2 DEF Entries
  <2> QED
    BY <2>2, <2>3
<1>4. tab' = [tab EXCEPT ![g] = stored]
  BY DEF SetListing
<1> HIDE DEF stored
<1>5. /\ tab' \in [Names -> Arrays] /\ tab'[g] = stored
      /\ \A h \in Names \ {g} : tab'[h] = tab[h]
  BY <1>1, <1>3, <1>4
<1>6. /\ b_size' \in [Names -> 0 .. FENTRY_MAX_SIZE] /\ b_size'[g] = n
      /\ \A h \in Names \ {g} : b_size'[h] = b_size[h]
  BY <1>1 DEF SetListing
<1> QED
  BY <1>3, <1>5, <1>6

(* What sfs_truncate stores. *)
Relisted(g, n) ==
  [e \in Entries |-> IF e < Covered(b_size[g]) THEN tab[g][e] ELSE Grown(g, n).f[e]]

LEMMA RelistedType ==
  ASSUME TypeOK, NEW g \in Names, NEW n \in Nat
  PROVE  Relisted(g, n) \in Arrays
<1>1. tab[g] \in Arrays /\ Grown(g, n).f \in Arrays
  BY TypeParts, GrownIsState, StateParts
<1> QED
  BY <1>1 DEF Relisted, Arrays

(* fstream_free leaves a volume. *)
LEMMA FreedIsVolume ==
  ASSUME TypeOK, NEW v \in Volumes, NEW g \in Names, NEW n \in Nat, NEW ff \in Arrays
  PROVE  Freed(v, g, n, ff) \in Volumes
<1>1. b_size[g] \in 0 .. FENTRY_MAX_SIZE /\ FENTRY_MAX_SIZE \in Nat
  BY TypeParts, StreamAssumption
<1>2. PICK before : FreeRun(before, v, g, n, ff)
  BY <1>1, FreedRuns
<1> QED
  BY <1>1, <1>2 DEF FreeRun

LEMMA WrittenIsState ==
  ASSUME TypeOK, NEW g \in Names, NEW w \in Data,
         NEW off \in 0 .. FCONTENT_MAX_SIZE, NEW n \in Nat \ {0}
  PROVE  Written(g, off, n, w) \in States
<1>1. PICK after : WriteRun(after, g, off, n, w)
  BY WrittenRuns
<1>2. WriteRounds(off, n) \in Nat
  BY RequestRange
<1> QED
  BY <1>1, <1>2 DEF WriteRun

(* The number of blocks for a size. *)
LEMMA TruncateRange ==
  ASSUME NEW off \in 0 .. FCONTENT_MAX_SIZE - 1
  PROVE  (off \div BLOCK_SIZE) + 1 \in 1 .. FENTRY_MAX_SIZE
<1>1. BLOCK_SIZE \in Nat \ {0} /\ FENTRY_MAX_SIZE \in Nat
  BY StreamAssumption
<1>2. off \in Nat /\ off < FENTRY_MAX_SIZE * BLOCK_SIZE
  BY <1>1 DEF FCONTENT_MAX_SIZE
<1>3. off \div BLOCK_SIZE \in Nat /\ off \div BLOCK_SIZE < FENTRY_MAX_SIZE
  BY <1>1, <1>2, Quotient, QuotientBelow
<1> QED
  BY <1>1, <1>3

LEMMA SizeOfWrite ==
  ASSUME NEW size \in 0 .. FCONTENT_MAX_SIZE, NEW off \in Nat, NEW n \in Nat
  PROVE  Min2(Max2(size, off + n), FCONTENT_MAX_SIZE) \in 0 .. FCONTENT_MAX_SIZE
<1>1. FCONTENT_MAX_SIZE \in Nat
  BY StreamAssumption DEF FCONTENT_MAX_SIZE
<1> QED
  BY <1>1 DEF Min2, Max2

LEMMA InitTypes == Init => TypeOK
<1> SUFFICES ASSUME Init PROVE TypeOK
  OBVIOUS
<1>1. FENTRY_MAX_SIZE \in Nat /\ FCONTENT_MAX_SIZE \in Nat
  BY StreamAssumption DEF FCONTENT_MAX_SIZE
<1>2. vol \in Volumes
  <2> DEFINE link == [b \in 1 .. MAX_BLOCK_NUM - 1 |->
                        IF b <= INODE_BLK_SIZE THEN 0
                        ELSE IF b = MAX_BLOCK_NUM - 1 THEN NIL ELSE b + 1]
             rest == [b \in 1 .. MAX_BLOCK_NUM - 1 |-> [k \in Positions \ {0} |-> 0]]
             h == INODE_BLK_SIZE + 1
             n == MAX_BLOCK_NUM - 1 - INODE_BLK_SIZE
  <2>1. h \in Int /\ n \in Int
    BY StreamAssumption
  <2>2. link \in [1 .. MAX_BLOCK_NUM - 1 -> Int]
    BY DEF NIL
  <2>3. rest \in [1 .. MAX_BLOCK_NUM - 1 -> [Positions \ {0} -> Int]]
    OBVIOUS
  <2>4. vol = [head |-> h, size |-> n, link |-> link, rest |-> rest]
    BY DEF Init
  <2> HIDE DEF link, rest, h, n
  <2> QED
    BY <2>1, <2>2, <2>3, <2>4 DEF Volumes
<1>3. tab \in [Names -> [Entries -> Int]] /\ f \in [Entries -> Int]
  BY DEF Init
<1>4. b_size \in [Names -> 0 .. FENTRY_MAX_SIZE]
  BY <1>1 DEF Init
<1>5. f_size \in [Names -> 0 .. FCONTENT_MAX_SIZE]
  <2>1. 0 \in 0 .. FCONTENT_MAX_SIZE
    BY StreamAssumption DEF FCONTENT_MAX_SIZE
  <2> QED
    BY <2>1 DEF Init
<1>6. ERRNO \in {0, -ENOSPC, -EFBIG} /\ live \subseteq Names /\ failed \in BOOLEAN
  BY DEF Init
<1> QED
  BY <1>2, <1>3, <1>4, <1>5, <1>6 DEF TypeOK

(* Every call keeps the types, whatever requests programs make. *)
LEMMA TypesKept == TypeOK /\ [Next]_vars => TypeOK'
<1> SUFFICES ASSUME TypeOK, [Next]_vars PROVE TypeOK'
  OBVIOUS
<1>0. /\ vol \in Volumes /\ live \subseteq Names /\ tab \in [Names -> Arrays]
      /\ f_size \in [Names -> 0 .. FCONTENT_MAX_SIZE] /\ f \in Arrays
      /\ b_size \in [Names -> 0 .. FENTRY_MAX_SIZE]
      /\ ERRNO \in {0, -ENOSPC, -EFBIG} /\ failed \in BOOLEAN
      /\ FENTRY_MAX_SIZE \in Nat /\ FCONTENT_MAX_SIZE \in Nat
  BY TypeParts, StreamAssumption DEF TypeOK, Arrays, FCONTENT_MAX_SIZE
<1>2. ASSUME NEW g \in Names, sfs_create(g)
      PROVE  TypeOK'
  <2>1. [e \in Entries |-> 0] \in Arrays
    BY DEF Arrays
  <2>2. tab' \in [Names -> Arrays]
    BY <1>0, <1>2, <2>1 DEF sfs_create
  <2> QED
    BY <1>0, <1>2, <2>2 DEF sfs_create, TypeOK, Arrays
<1>3. ASSUME NEW g \in live, sfs_unlink(g)
      PROVE  TypeOK'
  <2>1. Listing(g) \in Arrays
    BY <1>0, ListingType
  <2>2. vol' \in Volumes
    BY <1>0, <1>3, <2>1, FreedIsVolume DEF sfs_unlink
  <2>3. f' \in Arrays /\ SetListing(g, 0, f')
    BY <1>3, <2>1 DEF sfs_unlink
  <2>4. tab' \in [Names -> Arrays] /\ b_size' \in [Names -> 0 .. FENTRY_MAX_SIZE]
    BY <1>0, <2>3, TableSet
  <2> QED
    BY <1>0, <1>3, <2>2, <2>3, <2>4 DEF sfs_unlink, TypeOK, Arrays
<1>4. ASSUME NEW g \in live, sfs_read(g)
      PROVE  TypeOK'
  BY <1>0, <1>4, ListingType DEF sfs_read, inodes, TypeOK, Arrays
<1>5. ASSUME NEW g \in live, NEW off \in 0 .. FCONTENT_MAX_SIZE,
             NEW n \in 1 .. MaxRequest, NEW w \in Data, sfs_write(g, off, n, w)
      PROVE  TypeOK'
  <2> DEFINE r == Written(g, off, n, w)
             m == Min2(Max2(b_size[g], r.i), FENTRY_MAX_SIZE)
             size == Min2(Max2(f_size[g], off + n), FCONTENT_MAX_SIZE)
  <2>1. /\ f' = r.f /\ SetListing(g, m, r.f)
        /\ f_size' = [f_size EXCEPT ![g] = size]
        /\ failed' = (WriteError(r) # 0)
        /\ vol' = IF failed' /\ HasFree(r.vol) THEN Unlinked(r.vol) ELSE r.vol
        /\ ERRNO' = 0 /\ live' = live
    BY <1>5 DEF sfs_write, ErrorLeft
  <2>2. n \in Nat \ {0} /\ off \in Nat
    BY <1>0
  <2>3. r \in States
    BY <1>0, <2>2, WrittenIsState
  <2>4. r.f \in Arrays /\ r.vol \in Volumes /\ r.i \in Nat
    BY <2>3, StateParts
  <2>5. vol' \in Volumes
    BY <2>1, <2>4, UnlinkedIsVolume
  <2>6. m \in 0 .. FENTRY_MAX_SIZE
    BY <1>0, <2>4 DEF Min2, Max2
  <2>7. tab' \in [Names -> Arrays] /\ b_size' \in [Names -> 0 .. FENTRY_MAX_SIZE]
    BY <1>0, <2>1, <2>4, <2>6, TableSet
  <2>8. size \in 0 .. FCONTENT_MAX_SIZE
    BY <1>0, <2>2, SizeOfWrite
  <2> HIDE DEF r, m, size
  <2> QED
    BY <1>0, <2>1, <2>4, <2>5, <2>7, <2>8 DEF TypeOK, Arrays
<1>6. ASSUME NEW g \in live, NEW off \in 0 .. FCONTENT_MAX_SIZE - 1, sfs_truncate(g, off)
      PROVE  TypeOK'
  <2> DEFINE n == (off \div BLOCK_SIZE) + 1
  <2>1. n \in 1 .. FENTRY_MAX_SIZE /\ n \in Nat
    BY <1>0, TruncateRange
  <2>2. /\ vol' = Freed(Grown(g, n).vol, g, n, Relisted(g, n))
        /\ f' = Relisted(g, n) /\ SetListing(g, n, Relisted(g, n))
        /\ f_size' = [f_size EXCEPT ![g] = off]
        /\ ERRNO' = Grown(g, n).err /\ failed' = FALSE /\ live' = live
    BY <1>6 DEF sfs_truncate, Relisted
  <2> HIDE DEF n
  <2>3. Grown(g, n).vol \in Volumes /\ Grown(g, n).err \in {0, -ENOSPC, -EFBIG}
    BY <1>0, <2>1, GrownIsState, StateParts
  <2>4. Relisted(g, n) \in Arrays
    BY <1>0, <2>1, RelistedType
  <2>5. vol' \in Volumes
    BY <1>0, <2>1, <2>2, <2>3, <2>4, FreedIsVolume
  <2>6. tab' \in [Names -> Arrays] /\ b_size' \in [Names -> 0 .. FENTRY_MAX_SIZE]
    BY <1>0, <2>1, <2>2, <2>4, TableSet
  <2>7. off \in 0 .. FCONTENT_MAX_SIZE
    BY <1>0
  <2> QED
    BY <1>0, <2>2, <2>3, <2>4, <2>5, <2>6, <2>7 DEF TypeOK, Arrays
<1>7. CASE UNCHANGED vars
  BY <1>0, <1>7 DEF vars, TypeOK, Arrays
<1> QED
  BY <1>2, <1>3, <1>4, <1>5, <1>6, <1>7 DEF Next

(***************************************************************************)
(* Whatever requests programs make, in order or not, the disk, the tables, *)
(* the sizes and the static array keep their types: no file has more       *)
(* entries or a larger size than a table can describe.                     *)
(***************************************************************************)
THEOREM TypesStay == Spec => []TypeOK
BY InitTypes, TypesKept, PTL DEF Spec

-----------------------------------------------------------------------------
(***************************************************************************)
(* The inductive invariant. BlocksAccounted is not inductive by itself: an *)
(* error left in ERRNO would make sfs_create or sfs_write report a failure *)
(* of an earlier call, and sfs_write pops a block whenever it does.        *)
(***************************************************************************)

(* The blocks of a file, of all files but one, of all files. *)
UsedBy(g) == {tab[g][e] : e \in 0 .. b_size[g] - 1}
UsedByOthers(g) == UNION {UsedBy(h) : h \in live \ {g}}
Used == UNION {UsedBy(g) : g \in live}

(* No file holds a block in two entries. *)
EntriesDiffer ==
  \A g \in live : \A d, e \in 0 .. b_size[g] - 1 : tab[g][d] = tab[g][e] => d = e

(* No two files hold the same block, or one that is not for data. *)
FilesDisjoint ==
  \A g \in live : UsedBy(g) \subseteq DataBlocks \ UsedByOthers(g)

Accounted ==
  /\ EntriesDiffer
  /\ FilesDisjoint
  /\ ListsExactly(vol, DataBlocks \ Used)

IInv ==
  /\ TypeOK
  /\ Accounted
  /\ ERRNO = 0

(***************************************************************************)
(* The blocks of all files, and of all but one.                            *)
(***************************************************************************)
LEMMA UsedSplits ==
  ASSUME NEW g \in live
  PROVE  Used = UsedBy(g) \cup UsedByOthers(g)
BY DEF Used, UsedByOthers

LEMMA DataIsBlocks == DataBlocks \subseteq Blocks
BY StreamAssumption DEF DataBlocks, Blocks

(* The invariant accounts for the blocks in the terms of the property. *)
LEMMA SlotsAre ==
  ASSUME TypeOK
  PROVE  /\ \A g \in live : \A e \in 0 .. b_size[g] - 1 :
              <<g, e>> \in Slots /\ BlockAt(<<g, e>>) = tab[g][e]
         /\ \A s \in Slots : \E g \in live : \E e \in 0 .. b_size[g] - 1 : s = <<g, e>>
<1>1. \A g \in live : \A e \in 0 .. b_size[g] - 1 :
        <<g, e>> \in Slots /\ BlockAt(<<g, e>>) = tab[g][e]
  BY DEF Slots, BlockAt
<1>2. ASSUME NEW s \in Slots
      PROVE  \E g \in live : \E e \in 0 .. b_size[g] - 1 : s = <<g, e>>
  <2>1. PICK g \in live : s \in {g} \X (0 .. b_size[g] - 1)
    BY DEF Slots
  <2> QED
    BY <2>1
<1> QED
  BY <1>1, <1>2

LEMMA UsedIsSlots ==
  ASSUME TypeOK
  PROVE  {BlockAt(s) : s \in Slots} = Used
<1>1. ASSUME NEW b \in {BlockAt(s) : s \in Slots}
      PROVE  b \in Used
  <2>1. PICK s \in Slots : b = BlockAt(s)
    OBVIOUS
  <2>2. PICK g \in live : \E e \in 0 .. b_size[g] - 1 : s = <<g, e>>
    BY SlotsAre
  <2>3. PICK e \in 0 .. b_size[g] - 1 : s = <<g, e>>
    BY <2>2
  <2>4. b = tab[g][e]
    BY <2>1, <2>3, SlotsAre
  <2> QED
    BY <2>4 DEF Used, UsedBy
<1>2. ASSUME NEW b \in Used
      PROVE  b \in {BlockAt(s) : s \in Slots}
  <2>1. PICK g \in live : b \in UsedBy(g)
    BY DEF Used
  <2>2. PICK e \in 0 .. b_size[g] - 1 : b = tab[g][e]
    BY <2>1 DEF UsedBy
  <2> QED
    BY <2>2, SlotsAre
<1> QED
  BY <1>1, <1>2

LEMMA AccountedIsAccounted == IInv => BlocksAccounted
<1> SUFFICES ASSUME IInv PROVE BlocksAccounted
  OBVIOUS
<1>0. TypeOK /\ Accounted
  BY DEF IInv
<1>1. Used \subseteq DataBlocks
  BY <1>0 DEF Accounted, FilesDisjoint, Used
<1>2. ASSUME NEW s \in Slots, NEW t \in Slots, BlockAt(s) = BlockAt(t)
      PROVE  s = t
  <2>1. PICK g \in live : \E d \in 0 .. b_size[g] - 1 : s = <<g, d>>
    BY <1>0, SlotsAre
  <2>2. PICK d \in 0 .. b_size[g] - 1 : s = <<g, d>>
    BY <2>1
  <2>3. PICK h \in live : \E e \in 0 .. b_size[h] - 1 : t = <<h, e>>
    BY <1>0, SlotsAre
  <2>4. PICK e \in 0 .. b_size[h] - 1 : t = <<h, e>>
    BY <2>3
  <2>5. tab[g][d] = tab[h][e]
    BY <1>0, <1>2, <2>2, <2>4, SlotsAre
  <2>6. g = h
    <3>1. SUFFICES ASSUME g # h PROVE FALSE
      OBVIOUS
    <3>2. tab[g][d] \in UsedBy(g) /\ tab[h][e] \in UsedBy(h)
      BY DEF UsedBy
    <3>3. tab[h][e] \in UsedByOthers(g)
      BY <3>1, <3>2 DEF UsedByOthers
    <3> QED
      BY <1>0, <2>5, <3>2, <3>3 DEF Accounted, FilesDisjoint
  <2> QED
    BY <1>0, <2>2, <2>4, <2>5, <2>6 DEF Accounted, EntriesDiffer
<1> QED
  BY <1>0, <1>1, <1>2, UsedIsSlots DEF BlocksAccounted, Accounted

(* A call changes the entries of one file. *)
LEMMA OneFileChanges ==
  ASSUME TypeOK, Accounted, NEW g \in live, live' = live,
         \A h \in Names \ {g} : tab'[h] = tab[h] /\ b_size'[h] = b_size[h],
         \A d, e \in 0 .. b_size'[g] - 1 : tab'[g][d] = tab'[g][e] => d = e,
         \A e \in 0 .. b_size'[g] - 1 : tab'[g][e] \in DataBlocks \ UsedByOthers(g),
         ListsExactly(vol', DataBlocks \ (UsedByOthers(g) \cup UsedBy(g)'))
  PROVE  Accounted'
<1>1. \A h \in live : h \in Names
  BY DEF TypeOK
<1>2. \A h \in live \ {g} : UsedBy(h)' = UsedBy(h)
  BY <1>1 DEF UsedBy
<1>3. UsedByOthers(g)' = UsedByOthers(g)
  BY <1>2 DEF UsedByOthers
<1>4. UsedBy(g)' \subseteq DataBlocks \ UsedByOthers(g)
  BY DEF UsedBy
<1>5. EntriesDiffer'
  BY <1>1 DEF Accounted, EntriesDiffer
<1>6. ASSUME NEW h \in live'
      PROVE  UsedBy(h)' \subseteq DataBlocks \ UsedByOthers(h)'
  <2>1. CASE h = g
    BY <1>3, <1>4, <2>1
  <2>2. CASE h # g
    <3>1. UsedBy(h) \subseteq DataBlocks \ UsedByOthers(h)
      BY DEF Accounted, FilesDisjoint
    <3>2. UsedBy(h) \subseteq UsedByOthers(g)
      BY <2>2 DEF UsedByOthers
    <3>3. UsedByOthers(h)' \subseteq UsedByOthers(h) \cup UsedBy(g)'
      BY <1>2, <2>2 DEF UsedByOthers
    <3> QED
      BY <1>2, <1>4, <2>2, <3>1, <3>2, <3>3
  <2> QED
    BY <2>1, <2>2
<1>7. Used' = UsedByOthers(g) \cup UsedBy(g)'
  BY <1>3 DEF Used, UsedByOthers
<1>8. FilesDisjoint'
  BY <1>6 DEF FilesDisjoint
<1> QED
  BY <1>5, <1>7, <1>8 DEF Accounted

-----------------------------------------------------------------------------
(***************************************************************************)
(* fstream_free: the blocks of the entries from n on are pushed.           *)
(***************************************************************************)

(* The blocks from entry n up to entry i. *)
Between(ff, n, i) == {ff[e] : e \in n .. i - 1}

LEMMA FreedList ==
  ASSUME TypeOK, NEW v \in Volumes, NEW g \in Names, NEW ff \in Arrays,
         NEW n \in 0 .. b_size[g],
         NEW F \in SUBSET Blocks, ListsExactly(v, F),
         \A e \in n .. b_size[g] - 1 : ff[e] \in Blocks \ F,
         \A d, e \in n .. b_size[g] - 1 : ff[d] = ff[e] => d = e
  PROVE  /\ ListsExactly(Freed(v, g, n, ff), F \cup Between(ff, n, b_size[g]))
         /\ \A c \in Blocks \ Between(ff, n, b_size[g]) :
              /\ Freed(v, g, n, ff).link[c] = v.link[c]
              /\ Freed(v, g, n, ff).rest[c] = v.rest[c]
<1> DEFINE N == b_size[g]
           Same(w, i) == \A c \in Blocks \ Between(ff, n, i) :
                           w.link[c] = v.link[c] /\ w.rest[c] = v.rest[c]
<1>1. N \in Nat /\ n \in Nat /\ N \in 0 .. FENTRY_MAX_SIZE
  BY TypeParts, StreamAssumption
<1>0. PICK before : FreeRun(before, v, g, n, ff)
  BY <1>1, FreedRuns
<1>2. /\ before \in [0 .. N -> Volumes]
      /\ \A i \in 0 .. N : i <= n => before[i] = v
      /\ \A i \in 0 .. N - 1 : i >= n => before[i + 1] = Pushed(before[i], ff[i])
      /\ Freed(v, g, n, ff) = before[N]
  BY <1>0 DEF FreeRun
<1> DEFINE T == {i \in 0 .. N : i >= n =>
                   ListsExactly(before[i], F \cup Between(ff, n, i)) /\ Same(before[i], i)}
<1>3. ASSUME NEW i \in 0 .. N, i <= n
      PROVE  i \in T
  <2>1. before[i] = v /\ (i >= n => Between(ff, n, i) = {})
    BY <1>1, <1>2, <1>3 DEF Between
  <2> QED
    BY <2>1
<1>4. ASSUME NEW i \in 0 .. N - 1, i \in T
      PROVE  i + 1 \in T
  <2>1. i + 1 \in 0 .. N /\ i \in 0 .. N
    BY <1>1
  <2>2. CASE i < n
    BY <1>1, <1>3, <2>1, <2>2
  <2>3. CASE i >= n
    <3> DEFINE G == F \cup Between(ff, n, i)
    <3>1. Between(ff, n, i + 1) = Between(ff, n, i) \cup {ff[i]}
      BY <1>1, <2>3 DEF Between
    <3>2. G \in SUBSET Blocks /\ ff[i] \in Blocks \ G
      <4>1. \A e \in n .. i - 1 : e \in n .. N - 1 /\ e # i
        BY <1>1
      <4>2. i \in n .. N - 1
        BY <1>1, <2>3
      <4> QED
        BY <4>1, <4>2 DEF Between
    <3>3. before[i] \in Volumes /\ ListsExactly(before[i], G) /\ Same(before[i], i)
      BY <1>2, <1>4, <2>1, <2>3
    <3>4. before[i + 1] = Pushed(before[i], ff[i])
      BY <1>2, <2>3
    <3> DEFINE x == before[i]
               b == ff[i]
    <3> HIDE DEF G, x, b, T, Same
    <3>5. /\ ListsExactly(Pushed(x, b), G \cup {b})
          /\ \A c \in Blocks \ {b} :
               /\ Pushed(x, b).link[c] = x.link[c]
               /\ Pushed(x, b).rest[c] = x.rest[c]
      BY <3>2, <3>3, PushedBlock DEF x, b
    <3>6. G \cup {b} = F \cup Between(ff, n, i + 1)
      BY <3>1 DEF G, b
    <3>7. Same(before[i + 1], i + 1)
      BY <3>1, <3>3, <3>4, <3>5 DEF Same, x, b
    <3> QED
      BY <2>1, <3>4, <3>5, <3>6, <3>7 DEF T, x, b
  <2> QED
    BY <1>1, <2>2, <2>3
<1> HIDE DEF T
<1>5. \A i \in 0 .. N : i \in T
  <2>1. 0 \in T
    BY <1>1, <1>3
  <2> QED
    BY <1>1, <1>4, <2>1, UpTo
<1>6. N \in 0 .. N /\ N >= n
  BY <1>1
<1>7. ListsExactly(before[N], F \cup Between(ff, n, N)) /\ Same(before[N], N)
  BY <1>5, <1>6 DEF T
<1> QED
  BY <1>2, <1>7

-----------------------------------------------------------------------------
(***************************************************************************)
(* fstream_write: what is true of the disk and the array after any number  *)
(* of rounds, of a write to g that begins where g has blocks.              *)
(***************************************************************************)

Free == DataBlocks \ Used

Holds(v, b, image) ==
  /\ v.link[b] = image[0]
  /\ \A k \in Positions \ {0} : v.rest[b][k] = image[k]

(* What block e of g is to hold. *)
Wanted(e, g, off, n, w) == Image(g, Listing(g), e, off, n, w)

(* The array: the entries g had, then blocks that were free. *)
GoodArray(r, g) ==
  /\ \A e \in 0 .. b_size[g] - 1 : r.f[e] = tab[g][e]
  /\ \A e \in b_size[g] .. r.i - 1 : r.f[e] \in Free
  /\ \A d, e \in b_size[g] .. r.i - 1 : r.f[d] = r.f[e] => d = e

(* The error: only when no block is left for a new entry. *)
GoodError(r, g) ==
  /\ r.full => r.err = -ENOSPC /\ ~HasFree(r.vol) /\ r.i >= b_size[g]
  /\ ~r.full => r.err = 0

(* The disk: what the array has not taken is on the list, the blocks that *)
(* were written hold what they are to hold, no other one has changed.     *)
GoodDisk(r, g, off, n, w) ==
  /\ ListsExactly(r.vol, Free \ Between(r.f, b_size[g], r.i))
  /\ \A e \in First(off) .. r.i - 1 : Holds(r.vol, r.f[e], Wanted(e, g, off, n, w))
  /\ \A c \in Blocks \ Between(r.f, First(off), r.i) :
       r.vol.link[c] = vol.link[c] /\ r.vol.rest[c] = vol.rest[c]

Good(r, g, off, n, w) ==
  /\ r \in States /\ r.i >= First(off)
  /\ GoodArray(r, g)
  /\ GoodError(r, g)
  /\ GoodDisk(r, g, off, n, w)

(* The table that fstream_write stores: no block twice, none of another    *)
(* file, and the free list has what is left.                               *)
LEMMA GoodTable ==
  ASSUME TypeOK, Accounted, NEW g \in live, NEW r \in States, GoodArray(r, g)
  PROVE  /\ \A e \in 0 .. Max2(b_size[g], r.i) - 1 : r.f[e] \in DataBlocks \ UsedByOthers(g)
         /\ \A d, e \in 0 .. Max2(b_size[g], r.i) - 1 : r.f[d] = r.f[e] => d = e
         /\ Free \ Between(r.f, b_size[g], r.i)
              = DataBlocks \ (UsedByOthers(g) \cup Between(r.f, 0, Max2(b_size[g], r.i)))
<1> DEFINE old == b_size[g]
           N == Max2(old, r.i)
<1>1. old \in Nat /\ r.i \in Nat
  BY TypeParts, StateParts, StreamAssumption
<1>2. /\ N \in Nat
      /\ \A e \in 0 .. N - 1 : e \in 0 .. old - 1 \/ e \in old .. r.i - 1
      /\ 0 .. old - 1 \subseteq 0 .. N - 1 /\ old .. r.i - 1 \subseteq 0 .. N - 1
  BY <1>1 DEF Max2
<1> HIDE DEF N
<1>3. /\ \A e \in 0 .. old - 1 : r.f[e] = tab[g][e] /\ r.f[e] \in UsedBy(g)
      /\ \A e \in old .. r.i - 1 : r.f[e] \in Free
      /\ \A d, e \in old .. r.i - 1 : r.f[d] = r.f[e] => d = e
  BY DEF GoodArray, UsedBy
<1>4. /\ UsedBy(g) \subseteq DataBlocks \ UsedByOthers(g)
      /\ \A d, e \in 0 .. old - 1 : tab[g][d] = tab[g][e] => d = e
  BY DEF Accounted, FilesDisjoint, EntriesDiffer
<1>5. Free = DataBlocks \ (UsedBy(g) \cup UsedByOthers(g))
  BY UsedSplits DEF Free
<1>6. \A e \in 0 .. N - 1 : r.f[e] \in DataBlocks \ UsedByOthers(g)
  BY <1>2, <1>3, <1>4, <1>5
<1>7. ASSUME NEW d \in 0 .. N - 1, NEW e \in 0 .. N - 1, r.f[d] = r.f[e]
      PROVE  d = e
  <2>1. CASE d \in 0 .. old - 1 /\ e \in 0 .. old - 1
    BY <1>3, <1>4, <1>7, <2>1
  <2>2. CASE d \in old .. r.i - 1 /\ e \in old .. r.i - 1
    BY <1>3, <1>7, <2>2
  <2>3. CASE d \in 0 .. old - 1 /\ e \in old .. r.i - 1
    BY <1>3, <1>5, <1>7, <2>3
  <2>4. CASE d \in old .. r.i - 1 /\ e \in 0 .. old - 1
    BY <1>3, <1>5, <1>7, <2>4
  <2> QED
    BY <1>2, <2>1, <2>2, <2>3, <2>4
<1>8. Between(r.f, 0, N) = UsedBy(g) \cup Between(r.f, old, r.i)
  <2>1. \A b \in Between(r.f, 0, N) : b \in UsedBy(g) \cup Between(r.f, old, r.i)
    BY <1>2, <1>3 DEF Between
  <2>2. \A b \in UsedBy(g) : b \in Between(r.f, 0, N)
    BY <1>2, <1>3 DEF Between, UsedBy
  <2>3. \A b \in Between(r.f, old, r.i) : b \in Between(r.f, 0, N)
    BY <1>2 DEF Between
  <2> QED
    BY <2>1, <2>2, <2>3
<1>9. Free \ Between(r.f, old, r.i) = DataBlocks \ (UsedByOthers(g) \cup Between(r.f, 0, N))
  BY <1>5, <1>8
<1> QED
  BY <1>6, <1>7, <1>9 DEF N

(* A round that gives entry r.i the block b. *)
LEMMA GoodRound ==
  ASSUME TypeOK, Accounted, NEW g \in live, NEW off \in Nat, NEW n, NEW w, NEW r, NEW q \in States,
         Good(r, g, off, n, w), First(off) \in 0 .. b_size[g], r.i \in Entries,
         NEW b \in Blocks,
         q.f[r.i] = b, \A e \in Entries \ {r.i} : q.f[e] = r.f[e],
         q.i = r.i + 1, ~q.full, q.err = 0,
         r.i < b_size[g] => b = tab[g][r.i],
         r.i >= b_size[g] => b \in Free \ Between(r.f, b_size[g], r.i),
         Holds(q.vol, b, Wanted(r.i, g, off, n, w)),
         \A c \in Blocks \ {b} : q.vol.link[c] = r.vol.link[c] /\ q.vol.rest[c] = r.vol.rest[c],
         ListsExactly(q.vol, Free \ Between(q.f, b_size[g], q.i))
  PROVE  Good(q, g, off, n, w)
<1> DEFINE old == b_size[g]
           first == First(off)
           i == r.i
<1>1. /\ old \in Nat /\ first \in 0 .. old /\ r \in States /\ i \in Nat /\ first <= i
      /\ \A e \in 0 .. i : e \in Entries
      /\ \A e \in 0 .. old - 1 : e \in Entries
  BY TypeParts, StateParts, StreamAssumption DEF Good, Entries
<1>2. GoodArray(r, g) /\ GoodDisk(r, g, off, n, w)
  BY DEF Good
<1> HIDE DEF first, i, old
<1>3. \A e \in 0 .. i - 1 : q.f[e] = r.f[e]
  BY <1>1 DEF i
<1>4. ASSUME NEW e \in 0 .. i - 1
      PROVE  r.f[e] # b
  <2>1. CASE e \in old .. i - 1
    <3>1. r.f[e] \in Between(r.f, old, i) /\ i >= old
      BY <1>1, <2>1 DEF Between
    <3> QED
      BY <3>1 DEF i, old
  <2>2. CASE e \in 0 .. old - 1 /\ i >= old
    <3>1. r.f[e] \in Used
      BY <1>2, <2>2, UsedSplits DEF GoodArray, UsedBy, old
    <3> QED
      BY <2>2, <3>1 DEF Free, i, old
  <2>3. CASE e \in 0 .. old - 1 /\ i < old
    <3>1. r.f[e] = tab[g][e] /\ b = tab[g][i] /\ i \in 0 .. old - 1 /\ e # i
      BY <1>1, <1>2, <2>3 DEF GoodArray, i, old
    <3> QED
      BY <2>3, <3>1 DEF Accounted, EntriesDiffer, old
  <2> QED
    BY <1>1, <2>1, <2>2, <2>3
<1>5. GoodArray(q, g)
  <2>1. ASSUME NEW e \in 0 .. old - 1
        PROVE  q.f[e] = tab[g][e]
    <3>1. r.f[e] = tab[g][e]
      BY <1>2 DEF GoodArray, old
    <3>2. CASE e = i
      BY <1>1, <3>2 DEF i, old
    <3>3. CASE e # i
      BY <1>1, <3>1, <3>3 DEF i
    <3> QED
      BY <3>2, <3>3
  <2>2. \A e \in old .. q.i - 1 : e \in old .. i - 1 \/ (e = i /\ i >= old)
    BY <1>1 DEF i
  <2>3. ASSUME NEW e \in old .. q.i - 1
        PROVE  q.f[e] \in Free
    <3>1. CASE e \in old .. i - 1
      BY <1>1, <1>2, <1>3, <3>1 DEF GoodArray, i, old
    <3>2. CASE e = i /\ i >= old
      BY <3>2 DEF i, old
    <3> QED
      BY <2>2, <3>1, <3>2
  <2>4. ASSUME NEW d \in old .. q.i - 1, NEW e \in old .. q.i - 1, q.f[d] = q.f[e]
        PROVE  d = e
    <3>1. CASE d \in old .. i - 1 /\ e \in old .. i - 1
      BY <1>1, <1>2, <1>3, <2>4, <3>1 DEF GoodArray, i, old
    <3>2. CASE d = i /\ e = i
      BY <3>2
    <3>3. CASE d \in old .. i - 1 /\ e = i
      BY <1>1, <1>3, <1>4, <2>4, <3>3 DEF i
    <3>4. CASE d = i /\ e \in old .. i - 1
      BY <1>1, <1>3, <1>4, <2>4, <3>4 DEF i
    <3> QED
      BY <2>2, <3>1, <3>2, <3>3, <3>4
  <2> QED
    BY <2>1, <2>3, <2>4 DEF GoodArray, old
<1>6. \A e \in first .. q.i - 1 : e \in first .. i - 1 \/ e = i
  BY <1>1 DEF i
<1>7. Between(q.f, first, q.i) = Between(r.f, first, i) \cup {b}
  <2>1. \A c \in Between(q.f, first, q.i) : c \in Between(r.f, first, i) \cup {b}
    BY <1>1, <1>3, <1>6 DEF Between, i
  <2>2. \A c \in Between(r.f, first, i) \cup {b} : c \in Between(q.f, first, q.i)
    BY <1>1, <1>3 DEF Between, i
  <2> QED
    BY <2>1, <2>2
<1>8. ASSUME NEW e \in first .. q.i - 1
      PROVE  Holds(q.vol, q.f[e], Wanted(e, g, off, n, w))
  <2>1. CASE e \in first .. i - 1
    <3>1. e \in 0 .. i - 1 /\ q.f[e] = r.f[e] /\ r.f[e] # b
      BY <1>1, <1>3, <1>4, <2>1
    <3>2. Holds(r.vol, r.f[e], Wanted(e, g, off, n, w))
      BY <1>2, <2>1 DEF GoodDisk, first, i
    <3>3. r.f[e] \in Blocks
      <4>1. e \in 0 .. Max2(b_size[g], r.i) - 1
        BY <1>1, <3>1 DEF Max2, i, old
      <4> QED
        BY <1>1, <1>2, <4>1, GoodTable, DataIsBlocks
    <3> QED
      BY <3>1, <3>2, <3>3 DEF Holds
  <2>2. CASE e = i
    BY <2>2 DEF i
  <2> QED
    BY <1>6, <2>1, <2>2
<1>9. \A c \in Blocks \ Between(q.f, first, q.i) :
        q.vol.link[c] = vol.link[c] /\ q.vol.rest[c] = vol.rest[c]
  BY <1>2, <1>7 DEF GoodDisk, first, i
<1>10. GoodDisk(q, g, off, n, w)
  BY <1>8, <1>9 DEF GoodDisk, first
<1>11. GoodError(q, g)
  BY DEF GoodError
<1> QED
  BY <1>1, <1>5, <1>10, <1>11 DEF Good, first, i

(* One round, as long as there is a further entry. *)
LEMMA PutIsGood ==
  ASSUME TypeOK, Accounted, NEW g \in live, NEW off \in Nat, NEW n, NEW w \in Data, NEW r,
         Good(r, g, off, n, w), First(off) \in 0 .. b_size[g], r.i \in Entries
  PROVE  /\ Good(Put(r, g, off, n, w), g, off, n, w)
         /\ Put(r, g, off, n, w).i \in {r.i, r.i + 1}
         /\ Put(r, g, off, n, w).i = r.i + 1 \/ Put(r, g, off, n, w).full
         /\ r.full => Put(r, g, off, n, w) = r
<1> DEFINE q == Put(r, g, off, n, w)
           image == Wanted(r.i, g, off, n, w)
           F == Free \ Between(r.f, b_size[g], r.i)
<1>1. /\ r \in States /\ r.vol \in Volumes /\ r.f \in Arrays /\ r.i \in Nat /\ r.i + 1 \in Nat
      /\ r.i \in Entries /\ g \in Names
  BY StateParts, TypeParts DEF Good
<1>2. q \in States
  BY <1>1, PutIsState
<1>3. image \in Images
  BY <1>1, ImageType DEF Wanted
<1>4. /\ ListsExactly(r.vol, F) /\ F \subseteq Blocks /\ F \in BlockSets
      /\ GoodArray(r, g) /\ GoodError(r, g)
  <2>1. F \subseteq Blocks
    BY DataIsBlocks DEF Free
  <2>2. F \in BlockSets
    BY <2>1 DEF BlockSets, Blocks
  <2> QED
    BY <2>1, <2>2 DEF Good, GoodDisk
<1>5. CASE r.full
  BY <1>5 DEF Put
<1>6. CASE ~r.full /\ r.i < b_size[g]
  <2> DEFINE b == r.f[r.i]
             v == BlockWritten(r.vol, b, image)
  <2>1. b = tab[g][r.i] /\ b \in UsedBy(g)
    <3>1. r.i \in 0 .. b_size[g] - 1
      BY <1>1, <1>6, TypeParts, StreamAssumption
    <3> QED
      BY <1>4, <3>1 DEF GoodArray, UsedBy
  <2>2. b \in Blocks /\ b \notin F
    BY <2>1, UsedSplits, DataIsBlocks DEF Accounted, FilesDisjoint, Free
  <2>3. /\ v \in Volumes /\ Holds(v, b, image) /\ ListsExactly(v, F)
        /\ \A c \in Blocks \ {b} : v.link[c] = r.vol.link[c] /\ v.rest[c] = r.vol.rest[c]
    <3> HIDE DEF b, image, F
    <3>1. ListsExactly(v, F)
      BY <1>1, <1>3, <1>4, <2>2, WrittenKeepsList
    <3>2. /\ v \in Volumes /\ Holds(v, b, image)
          /\ \A c \in Blocks \ {b} : v.link[c] = r.vol.link[c] /\ v.rest[c] = r.vol.rest[c]
      BY <1>1, <1>3, <2>2, WrittenBlock DEF Holds
    <3> QED
      BY <3>1, <3>2
  <2>4. r.err = 0
    BY <1>4, <1>6 DEF GoodError
  <2>5. q = Round(v, r.f, r.i + 1, r.err, FALSE)
    BY <1>6 DEF Put, Wanted
  <2> HIDE DEF q, v, image
  <2>6. q.vol = v /\ q.f = r.f /\ q.i = r.i + 1 /\ q.err = 0 /\ ~q.full
    BY <2>4, <2>5 DEF Round
  <2>7. ListsExactly(q.vol, Free \ Between(q.f, b_size[g], q.i))
    <3>1. Between(q.f, b_size[g], q.i) = {} /\ Between(r.f, b_size[g], r.i) = {}
      BY <1>1, <1>6, <2>6, TypeParts, StreamAssumption DEF Between
    <3> QED
      BY <2>3, <2>6, <3>1
  <2>8. /\ Holds(q.vol, b, Wanted(r.i, g, off, n, w))
        /\ \A c \in Blocks \ {b} : q.vol.link[c] = r.vol.link[c] /\ q.vol.rest[c] = r.vol.rest[c]
        /\ q.f[r.i] = b /\ \A e \in Entries \ {r.i} : q.f[e] = r.f[e]
    BY <2>3, <2>6 DEF image
  <2>9. ~(r.i >= b_size[g])
    BY <1>1, <1>6, TypeParts, StreamAssumption
  <2>10. q.i = r.i + 1 /\ ~q.full /\ q.err = 0
    BY <2>6
  <2> HIDE DEF b
  <2>11. Good(q, g, off, n, w)
    BY <1>1, <1>2, <2>1, <2>2, <2>7, <2>8, <2>9, <2>10, GoodRound
  <2> QED
    BY <1>6, <2>10, <2>11 DEF q
<1>7. CASE ~r.full /\ ~(r.i < b_size[g]) /\ HasFree(r.vol)
  <2> DEFINE b == r.vol.head
             v == Allocated(r.vol, image)
             ff == [r.f EXCEPT ![r.i] = b]
  <2>1. /\ v \in Volumes /\ Holds(v, b, image) /\ ListsExactly(v, F \ {b})
        /\ \A c \in Blocks \ {b} : v.link[c] = r.vol.link[c] /\ v.rest[c] = r.vol.rest[c]
        /\ b \in F /\ b \in Blocks
    BY <1>1, <1>3, <1>4, <1>7, AllocatedBlock DEF Holds
  <2>2. r.err = 0
    BY <1>4, <1>7 DEF GoodError
  <2>3. q = Round(v, ff, r.i + 1, r.err, FALSE)
    BY <1>7 DEF Put, Wanted
  <2>4. ff[r.i] = b /\ \A e \in Entries \ {r.i} : ff[e] = r.f[e]
    <3>1. b \in Int
      BY <1>1, VolumeParts
    <3>2. r.f \in [Entries -> Int] /\ r.i \in Entries
      BY <1>1 DEF Arrays
    <3> HIDE DEF b
    <3> QED
      BY Zenon, <3>1, <3>2
  <2> HIDE DEF q, v, image, ff, b
  <2>5. q.vol = v /\ q.f = ff /\ q.i = r.i + 1 /\ q.err = 0 /\ ~q.full
    BY <2>2, <2>3 DEF Round
  <2>6. b_size[g] \in Nat /\ r.i >= b_size[g]
    BY <1>1, <1>7, TypeParts, StreamAssumption
  <2>7. ListsExactly(q.vol, Free \ Between(q.f, b_size[g], q.i))
    <3>1. \A e \in b_size[g] .. q.i - 1 :
            (e \in b_size[g] .. r.i - 1 /\ ff[e] = r.f[e]) \/ (e = r.i /\ ff[e] = b)
      <4>1. ASSUME NEW e \in b_size[g] .. q.i - 1, e # r.i
            PROVE  e \in b_size[g] .. r.i - 1 /\ ff[e] = r.f[e]
        <5>1. e \in Entries
          BY <1>1, <2>5, <2>6, <4>1, StreamAssumption DEF Entries
        <5> QED
          BY <1>1, <2>4, <2>5, <2>6, <4>1, <5>1
      <4> QED
        BY <2>4, <4>1
    <3>2. /\ r.i \in b_size[g] .. q.i - 1
          /\ \A e \in b_size[g] .. r.i - 1 : e \in b_size[g] .. q.i - 1 /\ e # r.i
      BY <1>1, <2>5, <2>6
    <3>3. Between(ff, b_size[g], q.i) = Between(r.f, b_size[g], r.i) \cup {b}
      <4>1. \A c \in Between(ff, b_size[g], q.i) : c \in Between(r.f, b_size[g], r.i) \cup {b}
        BY <3>1 DEF Between
      <4>2. \A c \in Between(r.f, b_size[g], r.i) : c \in Between(ff, b_size[g], q.i)
        BY <3>1, <3>2 DEF Between
      <4>3. b \in Between(ff, b_size[g], q.i)
        BY <2>4, <3>2 DEF Between
      <4> QED
        BY <4>1, <4>2, <4>3
    <3>4. Free \ Between(q.f, b_size[g], q.i) = F \ {b}
      BY <2>5, <3>3
    <3> QED
      BY <2>1, <2>5, <3>4
  <2>8. /\ Holds(q.vol, b, Wanted(r.i, g, off, n, w))
        /\ \A c \in Blocks \ {b} : q.vol.link[c] = r.vol.link[c] /\ q.vol.rest[c] = r.vol.rest[c]
        /\ q.f[r.i] = b /\ \A e \in Entries \ {r.i} : q.f[e] = r.f[e]
    BY <2>1, <2>4, <2>5 DEF image
  <2>9. q.i = r.i + 1 /\ ~q.full /\ q.err = 0
    BY <2>5
  <2>10. b \in Free \ Between(r.f, b_size[g], r.i) /\ b \in Blocks
    BY <2>1
  <2>11. Good(q, g, off, n, w)
    BY <1>1, <1>2, <1>7, <2>7, <2>8, <2>9, <2>10, GoodRound
  <2> QED
    BY <1>7, <2>9, <2>11 DEF q
<1>8. CASE ~r.full /\ ~(r.i < b_size[g]) /\ ~HasFree(r.vol)
  <2>1. r.vol.head = NIL
    BY <1>4, <1>8, ExhaustedList
  <2>2. q = Round(r.vol, r.f, r.i, -ENOSPC, TRUE)
    BY <1>8, <2>1 DEF Put, NIL
  <2> HIDE DEF q
  <2>3. q.vol = r.vol /\ q.f = r.f /\ q.i = r.i /\ q.err = -ENOSPC /\ q.full
    BY <2>2 DEF Round
  <2>4. r.i >= b_size[g]
    BY <1>1, <1>8, TypeParts, StreamAssumption
  <2>5. GoodError(q, g)
    BY <1>8, <2>3, <2>4 DEF GoodError
  <2>6. GoodArray(q, g)
    BY <1>4, <2>3 DEF GoodArray
  <2>7. GoodDisk(q, g, off, n, w)
    BY <2>3 DEF Good, GoodDisk
  <2>8. Good(q, g, off, n, w)
    BY <1>2, <2>3, <2>5, <2>6, <2>7 DEF Good
  <2> QED
    BY <1>8, <2>3, <2>8 DEF q
<1> QED
  BY <1>5, <1>6, <1>7, <1>8

(* The loop of fstream_write: it goes on to the end of the request, or of  *)
(* the table, unless no block is left.                                     *)
LEMMA WrittenIsGood ==
  ASSUME TypeOK, Accounted, ERRNO = 0, NEW g \in live, NEW w \in Data,
         NEW off \in 0 .. FCONTENT_MAX_SIZE, NEW n \in Nat \ {0},
         First(off) <= b_size[g]
  PROVE  /\ Good(Written(g, off, n, w), g, off, n, w)
         /\ Written(g, off, n, w).i <= Min2(End(off, n), FENTRY_MAX_SIZE)
         /\ \/ Written(g, off, n, w).full
            \/ Written(g, off, n, w).i = Min2(End(off, n), FENTRY_MAX_SIZE)
<1> DEFINE N == WriteRounds(off, n)
           first == First(off)
<1>1. /\ N \in Nat /\ first \in 0 .. FENTRY_MAX_SIZE /\ g \in Names
      /\ first + N = Min2(End(off, n), FENTRY_MAX_SIZE)
      /\ FENTRY_MAX_SIZE \in Nat /\ End(off, n) \in Nat
      /\ first \in 0 .. b_size[g] /\ b_size[g] \in Nat
  BY RequestRange, TypeParts, StreamAssumption
<1>2. off \in Nat /\ first + N <= FENTRY_MAX_SIZE
  BY <1>1 DEF Min2
<1>3. PICK after : WriteRun(after, g, off, n, w)
  BY <1>1, WrittenRuns
<1>4. /\ after \in [0 .. N -> States]
      /\ after[0] = Round(vol, Listing(g), first, ERRNO, FALSE)
      /\ \A k \in 0 .. N - 1 : after[k + 1] = Put(after[k], g, off, n, w)
      /\ Written(g, off, n, w) = after[N]
  BY <1>3 DEF WriteRun
<1> DEFINE Reached(k) == /\ Good(after[k], g, off, n, w)
                         /\ after[k].i <= first + k
                         /\ after[k].full \/ after[k].i = first + k
           T == {k \in 0 .. N : Reached(k)}
<1> HIDE DEF N, first
<1>5. 0 \in T
  <2> DEFINE r == after[0]
  <2>1. r \in States
    <3>1. 0 \in 0 .. N
      BY <1>1
    <3> QED
      BY <1>4, <3>1
  <2>2. r.vol = vol /\ r.f = Listing(g) /\ r.i = first /\ r.err = 0 /\ ~r.full
    BY <1>4 DEF Round
  <2> HIDE DEF r
  <2>3. GoodArray(r, g)
    <3>1. \A e \in 0 .. b_size[g] - 1 : r.f[e] = tab[g][e]
      BY <1>1, <2>2, ListingIs
    <3>2. b_size[g] .. r.i - 1 = {}
      BY <1>1, <2>2
    <3> QED
      BY <3>1, <3>2 DEF GoodArray
  <2>4. GoodError(r, g)
    BY <2>2 DEF GoodError
  <2>5. GoodDisk(r, g, off, n, w)
    <3>1. Between(r.f, b_size[g], r.i) = {} /\ first .. r.i - 1 = {}
      BY <1>1, <2>2 DEF Between
    <3> QED
      BY <2>2, <3>1 DEF GoodDisk, Accounted, Free, first
  <2>6. Good(r, g, off, n, w)
    BY <1>1, <2>1, <2>2, <2>3, <2>4, <2>5 DEF Good, first
  <2>7. r.i <= first + 0 /\ r.i = first + 0
    BY <1>1, <2>2
  <2> QED
    BY <1>1, <2>6, <2>7 DEF r
<1>6. ASSUME NEW k \in 0 .. N - 1, k \in T
      PROVE  k + 1 \in T
  <2> DEFINE r == after[k]
             q == after[k + 1]
  <2>1. k \in Nat /\ k \in 0 .. N /\ k + 1 \in 0 .. N
    BY <1>1
  <2>2. r \in States /\ q = Put(r, g, off, n, w) /\ q \in States
    BY <1>4, <2>1
  <2>3. Good(r, g, off, n, w) /\ r.i <= first + k /\ (r.full \/ r.i = first + k)
    BY <1>6
  <2> HIDE DEF r, q
  <2>4. r.i \in Nat /\ q.i \in Nat
    BY <2>2, StateParts
  <2>5. r.i \in Entries
    BY <1>1, <1>2, <2>1, <2>3, <2>4 DEF Entries
  <2>6. /\ Good(q, g, off, n, w) /\ q.i \in {r.i, r.i + 1}
        /\ q.i = r.i + 1 \/ q.full
        /\ r.full => q = r
    BY <1>1, <1>2, <2>2, <2>3, <2>5, PutIsGood DEF first
  <2>7. q.i <= first + (k + 1) /\ (q.full \/ q.i = first + (k + 1))
    BY <1>1, <2>1, <2>3, <2>4, <2>6
  <2> QED
    BY <2>1, <2>6, <2>7 DEF q
<1> HIDE DEF T
<1>7. \A k \in 0 .. N : k \in T
  BY <1>1, <1>5, <1>6, UpTo
<1>8. Reached(N)
  BY <1>1, <1>7 DEF T
<1> QED
  BY <1>1, <1>4, <1>8

-----------------------------------------------------------------------------
(***************************************************************************)
(* The calls, as programs use them that make no holes and do not grow a    *)
(* file by truncating it.                                                  *)
(***************************************************************************)

LEMMA WriteInOrder ==
  ASSUME TypeOK, "hole" \notin OutOfOrder, NEW g \in live, NEW off \in 0 .. FCONTENT_MAX_SIZE,
         NEW n \in 1 .. MaxRequest, WriteRequested(g, off, n)
  PROVE  off <= f_size[g] /\ off <= b_size[g] * BLOCK_SIZE /\ First(off) <= b_size[g]
<1>1. /\ BLOCK_SIZE \in Nat \ {0} /\ b_size[g] \in Nat /\ off \in Nat
      /\ FCONTENT_MAX_SIZE \in Nat /\ f_size[g] \in Nat
  <2>1. FCONTENT_MAX_SIZE \in Nat /\ BLOCK_SIZE \in Nat \ {0} /\ FENTRY_MAX_SIZE \in Nat
    BY StreamAssumption DEF FCONTENT_MAX_SIZE
  <2> QED
    BY <2>1 DEF TypeOK
<1> DEFINE m == b_size[g] * BLOCK_SIZE
<1>2. m \in Nat /\ off <= Min2(f_size[g], m)
  BY <1>1 DEF WriteRequested, Backed
<1> HIDE DEF m
<1>3. off <= f_size[g] /\ off <= m
  BY <1>1, <1>2 DEF Min2
<1>4. off < (b_size[g] + 1) * BLOCK_SIZE
  <2>1. (b_size[g] + 1) * BLOCK_SIZE = m + BLOCK_SIZE
    BY <1>1 DEF m
  <2> QED
    BY <1>1, <1>2, <1>3, <2>1
<1>5. off \div BLOCK_SIZE < b_size[g] + 1 /\ off \div BLOCK_SIZE \in Nat
  <2>1. b_size[g] + 1 \in Nat
    BY <1>1
  <2> QED
    BY <1>1, <1>4, <2>1, QuotientBelow, Quotient
<1> QED
  BY <1>1, <1>3, <1>5 DEF First, m

(* sfs_write. *)
LEMMA WriteEffect ==
  ASSUME IInv, "hole" \notin OutOfOrder, NEW g \in live, NEW off \in 0 .. FCONTENT_MAX_SIZE,
         NEW n \in 1 .. MaxRequest, NEW w \in Data,
         WriteRequested(g, off, n), sfs_write(g, off, n, w),
         NEW r, r = Written(g, off, n, w)
  PROVE  /\ Good(r, g, off, n, w)
         /\ r.i <= Min2(End(off, n), FENTRY_MAX_SIZE)
         /\ r.full \/ r.i = Min2(End(off, n), FENTRY_MAX_SIZE)
         /\ vol' = r.vol /\ ERRNO' = 0 /\ live' = live /\ (failed' <=> r.full)
         /\ f_size' = [f_size EXCEPT ![g] = Min2(Max2(f_size[g], off + n), FCONTENT_MAX_SIZE)]
         /\ \A h \in Names \ {g} : tab'[h] = tab[h] /\ b_size'[h] = b_size[h]
         /\ b_size'[g] = Max2(b_size[g], r.i)
         /\ \A e \in 0 .. b_size'[g] - 1 : tab'[g][e] = r.f[e]
<1>1. TypeOK /\ Accounted /\ ERRNO = 0 /\ g \in Names /\ n \in Nat \ {0}
  BY TypeParts DEF IInv
<1>2. First(off) <= b_size[g]
  BY <1>1, WriteInOrder
<1>3. /\ Good(r, g, off, n, w)
      /\ r.i <= Min2(End(off, n), FENTRY_MAX_SIZE)
      /\ r.full \/ r.i = Min2(End(off, n), FENTRY_MAX_SIZE)
  BY <1>1, <1>2, WrittenIsGood
<1> DEFINE m == Min2(Max2(b_size[g], r.i), FENTRY_MAX_SIZE)
<1>4. /\ SetListing(g, m, r.f)
      /\ f_size' = [f_size EXCEPT ![g] = Min2(Max2(f_size[g], off + n), FCONTENT_MAX_SIZE)]
      /\ failed' = (WriteError(r) # 0)
      /\ vol' = IF failed' /\ HasFree(r.vol) THEN Unlinked(r.vol) ELSE r.vol
      /\ ERRNO' = 0 /\ live' = live
  BY DEF sfs_write, ErrorLeft
<1>5. r \in States /\ GoodError(r, g)
  BY <1>3 DEF Good
<1>6. /\ r.i \in Nat /\ r.f \in Arrays /\ End(off, n) \in Nat
      /\ FENTRY_MAX_SIZE \in Nat /\ b_size[g] \in 0 .. FENTRY_MAX_SIZE
  BY <1>1, <1>5, StateParts, RequestRange, TypeParts, StreamAssumption
<1>7. r.i <= FENTRY_MAX_SIZE
  BY <1>3, <1>6 DEF Min2
<1>8. m = Max2(b_size[g], r.i) /\ m \in 0 .. FENTRY_MAX_SIZE
  BY <1>6, <1>7 DEF Min2, Max2
<1>9. WriteError(r) = r.err
  BY <1>6, <1>7 DEF WriteError
<1>10. failed' <=> r.full
  <2>1. r.full => r.err # 0
    BY <1>5 DEF GoodError, ENOSPC
  <2>2. ~r.full => r.err = 0
    BY <1>5 DEF GoodError
  <2> QED
    BY Zenon, <1>4, <1>9, <2>1, <2>2
<1>11. vol' = r.vol
  BY <1>4, <1>5, <1>10 DEF GoodError
<1> HIDE DEF m
<1>12. /\ \A h \in Names \ {g} : tab'[h] = tab[h] /\ b_size'[h] = b_size[h]
       /\ b_size'[g] = m
       /\ \A e \in 0 .. m - 1 : tab'[g][e] = r.f[e]
  BY <1>1, <1>4, <1>6, <1>8, TableSet
<1> QED
  BY <1>3, <1>4, <1>8, <1>10, <1>11, <1>12

LEMMA WriteKeepsAccounts ==
  ASSUME IInv, "hole" \notin OutOfOrder, NEW g \in live, NEW off \in 0 .. FCONTENT_MAX_SIZE,
         NEW n \in 1 .. MaxRequest, NEW w \in Data,
         WriteRequested(g, off, n), sfs_write(g, off, n, w)
  PROVE  Accounted' /\ ERRNO' = 0 /\ (failed' => Used' = DataBlocks)
<1> DEFINE r == Written(g, off, n, w)
<1> HIDE DEF r
<1>0. TypeOK /\ Accounted
  BY DEF IInv
<1>1. /\ Good(r, g, off, n, w)
      /\ vol' = r.vol /\ ERRNO' = 0 /\ live' = live /\ (failed' <=> r.full)
      /\ \A h \in Names \ {g} : tab'[h] = tab[h] /\ b_size'[h] = b_size[h]
      /\ b_size'[g] = Max2(b_size[g], r.i)
      /\ \A e \in 0 .. b_size'[g] - 1 : tab'[g][e] = r.f[e]
  BY WriteEffect DEF r
<1>2. r \in States /\ GoodArray(r, g) /\ GoodError(r, g)
      /\ ListsExactly(r.vol, Free \ Between(r.f, b_size[g], r.i))
  BY <1>1 DEF Good, GoodDisk
<1>3. /\ \A e \in 0 .. b_size'[g] - 1 : r.f[e] \in DataBlocks \ UsedByOthers(g)
      /\ \A d, e \in 0 .. b_size'[g] - 1 : r.f[d] = r.f[e] => d = e
      /\ Free \ Between(r.f, b_size[g], r.i)
           = DataBlocks \ (UsedByOthers(g) \cup Between(r.f, 0, b_size'[g]))
  BY <1>0, <1>1, <1>2, GoodTable
<1>4. UsedBy(g)' = Between(r.f, 0, b_size'[g])
  BY <1>1 DEF UsedBy, Between
<1>5. Accounted'
  BY <1>0, <1>1, <1>2, <1>3, <1>4, OneFileChanges
<1>6. ASSUME failed'
      PROVE  Used' = DataBlocks
  <2> DEFINE F == DataBlocks \ Used'
  <2>1. ListsExactly(vol', F) /\ F \in BlockSets /\ Used' \subseteq DataBlocks
    <3>1. ListsExactly(vol', F) /\ Used' \subseteq DataBlocks
      BY <1>5 DEF Accounted, FilesDisjoint, Used
    <3> QED
      BY <3>1, DataIsBlocks DEF BlockSets, Blocks
  <2>2. ~HasFree(vol')
    BY <1>1, <1>2, <1>6 DEF GoodError
  <2>3. F = {}
    BY <2>1, <2>2, ExhaustedList
  <2> QED
    BY <2>1, <2>3
<1> QED
  BY <1>1, <1>5, <1>6

(* The blocks of a file of this size. *)
Needed(off) == (off \div BLOCK_SIZE) + 1

(* sfs_truncate: it needs no new block, and pushes the blocks past the new *)
(* size.                                                                   *)
LEMMA TruncateEffect ==
  ASSUME IInv, "grow" \notin OutOfOrder, NEW g \in live, NEW off \in 0 .. FCONTENT_MAX_SIZE - 1,
         TruncateRequested(g, off), sfs_truncate(g, off)
  PROVE  /\ Needed(off) \in 1 .. b_size[g] /\ off <= f_size[g]
         /\ ListsExactly(vol', Free \cup Between(tab[g], Needed(off), b_size[g]))
         /\ \A c \in Blocks \ Between(tab[g], Needed(off), b_size[g]) :
              vol'.link[c] = vol.link[c] /\ vol'.rest[c] = vol.rest[c]
         /\ ERRNO' = 0 /\ live' = live /\ failed' = FALSE
         /\ f_size' = [f_size EXCEPT ![g] = off]
         /\ \A h \in Names \ {g} : tab'[h] = tab[h] /\ b_size'[h] = b_size[h]
         /\ b_size'[g] = Needed(off)
         /\ \A e \in 0 .. Needed(off) - 1 : tab'[g][e] = tab[g][e]
<1> DEFINE n == Needed(off)
           old == b_size[g]
           ff == Relisted(g, n)
<1>1. /\ TypeOK /\ Accounted /\ ERRNO = 0 /\ g \in Names
      /\ old \in 0 .. FENTRY_MAX_SIZE /\ FENTRY_MAX_SIZE \in Nat
      /\ vol \in Volumes
  BY TypeParts, StreamAssumption DEF IInv
<1>0. n = (off \div BLOCK_SIZE) + 1
  BY DEF Needed
<1> HIDE DEF n
<1>2. n \in 1 .. old /\ off <= f_size[g]
  <2>1. off \div BLOCK_SIZE < old /\ off <= f_size[g]
    BY DEF TruncateRequested
  <2>2. n \in 1 .. FENTRY_MAX_SIZE
    BY <1>0, TruncateRange
  <2>3. off \div BLOCK_SIZE \in Int
    BY <1>1, StreamAssumption DEF FCONTENT_MAX_SIZE
  <2> QED
    BY <1>0, <1>1, <2>1, <2>2, <2>3
<1>3. Grown(g, n) = Round(vol, Listing(g), old, 0, FALSE)
  <2>1. n \in Nat /\ n <= old
    BY <1>1, <1>2
  <2> HIDE DEF old
  <2> QED
    BY <1>1, <2>1, GrownIsState DEF old
<1>4. Grown(g, n).vol = vol /\ Grown(g, n).err = 0
  BY <1>3 DEF Round
<1>5. /\ vol' = Freed(vol, g, n, ff) /\ SetListing(g, n, ff)
      /\ f_size' = [f_size EXCEPT ![g] = off]
      /\ ERRNO' = 0 /\ failed' = FALSE /\ live' = live
  BY <1>0, <1>4 DEF sfs_truncate, Relisted
<1>6. ff \in Arrays
  BY <1>1, <1>2, RelistedType
<1>7. \A e \in 0 .. old - 1 : ff[e] = tab[g][e]
  <2>1. Covered(old) \in Nat /\ old <= Covered(old)
    BY <1>1, Reach
  <2> QED
    BY <1>1, <2>1 DEF Relisted, Entries
<1> HIDE DEF ff, old
<1>8. \A e \in n .. old - 1 : e \in 0 .. old - 1
  BY <1>1, <1>2
<1>9. Between(ff, n, old) = Between(tab[g], n, old)
  BY <1>7, <1>8 DEF Between
<1>10. /\ ListsExactly(vol', Free \cup Between(tab[g], n, old))
       /\ \A c \in Blocks \ Between(tab[g], n, old) :
            vol'.link[c] = vol.link[c] /\ vol'.rest[c] = vol.rest[c]
  <2>1. Free \in SUBSET Blocks /\ ListsExactly(vol, Free)
    BY <1>1, DataIsBlocks DEF Free, Accounted
  <2>2. \A e \in n .. old - 1 : ff[e] \in Blocks \ Free
    <3>1. \A e \in 0 .. old - 1 : tab[g][e] \in DataBlocks /\ tab[g][e] \in Used
      BY <1>1, UsedSplits DEF Accounted, FilesDisjoint, UsedBy, old
    <3> QED
      BY <1>7, <1>8, <3>1, DataIsBlocks DEF Free
  <2>3. \A d, e \in n .. old - 1 : ff[d] = ff[e] => d = e
    BY <1>1, <1>7, <1>8 DEF Accounted, EntriesDiffer, old
  <2>4. n \in 0 .. old
    BY <1>1, <1>2
  <2>5. /\ ListsExactly(Freed(vol, g, n, ff), Free \cup Between(ff, n, old))
        /\ \A c \in Blocks \ Between(ff, n, old) :
             /\ Freed(vol, g, n, ff).link[c] = vol.link[c]
             /\ Freed(vol, g, n, ff).rest[c] = vol.rest[c]
    BY <1>1, <1>6, <2>1, <2>2, <2>3, <2>4, FreedList DEF old
  <2> QED
    BY <1>5, <1>9, <2>5
<1>11. /\ \A h \in Names \ {g} : tab'[h] = tab[h] /\ b_size'[h] = b_size[h]
       /\ b_size'[g] = n
       /\ \A e \in 0 .. n - 1 : tab'[g][e] = ff[e]
  <2>1. n \in 0 .. FENTRY_MAX_SIZE
    BY <1>1, <1>2
  <2> QED
    BY <1>1, <1>5, <1>6, <2>1, TableSet
<1>12. \A e \in 0 .. n - 1 : tab'[g][e] = tab[g][e]
  <2>1. \A e \in 0 .. n - 1 : e \in 0 .. old - 1
    BY <1>1, <1>2
  <2> QED
    BY <1>7, <1>11, <2>1
<1> QED
  BY <1>2, <1>5, <1>10, <1>11, <1>12 DEF old, n

LEMMA TruncateKeepsAccounts ==
  ASSUME IInv, "grow" \notin OutOfOrder, NEW g \in live, NEW off \in 0 .. FCONTENT_MAX_SIZE - 1,
         TruncateRequested(g, off), sfs_truncate(g, off)
  PROVE  Accounted' /\ ERRNO' = 0
<1> DEFINE n == Needed(off)
           old == b_size[g]
<1>1. /\ n \in 1 .. old
      /\ ListsExactly(vol', Free \cup Between(tab[g], n, old))
      /\ ERRNO' = 0 /\ live' = live
      /\ \A h \in Names \ {g} : tab'[h] = tab[h] /\ b_size'[h] = b_size[h]
      /\ b_size'[g] = n
      /\ \A e \in 0 .. n - 1 : tab'[g][e] = tab[g][e]
  BY TruncateEffect
<1>2. TypeOK /\ Accounted /\ old \in Nat
  BY TypeParts, StreamAssumption DEF IInv
<1> HIDE DEF n, old
<1>3. /\ \A e \in 0 .. n - 1 : e \in 0 .. old - 1 /\ e \notin n .. old - 1
      /\ \A e \in n .. old - 1 : e \in 0 .. old - 1
      /\ \A e \in 0 .. old - 1 : e \in 0 .. n - 1 \/ e \in n .. old - 1
  BY <1>1, <1>2
<1>4. /\ \A e \in 0 .. old - 1 : tab[g][e] \in DataBlocks \ UsedByOthers(g)
      /\ \A d, e \in 0 .. old - 1 : tab[g][d] = tab[g][e] => d = e
  BY <1>2 DEF Accounted, FilesDisjoint, EntriesDiffer, UsedBy, old
<1>5. Free \cup Between(tab[g], n, old) = DataBlocks \ (UsedByOthers(g) \cup UsedBy(g)')
  <2>1. UsedBy(g)' = Between(tab[g], 0, n)
    BY <1>1 DEF UsedBy, Between
  <2>2. UsedBy(g) = Between(tab[g], 0, n) \cup Between(tab[g], n, old)
    <3>1. \A b \in UsedBy(g) : b \in Between(tab[g], 0, n) \cup Between(tab[g], n, old)
      BY <1>3 DEF UsedBy, Between, old
    <3>2. \A b \in Between(tab[g], 0, n) \cup Between(tab[g], n, old) : b \in UsedBy(g)
      BY <1>3 DEF UsedBy, Between, old
    <3> QED
      BY <3>1, <3>2
  <2>3. \A b \in Between(tab[g], n, old) : b \notin Between(tab[g], 0, n)
    BY <1>3, <1>4 DEF Between
  <2>4. Between(tab[g], n, old) \subseteq DataBlocks \ UsedByOthers(g)
    BY <1>3, <1>4 DEF Between
  <2>5. Free = DataBlocks \ (UsedByOthers(g) \cup UsedBy(g))
    BY UsedSplits DEF Free
  <2> QED
    BY <2>1, <2>2, <2>3, <2>4, <2>5
<1>6. /\ \A d, e \in 0 .. b_size'[g] - 1 : tab'[g][d] = tab'[g][e] => d = e
      /\ \A e \in 0 .. b_size'[g] - 1 : tab'[g][e] \in DataBlocks \ UsedByOthers(g)
  BY <1>1, <1>3, <1>4
<1>7. Accounted'
  BY <1>1, <1>2, <1>5, <1>6, OneFileChanges
<1> QED
  BY <1>1, <1>7

(* sfs_unlink pushes the blocks of the file, and no other block changes. *)
LEMMA UnlinkKeepsAccounts ==
  ASSUME IInv, NEW g \in live, sfs_unlink(g)
  PROVE  /\ Accounted' /\ ERRNO' = 0 /\ live' = live \ {g}
         /\ \A h \in Names \ {g} : tab'[h] = tab[h] /\ b_size'[h] = b_size[h]
         /\ \A c \in Blocks \ UsedBy(g) :
              vol'.link[c] = vol.link[c] /\ vol'.rest[c] = vol.rest[c]
<1> DEFINE old == b_size[g]
           ff == Listing(g)
<1>1. /\ TypeOK /\ Accounted /\ ERRNO = 0 /\ g \in Names /\ live \subseteq Names
      /\ old \in Nat /\ 0 \in 0 .. FENTRY_MAX_SIZE
      /\ vol \in Volumes
  BY TypeParts, StreamAssumption DEF IInv
<1>2. /\ vol' = Freed(vol, g, 0, ff) /\ SetListing(g, 0, ff)
      /\ live' = live \ {g} /\ ERRNO' = 0
  BY <1>1 DEF sfs_unlink
<1>3. ff \in Arrays /\ \A e \in 0 .. old - 1 : ff[e] = tab[g][e]
  BY <1>1, ListingType, ListingIs
<1> HIDE DEF ff, old
<1>4. \A h \in Names \ {g} : tab'[h] = tab[h] /\ b_size'[h] = b_size[h]
  BY <1>1, <1>2, <1>3, TableSet
<1>5. /\ \A e \in 0 .. old - 1 : tab[g][e] \in DataBlocks \ UsedByOthers(g)
      /\ \A d, e \in 0 .. old - 1 : tab[g][d] = tab[g][e] => d = e
  BY <1>1 DEF Accounted, FilesDisjoint, EntriesDiffer, UsedBy, old
<1>6. Between(ff, 0, old) = UsedBy(g)
  BY <1>3 DEF Between, UsedBy, old
<1>7. /\ ListsExactly(vol', Free \cup UsedBy(g))
      /\ \A c \in Blocks \ UsedBy(g) :
           vol'.link[c] = vol.link[c] /\ vol'.rest[c] = vol.rest[c]
  <2>1. Free \in SUBSET Blocks /\ ListsExactly(vol, Free)
    BY <1>1, DataIsBlocks DEF Free, Accounted
  <2>2. \A e \in 0 .. old - 1 : ff[e] \in Blocks \ Free
    BY <1>3, <1>5, <1>6, UsedSplits, DataIsBlocks DEF Free, UsedBy, old
  <2>3. \A d, e \in 0 .. old - 1 : ff[d] = ff[e] => d = e
    BY <1>3, <1>5
  <2>4. 0 \in 0 .. old
    BY <1>1
  <2> QED
    BY <1>1, <1>2, <1>3, <1>6, <2>1, <2>2, <2>3, <2>4, FreedList DEF old
<1>8. \A h \in live \ {g} : UsedBy(h)' = UsedBy(h)
  BY <1>1, <1>4 DEF UsedBy
<1>9. Used' = UsedByOthers(g)
  BY <1>2, <1>8 DEF Used, UsedByOthers
<1>10. Free \cup UsedBy(g) = DataBlocks \ Used'
  <2>1. UsedBy(g) \subseteq DataBlocks \ UsedByOthers(g)
    BY <1>1 DEF Accounted, FilesDisjoint
  <2> QED
    BY <1>9, <2>1, UsedSplits DEF Free
<1>11. EntriesDiffer'
  BY <1>1, <1>2, <1>4 DEF Accounted, EntriesDiffer
<1>12. ASSUME NEW h \in live \ {g}
       PROVE  UsedBy(h)' \subseteq DataBlocks \ UsedByOthers(h)'
  <2>1. UsedByOthers(h)' \subseteq UsedByOthers(h)
    BY <1>2, <1>8 DEF UsedByOthers
  <2> QED
    BY <1>1, <1>8, <2>1 DEF Accounted, FilesDisjoint
<1> QED
  BY <1>2, <1>4, <1>7, <1>10, <1>11, <1>12 DEF Accounted, FilesDisjoint

(* A new file has no blocks; no error is left for sfs_create to find. *)
LEMMA CreateKeepsAccounts ==
  ASSUME IInv, NEW g \in Names, sfs_create(g)
  PROVE  /\ Accounted' /\ ERRNO' = 0
         /\ live' = live \cup {g} /\ failed' = FALSE
<1>1. /\ TypeOK /\ Accounted /\ ERRNO = 0 /\ live \subseteq Names
      /\ tab \in [Names -> Arrays]
  BY TypeParts DEF IInv
<1>2. b_size \in [Names -> 0 .. FENTRY_MAX_SIZE]
  BY <1>1 DEF TypeOK
<1>3. g \notin live /\ vol' = vol /\ ERRNO' = 0 /\ live' = live \cup {g} /\ failed' = FALSE
  BY <1>1 DEF sfs_create
<1>4. b_size'[g] = 0 /\ \A h \in live : tab'[h] = tab[h] /\ b_size'[h] = b_size[h]
  BY <1>1, <1>2 DEF sfs_create
<1>5. UsedBy(g)' = {} /\ \A h \in live : UsedBy(h)' = UsedBy(h)
  BY <1>4 DEF UsedBy
<1>6. Used' = Used
  BY <1>3, <1>5 DEF Used
<1>7. EntriesDiffer'
  BY <1>1, <1>3, <1>4 DEF Accounted, EntriesDiffer
<1>8. ASSUME NEW h \in live'
      PROVE  UsedBy(h)' \subseteq DataBlocks \ UsedByOthers(h)'
  <2>1. CASE h = g
    BY <1>5, <2>1
  <2>2. CASE h \in live
    <3>1. UsedByOthers(h)' \subseteq UsedByOthers(h)
      BY <1>3, <1>5 DEF UsedByOthers
    <3> QED
      BY <1>1, <1>5, <2>2, <3>1 DEF Accounted, FilesDisjoint
  <2> QED
    BY <1>3, <2>1, <2>2
<1> QED
  BY <1>1, <1>3, <1>6, <1>7, <1>8 DEF Accounted, FilesDisjoint

(* Formatting lists every data block, and there are no files. *)
LEMMA InitAccounts == Init => Accounted /\ ERRNO = 0
<1> SUFFICES ASSUME Init PROVE Accounted /\ ERRNO = 0
  OBVIOUS
<1>1. Used = {} /\ live = {} /\ ERRNO = 0
  BY DEF Init, Used
<1> DEFINE first == INODE_BLK_SIZE + 1
           last == MAX_BLOCK_NUM - 1
<1>2. first \in Nat \ {0} /\ last \in Nat /\ first <= last
  BY StreamAssumption
<1>3. vol.head = first /\ vol.size = last - first + 1
  BY <1>2, StreamAssumption DEF Init
<1>4. \A b \in first .. last : vol.link[b] = IF b = last THEN NIL ELSE b + 1
  BY StreamAssumption DEF Init
<1> HIDE DEF first, last
<1>5. ListsExactly(vol, first .. last)
  BY <1>2, <1>3, <1>4, FormattedList
<1>6. ListsExactly(vol, DataBlocks \ Used)
  BY <1>1, <1>5 DEF DataBlocks, first, last
<1> QED
  BY <1>1, <1>6 DEF Accounted, EntriesDiffer, FilesDisjoint

LEMMA StepsKeepAccounts ==
  ASSUME {"hole", "grow"} \cap OutOfOrder = {}
  PROVE  IInv /\ [Next]_vars => IInv'
<1> SUFFICES ASSUME IInv, [Next]_vars PROVE IInv'
  OBVIOUS
<1>1. "hole" \notin OutOfOrder /\ "grow" \notin OutOfOrder /\ TypeOK /\ TypeOK'
  BY TypesKept DEF IInv
<1>2. ASSUME NEW g \in Names, sfs_create(g)
      PROVE  IInv'
  BY <1>1, <1>2, CreateKeepsAccounts DEF IInv
<1>3. ASSUME NEW g \in live, sfs_unlink(g)
      PROVE  IInv'
  BY <1>1, <1>3, UnlinkKeepsAccounts DEF IInv
<1>4. ASSUME NEW g \in live, sfs_read(g)
      PROVE  IInv'
  BY <1>1, <1>4 DEF sfs_read, inodes, IInv, Accounted, EntriesDiffer, FilesDisjoint,
     Used, UsedBy, UsedByOthers
<1>5. ASSUME NEW g \in live, NEW off \in 0 .. FCONTENT_MAX_SIZE,
             NEW n \in 1 .. MaxRequest, NEW w \in Data,
             WriteRequested(g, off, n), sfs_write(g, off, n, w)
      PROVE  IInv'
  BY <1>1, <1>5, WriteKeepsAccounts DEF IInv
<1>6. ASSUME NEW g \in live, NEW off \in 0 .. FCONTENT_MAX_SIZE - 1,
             TruncateRequested(g, off), sfs_truncate(g, off)
      PROVE  IInv'
  BY <1>1, <1>6, TruncateKeepsAccounts DEF IInv
<1>7. CASE UNCHANGED vars
  BY <1>1, <1>7 DEF vars, IInv, Accounted, EntriesDiffer, FilesDisjoint,
     Used, UsedBy, UsedByOthers
<1> QED
  BY <1>2, <1>3, <1>4, <1>5, <1>6, <1>7 DEF Next

LEMMA Invariant ==
  ASSUME {"hole", "grow"} \cap OutOfOrder = {}
  PROVE  Spec => []IInv
<1>1. Init => IInv
  BY InitTypes, InitAccounts DEF IInv
<1> QED
  BY <1>1, StepsKeepAccounts, PTL DEF Spec

(***************************************************************************)
(* As long as programs leave no holes and do not grow files by truncating  *)
(* them, no data block is shared by two entries, lost, or on the free list *)
(* while a file has it.                                                    *)
(***************************************************************************)
THEOREM BlocksStayAccounted ==
  ASSUME {"hole", "grow"} \cap OutOfOrder = {}
  PROVE  Spec => []BlocksAccounted
BY Invariant, AccountedIsAccounted, PTL

(***************************************************************************)
(* The entries that name a block of the superblock or the inode table come *)
(* from holes and from growing a file by truncating it only: without       *)
(* these, no call ever leads a write into the table.                       *)
(***************************************************************************)
THEOREM NoTableBlocksUsed ==
  ASSUME {"hole", "grow"} \cap OutOfOrder = {}
  PROVE  Spec => []NoTableBlocks
<1>1. IInv => NoTableBlocks
  <2> SUFFICES ASSUME BlocksAccounted, NEW s \in Slots
               PROVE  BlockAt(s) > INODE_BLK_SIZE
    BY AccountedIsAccounted DEF NoTableBlocks
  <2>1. BlockAt(s) \in DataBlocks
    BY DEF BlocksAccounted
  <2> QED
    BY <2>1, StreamAssumption DEF DataBlocks
<1> QED
  BY <1>1, Invariant, PTL

-----------------------------------------------------------------------------
(***************************************************************************)
(* What a step may not do.                                                 *)
(***************************************************************************)

(* When every block is used, there are as many entries as blocks. *)
LEMMA FullTables ==
  IInv /\ Used = DataBlocks => Cardinality(Slots) = Cardinality(DataBlocks)
<1> SUFFICES ASSUME IInv, Used = DataBlocks
             PROVE  Cardinality(Slots) = Cardinality(DataBlocks)
  OBVIOUS
<1> DEFINE h == [s \in Slots |-> BlockAt(s)]
<1>1. {BlockAt(s) : s \in Slots} = DataBlocks
  BY UsedIsSlots DEF IInv
<1>2. \A s, t \in Slots : BlockAt(s) = BlockAt(t) => s = t
  BY AccountedIsAccounted DEF BlocksAccounted
<1>3. h \in Bijection(Slots, DataBlocks)
  <2>1. h \in [Slots -> DataBlocks]
    BY <1>1
  <2>2. \A s, t \in Slots : h[s] = h[t] => s = t
    BY <1>2
  <2>3. \A b \in DataBlocks : \E s \in Slots : h[s] = b
    <3>1. SUFFICES ASSUME NEW b \in DataBlocks PROVE \E s \in Slots : h[s] = b
      OBVIOUS
    <3>2. PICK s \in Slots : BlockAt(s) = b
      BY <1>1
    <3> QED
      BY <3>2
  <2> HIDE DEF h
  <2> QED
    BY <2>1, <2>2, <2>3, Fun_IsBij
<1>4. IsFiniteSet(DataBlocks)
  BY FS_Interval, StreamAssumption DEF DataBlocks
<1>5. ExistsBijection(DataBlocks, Slots)
  <2> HIDE DEF h
  <2>1. Bijection(DataBlocks, Slots) # {}
    BY <1>3, Fun_BijInverse
  <2> QED
    BY <2>1 DEF ExistsBijection
<1> QED
  BY <1>4, <1>5, FS_Bijection

LEMMA StepsReportFresh ==
  ASSUME {"hole", "grow"} \cap OutOfOrder = {}
  PROVE  IInv /\ [Next]_vars =>
           [failed' => Cardinality(Slots') = Cardinality(DataBlocks)]_vars
<1>1. "hole" \notin OutOfOrder
  OBVIOUS
<1>2. IInv /\ Next /\ failed' => (Used = DataBlocks)'
  <2> SUFFICES ASSUME IInv, Next, failed' PROVE Used' = DataBlocks
    OBVIOUS
  <2>1. ~ \E g \in Names : sfs_create(g)
    BY CreateKeepsAccounts
  <2>2. ~ \E g \in live : sfs_unlink(g) \/ sfs_read(g)
    BY DEF sfs_unlink, sfs_read
  <2>3. ~ \E g \in live, off \in 0 .. FCONTENT_MAX_SIZE - 1 : sfs_truncate(g, off)
    BY DEF sfs_truncate
  <2>4. ASSUME NEW g \in live, NEW off \in 0 .. FCONTENT_MAX_SIZE,
               NEW n \in 1 .. MaxRequest, NEW w \in Data,
               WriteRequested(g, off, n), sfs_write(g, off, n, w)
        PROVE  Used' = DataBlocks
    BY <1>1, <2>4, WriteKeepsAccounts
  <2> QED
    BY <2>1, <2>2, <2>3, <2>4 DEF Next
<1>3. (IInv /\ Used = DataBlocks => Cardinality(Slots) = Cardinality(DataBlocks))'
  BY FullTables, PTL
<1> QED
  BY <1>2, <1>3, StepsKeepAccounts

(***************************************************************************)
(* sfs_write reports an error only when the files have every block: never  *)
(* an error that another call left in ERRNO.                               *)
(***************************************************************************)
THEOREM ErrorsStayFresh ==
  ASSUME {"hole", "grow"} \cap OutOfOrder = {}
  PROVE  Spec => ErrorsFresh
BY Invariant, StepsReportFresh, PTL DEF Spec, ErrorsFresh

(***************************************************************************)
(* A write that collects no error has had every block of its request: a    *)
(* refusal sets the error, whatever refused, and no round clears it.       *)
(***************************************************************************)
RefusedOrDone(r, i) == (r.full => r.err # 0) /\ (r.err = 0 => r.i = i)

LEMMA PutRefusesOrDoes ==
  ASSUME NEW r \in States, NEW i \in Nat, RefusedOrDone(r, i),
         NEW g, NEW off, NEW n, NEW w, Put(r, g, off, n, w) \in States
  PROVE  RefusedOrDone(Put(r, g, off, n, w), i + 1)
<1> DEFINE image == Image(g, Listing(g), r.i, off, n, w)
<1>1. -ENOSPC # 0
  BY DEF ENOSPC
<1>2. CASE r.full
  BY <1>2 DEF Put, RefusedOrDone
<1> HIDE DEF image
<1>3. CASE ~r.full /\ r.i < b_size[g]
  BY <1>3 DEF Put, Round, RefusedOrDone, image
<1>4. CASE ~r.full /\ ~(r.i < b_size[g]) /\ HasFree(r.vol)
  BY <1>4 DEF Put, Round, RefusedOrDone, image
<1>5. CASE ~r.full /\ ~(r.i < b_size[g]) /\ ~HasFree(r.vol)
  BY <1>1, <1>5 DEF Put, Round, RefusedOrDone
<1> QED
  BY <1>2, <1>3, <1>4, <1>5

LEMMA UnrefusedWrite ==
  ASSUME TypeOK, NEW g \in Names, NEW w \in Data,
         NEW off \in 0 .. FCONTENT_MAX_SIZE, NEW n \in Nat \ {0},
         NEW r, r = Written(g, off, n, w), r.err = 0
  PROVE  r.i = Min2(End(off, n), FENTRY_MAX_SIZE)
<1> DEFINE N == WriteRounds(off, n)
           first == First(off)
<1>1. /\ N \in Nat /\ first \in Nat
      /\ first + N = Min2(End(off, n), FENTRY_MAX_SIZE)
  BY RequestRange
<1>2. PICK after : WriteRun(after, g, off, n, w)
  BY WrittenRuns
<1> HIDE DEF N, first
<1>3. /\ after \in [0 .. N -> States] /\ r = after[N]
      /\ after[0] = Round(vol, Listing(g), first, ERRNO, FALSE)
      /\ \A k \in 0 .. N - 1 : after[k + 1] = Put(after[k], g, off, n, w)
  BY <1>2 DEF WriteRun, N, first
<1> DEFINE T == {k \in 0 .. N : RefusedOrDone(after[k], first + k)}
<1>4. 0 \in T
  <2>1. after[0].i = first + 0 /\ after[0].full = FALSE
    BY <1>1, <1>3 DEF Round
  <2> QED
    BY <1>1, <2>1 DEF RefusedOrDone
<1>5. ASSUME NEW k \in 0 .. N - 1, k \in T
      PROVE  k + 1 \in T
  <2>1. /\ k \in 0 .. N /\ k + 1 \in 0 .. N
        /\ first + k \in Nat /\ (first + k) + 1 = first + (k + 1)
    BY <1>1
  <2>2. after[k] \in States /\ after[k + 1] \in States /\ after[k + 1] = Put(after[k], g, off, n, w)
    BY <1>3, <2>1
  <2>3. RefusedOrDone(after[k], first + k)
    BY <1>5
  <2>4. RefusedOrDone(Put(after[k], g, off, n, w), (first + k) + 1)
    BY <2>1, <2>2, <2>3, PutRefusesOrDoes
  <2> QED
    BY <2>1, <2>2, <2>4
<1> HIDE DEF T
<1>6. \A k \in 0 .. N : k \in T
  BY <1>1, <1>4, <1>5, UpTo
<1>7. RefusedOrDone(r, first + N)
  BY <1>1, <1>3, <1>6 DEF T
<1> QED
  BY <1>1, <1>7 DEF RefusedOrDone

(* What is written without an error is within the blocks of the file. *)
LEMMA WriteIsBacked ==
  ASSUME TypeOK, NEW g \in live, NEW off \in 0 .. FCONTENT_MAX_SIZE,
         NEW n \in 1 .. MaxRequest, NEW w \in Data,
         sfs_write(g, off, n, w),
         f_size'[g] > b_size'[g] * BLOCK_SIZE, ~failed'
  PROVE  f_size[g] > b_size[g] * BLOCK_SIZE
<1> DEFINE r == Written(g, off, n, w)
           last == Min2(End(off, n), FENTRY_MAX_SIZE)
           size == f_size[g]
           old == b_size[g]
<1>0. /\ failed' = (WriteError(r) # 0)
      /\ b_size' = [b_size EXCEPT ![g] = Min2(Max2(old, r.i), FENTRY_MAX_SIZE)]
      /\ f_size' = [f_size EXCEPT ![g] = Min2(Max2(size, off + n), FCONTENT_MAX_SIZE)]
  BY DEF sfs_write, SetListing
<1> HIDE DEF r
<1>2. /\ TypeOK /\ g \in Names /\ f_size \in [Names -> 0 .. FCONTENT_MAX_SIZE]
      /\ FENTRY_MAX_SIZE \in Nat /\ BLOCK_SIZE \in Nat \ {0} /\ old \in Nat
      /\ FCONTENT_MAX_SIZE \in Nat /\ FCONTENT_MAX_SIZE = FENTRY_MAX_SIZE * BLOCK_SIZE
  <2>1. g \in Names /\ f_size \in [Names -> 0 .. FCONTENT_MAX_SIZE]
    BY DEF TypeOK
  <2>2. FENTRY_MAX_SIZE \in Nat /\ BLOCK_SIZE \in Nat \ {0} /\ old \in Nat
    BY TypeParts, StreamAssumption
  <2> QED
    BY <2>1, <2>2 DEF FCONTENT_MAX_SIZE
<1>3. size \in Nat /\ f_size'[g] = Min2(Max2(size, off + n), FCONTENT_MAX_SIZE)
  BY <1>0, <1>2
<1>4. End(off, n) \in Nat /\ off + n <= End(off, n) * BLOCK_SIZE
  <2>1. n \in Nat \ {0} /\ off \in Nat /\ off + n - 1 \in Nat
    BY <1>2
  <2> DEFINE q == (off + n - 1) \div BLOCK_SIZE
  <2>2. q \in Nat /\ off + n - 1 < q * BLOCK_SIZE + BLOCK_SIZE
    BY <1>2, <2>1, Quotient
  <2>3. End(off, n) = q + 1
    BY DEF End
  <2> HIDE DEF q
  <2>4. (q + 1) * BLOCK_SIZE = q * BLOCK_SIZE + BLOCK_SIZE /\ q * BLOCK_SIZE \in Nat
    BY <1>2, <2>2
  <2> QED
    BY <2>1, <2>2, <2>3, <2>4, <1>2
<1>5. last \in Nat /\ Min2(off + n, FCONTENT_MAX_SIZE) <= last * BLOCK_SIZE
  BY <1>2, <1>4 DEF Min2
<1>1. r.i = last
  <2>1. WriteError(r) = 0
    BY <1>0
  <2>2. r.err = 0
    BY <2>1 DEF WriteError, EFBIG
  <2> QED
    BY <1>2, <2>2, UnrefusedWrite DEF r
<1>11. b_size'[g] = Max2(old, last)
  <2>1. b_size \in [Names -> 0 .. FENTRY_MAX_SIZE]
    BY DEF TypeOK
  <2>2. b_size'[g] = Min2(Max2(old, last), FENTRY_MAX_SIZE) /\ old <= FENTRY_MAX_SIZE
    BY <1>0, <1>1, <1>2, <2>1
  <2>3. last <= FENTRY_MAX_SIZE
    BY <1>2, <1>4 DEF Min2
  <2> HIDE DEF last
  <2> QED
    BY <1>2, <1>5, <2>2, <2>3 DEF Min2, Max2
<1> HIDE DEF last, size, old
<1>6. b_size'[g] \in Nat /\ old <= b_size'[g] /\ last <= b_size'[g]
  BY <1>2, <1>5, <1>11 DEF Max2
<1> DEFINE m == b_size'[g]
<1>7. old * BLOCK_SIZE <= m * BLOCK_SIZE /\ last * BLOCK_SIZE <= m * BLOCK_SIZE
  BY <1>2, <1>5, <1>6
<1>8. /\ m * BLOCK_SIZE \in Nat /\ old * BLOCK_SIZE \in Nat /\ last * BLOCK_SIZE \in Nat
      /\ f_size'[g] > m * BLOCK_SIZE
  BY <1>2, <1>5, <1>6
<1> HIDE DEF m
<1>9. ASSUME NEW x \in Nat, NEW y \in Nat, NEW z \in Nat, x <= z, y <= z,
             Min2(off + n, FCONTENT_MAX_SIZE) <= y,
             Min2(Max2(size, off + n), FCONTENT_MAX_SIZE) > z
      PROVE  size > x
  BY <1>2, <1>3, <1>9 DEF Min2, Max2
<1>10. size > old * BLOCK_SIZE
  BY <1>3, <1>5, <1>7, <1>8, <1>9
<1> QED
  BY <1>10 DEF size, old

LEMMA StepsKeepBacked ==
  TypeOK /\ [Next]_vars =>
    [\A g \in live \cap live' :
       f_size'[g] > b_size'[g] * BLOCK_SIZE =>
         failed' \/ f_size[g] > b_size[g] * BLOCK_SIZE]_vars
<1> SUFFICES ASSUME TypeOK, Next, NEW h \in live \cap live',
                    f_size'[h] > b_size'[h] * BLOCK_SIZE
             PROVE  failed' \/ f_size[h] > b_size[h] * BLOCK_SIZE
  OBVIOUS
<1>1. /\ h \in Names
      /\ f_size \in [Names -> 0 .. FCONTENT_MAX_SIZE]
      /\ live \subseteq Names
  BY DEF TypeOK
<1>2. ASSUME f_size'[h] = f_size[h], b_size'[h] = b_size[h]
      PROVE  f_size[h] > b_size[h] * BLOCK_SIZE
  BY <1>2
<1>3. ASSUME NEW g \in Names, sfs_create(g)
      PROVE  f_size[h] > b_size[h] * BLOCK_SIZE
  BY <1>1, <1>2, <1>3 DEF sfs_create, TypeOK
<1>4. ASSUME NEW g \in live, sfs_unlink(g)
      PROVE  f_size[h] > b_size[h] * BLOCK_SIZE
  BY <1>1, <1>2, <1>4 DEF sfs_unlink, SetListing, TypeOK
<1>5. ASSUME NEW g \in live, sfs_read(g)
      PROVE  f_size[h] > b_size[h] * BLOCK_SIZE
  BY <1>2, <1>5 DEF sfs_read, inodes
<1>6. ASSUME NEW g \in live, NEW off \in 0 .. FCONTENT_MAX_SIZE,
             NEW n \in 1 .. MaxRequest, NEW w \in Data,
             WriteRequested(g, off, n), sfs_write(g, off, n, w)
      PROVE  failed' \/ f_size[h] > b_size[h] * BLOCK_SIZE
  <2>1. CASE h = g
    BY <1>1, <1>6, <2>1, WriteIsBacked
  <2>2. CASE h # g
    <3>1. b_size'[h] = b_size[h]
      BY <1>1, <1>6, <2>2 DEF sfs_write, SetListing, TypeOK
    <3>2. f_size'[h] = f_size[h]
      BY <1>1, <1>6, <2>2 DEF sfs_write
    <3> QED
      BY <1>2, <3>1, <3>2
  <2> QED
    BY <2>1, <2>2
<1>7. ASSUME NEW g \in live, NEW off \in 0 .. FCONTENT_MAX_SIZE - 1,
             TruncateRequested(g, off), sfs_truncate(g, off)
      PROVE  f_size[h] > b_size[h] * BLOCK_SIZE
  <2>1. /\ f_size' = [f_size EXCEPT ![g] = off]
        /\ b_size' = [b_size EXCEPT ![g] = Needed(off)]
    BY <1>7 DEF sfs_truncate, SetListing, Needed
  <2>0. g \in Names /\ b_size \in [Names -> 0 .. FENTRY_MAX_SIZE]
    BY <1>1 DEF TypeOK
  <2>2. CASE h = g
    <3>1. off \in Nat /\ BLOCK_SIZE \in Nat \ {0}
      BY StreamAssumption DEF FCONTENT_MAX_SIZE
    <3> DEFINE q == off \div BLOCK_SIZE
    <3>2. q \in Nat /\ off < q * BLOCK_SIZE + BLOCK_SIZE
      BY <3>1, Quotient
    <3>3. Needed(off) = q + 1
      BY DEF Needed
    <3> HIDE DEF q
    <3>4. (q + 1) * BLOCK_SIZE = q * BLOCK_SIZE + BLOCK_SIZE /\ q * BLOCK_SIZE \in Nat
      BY <3>1, <3>2
    <3>5. f_size'[h] = off /\ b_size'[h] = q + 1
      BY <1>1, <2>0, <2>1, <2>2, <3>3
    <3> QED
      BY <3>1, <3>2, <3>4, <3>5
  <2>3. CASE h # g
    BY <1>1, <1>2, <2>0, <2>1, <2>3
  <2> QED
    BY <2>2, <2>3
<1> QED
  BY <1>3, <1>4, <1>5, <1>6, <1>7 DEF Next

(***************************************************************************)
(* No call but a write that reports an error makes a file longer than the  *)
(* blocks it has. This holds of holes, of files grown by truncating them   *)
(* and on a free list that they have spoilt: it rests on no error being    *)
(* cleared between a refused block and errno_pop, not on the accounts.     *)
(***************************************************************************)
THEOREM SizeStaysBacked == Spec => SizeBacked
BY TypesStay, StepsKeepBacked, PTL DEF Spec, SizeBacked

-----------------------------------------------------------------------------
(***************************************************************************)
(* Contents.                                                               *)
(***************************************************************************)

(* Word x of a file, counted from 0. *)
Word(g, x) ==
  IF x \div BLOCK_SIZE < b_size[g]
    THEN BlockRead(vol, tab[g][x \div BLOCK_SIZE])[x % BLOCK_SIZE]
    ELSE 0

(* Where word x is. *)
LEMMA Place ==
  ASSUME NEW x \in Nat
  PROVE  /\ x \div BLOCK_SIZE \in Nat /\ x % BLOCK_SIZE \in Positions
         /\ x = (x \div BLOCK_SIZE) * BLOCK_SIZE + (x % BLOCK_SIZE)
BY Quotient, StreamAssumption DEF Positions

LEMMA WordType ==
  ASSUME TypeOK, NEW g \in Names, NEW x \in Nat
  PROVE  Word(g, x) \in Int
<1> DEFINE e == x \div BLOCK_SIZE
           k == x % BLOCK_SIZE
<1>1. e \in Nat /\ k \in Positions
  BY Place
<1>2. Word(g, x) = IF e < b_size[g] THEN BlockRead(vol, tab[g][e])[k] ELSE 0
  BY DEF Word
<1> HIDE DEF e, k
<1>3. ASSUME e < b_size[g]
      PROVE  BlockRead(vol, tab[g][e])[k] \in Int
  <2>1. vol \in Volumes /\ tab[g][e] \in Int
    BY <1>1, <1>3, TypeParts DEF Arrays
  <2> QED
    BY <1>1, <2>1, ReadIsImage DEF Images
<1> QED
  BY <1>2, <1>3

LEMMA ContentIs ==
  ASSUME TypeOK, NEW g \in Names
  PROVE  /\ Content(g) \in Seq(Int)
         /\ Len(Content(g)) = f_size[g]
         /\ DOMAIN Content(g) = 1 .. f_size[g]
         /\ \A p \in 1 .. f_size[g] : Content(g)[p] = Word(g, p - 1)
<1>1. f_size[g] \in Nat
  BY StreamAssumption DEF TypeOK, FCONTENT_MAX_SIZE
<1>2. Content(g) = [p \in 1 .. f_size[g] |-> Word(g, p - 1)]
  BY DEF Content, Word
<1>3. \A p \in 1 .. f_size[g] : Word(g, p - 1) \in Int
  BY <1>1, WordType
<1> QED
  BY <1>1, <1>2, <1>3

(* A part of a sequence. *)
LEMMA Slice ==
  ASSUME NEW s \in Seq(Int), NEW a \in Nat, NEW m \in Nat, m <= Len(s)
  PROVE  SubSeq(s, a + 1, m) = [p \in 1 .. Max2(0, m - a) |-> s[a + p]]
<1> DEFINE t == SubSeq(s, a + 1, m)
           N == Max2(0, m - a)
<1>1. N \in Nat /\ (a + 1 <= m => N = m - a) /\ (m < a + 1 => N = 0)
  BY DEF Max2
<1>2. t \in Seq(Int) /\ Len(t) = N /\ \A p \in 1 .. N : t[p] = s[a + p]
  <2>1. CASE m < a + 1
    <3>1. t = << >>
      BY <2>1
    <3> QED
      BY <1>1, <2>1, <3>1
  <2>2. CASE a + 1 <= m
    BY <1>1, <2>2
  <2> QED
    BY <2>1, <2>2
<1> HIDE DEF t, N
<1>3. t = [p \in 1 .. N |-> t[p]]
  BY <1>2
<1>4. [p \in 1 .. N |-> t[p]] = [p \in 1 .. N |-> s[a + p]]
  BY <1>2
<1> QED
  BY <1>3, <1>4 DEF t, N

(* fstream_read. *)
LEMMA ReadIsSlice ==
  ASSUME TypeOK, NEW g \in live, NEW off \in 0 .. FCONTENT_MAX_SIZE, NEW n \in 1 .. MaxRequest
  PROVE  ReadWords(g, off, n) = SubSeq(Content(g), off + 1, Min2(off + n, f_size[g]))
<1> DEFINE size == f_size[g]
           top == Min2(off + n, size)
           N == Max2(0, Min2(n, size - off))
           b_end == ((off + n) \div BLOCK_SIZE) + 1
           block(i) == IF i < b_size[g] /\ i < b_end THEN BlockRead(vol, Listing(g)[i])
                       ELSE ZeroBlock
           byte(p) == block((off + p - 1) \div BLOCK_SIZE)[(off + p - 1) % BLOCK_SIZE]
<1>1. /\ g \in Names /\ off \in Nat /\ n \in Nat \ {0} /\ size \in Nat
      /\ BLOCK_SIZE \in Nat \ {0}
  <2>1. FCONTENT_MAX_SIZE \in Nat /\ BLOCK_SIZE \in Nat \ {0} /\ MaxRequest \in Nat
    BY StreamAssumption DEF FCONTENT_MAX_SIZE
  <2>2. g \in Names /\ f_size \in [Names -> 0 .. FCONTENT_MAX_SIZE]
    BY DEF TypeOK
  <2> QED
    BY <2>1, <2>2
<1>2. ReadWords(g, off, n) = [p \in 1 .. N |-> byte(p)]
  BY DEF ReadWords
<1>3. Content(g) \in Seq(Int) /\ Len(Content(g)) = size
      /\ \A p \in 1 .. size : Content(g)[p] = Word(g, p - 1)
  BY <1>1, ContentIs
<1>4. top \in Nat /\ top <= size /\ Max2(0, top - off) = N
  BY <1>1 DEF Min2, Max2
<1>5. SubSeq(Content(g), off + 1, top) = [p \in 1 .. N |-> Content(g)[off + p]]
  <2> DEFINE c == Content(g)
  <2> HIDE DEF c, top, N
  <2>1. c \in Seq(Int) /\ top <= Len(c)
    BY <1>3, <1>4 DEF c
  <2>2. SubSeq(c, off + 1, top) = [p \in 1 .. Max2(0, top - off) |-> c[off + p]]
    BY <1>1, <1>4, <2>1, Slice
  <2> QED
    BY <1>4, <2>2 DEF c
<1>6. ASSUME NEW p \in 1 .. N
      PROVE  byte(p) = Content(g)[off + p]
  <2> DEFINE x == off + p - 1
             e == x \div BLOCK_SIZE
             k == x % BLOCK_SIZE
  <2>1. x \in Nat /\ x <= off + n /\ off + p \in 1 .. size /\ (off + p) - 1 = x
    BY <1>1 DEF Min2, Max2
  <2>2. Content(g)[off + p] = Word(g, x)
    BY <1>3, <2>1
  <2>3. e \in Nat /\ k \in Positions /\ e < b_end
    <3>1. off + n \in Nat
      BY <1>1
    <3>2. e <= (off + n) \div BLOCK_SIZE /\ (off + n) \div BLOCK_SIZE \in Nat
      <4> HIDE DEF x
      <4> QED
        BY <1>1, <2>1, <3>1, QuotientMonotone, Quotient
    <3>3. e \in Nat /\ k \in Positions
      BY <2>1, Place
    <3> QED
      BY <3>2, <3>3
  <2>4. Word(g, x) = IF e < b_size[g] THEN BlockRead(vol, tab[g][e])[k] ELSE 0
    BY DEF Word
  <2>5. byte(p) = block(e)[k]
    OBVIOUS
  <2> HIDE DEF x, e, k, b_end, byte
  <2>6. CASE e < b_size[g]
    <3>1. Listing(g)[e] = tab[g][e]
      BY <1>1, <2>3, <2>6, ListingIs, TypeParts, StreamAssumption
    <3> QED
      BY <2>2, <2>3, <2>4, <2>5, <2>6, <3>1
  <2>7. CASE ~(e < b_size[g])
    BY <2>2, <2>3, <2>4, <2>5, <2>7 DEF ZeroBlock
  <2> QED
    BY <2>6, <2>7
<1> HIDE DEF N, byte, size, top
<1>7. [p \in 1 .. N |-> byte(p)] = [p \in 1 .. N |-> Content(g)[off + p]]
  BY <1>6
<1> QED
  BY <1>2, <1>5, <1>7 DEF top, size

(***************************************************************************)
(* A read returns the words of the file between its offset and the end,    *)
(* whatever requests programs make, in order or not.                       *)
(***************************************************************************)
THEOREM ReadsStayExact == Spec => []ReadsExact
<1>1. TypeOK => ReadsExact
  BY ReadIsSlice DEF ReadsExact
<1> QED
  BY <1>1, TypesStay, PTL

-----------------------------------------------------------------------------
(***************************************************************************)
(* The files as sequences: every call is a call of Files, or nothing.      *)
(***************************************************************************)

(* A word does not change while its block and its place in the table last. *)
LEMMA SameWord ==
  ASSUME TypeOK, TypeOK', NEW h \in Names, NEW x \in Nat,
         NEW e, e = x \div BLOCK_SIZE,
         e < b_size[h], e < b_size'[h],
         tab'[h][e] = tab[h][e], tab[h][e] \in Blocks,
         vol'.link[tab[h][e]] = vol.link[tab[h][e]],
         vol'.rest[tab[h][e]] = vol.rest[tab[h][e]]
  PROVE  Word(h, x)' = Word(h, x)
<1> DEFINE b == tab[h][e]
           k == x % BLOCK_SIZE
<1>1. vol \in Volumes /\ vol' \in Volumes /\ b \in Blocks /\ b # 0
  BY DEF TypeOK, Blocks
<1>2. DOMAIN vol.link = Blocks /\ DOMAIN vol'.link = Blocks
  BY <1>1, VolumeParts
<1>3. Word(h, x) = BlockRead(vol, b)[k]
  BY DEF Word
<1>4. Word(h, x)' = BlockRead(vol', b)[k]
  BY DEF Word
<1> HIDE DEF b, k
<1>5. BlockRead(vol', b) = BlockRead(vol, b)
  <2>1. vol'.link[b] = vol.link[b] /\ vol'.rest[b] = vol.rest[b]
    BY DEF b
  <2> QED
    BY <1>1, <1>2, <2>1 DEF BlockRead
<1> QED
  BY <1>3, <1>4, <1>5

(* A file keeps its contents while its blocks and its table last. *)
LEMMA SameContent ==
  ASSUME TypeOK, TypeOK', NEW h \in Names,
         tab'[h] = tab[h], b_size'[h] = b_size[h], f_size'[h] = f_size[h],
         UsedBy(h) \subseteq Blocks,
         \A c \in UsedBy(h) : vol'.link[c] = vol.link[c] /\ vol'.rest[c] = vol.rest[c]
  PROVE  Content(h)' = Content(h)
<1>1. ASSUME NEW x \in Nat
      PROVE  Word(h, x)' = Word(h, x)
  <2> DEFINE e == x \div BLOCK_SIZE
  <2>1. e \in Nat
    BY Place
  <2>2. CASE e < b_size[h]
    <3>1. e \in 0 .. b_size[h] - 1
      BY <2>1, <2>2, TypeParts, StreamAssumption
    <3>2. tab[h][e] \in UsedBy(h)
      BY <3>1 DEF UsedBy
    <3> HIDE DEF e
    <3>3. e = x \div BLOCK_SIZE
      BY DEF e
    <3> QED
      BY <2>2, <3>2, <3>3, SameWord
  <2>3. CASE ~(e < b_size[h])
    BY <2>3 DEF Word
  <2> QED
    BY <2>2, <2>3
<1>2. f_size[h] \in Nat
  BY StreamAssumption DEF TypeOK, FCONTENT_MAX_SIZE
<1>3. Content(h) = [p \in 1 .. f_size[h] |-> Word(h, p - 1)]
  BY DEF Content, Word
<1>4. Content(h)' = [p \in 1 .. f_size'[h] |-> Word(h, p - 1)']
  BY DEF Content, Word
<1>5. \A p \in 1 .. f_size[h] : Word(h, p - 1)' = Word(h, p - 1)
  BY <1>1, <1>2
<1> QED
  BY <1>3, <1>4, <1>5

(* The other files, when the blocks that change are free or those of g. *)
LEMMA OthersSame ==
  ASSUME IInv, TypeOK', NEW g \in Names, NEW h \in live \ {g},
         \A i \in Names \ {g} : tab'[i] = tab[i] /\ b_size'[i] = b_size[i],
         f_size'[h] = f_size[h],
         \A c \in Blocks : c \notin Free /\ (g \in live => c \notin UsedBy(g)) =>
           vol'.link[c] = vol.link[c] /\ vol'.rest[c] = vol.rest[c]
  PROVE  Content(h)' = Content(h)
<1>1. TypeOK /\ Accounted /\ h \in Names
  BY DEF IInv, TypeOK
<1>2. UsedBy(h) \subseteq Blocks
  BY <1>1, DataIsBlocks DEF Accounted, FilesDisjoint
<1>3. ASSUME NEW c \in UsedBy(h)
      PROVE  c \notin Free /\ (g \in live => c \notin UsedBy(g))
  <2>1. c \in Used
    BY DEF Used
  <2>2. g \in live => c \in UsedByOthers(g)
    BY DEF UsedByOthers
  <2> QED
    BY <1>1, <2>1, <2>2 DEF Free, Accounted, FilesDisjoint
<1> QED
  BY <1>1, <1>2, <1>3, SameContent

(* What a block holds after a write, read word for word. *)
LEMMA ReadsBack ==
  ASSUME NEW v \in Volumes, NEW b \in Blocks, NEW image \in Images, Holds(v, b, image),
         NEW k \in Positions
  PROVE  BlockRead(v, b)[k] = image[k]
<1>1. b # 0 /\ DOMAIN v.link = Blocks
  BY VolumeParts DEF Blocks
<1>2. BlockRead(v, b)[k] = IF k = 0 THEN v.link[b] ELSE v.rest[b][k]
  BY <1>1 DEF BlockRead
<1> QED
  BY <1>2 DEF Holds

LEMMA WantedWord ==
  ASSUME TypeOK, NEW g \in Names, NEW x \in Nat, NEW off, NEW n, NEW w
  PROVE  Wanted(x \div BLOCK_SIZE, g, off, n, w)[x % BLOCK_SIZE]
           = IF x \in off .. off + n - 1 THEN w ELSE Word(g, x)
<1> DEFINE e == x \div BLOCK_SIZE
           k == x % BLOCK_SIZE
<1>0. e \in Nat /\ k \in Positions /\ x = e * BLOCK_SIZE + k
  BY Place
<1> SUFFICES Wanted(e, g, off, n, w)[k] = IF x \in off .. off + n - 1 THEN w ELSE Word(g, x)
  OBVIOUS
<1> HIDE DEF e, k
<1>1. Wanted(e, g, off, n, w)[k] =
        IF x \in off .. off + n - 1 THEN w
        ELSE (IF e < b_size[g] THEN BlockRead(vol, Listing(g)[e]) ELSE ZeroBlock)[k]
  BY <1>0 DEF Wanted, Image
<1>2. Word(g, x) = IF e < b_size[g] THEN BlockRead(vol, tab[g][e])[k] ELSE 0
  BY DEF Word, e, k
<1>3. CASE e < b_size[g]
  <2>1. e \in 0 .. b_size[g] - 1
    BY <1>0, <1>3, TypeParts, StreamAssumption
  <2>2. Listing(g)[e] = tab[g][e]
    BY <2>1, ListingIs
  <2> QED
    BY <1>1, <1>2, <1>3, <2>2
<1>4. CASE ~(e < b_size[g])
  BY <1>0, <1>1, <1>2, <1>4 DEF ZeroBlock
<1> QED
  BY <1>3, <1>4

(* The words of the file that is written: those of the request in the      *)
(* blocks that were written, and what was there elsewhere.                 *)
LEMMA WrittenWord ==
  ASSUME IInv, TypeOK', "hole" \notin OutOfOrder, NEW g \in live,
         NEW off \in 0 .. FCONTENT_MAX_SIZE, NEW n \in 1 .. MaxRequest, NEW w \in Data,
         WriteRequested(g, off, n), sfs_write(g, off, n, w),
         NEW r, r = Written(g, off, n, w),
         NEW x \in Nat
  PROVE  Word(g, x)' = IF /\ x \in off .. off + n - 1
                          /\ x \div BLOCK_SIZE \in First(off) .. r.i - 1
                         THEN w ELSE Word(g, x)
<1> DEFINE e == x \div BLOCK_SIZE
           k == x % BLOCK_SIZE
           old == b_size[g]
           first == First(off)
<1>1. /\ Good(r, g, off, n, w) /\ vol' = r.vol
      /\ b_size'[g] = Max2(old, r.i)
      /\ \A d \in 0 .. b_size'[g] - 1 : tab'[g][d] = r.f[d]
  BY WriteEffect
<1>2. /\ TypeOK /\ Accounted /\ g \in Names /\ old \in Nat /\ first \in 0 .. old
      /\ r \in States /\ r.i \in Nat /\ n \in Nat \ {0}
  <2>1. TypeOK /\ Accounted /\ g \in Names /\ n \in Nat \ {0}
    BY StreamAssumption DEF IInv, TypeOK
  <2>2. old \in Nat /\ first <= old
    BY <2>1, WriteInOrder, TypeParts, StreamAssumption
  <2>3. first \in Nat
    BY <2>1, RequestRange, StreamAssumption
  <2>4. r \in States /\ r.i \in Nat
    BY <1>1, StateParts DEF Good
  <2> QED
    BY <2>1, <2>2, <2>3, <2>4
<1>3. e \in Nat /\ k \in Positions /\ x = e * BLOCK_SIZE + k
  BY Place
<1>4. GoodArray(r, g) /\ GoodDisk(r, g, off, n, w)
  BY <1>1 DEF Good
<1>5. /\ Word(g, x) = IF e < old THEN BlockRead(vol, tab[g][e])[k] ELSE 0
      /\ Word(g, x)' = IF e < b_size'[g] THEN BlockRead(vol', tab'[g][e])[k] ELSE 0
  BY DEF Word
<1>6. e = x \div BLOCK_SIZE /\ k = x % BLOCK_SIZE
  OBVIOUS
<1> HIDE DEF e, k, first, old
<1>7. /\ \A d \in 0 .. Max2(old, r.i) - 1 : r.f[d] \in Blocks
      /\ \A d, c \in 0 .. Max2(old, r.i) - 1 : r.f[d] = r.f[c] => d = c
  BY <1>2, <1>4, GoodTable, DataIsBlocks DEF old
<1>8. CASE e \in first .. r.i - 1
  <2>1. e < b_size'[g] /\ e \in 0 .. Max2(old, r.i) - 1
    BY <1>1, <1>2, <1>8 DEF Max2
  <2>2. tab'[g][e] = r.f[e] /\ r.f[e] \in Blocks
    BY <1>1, <1>7, <2>1
  <2>3. Holds(vol', r.f[e], Wanted(e, g, off, n, w))
    BY <1>1, <1>4, <1>8 DEF GoodDisk, first
  <2>4. Wanted(e, g, off, n, w) \in Images
    BY <1>2, <1>3, ImageType DEF Wanted
  <2>5. vol' \in Volumes
    BY <1>1, <1>2, StateParts
  <2>6. BlockRead(vol', tab'[g][e])[k] = Wanted(e, g, off, n, w)[k]
    BY <1>3, <2>2, <2>3, <2>4, <2>5, ReadsBack
  <2>7. Wanted(e, g, off, n, w)[k] = IF x \in off .. off + n - 1 THEN w ELSE Word(g, x)
    BY <1>2, WantedWord DEF e, k
  <2> QED
    BY <1>5, <1>6, <1>8, <2>1, <2>6, <2>7 DEF first
<1>9. CASE e \notin first .. r.i - 1
  <2>1. CASE e < b_size'[g]
    <3>1. e < old /\ e \in 0 .. old - 1 /\ e \in 0 .. Max2(old, r.i) - 1
      BY <1>1, <1>2, <1>3, <1>9, <2>1 DEF Max2
    <3>2. tab'[g][e] = r.f[e] /\ r.f[e] = tab[g][e] /\ r.f[e] \in Blocks
      BY <1>1, <1>4, <1>7, <3>1 DEF GoodArray, old
    <3>3. r.f[e] \notin Between(r.f, first, r.i)
      <4>1. \A d \in first .. r.i - 1 : d \in 0 .. Max2(old, r.i) - 1
        BY <1>2 DEF Max2
      <4> QED
        BY <1>7, <1>9, <3>1, <4>1 DEF Between
    <3>4. vol'.link[r.f[e]] = vol.link[r.f[e]] /\ vol'.rest[r.f[e]] = vol.rest[r.f[e]]
      BY <1>1, <1>4, <3>2, <3>3 DEF GoodDisk, first
    <3>5. Word(g, x)' = Word(g, x)
      BY <1>2, <1>6, <2>1, <3>1, <3>2, <3>4, SameWord DEF old
    <3> QED
      BY <1>6, <1>9, <3>5 DEF first
  <2>2. CASE ~(e < b_size'[g])
    <3>1. ~(e < old)
      BY <1>1, <1>2, <1>3, <2>2 DEF Max2
    <3> QED
      BY <1>5, <1>6, <1>9, <2>2, <3>1 DEF first
  <2> QED
    BY <2>1, <2>2
<1> QED
  BY <1>8, <1>9

(* What Files sees. *)
Words == [g \in live |-> Content(g)]

ContentsMatch ==
  \A g \in Names :
    /\ Content(g) \in Seq(Int) /\ Len(Content(g)) = f_size[g]
    /\ \A p \in 1 .. f_size[g] : Content(g)[p] = Word(g, p - 1)

LEMMA ContentsAre == TypeOK => ContentsMatch
BY ContentIs DEF ContentsMatch

LEMMA ContentsAreAfter == TypeOK' => ContentsMatch'
BY ContentsAre, PTL

(* The files that a call leaves alone. *)
LEMMA OthersKept ==
  ASSUME NEW g \in live, live' = live,
         \A h \in live \ {g} : Content(h)' = Content(h)
  PROVE  Abstract!Others(g) /\ Words[g] = Content(g) /\ Words'[g] = Content(g)'
BY DEF Abstract!Others, Abstract!Existing, Words

(* Sequences with the same elements are the same. *)
LEMMA SameSequence ==
  ASSUME NEW s \in Seq(Int), NEW t \in Seq(Int), Len(t) = Len(s),
         \A p \in 1 .. Len(t) : t[p] = s[p]
  PROVE  t = s
OBVIOUS

(* sfs_write is a write of Files; with an error, one that may have stored  *)
(* a part. One that passes the largest size is a shorter one, or none.     *)
LEMMA WriteImplemented ==
  ASSUME IInv, TypeOK', "hole" \notin OutOfOrder, NEW g \in live,
         NEW off \in 0 .. FCONTENT_MAX_SIZE, NEW n \in 1 .. MaxRequest, NEW w \in Data,
         WriteRequested(g, off, n), sfs_write(g, off, n, w)
  PROVE  Abstract!Write(g) \/ Abstract!WriteFailed(g) \/ Abstract!Read
<1> DEFINE r == Written(g, off, n, w)
           s == Content(g)
           t == Content(g)'
           m == Min2(off + n, FCONTENT_MAX_SIZE) - off
<1> HIDE DEF r
<1>1. r = Written(g, off, n, w)
  BY DEF r
<1>3. /\ Good(r, g, off, n, w)
      /\ r.i <= Min2(End(off, n), FENTRY_MAX_SIZE)
      /\ r.full \/ r.i = Min2(End(off, n), FENTRY_MAX_SIZE)
      /\ vol' = r.vol /\ live' = live /\ (failed' <=> r.full)
      /\ f_size' = [f_size EXCEPT ![g] = Min2(Max2(f_size[g], off + n), FCONTENT_MAX_SIZE)]
      /\ \A h \in Names \ {g} : tab'[h] = tab[h] /\ b_size'[h] = b_size[h]
  BY <1>1, WriteEffect
<1>4. /\ TypeOK /\ Accounted /\ g \in Names /\ live \subseteq Names
      /\ off \in Nat /\ n \in Nat \ {0} /\ w \in Nat
      /\ BLOCK_SIZE \in Nat \ {0} /\ FENTRY_MAX_SIZE \in Nat
      /\ FCONTENT_MAX_SIZE = FENTRY_MAX_SIZE * BLOCK_SIZE /\ FCONTENT_MAX_SIZE \in Nat
      /\ f_size \in [Names -> 0 .. FCONTENT_MAX_SIZE]
  <2>1. TypeOK /\ Accounted /\ live \subseteq Names /\ f_size \in [Names -> 0 .. FCONTENT_MAX_SIZE]
    BY DEF IInv, TypeOK
  <2>2. FCONTENT_MAX_SIZE = FENTRY_MAX_SIZE * BLOCK_SIZE /\ FCONTENT_MAX_SIZE \in Nat
    BY StreamAssumption DEF FCONTENT_MAX_SIZE
  <2> QED
    BY <2>1, <2>2, StreamAssumption
<1>0. b_size[g] \in Nat /\ First(off) \in Nat /\ r.i \in Nat
  <2>1. r.i \in Nat
    BY <1>3, StateParts DEF Good
  <2>2. b_size[g] \in Nat
    BY <1>4, TypeParts
  <2> QED
    BY <1>4, <2>1, <2>2, Quotient DEF First
<1>2. /\ m \in 0 .. n /\ off + m = Min2(off + n, FCONTENT_MAX_SIZE)
      /\ off + m <= FCONTENT_MAX_SIZE
      /\ m < n => off + m = FCONTENT_MAX_SIZE
  BY <1>4 DEF Min2
<1> HIDE DEF m
<1>5. off <= f_size[g] /\ First(off) <= b_size[g]
  BY <1>4, WriteInOrder
<1>6. /\ s \in Seq(Int) /\ Len(s) = f_size[g] /\ f_size[g] \in Nat
      /\ \A p \in 1 .. f_size[g] : s[p] = Word(g, p - 1)
  BY <1>4, ContentIs
<1>7. /\ t \in Seq(Int) /\ Len(t) = f_size'[g]
      /\ \A p \in 1 .. f_size'[g] : t[p] = Word(g, p - 1)'
  BY <1>4, ContentsAreAfter DEF ContentsMatch
<1>8. f_size'[g] = Max2(f_size[g], off + m)
  <2>1. f_size'[g] = Min2(Max2(f_size[g], off + n), FCONTENT_MAX_SIZE)
    BY <1>3, <1>4
  <2>2. f_size[g] \in Nat /\ f_size[g] <= FCONTENT_MAX_SIZE
    BY <1>4
  <2> HIDE DEF m
  <2> QED
    BY <1>2, <1>4, <2>1, <2>2 DEF Min2, Max2
<1> DEFINE stored(x) == x \in off .. off + n - 1 /\ x \div BLOCK_SIZE \in First(off) .. r.i - 1
<1>9. \A x \in Nat : Word(g, x)' = IF stored(x) THEN w ELSE Word(g, x)
  BY <1>1, WrittenWord
<1>18. End(off, n) \in Nat /\ r.i <= FENTRY_MAX_SIZE /\ r.i <= End(off, n)
  <2>1. End(off, n) \in Nat
    BY <1>4, RequestRange
  <2> QED
    BY <1>0, <1>3, <1>4, <2>1 DEF Min2
<1>19. ASSUME NEW x \in Nat, stored(x)
       PROVE  x \in off .. off + m - 1
  <2>1. x < FCONTENT_MAX_SIZE
    <3>1. x \div BLOCK_SIZE \in Nat /\ x \div BLOCK_SIZE < FENTRY_MAX_SIZE
      BY <1>0, <1>4, <1>18, <1>19, Quotient
    <3>2. ~(FENTRY_MAX_SIZE * BLOCK_SIZE <= x)
      BY <1>4, <3>1, QuotientBelow
    <3> QED
      BY <1>4, <3>2
  <2> QED
    BY <1>2, <1>4, <1>19, <2>1
<1>10. ASSUME NEW x \in off .. off + m - 1, ~stored(x)
       PROVE  r.full /\ Word(g, x) = 0
  <2>1. /\ x \in Nat /\ off <= x /\ x <= off + n - 1 /\ off + n - 1 \in Nat
        /\ x < FCONTENT_MAX_SIZE
    BY <1>2, <1>4
  <2> DEFINE e == x \div BLOCK_SIZE
  <2>2. e \in Nat /\ First(off) <= e /\ e < End(off, n) /\ End(off, n) \in Nat /\ e < FENTRY_MAX_SIZE
    <3>1. First(off) <= e /\ e <= (off + n - 1) \div BLOCK_SIZE
      BY <1>4, <2>1, QuotientMonotone DEF First
    <3>2. (off + n - 1) \div BLOCK_SIZE \in Nat /\ e \in Nat
      BY <1>4, <2>1, Quotient
    <3>3. e < FENTRY_MAX_SIZE
      BY <1>4, <2>1, QuotientBelow
    <3> QED
      BY <3>1, <3>2, <3>3 DEF End
  <2>3. GoodError(r, g)
    BY <1>3 DEF Good
  <2>4. ~(e < r.i)
    BY <1>0, <1>10, <2>1, <2>2
  <2> HIDE DEF e
  <2>5. r.full
    BY <1>0, <1>3, <1>4, <2>2, <2>4 DEF Min2
  <2>6. ~(e < b_size[g])
    BY <1>0, <2>2, <2>3, <2>4, <2>5 DEF GoodError
  <2> QED
    BY <2>5, <2>6 DEF Word, e
<1> DEFINE new == IF r.full THEN {0, w} ELSE {w}
<1>11. Abstract!Overwritten(s, t, off, m, new)
  <2> HIDE DEF s, t, stored
  <2>1. Len(t) = IF Len(s) > off + m THEN Len(s) ELSE off + m
    BY <1>2, <1>4, <1>6, <1>7, <1>8 DEF Max2
  <2>2. ASSUME NEW p \in 1 .. Len(t)
        PROVE  IF p \in off + 1 .. off + m THEN t[p] \in new ELSE t[p] = s[p]
    <3> DEFINE x == p - 1
    <3>1. /\ x \in Nat /\ p \in 1 .. f_size'[g]
          /\ (p \in off + 1 .. off + m <=> x \in off .. off + m - 1)
      BY <1>2, <1>4, <1>6, <1>7, <1>8 DEF Max2
    <3>2. t[p] = IF stored(x) THEN w ELSE Word(g, x)
      BY <1>7, <1>9, <3>1
    <3>3. CASE p \in off + 1 .. off + m
      BY <1>10, <3>1, <3>2, <3>3
    <3>4. CASE p \notin off + 1 .. off + m
      <4>1. ~stored(x)
        BY <1>19, <3>1, <3>4
      <4>2. p \in 1 .. f_size[g]
        BY <1>2, <1>4, <1>5, <1>6, <1>8, <3>1, <3>4 DEF Max2
      <4> QED
        BY <1>6, <3>2, <3>4, <4>1, <4>2
    <3> QED
      BY <3>3, <3>4
  <2> QED
    BY <2>1, <2>2 DEF Abstract!Overwritten
<1>12. \A h \in live \ {g} : Content(h)' = Content(h)
  <2>1. ASSUME NEW c \in Blocks, c \notin Free, c \notin UsedBy(g)
        PROVE  vol'.link[c] = vol.link[c] /\ vol'.rest[c] = vol.rest[c]
    <3>1. c \notin Between(r.f, First(off), r.i)
      <4>1. SUFFICES ASSUME NEW e \in First(off) .. r.i - 1, c = r.f[e] PROVE FALSE
        BY DEF Between
      <4>2. e \in 0 .. b_size[g] - 1 \/ e \in b_size[g] .. r.i - 1
        BY <1>0
      <4> QED
        BY <1>3, <2>1, <4>1, <4>2 DEF Good, GoodArray, UsedBy
    <3> QED
      BY <1>3, <3>1 DEF Good, GoodDisk
  <2>2. \A h \in live \ {g} : f_size'[h] = f_size[h]
    BY <1>3, <1>4
  <2> QED
    BY <1>3, <1>4, <2>1, <2>2, OthersSame
<1>13. Abstract!Others(g) /\ Words[g] = s /\ Words'[g] = t
  BY <1>3, <1>12, OthersKept
<1>14. off \in 0 .. Len(s)
  BY <1>4, <1>5, <1>6
<1>15. failed' = TRUE \/ failed' = FALSE
  BY DEF TypeOK
<1> HIDE DEF s, t
<1>16. CASE m = 0
  <2>1. t = s
    <3> HIDE DEF new, stored
    <3>1. \A p \in 1 .. Len(t) : p \notin off + 1 .. off + m
      BY <1>4, <1>16
    <3>2. Len(t) = Len(s) /\ \A p \in 1 .. Len(t) : t[p] = s[p]
      BY <1>4, <1>6, <1>11, <1>14, <1>16, <3>1 DEF Abstract!Overwritten
    <3>3. s \in Seq(Int) /\ t \in Seq(Int)
      BY <1>6, <1>7
    <3> QED
      BY <3>2, <3>3, SameSequence
  <2>2. ~r.full
    <3>1. off = FENTRY_MAX_SIZE * BLOCK_SIZE
      BY <1>2, <1>4, <1>16
    <3>2. First(off) \in Nat /\ FENTRY_MAX_SIZE <= First(off)
      BY <1>0, <1>4, <3>1, QuotientBelow DEF First
    <3>3. /\ WriteRounds(off, n) \in Nat
          /\ First(off) + WriteRounds(off, n) = Min2(End(off, n), FENTRY_MAX_SIZE)
      BY <1>4, RequestRange
    <3>4. WriteRounds(off, n) = 0
      BY <1>4, <1>18, <3>2, <3>3 DEF Min2
    <3>5. PICK after : WriteRun(after, g, off, n, w)
      BY <1>4, WrittenRuns
    <3>6. r = Round(vol, Listing(g), First(off), ERRNO, FALSE)
      BY <1>1, <3>4, <3>5 DEF WriteRun
    <3> QED
      BY <3>6 DEF Round
  <2> QED
    BY <1>3, <1>12, <1>15, <2>1, <2>2 DEF Abstract!Read, Words, s, t
<1>20. CASE m # 0 /\ r.full
  <2>1. m \in 1 .. MaxRequest
    BY <1>2, <1>4, <1>20, StreamAssumption
  <2> QED
    BY <1>3, <1>11, <1>13, <1>14, <1>15, <1>20, <2>1 DEF Abstract!WriteFailed, Words
<1>17. CASE m # 0 /\ ~r.full
  <2>1. m \in 1 .. MaxRequest
    BY <1>2, <1>4, <1>17, StreamAssumption
  <2> QED
    BY <1>3, <1>11, <1>13, <1>14, <1>15, <1>17, <2>1 DEF Abstract!Write, Words
<1> QED
  BY <1>16, <1>17, <1>20

LEMMA TruncateImplemented ==
  ASSUME IInv, TypeOK', "grow" \notin OutOfOrder, NEW g \in live,
         NEW off \in 0 .. FCONTENT_MAX_SIZE - 1,
         TruncateRequested(g, off), sfs_truncate(g, off)
  PROVE  Abstract!Truncate(g)
<1> DEFINE n == Needed(off)
           s == Content(g)
           t == Content(g)'
<1>1. /\ n \in 1 .. b_size[g] /\ off <= f_size[g]
      /\ \A c \in Blocks \ Between(tab[g], n, b_size[g]) :
           vol'.link[c] = vol.link[c] /\ vol'.rest[c] = vol.rest[c]
      /\ live' = live /\ failed' = FALSE
      /\ f_size' = [f_size EXCEPT ![g] = off]
      /\ \A h \in Names \ {g} : tab'[h] = tab[h] /\ b_size'[h] = b_size[h]
      /\ b_size'[g] = n
      /\ \A e \in 0 .. n - 1 : tab'[g][e] = tab[g][e]
  BY TruncateEffect
<1>2. /\ TypeOK /\ Accounted /\ g \in Names /\ live \subseteq Names /\ off \in Nat
      /\ f_size \in [Names -> 0 .. FCONTENT_MAX_SIZE] /\ b_size[g] \in Nat
  <2>1. TypeOK /\ Accounted /\ live \subseteq Names /\ f_size \in [Names -> 0 .. FCONTENT_MAX_SIZE]
    BY DEF IInv, TypeOK
  <2> QED
    BY <2>1, TypeParts, StreamAssumption
<1>3. /\ s \in Seq(Int) /\ Len(s) = f_size[g]
      /\ \A p \in 1 .. f_size[g] : s[p] = Word(g, p - 1)
  BY <1>2, ContentIs
<1>4. /\ t \in Seq(Int) /\ Len(t) = off
      /\ \A p \in 1 .. off : t[p] = Word(g, p - 1)'
  <2>1. f_size'[g] = off
    BY <1>1, <1>2
  <2> QED
    BY <1>2, <2>1, ContentsAreAfter DEF ContentsMatch
<1>5. /\ \A e \in 0 .. b_size[g] - 1 : tab[g][e] \in Blocks /\ tab[g][e] \in UsedBy(g)
      /\ \A d, e \in 0 .. b_size[g] - 1 : tab[g][d] = tab[g][e] => d = e
  BY <1>2, DataIsBlocks DEF Accounted, EntriesDiffer, FilesDisjoint, UsedBy
<1>6. ASSUME NEW x \in 0 .. off - 1
      PROVE  Word(g, x)' = Word(g, x)
  <2> DEFINE e == x \div BLOCK_SIZE
  <2>1. x \in Nat /\ x <= off
    BY <1>2
  <2>2. e \in Nat /\ e < n
    <3>1. e <= off \div BLOCK_SIZE /\ off \div BLOCK_SIZE \in Nat /\ e \in Nat
      BY <1>2, <2>1, QuotientMonotone, Quotient, StreamAssumption
    <3> QED
      BY <3>1 DEF Needed
  <2> HIDE DEF n
  <2>3. e = x \div BLOCK_SIZE
    OBVIOUS
  <2> HIDE DEF e
  <2>4. e \in 0 .. n - 1 /\ e \in 0 .. b_size[g] - 1 /\ e \notin n .. b_size[g] - 1
    BY <1>1, <1>2, <2>2
  <2>5. tab[g][e] \in Blocks \ Between(tab[g], n, b_size[g])
    <3>1. \A d \in n .. b_size[g] - 1 : d \in 0 .. b_size[g] - 1
      BY <1>1, <1>2
    <3> QED
      BY <1>5, <2>4, <3>1 DEF Between
  <2>6. e < b_size[g] /\ e < b_size'[g]
    BY <1>1, <1>2, <2>2, <2>4
  <2> QED
    BY <1>1, <1>2, <2>1, <2>3, <2>4, <2>5, <2>6, SameWord
<1> HIDE DEF n
<1>7. t = SubSeq(s, 1, off)
  <2> HIDE DEF s, t
  <2>1. ASSUME NEW p \in 1 .. off
        PROVE  t[p] = s[p]
    <3>1. p - 1 \in 0 .. off - 1 /\ p \in 1 .. f_size[g]
      BY <1>1, <1>2
    <3> QED
      BY <1>3, <1>4, <1>6, <3>1
  <2>2. off <= Len(s)
    BY <1>1, <1>3
  <2> DEFINE u == SubSeq(s, 1, off)
  <2>3. u \in Seq(Int) /\ Len(u) = off /\ \A p \in 1 .. off : u[p] = s[p]
    BY <1>2, <1>3, <2>2
  <2> HIDE DEF u
  <2>4. t = [p \in 1 .. off |-> t[p]] /\ u = [p \in 1 .. off |-> u[p]]
    BY <1>2, <1>4, <2>3
  <2>5. [p \in 1 .. off |-> t[p]] = [p \in 1 .. off |-> u[p]]
    BY <2>1, <2>3
  <2> QED
    BY <2>4, <2>5 DEF u
<1>8. \A h \in live \ {g} : Content(h)' = Content(h)
  <2>1. ASSUME NEW c \in Blocks, c \notin UsedBy(g)
        PROVE  vol'.link[c] = vol.link[c] /\ vol'.rest[c] = vol.rest[c]
    <3>1. \A e \in n .. b_size[g] - 1 : e \in 0 .. b_size[g] - 1
      BY <1>1, <1>2
    <3>2. c \notin Between(tab[g], n, b_size[g])
      BY <1>5, <2>1, <3>1 DEF Between
    <3> QED
      BY <1>1, <3>2
  <2>2. \A h \in live \ {g} : f_size'[h] = f_size[h]
    BY <1>1, <1>2
  <2> QED
    BY <1>1, <1>2, <2>1, <2>2, OthersSame
<1>9. Abstract!Others(g) /\ Words[g] = s /\ Words'[g] = t
  BY <1>1, <1>8, OthersKept
<1>10. off \in 0 .. Len(s)
  BY <1>1, <1>2, <1>3
<1> HIDE DEF s, t
<1> QED
  BY <1>1, <1>7, <1>9, <1>10 DEF Abstract!Truncate, Words

LEMMA CreateImplemented ==
  ASSUME IInv, TypeOK', NEW g \in Names, sfs_create(g)
  PROVE  Abstract!Create(g)
<1>1. /\ TypeOK /\ live \subseteq Names /\ live' = live \cup {g} /\ failed' = FALSE
      /\ g \notin live
  BY CreateKeepsAccounts DEF IInv, TypeOK, sfs_create
<1>2. /\ vol' = vol /\ f_size'[g] = 0
      /\ \A h \in Names \ {g} : /\ tab'[h] = tab[h] /\ b_size'[h] = b_size[h]
                                /\ f_size'[h] = f_size[h]
  BY <1>1 DEF sfs_create, TypeOK
<1>3. \A h \in live : Content(h)' = Content(h)
  BY <1>1, <1>2, OthersSame
<1>4. Content(g)' = << >>
  BY <1>2, ContentsAreAfter DEF ContentsMatch
<1>5. Words' = [h \in live \cup {g} |-> IF h = g THEN << >> ELSE Words[h]]
  BY <1>1, <1>3, <1>4 DEF Words
<1> QED
  BY <1>1, <1>5 DEF Abstract!Create, Abstract!Existing, Words

LEMMA UnlinkImplemented ==
  ASSUME IInv, TypeOK', NEW g \in live, sfs_unlink(g)
  PROVE  Abstract!Unlink(g)
<1>1. /\ TypeOK /\ g \in Names /\ failed' = FALSE /\ live' = live \ {g} /\ f_size' = f_size
      /\ \A h \in Names \ {g} : tab'[h] = tab[h] /\ b_size'[h] = b_size[h]
      /\ \A c \in Blocks \ UsedBy(g) :
           vol'.link[c] = vol.link[c] /\ vol'.rest[c] = vol.rest[c]
  BY UnlinkKeepsAccounts DEF IInv, TypeOK, sfs_unlink
<1>2. \A h \in live \ {g} : Content(h)' = Content(h)
  BY <1>1, OthersSame
<1>3. Words' = [h \in live \ {g} |-> Words[h]]
  BY <1>1, <1>2 DEF Words
<1> QED
  BY <1>1, <1>3 DEF Abstract!Unlink, Abstract!Existing, Words

LEMMA SameWords ==
  ASSUME UNCHANGED <<vol, live, tab, b_size, f_size>>
  PROVE  Words' = Words
BY DEF Words, Content

LEMMA StepsImplemented ==
  ASSUME {"hole", "grow"} \cap OutOfOrder = {}
  PROVE  IInv /\ [Next]_vars => [Abstract!Next]_(Abstract!fileVars)
<1> SUFFICES ASSUME IInv, [Next]_vars
             PROVE  [Abstract!Next]_(Abstract!fileVars)
  OBVIOUS
<1>0. "hole" \notin OutOfOrder /\ "grow" \notin OutOfOrder
  OBVIOUS
<1>1. TypeOK'
  BY TypesKept DEF IInv
<1>2. ASSUME NEW g \in live,
             \/ Abstract!Write(g) \/ Abstract!WriteFailed(g) \/ Abstract!Truncate(g)
             \/ Abstract!Unlink(g) \/ Abstract!Read
      PROVE  Abstract!Next
  BY <1>2 DEF Abstract!Next, Abstract!Existing
<1>3. ASSUME NEW g \in Names, sfs_create(g)
      PROVE  Abstract!Next
  BY <1>1, <1>3, CreateImplemented DEF Abstract!Next
<1>4. ASSUME NEW g \in live, sfs_unlink(g)
      PROVE  Abstract!Next
  BY <1>1, <1>2, <1>4, UnlinkImplemented
<1>5. ASSUME NEW g \in live, sfs_read(g)
      PROVE  Abstract!Next
  <2>1. Words' = Words /\ failed' = FALSE
    BY <1>5, SameWords DEF sfs_read, inodes
  <2> QED
    BY <2>1 DEF Abstract!Next, Abstract!Read, Words
<1>6. ASSUME NEW g \in live, NEW off \in 0 .. FCONTENT_MAX_SIZE,
             NEW n \in 1 .. MaxRequest, NEW w \in Data,
             WriteRequested(g, off, n), sfs_write(g, off, n, w)
      PROVE  Abstract!Next
  BY <1>0, <1>1, <1>2, <1>6, WriteImplemented
<1>7. ASSUME NEW g \in live, NEW off \in 0 .. FCONTENT_MAX_SIZE - 1,
             TruncateRequested(g, off), sfs_truncate(g, off)
      PROVE  Abstract!Next
  BY <1>0, <1>1, <1>2, <1>7, TruncateImplemented
<1>8. CASE UNCHANGED vars
  <2>1. Words' = Words /\ failed' = failed
    BY <1>8, SameWords DEF vars
  <2> QED
    BY <2>1 DEF Abstract!fileVars, Words
<1> QED
  BY <1>3, <1>4, <1>5, <1>6, <1>7, <1>8 DEF Next

(***************************************************************************)
(* Without holes and files grown by truncating them, files behave as       *)
(* sequences of words that do not know of each other: writes store their   *)
(* words where they were told to, up to the largest size, or report an     *)
(* error, no call shows in another file, and what a file held before a     *)
(* write, a truncation or the reuse of a block is not changed.             *)
(***************************************************************************)
THEOREM ImplementsFiles ==
  ASSUME {"hole", "grow"} \cap OutOfOrder = {}
  PROVE  Spec => FilesImplemented
<1>1. Init => Abstract!Init
  BY DEF Init, Abstract!Init
<1>2. Spec => []IInv
  BY Invariant
<1> QED
  BY <1>1, <1>2, StepsImplemented, PTL DEF Spec, FilesImplemented, Abstract!Spec

=============================================================================
