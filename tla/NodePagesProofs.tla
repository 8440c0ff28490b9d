--------------------------- MODULE NodePagesProofs ---------------------------
(***************************************************************************)
(* For inodes, pages and tables of any shape, and any number of            *)
(* directories: no inode that a directory needs is free or has another     *)
(* use, nlink counts the entries, the accessors by offset agree with the   *)
(* listings, and each directory is the set of names that Directories has.  *)
(* What carries all of it is one fact about dnode_listing_set: each inode  *)
(* needed has one place, and the new array is what is stored (PlacesStay,  *)
(* EntriesStored).                                                         *)
(***************************************************************************)
EXTENDS NodePages, LoopProofs

(***************************************************************************)
(* The shape: which page an entry is in, and which table names a page.     *)
(***************************************************************************)
LEMMA Shape ==
  /\ DIRECT \in Nat /\ DIRECT >= 2
  /\ PER_PAGE \in Nat \ {0} /\ FAN \in Nat \ {0}
  /\ LV1 \in Nat /\ LV2 \in Nat
  /\ LV2 * FAN \in Nat /\ Pages \in Nat /\ Pages * PER_PAGE \in Nat
  /\ ENTRY_MAX_SIZE \in Nat /\ ENTRY_MAX_SIZE >= 2
  /\ Largest \in Nat /\ Largest <= ENTRY_MAX_SIZE
  /\ PageNums = 0 .. Pages - 1
<1>1. /\ DIRECT \in Nat /\ DIRECT >= 2
      /\ PER_PAGE \in Nat \ {0} /\ FAN \in Nat \ {0}
      /\ LV1 \in Nat /\ LV2 \in Nat /\ Spare \in 0 .. 1
  BY NodePagesAssumption
<1>2. LV2 * FAN \in Nat
  BY <1>1
<1>3. Pages \in Nat
  BY <1>1, <1>2 DEF Pages
<1>4. Pages * PER_PAGE \in Nat
  BY <1>1, <1>3
<1> QED
  BY <1>1, <1>2, <1>3, <1>4 DEF ENTRY_MAX_SIZE, Largest, PageNums

LEMMA StartNat ==
  ASSUME NEW k \in Nat
  PROVE  Start(k) \in Nat /\ DIRECT <= Start(k)
<1>1. k * PER_PAGE \in Nat
  BY Shape
<1> QED
  BY <1>1, Shape DEF Start

(* Pages begin one after the other. *)
LEMMA StartGrows ==
  ASSUME NEW k \in Nat, NEW l \in Nat
  PROVE  /\ k <= l <=> Start(k) <= Start(l)
         /\ k = l <=> Start(k) = Start(l)
<1>1. ASSUME NEW i \in Nat, NEW j \in Nat, i < j
      PROVE  Start(i) < Start(j)
  <2>1. (i + 1) * PER_PAGE <= j * PER_PAGE
    BY <1>1, Shape
  <2>2. (i + 1) * PER_PAGE = i * PER_PAGE + PER_PAGE
    BY Shape
  <2>3. i * PER_PAGE \in Nat /\ j * PER_PAGE \in Nat
    BY Shape
  <2> QED
    BY <2>1, <2>2, <2>3, Shape DEF Start
<1>2. Start(k) \in Nat /\ Start(l) \in Nat
  BY StartNat
<1>3. k < l => Start(k) < Start(l)
  BY <1>1
<1>4. l < k => Start(l) < Start(k)
  BY <1>1
<1> QED
  BY <1>2, <1>3, <1>4

PageOf(s) == (s - DIRECT) \div PER_PAGE
InPage(s) == (s - DIRECT) % PER_PAGE

(* Where an entry is that is not in the inode. *)
LEMMA SlotInPage ==
  ASSUME NEW s \in Nat, DIRECT <= s
  PROVE  /\ PageOf(s) \in Nat /\ InPage(s) \in PageSlots
         /\ s = Start(PageOf(s)) + InPage(s)
         /\ Start(PageOf(s)) <= s
         /\ s < ENTRY_MAX_SIZE => PageOf(s) \in PageNums
<1>1. s - DIRECT \in Nat
  BY Shape
<1>2. /\ PageOf(s) \in Nat /\ PageOf(s) * PER_PAGE <= s - DIRECT
      /\ InPage(s) \in 0 .. PER_PAGE - 1
      /\ s - DIRECT = PageOf(s) * PER_PAGE + InPage(s)
  BY <1>1, Shape, Quotient DEF PageOf, InPage
<1>3. PageOf(s) * PER_PAGE \in Nat
  BY <1>2, Shape
<1>4. ASSUME s < ENTRY_MAX_SIZE
      PROVE  PageOf(s) \in PageNums
  <2>1. s - DIRECT < Pages * PER_PAGE
    BY <1>4, Shape DEF ENTRY_MAX_SIZE
  <2>2. PageOf(s) < Pages
    BY <1>1, <2>1, Shape, QuotientBelow DEF PageOf
  <2> QED
    BY <1>2, <2>2, Shape
<1> QED
  BY <1>2, <1>3, <1>4, Shape DEF Start, PageSlots

(* The slots of a page are slots of the array. *)
LEMMA PageInArray ==
  ASSUME NEW k \in PageNums, NEW j \in PageSlots
  PROVE  Start(k) + j \in Slots
<1>1. k \in Nat /\ k + 1 <= Pages
  BY Shape
<1>2. (k + 1) * PER_PAGE <= Pages * PER_PAGE
  BY <1>1, Shape
<1>3. (k + 1) * PER_PAGE = k * PER_PAGE + PER_PAGE
  BY <1>1, Shape
<1>4. k * PER_PAGE \in Nat /\ j \in 0 .. PER_PAGE - 1
  BY <1>1, Shape DEF PageSlots
<1> QED
  BY <1>2, <1>3, <1>4, Shape DEF Start, Slots, ENTRY_MAX_SIZE

(* No two slots have the same place in the same page. *)
LEMMA SlotsDiffer ==
  ASSUME NEW s \in Nat, NEW t \in Nat, DIRECT <= s, DIRECT <= t,
         PageOf(s) = PageOf(t), InPage(s) = InPage(t)
  PROVE  s = t
BY SlotInPage

(* The pages of a table. *)
LEMMA PageOfTable ==
  ASSUME NEW t \in TableNums, NEW j \in 0 .. FAN - 1
  PROVE  /\ FirstPage(t) \in PageNums /\ FirstPage(t) + j \in PageNums
         /\ LV1 <= FirstPage(t)
         /\ Table(FirstPage(t) + j) = t /\ InTable(FirstPage(t) + j) = j
<1>1. t \in Nat /\ t + 1 <= LV2 /\ j \in Nat /\ j < FAN
  BY Shape DEF TableNums
<1>2. (t + 1) * FAN <= LV2 * FAN
  BY <1>1, Shape
<1>3. (t + 1) * FAN = t * FAN + FAN /\ t * FAN \in Nat
  BY <1>1, Shape
<1>4. LV1 <= FirstPage(t) /\ FirstPage(t) \in PageNums /\ FirstPage(t) + j \in PageNums
  BY <1>1, <1>2, <1>3, Shape DEF FirstPage, Pages, PageNums
<1>5. (FirstPage(t) + j) - LV1 = t * FAN + j
  BY <1>1, <1>3, Shape DEF FirstPage
<1>6. t * FAN + j \in Nat
  BY <1>1, <1>3
<1>7. (t * FAN + j) \div FAN = t
  <2>1. t * FAN + j < (t + 1) * FAN /\ t * FAN <= t * FAN + j
    BY <1>1, <1>3, Shape
  <2>2. (t * FAN + j) \div FAN < t + 1 /\ t <= (t * FAN + j) \div FAN
    BY <1>1, <1>6, <2>1, Shape, QuotientBelow
  <2>3. (t * FAN + j) \div FAN \in Nat
    BY <1>6, Shape, Quotient
  <2> QED
    BY <1>1, <2>2, <2>3
<1>8. (t * FAN + j) % FAN = j
  <2>1. t * FAN + j = t * FAN + ((t * FAN + j) % FAN) /\ (t * FAN + j) % FAN \in 0 .. FAN - 1
    BY <1>6, <1>7, Shape, Quotient
  <2> QED
    BY <1>1, <1>3, <2>1, Shape
<1> QED
  BY <1>4, <1>5, <1>7, <1>8 DEF Table, InTable

(* The table of a page. *)
LEMMA TableOfPage ==
  ASSUME NEW k \in PageNums, LV1 <= k
  PROVE  /\ Table(k) \in TableNums /\ InTable(k) \in 0 .. FAN - 1
         /\ FirstPage(Table(k)) \in PageNums
         /\ FirstPage(Table(k)) <= k
         /\ k = FirstPage(Table(k)) + InTable(k)
<1>1. k \in Nat /\ k - LV1 \in Nat /\ k - LV1 < LV2 * FAN
  BY Shape DEF Pages
<1>2. /\ Table(k) \in Nat /\ Table(k) * FAN <= k - LV1
      /\ InTable(k) \in 0 .. FAN - 1
      /\ k - LV1 = Table(k) * FAN + InTable(k)
  BY <1>1, Shape, Quotient DEF Table, InTable
<1>3. Table(k) < LV2
  <2> DEFINE a == k - LV1
  <2>1. a \in Nat /\ a < LV2 * FAN /\ FAN \in Nat \ {0} /\ LV2 \in Nat
    BY <1>1, Shape
  <2>2. Table(k) = a \div FAN
    BY DEF Table
  <2> HIDE DEF a
  <2> QED
    BY <2>1, <2>2, QuotientBelow
<1>4. Table(k) \in TableNums
  BY <1>2, <1>3, Shape DEF TableNums
<1>5. 0 \in 0 .. FAN - 1
  BY Shape
<1>6. FirstPage(Table(k)) \in PageNums
  BY <1>4, <1>5, PageOfTable
<1>7. Table(k) * FAN \in Nat
  BY <1>2, Shape
<1>8. FirstPage(Table(k)) <= k /\ k = FirstPage(Table(k)) + InTable(k)
  <2> DEFINE a == Table(k) * FAN
             b == InTable(k)
  <2>1. /\ a \in Nat /\ b \in Nat /\ k - LV1 = a + b /\ k \in Nat /\ LV1 \in Nat
        /\ FirstPage(Table(k)) = LV1 + a
    BY <1>1, <1>2, <1>7, Shape DEF FirstPage
  <2> HIDE DEF a, b
  <2> QED
    BY <2>1 DEF b
<1> QED
  BY <1>2, <1>4, <1>6, <1>8

-----------------------------------------------------------------------------
(***************************************************************************)
(* The inductive invariant. Each inode that a directory needs has one      *)
(* place: it is a page or a table, of one directory, with one number. The  *)
(* entries are the dots, then names, each once.                            *)
(***************************************************************************)

(* The pages and tables that so many entries need. *)
PagesFor(many) == {k \in PageNums : Start(k) < many}
TablesFor(many) == {t \in TableNums : Start(FirstPage(t)) < many}

PagesHeld ==
  \A n \in live : \A k \in PagesFor(size[n]) : PageInode(n, k) \in Inodes \ free

TablesHeld ==
  \A n \in live : \A t \in TablesFor(size[n]) : expnum[n][t] \in Inodes \ free

PagesDiffer ==
  \A m, n \in live : \A k \in PagesFor(size[m]), l \in PagesFor(size[n]) :
    PageInode(m, k) = PageInode(n, l) => m = n /\ k = l

TablesDiffer ==
  \A m, n \in live : \A t \in TablesFor(size[m]), u \in TablesFor(size[n]) :
    expnum[m][t] = expnum[n][u] => m = n /\ t = u

TablesNoPages ==
  \A m, n \in live : \A k \in PagesFor(size[m]), t \in TablesFor(size[n]) :
    PageInode(m, k) # expnum[n][t]

InodesPlaced ==
  PagesHeld /\ TablesHeld /\ PagesDiffer /\ TablesDiffer /\ TablesNoPages

DotsFirst ==
  \A n \in live : size[n] >= 2 /\ Stored(n, 0) = Dot /\ Stored(n, 1) = DotDot

NamesFollow ==
  \A n \in live : \A s \in 2 .. size[n] - 1 : Stored(n, s) \in Names

EntriesDiffer ==
  \A n \in live : \A s, t \in 0 .. size[n] - 1 : Stored(n, s) = Stored(n, t) => s = t

LinksCounted == \A n \in live : nlink[n] = size[n]

EntriesPlaced == DotsFirst /\ NamesFollow /\ EntriesDiffer /\ LinksCounted

IInv == TypeOK /\ InodesPlaced /\ EntriesPlaced

-----------------------------------------------------------------------------
(***************************************************************************)
(* What dnode_listing_set takes and gives up.                              *)
(***************************************************************************)
Entry == Names \cup Dots \cup {Blank}

LEMMA TypeParts ==
  ASSUME TypeOK
  PROVE  /\ size \in [Nodes -> 0 .. Largest]
         /\ direct \in [Nodes -> [0 .. DIRECT - 1 -> Entry]]
         /\ dpnum \in [Nodes -> [0 .. LV1 - 1 -> Inodes \cup {0}]]
         /\ expnum \in [Nodes -> [TableNums -> Inodes \cup {0}]]
         /\ exnum \in [Inodes \cup {0} -> [0 .. FAN - 1 -> Inodes \cup {0}]]
         /\ page \in [Inodes \cup {0} -> [PageSlots -> Entry]]
         /\ d \in [Slots -> Entry]
         /\ free \subseteq Inodes
         /\ live \subseteq Nodes
BY DEF TypeOK, Entry, TableNums

LEMMA PageInodeType ==
  ASSUME TypeOK, NEW n \in Nodes, NEW k \in PageNums
  PROVE  PageInode(n, k) \in Inodes \cup {0}
<1>1. CASE k < LV1
  <2>1. k \in 0 .. LV1 - 1
    BY <1>1, Shape
  <2>2. dpnum[n] \in [0 .. LV1 - 1 -> Inodes \cup {0}]
    BY TypeParts
  <2>3. PageInode(n, k) = dpnum[n][k]
    BY <1>1 DEF PageInode
  <2> QED
    BY <2>1, <2>2, <2>3
<1>2. CASE ~ (k < LV1)
  <2>1. Table(k) \in TableNums /\ InTable(k) \in 0 .. FAN - 1
    BY <1>2, Shape, TableOfPage
  <2>2. expnum[n] \in [TableNums -> Inodes \cup {0}]
    BY TypeParts
  <2>3. expnum[n][Table(k)] \in Inodes \cup {0}
    BY <2>1, <2>2
  <2>4. exnum[expnum[n][Table(k)]] \in [0 .. FAN - 1 -> Inodes \cup {0}]
    BY <2>3, TypeParts
  <2>5. PageInode(n, k) = exnum[expnum[n][Table(k)]][InTable(k)]
    BY <1>2 DEF PageInode
  <2> QED
    BY <2>1, <2>4, <2>5
<1> QED
  BY <1>1, <1>2

(* Nothing is taken when a directory does not grow. *)
LEMMA TakenNone ==
  ASSUME NEW old \in Nat, NEW new \in Nat, new <= old
  PROVE  Taken(old, new) = {} /\ Tables(Taken(old, new)) = {}
<1>1. \A k \in PageNums : Start(k) \in Nat
  BY StartNat, Shape
<1> QED
  BY <1>1 DEF Taken, NeverHad, Tables

(* One entry more takes the page that begins with it. *)
LEMMA TakenOne ==
  ASSUME NEW old \in Nat
  PROVE  /\ Taken(old, old + 1) = {k \in PageNums : Start(k) = old}
         /\ \A k, l \in Taken(old, old + 1) : k = l
         /\ \A k \in Taken(old, old + 1) : Taken(old, old + 1) = {k}
<1>1. \A k \in PageNums : Start(k) \in Nat
  BY StartNat, Shape
<1>2. Taken(old, old + 1) = {k \in PageNums : Start(k) = old}
  BY <1>1 DEF Taken, NeverHad
<1>3. \A k, l \in Taken(old, old + 1) : k = l
  BY <1>2, Shape, StartGrows
<1> QED
  BY <1>2, <1>3

(* The first page of a table, and the table it is the first page of. *)
LEMMA FirstPages ==
  /\ \A t \in TableNums : FirstPage(t) \in PageNums /\ FirstOfTable(FirstPage(t)) /\ Table(FirstPage(t)) = t
  /\ \A k \in PageNums : FirstOfTable(k) => Table(k) \in TableNums /\ FirstPage(Table(k)) = k
<1>1. ASSUME NEW t \in TableNums
      PROVE  FirstPage(t) \in PageNums /\ FirstOfTable(FirstPage(t)) /\ Table(FirstPage(t)) = t
  <2>1. 0 \in 0 .. FAN - 1
    BY Shape
  <2>2. /\ FirstPage(t) \in PageNums /\ LV1 <= FirstPage(t)
        /\ Table(FirstPage(t) + 0) = t /\ InTable(FirstPage(t) + 0) = 0
    BY <2>1, PageOfTable
  <2>3. FirstPage(t) + 0 = FirstPage(t)
    BY <2>2, Shape
  <2> QED
    BY <2>2, <2>3, Shape DEF FirstOfTable
<1>2. ASSUME NEW k \in PageNums, FirstOfTable(k)
      PROVE  Table(k) \in TableNums /\ FirstPage(Table(k)) = k
  <2>1. LV1 <= k /\ InTable(k) = 0
    BY <1>2, Shape DEF FirstOfTable
  <2>2. Table(k) \in TableNums /\ FirstPage(Table(k)) \in PageNums /\ k = FirstPage(Table(k)) + InTable(k)
    BY <2>1, TableOfPage
  <2> QED
    BY <2>1, <2>2, Shape
<1> QED
  BY <1>1, <1>2

(* Pages given up were needed, and are not any more. *)
LEMMA GivenAre ==
  ASSUME NEW old \in Nat, NEW new \in Nat, NEW k \in GivenUp(old, new)
  PROVE  /\ k \in PageNums /\ Start(k) < old /\ new <= Start(k)
         /\ FirstOfTable(k) =>
              Table(k) \in TablesFor(old) /\ ~ (Table(k) \in TablesFor(new))
<1>1. k \in PageNums /\ k \in Nat /\ Start(k) \in Nat
  BY Shape, StartNat DEF GivenUp
<1>2. Start(k) < old
  BY <1>1 DEF GivenUp, NeverHad
<1>3. new <= Start(k)
  <2>1. CASE k < LV1
    BY <1>1, <2>1 DEF GivenUp
  <2>2. CASE ~ (k < LV1)
    <3>1. FirstPage(Table(k)) \in PageNums /\ FirstPage(Table(k)) <= k
      BY <1>1, <2>2, Shape, TableOfPage
    <3>2. FirstPage(Table(k)) \in Nat /\ Start(FirstPage(Table(k))) \in Nat
      BY <3>1, Shape, StartNat
    <3>3. Start(FirstPage(Table(k))) <= Start(k)
      BY <1>1, <3>1, <3>2, StartGrows
    <3>4. Start(FirstPage(Table(k))) >= new
      BY <2>2 DEF GivenUp
    <3> QED
      BY <1>1, <3>2, <3>3, <3>4
  <2> QED
    BY <2>1, <2>2
<1>4. ASSUME FirstOfTable(k)
      PROVE  Table(k) \in TablesFor(old) /\ ~ (Table(k) \in TablesFor(new))
  <2>1. Table(k) \in TableNums /\ FirstPage(Table(k)) = k
    BY <1>1, <1>4, FirstPages
  <2> QED
    BY <1>1, <1>2, <1>3, <2>1 DEF TablesFor
<1> QED
  BY <1>1, <1>2, <1>3, <1>4

(***************************************************************************)
(* The inodes that free_inode_pop returns the first two times.             *)
(***************************************************************************)
LEMMA FreeIsFinite ==
  ASSUME TypeOK
  PROVE  free \in SUBSET Nat /\ IsFiniteSet(free) /\ Cardinality(free) \in Nat
<1>1. free \in SUBSET Inodes /\ IsFiniteSet(Inodes) /\ Inodes \subseteq Nat
  BY TypeParts, NodePagesAssumption
<1> QED
  BY <1>1, FS_Subset, FS_CardinalityType

LEMMA OneLower ==
  ASSUME TypeOK, free # {}
  PROVE  \E i \in free : Lower[i] = 0
<1>1. PICK i \in free : \A j \in free : i <= j
  BY FreeIsFinite, LeastNumber
<1>2. i \in Nat /\ free \cap (0 .. i - 1) = {}
  BY <1>1, FreeIsFinite
<1>3. Lower[i] = 0
  BY <1>2, FS_EmptySet DEF Lower
<1> QED
  BY <1>3

LEMMA TwoLower ==
  ASSUME TypeOK, Cardinality(free) >= 2
  PROVE  \E i \in free : Lower[i] = 1
<1>1. free # {}
  BY FS_EmptySet, FreeIsFinite
<1>2. PICK i \in free : \A j \in free : i <= j
  BY <1>1, FreeIsFinite, LeastNumber
<1>3. free \ {i} # {}
  <2>1. Cardinality(free \ {i}) = Cardinality(free) - 1 /\ IsFiniteSet(free \ {i})
    BY FreeIsFinite, FS_RemoveElement
  <2> QED
    BY <2>1, FreeIsFinite, FS_EmptySet
<1>4. free \ {i} \in SUBSET Nat
  BY FreeIsFinite
<1>5. PICK h \in free \ {i} : \A j \in free \ {i} : h <= j
  BY <1>3, <1>4, LeastNumber
<1>6. i \in Nat /\ h \in Nat /\ i <= h /\ i # h
  BY <1>2, <1>5, FreeIsFinite
<1>7. free \cap (0 .. h - 1) = {i}
  BY <1>5, <1>6, FreeIsFinite
<1>8. Lower[h] = 1
  BY <1>7, FS_Singleton DEF Lower
<1> QED
  BY <1>8

LEMMA PopsAre ==
  ASSUME TypeOK, NEW many \in 0 .. 2, many <= Cardinality(free)
  PROVE  LET popped == Pops(Lower, many)
         IN  /\ many >= 1 => popped[1] \in free
             /\ many = 2 => popped[2] \in free /\ popped[1] # popped[2]
<1> DEFINE popped == Pops(Lower, many)
<1>1. Cardinality(free) \in Nat
  BY FreeIsFinite
<1>2. ASSUME many >= 1
      PROVE  popped[1] \in free /\ Lower[popped[1]] = 0
  <2>1. free # {}
    BY <1>1, <1>2, FS_EmptySet
  <2>2. popped[1] = CHOOSE i \in free : Lower[i] = 1 - 1
    BY <1>1, <1>2 DEF Pops
  <2>3. popped[1] = CHOOSE i \in free : Lower[i] = 0
    BY <2>2
  <2> HIDE DEF popped
  <2> QED
    BY <2>1, <2>3, OneLower
<1>3. ASSUME many = 2
      PROVE  popped[2] \in free /\ Lower[popped[2]] = 1
  <2>1. popped[2] = CHOOSE i \in free : Lower[i] = 2 - 1
    BY <1>1, <1>3 DEF Pops
  <2>2. popped[2] = CHOOSE i \in free : Lower[i] = 1
    BY <2>1
  <2>3. Cardinality(free) >= 2
    BY <1>1, <1>3
  <2> HIDE DEF popped
  <2> QED
    BY <2>2, <2>3, TwoLower
<1> QED
  BY <1>2, <1>3

-----------------------------------------------------------------------------
(***************************************************************************)
(* Where dnode_listing_set puts pages and tables.                          *)
(***************************************************************************)
Needs(taken) == Cardinality(taken) + Cardinality(Tables(taken))

TableAfter(n, taken) ==
  [t \in TableNums |->
     IF FirstPage(t) \in taken THEN Pops(Lower, Needs(taken))[Turn(FirstPage(t), taken) - 1]
     ELSE expnum[n][t]]

InumAfter(n, taken) ==
  [k \in PageNums |->
     IF k \in taken THEN Pops(Lower, Needs(taken))[Turn(k, taken)] ELSE PageInode(n, k)]

LEMMA SetListingParts ==
  ASSUME NEW n, NEW new \in 0 .. Largest, NEW dd, SetListing(n, new, dd)
  PROVE  LET taken == Taken(size[n], new)
             given == GivenUp(size[n], new)
         IN  /\ Stores(n, new, taken, given, InumAfter(n, taken), TableAfter(n, taken), dd)
             /\ size' = [size EXCEPT ![n] = new]
             /\ direct' = [direct EXCEPT ![n] = [s \in 0 .. DIRECT - 1 |-> dd[s]]]
             /\ d' = dd
<1>1. Clamped(new) = new
  BY Shape DEF Clamped
<1> QED
  BY <1>1 DEF SetListing, InumAfter, TableAfter, Needs

(* A page taken, with or without a table before it. *)
LEMMA OneTaken ==
  ASSUME NEW k \in PageNums
  PROVE  /\ FirstOfTable(k) =>
              Tables({k}) = {Table(k)} /\ Turn(k, {k}) = 2 /\ Needs({k}) = 2
         /\ ~ FirstOfTable(k) =>
              Tables({k}) = {} /\ Turn(k, {k}) = 1 /\ Needs({k}) = 1
<1>1. {k} \cap (0 .. k) = {k}
  BY Shape
<1>2. CASE FirstOfTable(k)
  <2>1. Tables({k}) = {Table(k)} /\ {t \in Tables({k}) : FirstPage(t) <= k} = {Table(k)}
    BY <1>2, FirstPages, Shape DEF Tables
  <2> QED
    BY <1>1, <1>2, <2>1, FS_Singleton DEF Turn, Needs
<1>3. CASE ~ FirstOfTable(k)
  <2>1. Tables({k}) = {} /\ {t \in Tables({k}) : FirstPage(t) <= k} = {}
    BY <1>3, FirstPages DEF Tables
  <2>2. Cardinality({k}) = 1 /\ Cardinality({}) = 0
    BY FS_Singleton, FS_EmptySet
  <2>3. Turn(k, {k}) = 1 + 0 /\ Needs({k}) = 1 + 0
    BY <1>1, <2>1, <2>2 DEF Turn, Needs
  <2> QED
    BY <1>3, <2>1, <2>3
<1> QED
  BY <1>2, <1>3

(***************************************************************************)
(* Pages and tables keep their inodes, or get free ones, each another; at  *)
(* most one page is taken, and only when none is given up.                 *)
(***************************************************************************)
Allotted(n, new, taken, given, inum, table) ==
  /\ inum \in [PageNums -> Inodes \cup {0}]
  /\ table \in [TableNums -> Inodes \cup {0}]
  /\ \A k \in PageNums : k \notin taken => inum[k] = PageInode(n, k)
  /\ \A t \in TableNums : t \notin Tables(taken) => table[t] = expnum[n][t]
  /\ taken \subseteq PageNums
  /\ \A k, l \in taken : k = l
  /\ \A k \in taken : inum[k] \in free /\ size[n] <= Start(k) /\ Start(k) < new
  /\ \A t \in Tables(taken) : table[t] \in free /\ \A k \in taken : inum[k] # table[t]
  /\ \A k \in PagesFor(new) : k \notin PagesFor(size[n]) => k \in taken
  /\ \A k \in given :
       /\ k \in PagesFor(size[n]) /\ k \notin PagesFor(new)
       /\ FirstOfTable(k) => Table(k) \in TablesFor(size[n]) /\ Table(k) \notin TablesFor(new)
  /\ taken = {} \/ given = {}

(* What a page and its table get from free_inode_pop. *)
LEMMA TakenInodes ==
  ASSUME TypeOK, NEW n \in Nodes, NEW k \in PageNums,
         Needs({k}) <= Cardinality(free)
  PROVE  /\ InumAfter(n, {k})[k] \in free
         /\ FirstOfTable(k) =>
              /\ TableAfter(n, {k})[Table(k)] \in free
              /\ TableAfter(n, {k})[Table(k)] # InumAfter(n, {k})[k]
<1> DEFINE many == Needs({k})
           popped == Pops(Lower, many)
<1>1. many \in 1 .. 2
  <2>1. CASE FirstOfTable(k)
    BY <2>1, OneTaken
  <2>2. CASE ~ FirstOfTable(k)
    <3>1. Needs({k}) = 1
      BY <2>2, OneTaken, Zenon
    <3> QED
      BY <3>1
  <2> QED
    BY <2>1, <2>2
<1>2. InumAfter(n, {k})[k] = popped[Turn(k, {k})]
  BY DEF InumAfter
<1>3. /\ many >= 1 => popped[1] \in free
      /\ many = 2 => popped[2] \in free /\ popped[1] # popped[2]
  <2>1. many \in 0 .. 2 /\ many <= Cardinality(free)
    BY <1>1
  <2> HIDE DEF many
  <2> QED
    BY <2>1, PopsAre
<1>4. CASE FirstOfTable(k)
  <2>1. Turn(k, {k}) = 2 /\ many = 2
    BY <1>4, OneTaken
  <2>2. Table(k) \in TableNums /\ FirstPage(Table(k)) = k
    BY <1>4, FirstPages
  <2>3. TableAfter(n, {k})[Table(k)] = popped[Turn(k, {k}) - 1]
    BY <2>2 DEF TableAfter
  <2>4. Turn(k, {k}) - 1 = 1
    BY <2>1
  <2>5. TableAfter(n, {k})[Table(k)] = popped[1] /\ InumAfter(n, {k})[k] = popped[2]
    BY <1>2, <2>1, <2>3, <2>4
  <2> HIDE DEF popped, many
  <2> QED
    BY <1>1, <1>3, <2>1, <2>5
<1>5. CASE ~ FirstOfTable(k)
  <2>1. Turn(k, {k}) = 1
    BY <1>5, OneTaken
  <2> HIDE DEF popped, many
  <2> QED
    BY <1>1, <1>2, <1>3, <1>5, <2>1
<1> QED
  BY <1>4, <1>5

(* dnode_append asks for as many inodes as its entry takes. *)
LEMMA NewInodesAre ==
  ASSUME TypeOK, NEW n \in Nodes, NEW k \in PageNums, Start(k) = size[n]
  PROVE  NewInodes(n) = Needs({k})
<1>1. {l \in 0 .. Pages - 1 : Start(l) = size[n]} = {k}
  BY Shape, StartGrows
<1>2. FirstOfTable(k) => {l \in {k} : FirstOfTable(l)} = {k}
  OBVIOUS
<1>3. ~ FirstOfTable(k) => {l \in {k} : FirstOfTable(l)} = {}
  OBVIOUS
<1>4. NewInodes(n) = Cardinality({k}) + Cardinality({l \in {k} : FirstOfTable(l)})
  BY <1>1 DEF NewInodes
<1>5. Cardinality({k}) = 1 /\ Cardinality({}) = 0
  BY FS_Singleton, FS_EmptySet
<1>6. CASE FirstOfTable(k)
  <2>1. Needs({k}) = 2
    BY <1>6, OneTaken, Zenon
  <2>2. NewInodes(n) = Cardinality({k}) + Cardinality({k})
    BY <1>2, <1>4, <1>6, Zenon
  <2> QED
    BY <1>5, <2>1, <2>2
<1>7. CASE ~ FirstOfTable(k)
  <2>1. Needs({k}) = 1
    BY <1>7, OneTaken, Zenon
  <2>2. NewInodes(n) = 1 + 0
    BY <1>3, <1>4, <1>5, <1>7
  <2> QED
    BY <2>1, <2>2
<1> QED
  BY <1>6, <1>7

(* The sizes that the callers ask for, and that there are inodes for. *)
Wanted(n, new) ==
  \/ new <= size[n]
  \/ new = size[n] + 1 /\ NewInodes(n) <= Cardinality(free)

LEMMA Allots ==
  ASSUME TypeOK, NEW n \in Nodes, NEW new \in 0 .. Largest, Wanted(n, new)
  PROVE  LET taken == Taken(size[n], new)
         IN  Allotted(n, new, taken, GivenUp(size[n], new),
                      InumAfter(n, taken), TableAfter(n, taken))
<1> DEFINE taken == Taken(size[n], new)
           given == GivenUp(size[n], new)
           inum == InumAfter(n, taken)
           table == TableAfter(n, taken)
<1>1. size[n] \in Nat /\ new \in Nat
  BY TypeParts, Shape
<1>2. \A k \in PageNums : k \in Nat /\ Start(k) \in Nat
  BY Shape, StartNat
<1>3. \A k \in PageNums : k \notin taken => inum[k] = PageInode(n, k)
  BY DEF InumAfter
<1>4. \A t \in TableNums : t \notin Tables(taken) => table[t] = expnum[n][t]
  BY DEF TableAfter, Tables
<1>5. taken \subseteq PageNums /\ \A k \in taken : size[n] <= Start(k) /\ Start(k) < new
  BY <1>1, <1>2 DEF Taken, NeverHad
<1>6. \A k \in PagesFor(new) : k \notin PagesFor(size[n]) => k \in taken
  BY <1>1, <1>2 DEF PagesFor, Taken, NeverHad
<1>7. \A k, l \in taken : k = l
  BY <1>1, TakenNone, TakenOne DEF Wanted
<1>8. ASSUME NEW k \in taken
      PROVE  /\ inum[k] \in free
             /\ FirstOfTable(k) => table[Table(k)] \in free /\ table[Table(k)] # inum[k]
  <2>1. taken = {k} /\ k \in PageNums
    BY <1>5, <1>7
  <2>2. new = size[n] + 1 /\ NewInodes(n) <= Cardinality(free) /\ Start(k) = size[n]
    BY <1>1, <1>2, <1>5, TakenNone DEF Wanted
  <2>3. Needs({k}) <= Cardinality(free)
    BY <2>1, <2>2, NewInodesAre
  <2>4. inum = InumAfter(n, {k}) /\ table = TableAfter(n, {k})
    BY <2>1
  <2> HIDE DEF inum, table, taken
  <2> QED
    BY <2>1, <2>3, <2>4, TakenInodes
<1>9. ASSUME NEW t \in Tables(taken)
      PROVE  table[t] \in free /\ \A k \in taken : inum[k] # table[t]
  <2>1. t \in TableNums /\ FirstPage(t) \in taken
    BY DEF Tables
  <2>2. FirstOfTable(FirstPage(t)) /\ Table(FirstPage(t)) = t
    BY <2>1, FirstPages
  <2> HIDE DEF inum, table, taken
  <2> QED
    BY <1>7, <1>8, <2>1, <2>2
<1>10. free \subseteq Inodes
  BY TypeParts
<1>11. inum \in [PageNums -> Inodes \cup {0}]
  <2>1. \A k \in PageNums : inum[k] \in Inodes \cup {0}
    BY <1>3, <1>8, <1>10, PageInodeType
  <2> QED
    BY <2>1 DEF InumAfter
<1>12. table \in [TableNums -> Inodes \cup {0}]
  <2>1. \A t \in TableNums : table[t] \in Inodes \cup {0}
    BY <1>4, <1>9, <1>10, TypeParts
  <2> QED
    BY <2>1 DEF TableAfter
<1>13. taken = {} \/ given = {}
  <2>1. CASE new <= size[n]
    BY <1>1, <2>1, TakenNone
  <2>2. CASE new = size[n] + 1
    <3>1. ASSUME NEW k \in given
          PROVE  FALSE
      <4>1. k \in PageNums /\ Start(k) < size[n] /\ new <= Start(k)
        BY <1>1, GivenAre
      <4> QED
        BY <1>1, <1>2, <2>2, <4>1
    <3> QED
      BY <3>1
  <2> QED
    BY <2>1, <2>2 DEF Wanted
<1> HIDE DEF taken, given, inum, table
<1>14. \A k \in given :
        /\ k \in PagesFor(size[n]) /\ k \notin PagesFor(new)
        /\ FirstOfTable(k) => Table(k) \in TablesFor(size[n]) /\ Table(k) \notin TablesFor(new)
  <2>1. ASSUME NEW k \in given
        PROVE  /\ k \in PageNums /\ Start(k) < size[n] /\ new <= Start(k)
               /\ FirstOfTable(k) => Table(k) \in TablesFor(size[n]) /\ Table(k) \notin TablesFor(new)
    BY <1>1, GivenAre DEF given
  <2>2. ASSUME NEW k \in given
        PROVE  k \in PagesFor(size[n]) /\ k \notin PagesFor(new)
    BY <1>1, <1>2, <2>1 DEF PagesFor
  <2> QED
    BY <2>1, <2>2
<1>15. Allotted(n, new, taken, given, inum, table)
  BY <1>14, <1>3, <1>4, <1>5, <1>6, <1>7, <1>8, <1>9, <1>11, <1>12, <1>13 DEF Allotted
<1> QED
  BY <1>15 DEF taken, given, inum, table

-----------------------------------------------------------------------------
(***************************************************************************)
(* Places after dnode_listing_set on n: those of n as allotted, those of   *)
(* other directories as they were.                                         *)
(***************************************************************************)
SizeThen(m, n, new) == IF m = n THEN new ELSE size[m]
PageThen(m, k, n, inum) == IF m = n THEN inum[k] ELSE PageInode(m, k)
TableThen(m, t, n, table) == IF m = n THEN table[t] ELSE expnum[m][t]

(* A page is where it was, or in an inode that was free. *)
LEMMA PageKept ==
  ASSUME TypeOK, InodesPlaced, NEW n \in live, NEW new \in 0 .. Largest,
         NEW taken, NEW given, NEW inum, NEW table,
         Allotted(n, new, taken, given, inum, table),
         NEW m \in live, NEW k \in PagesFor(SizeThen(m, n, new))
  PROVE  LET i == PageThen(m, k, n, inum)
         IN  \/ k \in PagesFor(size[m]) /\ i = PageInode(m, k) /\ i \in Inodes \ free
             \/ m = n /\ k \in taken /\ i = inum[k] /\ i \in free
<1>1. CASE m # n
  BY <1>1 DEF SizeThen, PageThen, InodesPlaced, PagesHeld
<1>2. CASE m = n /\ k \in taken
  BY <1>2 DEF PageThen, Allotted
<1>3. CASE m = n /\ k \notin taken
  <2>1. k \in PagesFor(new) /\ k \in PageNums
    BY <1>3 DEF SizeThen, PagesFor
  <2>2. k \in PagesFor(size[n]) /\ inum[k] = PageInode(n, k)
    BY <1>3, <2>1 DEF Allotted
  <2> QED
    BY <1>3, <2>2 DEF PageThen, InodesPlaced, PagesHeld
<1> QED
  BY <1>1, <1>2, <1>3

LEMMA TableKept ==
  ASSUME TypeOK, InodesPlaced, NEW n \in live, NEW new \in 0 .. Largest,
         NEW taken, NEW given, NEW inum, NEW table,
         Allotted(n, new, taken, given, inum, table),
         NEW m \in live, NEW t \in TablesFor(SizeThen(m, n, new))
  PROVE  LET i == TableThen(m, t, n, table)
         IN  \/ t \in TablesFor(size[m]) /\ i = expnum[m][t] /\ i \in Inodes \ free
             \/ m = n /\ t \in Tables(taken) /\ i = table[t] /\ i \in free
<1>1. CASE m # n
  BY <1>1 DEF SizeThen, TableThen, InodesPlaced, TablesHeld
<1>2. CASE m = n /\ t \in Tables(taken)
  BY <1>2 DEF TableThen, Allotted
<1>3. CASE m = n /\ t \notin Tables(taken)
  <2>1. t \in TableNums /\ FirstPage(t) \in PageNums /\ Start(FirstPage(t)) < new
    BY <1>3, FirstPages DEF SizeThen, TablesFor
  <2>2. FirstPage(t) \in PagesFor(new) /\ FirstPage(t) \notin taken
    BY <1>3, <2>1 DEF PagesFor, Tables
  <2>3. FirstPage(t) \in PagesFor(size[n]) /\ table[t] = expnum[n][t]
    BY <1>3, <2>1, <2>2 DEF Allotted
  <2>4. t \in TablesFor(size[n])
    BY <2>1, <2>3 DEF PagesFor, TablesFor
  <2> QED
    BY <1>3, <2>3, <2>4 DEF TableThen, InodesPlaced, TablesHeld
<1> QED
  BY <1>1, <1>2, <1>3

LEMMA OneTable ==
  ASSUME NEW taken, \A k, l \in taken : k = l,
         NEW t \in Tables(taken), NEW u \in Tables(taken)
  PROVE  t = u
BY FirstPages DEF Tables

(* No inode has two places. *)
LEMMA PlacesDiffer ==
  ASSUME TypeOK, InodesPlaced, NEW n \in live, NEW new \in 0 .. Largest,
         NEW taken, NEW given, NEW inum, NEW table,
         Allotted(n, new, taken, given, inum, table),
         NEW m \in live, NEW h \in live
  PROVE  /\ \A k \in PagesFor(SizeThen(m, n, new)), l \in PagesFor(SizeThen(h, n, new)) :
              PageThen(m, k, n, inum) = PageThen(h, l, n, inum) => m = h /\ k = l
         /\ \A t \in TablesFor(SizeThen(m, n, new)), u \in TablesFor(SizeThen(h, n, new)) :
              TableThen(m, t, n, table) = TableThen(h, u, n, table) => m = h /\ t = u
         /\ \A k \in PagesFor(SizeThen(m, n, new)), t \in TablesFor(SizeThen(h, n, new)) :
              PageThen(m, k, n, inum) # TableThen(h, t, n, table)
<1>1. ASSUME NEW k \in PagesFor(SizeThen(m, n, new)),
             NEW l \in PagesFor(SizeThen(h, n, new)),
             PageThen(m, k, n, inum) = PageThen(h, l, n, inum)
      PROVE  m = h /\ k = l
  <2> DEFINE i == PageThen(m, k, n, inum)
             j == PageThen(h, l, n, inum)
  <2>1. \/ k \in PagesFor(size[m]) /\ i = PageInode(m, k) /\ i \in Inodes \ free
        \/ m = n /\ k \in taken /\ i = inum[k] /\ i \in free
    BY PageKept
  <2>2. \/ l \in PagesFor(size[h]) /\ j = PageInode(h, l) /\ j \in Inodes \ free
        \/ h = n /\ l \in taken /\ j = inum[l] /\ j \in free
    BY PageKept
  <2>3. i = j
    BY <1>1
  <2> HIDE DEF i, j
  <2> QED
    BY <2>1, <2>2, <2>3 DEF InodesPlaced, PagesDiffer, Allotted
<1>2. ASSUME NEW t \in TablesFor(SizeThen(m, n, new)),
             NEW u \in TablesFor(SizeThen(h, n, new)),
             TableThen(m, t, n, table) = TableThen(h, u, n, table)
      PROVE  m = h /\ t = u
  <2> DEFINE i == TableThen(m, t, n, table)
             j == TableThen(h, u, n, table)
  <2>1. \/ t \in TablesFor(size[m]) /\ i = expnum[m][t] /\ i \in Inodes \ free
        \/ m = n /\ t \in Tables(taken) /\ i = table[t] /\ i \in free
    BY TableKept
  <2>2. \/ u \in TablesFor(size[h]) /\ j = expnum[h][u] /\ j \in Inodes \ free
        \/ h = n /\ u \in Tables(taken) /\ j = table[u] /\ j \in free
    BY TableKept
  <2>3. i = j
    BY <1>2
  <2>4. \A k, l \in taken : k = l
    BY DEF Allotted
  <2>5. t \in Tables(taken) /\ u \in Tables(taken) => t = u
    BY <2>4, OneTable
  <2> HIDE DEF i, j
  <2> QED
    BY <2>1, <2>2, <2>3, <2>5 DEF InodesPlaced, TablesDiffer
<1>3. ASSUME NEW k \in PagesFor(SizeThen(m, n, new)),
             NEW t \in TablesFor(SizeThen(h, n, new)),
             PageThen(m, k, n, inum) = TableThen(h, t, n, table)
      PROVE  FALSE
  <2> DEFINE i == PageThen(m, k, n, inum)
             j == TableThen(h, t, n, table)
  <2>1. \/ k \in PagesFor(size[m]) /\ i = PageInode(m, k) /\ i \in Inodes \ free
        \/ m = n /\ k \in taken /\ i = inum[k] /\ i \in free
    BY PageKept
  <2>2. \/ t \in TablesFor(size[h]) /\ j = expnum[h][t] /\ j \in Inodes \ free
        \/ h = n /\ t \in Tables(taken) /\ j = table[t] /\ j \in free
    BY TableKept
  <2>3. i = j
    BY <1>3
  <2> HIDE DEF i, j
  <2> QED
    BY <2>1, <2>2, <2>3 DEF InodesPlaced, TablesNoPages, Allotted
<1> QED
  BY <1>1, <1>2, <1>3

-----------------------------------------------------------------------------
(***************************************************************************)
(* What is stored: the tables that changed, and the pages as far as the    *)
(* array has them.                                                         *)
(***************************************************************************)
Changed(taken) == {Table(k) : k \in {l \in taken : l >= LV1}}

Named(t, taken, inum) ==
  [j \in 0 .. FAN - 1 |->
     IF t \in Tables(taken) /\ FirstPage(t) + j \notin taken THEN 0
     ELSE inum[FirstPage(t) + j]]

(* What inode i holds then, as a table or as a page. *)
TableStored(i, taken, inum, table) ==
  IF \E t \in Changed(taken) : table[t] = i
    THEN Named(CHOOSE t \in Changed(taken) : table[t] = i, taken, inum)
    ELSE exnum[i]

PageStored(i, new, inum, dd) ==
  IF \E k \in PagesFor(new) : inum[k] = i
    THEN Filled(CHOOSE k \in PagesFor(new) : inum[k] = i, dd) ELSE page[i]

FreeThen(taken, given, inum, table) ==
  (free \ ({inum[k] : k \in taken} \cup {table[t] : t \in Tables(taken)}))
    \cup {i \in {inum[k] : k \in given}
                  \cup {table[Table(k)] : k \in {l \in given : FirstOfTable(l)}} : i >= 2}

LEMMA StoresTables ==
  ASSUME NEW n, NEW new, NEW taken, NEW given, NEW inum, NEW table, NEW dd,
         Stores(n, new, taken, given, inum, table, dd)
  PROVE  /\ dpnum' = [dpnum EXCEPT ![n] = [k \in 0 .. LV1 - 1 |-> inum[k]]]
         /\ expnum' = [expnum EXCEPT ![n] = table]
BY DEF Stores

LEMMA StoresNames ==
  ASSUME NEW n, NEW new, NEW taken, NEW given, NEW inum, NEW table, NEW dd,
         Stores(n, new, taken, given, inum, table, dd)
  PROVE  /\ DOMAIN exnum' = DOMAIN exnum
         /\ \A i \in DOMAIN exnum : exnum'[i] = TableStored(i, taken, inum, table)
BY DEF Stores, Changed, Named, TableStored

LEMMA StoresPages ==
  ASSUME NEW n, NEW new \in 0 .. Largest,
         NEW taken, NEW given, NEW inum, NEW table, NEW dd,
         Stores(n, new, taken, given, inum, table, dd)
  PROVE  /\ DOMAIN page' = DOMAIN page
         /\ \A i \in DOMAIN page : page'[i] = PageStored(i, new, inum, dd)
<1>1. Clamped(new) = new
  BY Shape DEF Clamped
<1>2. {k \in PageNums : Start(k) < Clamped(new)} = PagesFor(new)
  BY <1>1 DEF PagesFor
<1> QED
  BY <1>2 DEF Stores, PageStored

LEMMA StoresFree ==
  ASSUME NEW n, NEW new \in 0 .. Largest,
         NEW taken, NEW given, NEW inum, NEW table, NEW dd,
         Stores(n, new, taken, given, inum, table, dd)
  PROVE  /\ free' = FreeThen(taken, given, inum, table)
         /\ ERRNO' \in {-ENOSPC, -EFBIG, ERRNO}
BY DEF Stores, FreeThen

(* The tables that changed are among those needed then. *)
LEMMA ChangedAre ==
  ASSUME TypeOK, NEW n \in live, NEW new \in 0 .. Largest,
         NEW taken, NEW given, NEW inum, NEW table,
         Allotted(n, new, taken, given, inum, table)
  PROVE  /\ Changed(taken) \subseteq TablesFor(new)
         /\ Tables(taken) \subseteq Changed(taken)
<1>1. taken \subseteq PageNums
  BY DEF Allotted
<1>2. ASSUME NEW k \in taken, k >= LV1
      PROVE  Table(k) \in TablesFor(new)
  <2>1. k \in PageNums /\ k \in Nat /\ Start(k) < new /\ Start(k) \in Nat
    BY <1>1, Shape, StartNat DEF Allotted
  <2>2. Table(k) \in TableNums /\ FirstPage(Table(k)) \in PageNums /\ FirstPage(Table(k)) <= k
    BY <1>2, <2>1, Shape, TableOfPage
  <2>3. FirstPage(Table(k)) \in Nat /\ Start(FirstPage(Table(k))) \in Nat
    BY <2>2, Shape, StartNat
  <2>4. Start(FirstPage(Table(k))) <= Start(k)
    BY <2>1, <2>2, <2>3, StartGrows
  <2>5. Start(FirstPage(Table(k))) < new
    BY <2>1, <2>3, <2>4
  <2> QED
    BY <2>2, <2>5 DEF TablesFor
<1>3. ASSUME NEW t \in Tables(taken)
      PROVE  t \in Changed(taken)
  <2>1. t \in TableNums /\ FirstPage(t) \in taken
    BY DEF Tables
  <2>2. Table(FirstPage(t)) = t /\ FirstPage(t) >= LV1
    BY <2>1, FirstPages DEF FirstOfTable
  <2> QED
    BY <2>1, <2>2 DEF Changed
<1> QED
  BY <1>2, <1>3 DEF Changed

(* A page in a table is one of a table that is needed. *)
LEMMA TableNeeded ==
  ASSUME NEW many \in Nat, NEW k \in PagesFor(many), k >= LV1
  PROVE  /\ Table(k) \in TablesFor(many) /\ Table(k) \in TableNums
         /\ InTable(k) \in 0 .. FAN - 1 /\ k = FirstPage(Table(k)) + InTable(k)
         /\ FirstPage(Table(k)) \in PageNums /\ Start(FirstPage(Table(k))) <= Start(k)
<1>1. k \in PageNums /\ k \in Nat /\ Start(k) < many /\ Start(k) \in Nat
  BY Shape, StartNat DEF PagesFor
<1>2. /\ Table(k) \in TableNums /\ InTable(k) \in 0 .. FAN - 1
      /\ FirstPage(Table(k)) \in PageNums /\ FirstPage(Table(k)) <= k
      /\ k = FirstPage(Table(k)) + InTable(k)
  BY <1>1, Shape, TableOfPage
<1>3. FirstPage(Table(k)) \in Nat /\ Start(FirstPage(Table(k))) \in Nat
  BY <1>2, Shape, StartNat
<1>4. Start(FirstPage(Table(k))) <= Start(k)
  BY <1>1, <1>2, <1>3, StartGrows
<1>5. Start(FirstPage(Table(k))) < many
  BY <1>1, <1>3, <1>4
<1> QED
  BY <1>2, <1>4, <1>5 DEF TablesFor

(* The tables name the pages. *)
LEMMA TablesName ==
  ASSUME TypeOK, InodesPlaced, NEW n \in live, NEW new \in 0 .. Largest,
         NEW taken, NEW given, NEW inum, NEW table, NEW dd,
         Allotted(n, new, taken, given, inum, table),
         Stores(n, new, taken, given, inum, table, dd),
         NEW m \in live, NEW k \in PagesFor(SizeThen(m, n, new)), k >= LV1
  PROVE  exnum'[TableThen(m, Table(k), n, table)][InTable(k)] = PageThen(m, k, n, inum)
<1> DEFINE u == Table(k)
           i == TableThen(m, u, n, table)
<1>1. m \in Nodes /\ SizeThen(m, n, new) \in Nat /\ size[n] \in Nat
  BY TypeParts, Shape DEF SizeThen
<1>2. /\ u \in TablesFor(SizeThen(m, n, new)) /\ u \in TableNums
      /\ InTable(k) \in 0 .. FAN - 1 /\ k = FirstPage(u) + InTable(k)
      /\ FirstPage(u) \in PageNums /\ Start(FirstPage(u)) <= Start(k)
  BY <1>1, TableNeeded
<1>3. k \in PageNums /\ k \in Nat /\ Start(k) \in Nat /\ Start(FirstPage(u)) \in Nat
  BY <1>2, Shape, StartNat DEF PagesFor
<1>4. i \in DOMAIN exnum
  <2>1. i \in Inodes
    BY <1>2, TableKept, TypeParts
  <2> QED
    BY <2>1, TypeParts
<1>5. exnum'[i] = TableStored(i, taken, inum, table)
  <2>1. \A h \in DOMAIN exnum : exnum'[h] = TableStored(h, taken, inum, table)
    BY StoresNames
  <2> HIDE DEF i
  <2> QED
    BY <1>4, <2>1
<1>6. CASE \E t \in Changed(taken) : table[t] = i
  <2>1. ASSUME NEW t \in Changed(taken), table[t] = i
        PROVE  m = n /\ t = u
    <3>1. t \in TablesFor(SizeThen(n, n, new)) /\ TableThen(n, t, n, table) = i
      BY <2>1, ChangedAre DEF SizeThen, TableThen
    <3> QED
      BY <1>2, <3>1, PlacesDiffer
  <2>2. m = n /\ u \in Changed(taken) /\ table[u] = i
    BY <1>6, <2>1
  <2>3. (CHOOSE t \in Changed(taken) : table[t] = i) = u
    BY <2>1, <2>2
  <2>4. exnum'[i] = Named(u, taken, inum)
    BY <1>5, <1>6, <2>3 DEF TableStored
  <2>5. ~ (u \in Tables(taken) /\ k \notin taken)
    <3> SUFFICES ASSUME u \in Tables(taken), k \notin taken
                 PROVE  FALSE
      OBVIOUS
    <3>1. FirstPage(u) \in taken
      BY DEF Tables
    <3>2. size[n] <= Start(FirstPage(u))
      BY <3>1 DEF Allotted
    <3>3. k \in PagesFor(size[n])
      BY <2>2 DEF Allotted, SizeThen
    <3>4. Start(k) < size[n]
      BY <3>3 DEF PagesFor
    <3> QED
      BY <1>1, <1>2, <1>3, <3>2, <3>4
  <2>6. Named(u, taken, inum)[InTable(k)] = inum[k]
    BY <1>2, <2>5 DEF Named
  <2> QED
    BY <2>2, <2>4, <2>6 DEF PageThen
<1>7. CASE ~ \E t \in Changed(taken) : table[t] = i
  <2>1. exnum'[i] = exnum[i]
    BY <1>5, <1>7 DEF TableStored
  <2>2. i = expnum[m][u] /\ PageThen(m, k, n, inum) = PageInode(m, k)
    <3>1. CASE m # n
      BY <3>1 DEF TableThen, PageThen
    <3>2. CASE m = n
      <4>1. u \notin Changed(taken)
        BY <1>7, <3>2 DEF TableThen
      <4>2. k \notin taken
        BY <4>1 DEF Changed
      <4>3. u \notin Tables(taken)
        BY <4>1, ChangedAre
      <4> QED
        BY <1>2, <1>3, <3>2, <4>2, <4>3 DEF TableThen, PageThen, Allotted
    <3> QED
      BY <3>1, <3>2
  <2>3. ~ (k < LV1)
    BY <1>3, Shape
  <2>4. PageInode(m, k) = exnum[expnum[m][u]][InTable(k)]
    BY <2>3 DEF PageInode
  <2> QED
    BY <2>1, <2>2, <2>4
<1> QED
  BY <1>6, <1>7

(* Every page is where it was allotted. *)
LEMMA PagesThere ==
  ASSUME TypeOK, InodesPlaced, NEW n \in live, NEW new \in 0 .. Largest,
         NEW taken, NEW given, NEW inum, NEW table, NEW dd,
         Allotted(n, new, taken, given, inum, table),
         Stores(n, new, taken, given, inum, table, dd),
         NEW m \in live
  PROVE  /\ \A k \in PagesFor(SizeThen(m, n, new)) : PageInode(m, k)' = PageThen(m, k, n, inum)
         /\ \A t \in TableNums : expnum'[m][t] = TableThen(m, t, n, table)
<1>1. m \in Nodes /\ n \in Nodes
  BY TypeParts
<1>2. /\ dpnum' = [dpnum EXCEPT ![n] = [k \in 0 .. LV1 - 1 |-> inum[k]]]
      /\ expnum' = [expnum EXCEPT ![n] = table]
  BY StoresTables
<1>3. \A t \in TableNums : expnum'[m][t] = TableThen(m, t, n, table)
  BY <1>1, <1>2, TypeParts DEF TableThen
<1>4. ASSUME NEW k \in PagesFor(SizeThen(m, n, new))
      PROVE  PageInode(m, k)' = PageThen(m, k, n, inum)
  <2>1. k \in PageNums /\ k \in Nat
    BY Shape DEF PagesFor
  <2>2. CASE k < LV1
    <3>1. k \in 0 .. LV1 - 1
      BY <2>1, <2>2, Shape
    <3>2. dpnum'[m] = IF m = n THEN [l \in 0 .. LV1 - 1 |-> inum[l]] ELSE dpnum[m]
      BY <1>1, <1>2, TypeParts
    <3>3. PageInode(m, k)' = dpnum'[m][k] /\ PageInode(m, k) = dpnum[m][k]
      BY <2>2 DEF PageInode
    <3> QED
      BY <3>1, <3>2, <3>3 DEF PageThen
  <2>3. CASE ~ (k < LV1)
    <3>1. k >= LV1 /\ Table(k) \in TableNums
      BY <2>1, <2>3, Shape, TableOfPage
    <3>2. PageInode(m, k)' = exnum'[expnum'[m][Table(k)]][InTable(k)]
      BY <2>3 DEF PageInode
    <3>3. expnum'[m][Table(k)] = TableThen(m, Table(k), n, table)
      BY <1>3, <3>1
    <3>4. exnum'[TableThen(m, Table(k), n, table)][InTable(k)] = PageThen(m, k, n, inum)
      BY <3>1, TablesName
    <3> QED
      BY <3>2, <3>3, <3>4
  <2> QED
    BY <2>2, <2>3
<1> QED
  BY <1>3, <1>4

(* The pages of n hold what the array has, those of others what they held. *)
LEMMA PagesHold ==
  ASSUME TypeOK, InodesPlaced, NEW n \in live, NEW new \in 0 .. Largest,
         NEW taken, NEW given, NEW inum, NEW table, NEW dd,
         Allotted(n, new, taken, given, inum, table),
         Stores(n, new, taken, given, inum, table, dd),
         NEW m \in live, NEW k \in PagesFor(SizeThen(m, n, new))
  PROVE  page'[PageThen(m, k, n, inum)] =
           IF m = n THEN Filled(k, dd) ELSE page[PageInode(m, k)]
<1> DEFINE i == PageThen(m, k, n, inum)
<1>1. i \in DOMAIN page
  <2>1. i \in Inodes
    BY PageKept, TypeParts
  <2> QED
    BY <2>1, TypeParts
<1>2. page'[i] = PageStored(i, new, inum, dd)
  <2> HIDE DEF i
  <2> QED
    BY <1>1, StoresPages
<1>3. ASSUME NEW l \in PagesFor(new), inum[l] = i
      PROVE  m = n /\ l = k
  <2>1. l \in PagesFor(SizeThen(n, n, new)) /\ PageThen(n, l, n, inum) = i
    BY <1>3 DEF SizeThen, PageThen
  <2> QED
    BY <2>1, PlacesDiffer
<1>4. CASE m = n
  <2>1. k \in PagesFor(new) /\ inum[k] = i
    BY <1>4 DEF SizeThen, PageThen
  <2>2. (CHOOSE l \in PagesFor(new) : inum[l] = i) = k
    BY <1>3, <2>1
  <2> HIDE DEF i
  <2>3. PageStored(i, new, inum, dd) = Filled(k, dd)
    BY <2>1, <2>2 DEF PageStored
  <2>4. page'[i] = IF m = n THEN Filled(k, dd) ELSE page[PageInode(m, k)]
    BY <1>2, <1>4, <2>3
  <2> QED
    BY <2>4 DEF i
<1>5. CASE m # n
  <2>1. ~ \E l \in PagesFor(new) : inum[l] = i
    BY <1>3, <1>5
  <2>2. i = PageInode(m, k)
    BY <1>5 DEF PageThen
  <2>3. PageStored(i, new, inum, dd) = page[i]
    BY <2>1 DEF PageStored
  <2> HIDE DEF i
  <2>4. page'[i] = IF m = n THEN Filled(k, dd) ELSE page[PageInode(m, k)]
    BY <1>2, <1>5, <2>2, <2>3
  <2> QED
    BY <2>4 DEF i
<1> QED
  BY <1>4, <1>5

Arrays == [Slots -> Entry]

(***************************************************************************)
(* What dnode_listing_set makes of the entries: those of n are the array's,*)
(* those of other directories stay.                                        *)
(***************************************************************************)
LEMMA EntriesStored ==
  ASSUME TypeOK, InodesPlaced, NEW n \in live, NEW new \in 0 .. Largest,
         NEW taken, NEW given, NEW inum, NEW table, NEW dd,
         Allotted(n, new, taken, given, inum, table),
         Stores(n, new, taken, given, inum, table, dd),
         direct' = [direct EXCEPT ![n] = [s \in 0 .. DIRECT - 1 |-> dd[s]]],
         NEW m \in live, NEW s \in 0 .. SizeThen(m, n, new) - 1
  PROVE  Stored(m, s)' = IF m = n THEN dd[s] ELSE Stored(m, s)
<1>1. /\ m \in Nodes /\ n \in Nodes /\ SizeThen(m, n, new) \in 0 .. Largest
      /\ s \in Nat /\ s < ENTRY_MAX_SIZE
  BY TypeParts, Shape DEF SizeThen
<1>2. CASE s < DIRECT
  <2>1. s \in 0 .. DIRECT - 1
    BY <1>1, <1>2, Shape
  <2>2. Stored(m, s)' = direct'[m][s] /\ Stored(m, s) = direct[m][s]
    BY <1>2 DEF Stored, EntryIn
  <2>3. direct'[m] = IF m = n THEN [e \in 0 .. DIRECT - 1 |-> dd[e]] ELSE direct[m]
    BY <1>1, TypeParts
  <2>4. [e \in 0 .. DIRECT - 1 |-> dd[e]][s] = dd[s]
    BY <2>1
  <2>5. CASE m = n
    <3>1. direct'[m][s] = dd[s]
      BY <2>3, <2>4, <2>5
    <3> QED
      BY <2>2, <2>5, <3>1
  <2>6. CASE m # n
    <3>1. direct'[m] = direct[m]
      BY <2>3, <2>6
    <3> QED
      BY <2>2, <2>6, <3>1
  <2> QED
    BY <2>5, <2>6
<1>3. CASE ~ (s < DIRECT)
  <2>1. /\ PageOf(s) \in Nat /\ InPage(s) \in PageSlots
        /\ s = Start(PageOf(s)) + InPage(s) /\ Start(PageOf(s)) <= s
        /\ PageOf(s) \in PageNums
    BY <1>1, <1>3, Shape, SlotInPage
  <2>2. PageOf(s) \in PagesFor(SizeThen(m, n, new))
    <3>1. Start(PageOf(s)) \in Nat /\ SizeThen(m, n, new) \in Nat
      BY <1>1, <2>1, StartNat, Shape
    <3> QED
      BY <1>1, <2>1, <3>1 DEF PagesFor
  <2>3. /\ Stored(m, s)' = page'[PageInode(m, PageOf(s))'][InPage(s)]
        /\ Stored(m, s) = page[PageInode(m, PageOf(s))][InPage(s)]
    BY <1>3 DEF Stored, EntryIn, PageOf, InPage
  <2>4. PageInode(m, PageOf(s))' = PageThen(m, PageOf(s), n, inum)
    BY <2>2, PagesThere
  <2>5. page'[PageThen(m, PageOf(s), n, inum)] =
          IF m = n THEN Filled(PageOf(s), dd) ELSE page[PageInode(m, PageOf(s))]
    BY <2>2, PagesHold
  <2>6. Filled(PageOf(s), dd)[InPage(s)] = dd[s]
    BY <2>1 DEF Filled
  <2> QED
    BY <2>3, <2>4, <2>5, <2>6
<1> QED
  BY <1>2, <1>3

(* No inode that is needed then is free then. *)
LEMMA NeededNotFree ==
  ASSUME TypeOK, InodesPlaced, NEW n \in live, NEW new \in 0 .. Largest,
         NEW taken, NEW given, NEW inum, NEW table, NEW dd,
         Allotted(n, new, taken, given, inum, table),
         Stores(n, new, taken, given, inum, table, dd),
         NEW m \in live
  PROVE  /\ \A k \in PagesFor(SizeThen(m, n, new)) :
              PageThen(m, k, n, inum) \in Inodes \ free'
         /\ \A t \in TablesFor(SizeThen(m, n, new)) :
              TableThen(m, t, n, table) \in Inodes \ free'
<1> DEFINE pop == {inum[k] : k \in taken} \cup {table[t] : t \in Tables(taken)}
           push == {inum[k] : k \in given}
                     \cup {table[Table(k)] : k \in {l \in given : FirstOfTable(l)}}
<1>1. free' = FreeThen(taken, given, inum, table)
  BY StoresFree
<1>2. \A i \in free' : i \in push \/ (i \in free /\ i \notin pop)
  BY <1>1 DEF FreeThen
<1>3. free \subseteq Inodes
  BY TypeParts
<1>4. ASSUME NEW l \in given
      PROVE  /\ taken = {} /\ Tables(taken) = {}
             /\ l \in PagesFor(size[n]) /\ l \notin PagesFor(new)
             /\ inum[l] = PageInode(n, l) /\ inum[l] \in Inodes \ free
             /\ FirstOfTable(l) =>
                  /\ Table(l) \in TablesFor(size[n]) /\ Table(l) \notin TablesFor(new)
                  /\ table[Table(l)] = expnum[n][Table(l)]
                  /\ table[Table(l)] \in Inodes \ free
  <2>1. /\ taken = {} /\ l \in PagesFor(size[n]) /\ l \notin PagesFor(new)
        /\ FirstOfTable(l) => Table(l) \in TablesFor(size[n]) /\ Table(l) \notin TablesFor(new)
    BY <1>4 DEF Allotted
  <2>2. Tables(taken) = {} /\ l \in PageNums
    BY <2>1 DEF Tables, PagesFor
  <2>3. inum[l] = PageInode(n, l)
    BY <2>1, <2>2 DEF Allotted
  <2>4. inum[l] \in Inodes \ free
    BY <2>1, <2>3 DEF InodesPlaced, PagesHeld
  <2>5. ASSUME FirstOfTable(l)
        PROVE  table[Table(l)] = expnum[n][Table(l)] /\ table[Table(l)] \in Inodes \ free
    <3>1. Table(l) \in TablesFor(size[n]) /\ Table(l) \in TableNums
      BY <2>1, <2>5 DEF TablesFor
    <3>2. table[Table(l)] = expnum[n][Table(l)]
      BY <2>2, <3>1 DEF Allotted
    <3> QED
      BY <3>1, <3>2 DEF InodesPlaced, TablesHeld
  <2> QED
    BY <2>1, <2>2, <2>3, <2>4, <2>5
<1>5. ASSUME NEW k \in PagesFor(SizeThen(m, n, new))
      PROVE  PageThen(m, k, n, inum) \in Inodes \ free'
  <2> DEFINE i == PageThen(m, k, n, inum)
  <2>1. \/ k \in PagesFor(size[m]) /\ i = PageInode(m, k) /\ i \in Inodes \ free
        \/ m = n /\ k \in taken /\ i = inum[k] /\ i \in free
    BY PageKept
  <2>2. m = n => k \in PagesFor(new)
    BY DEF SizeThen
  <2> HIDE DEF i
  <2>3. i \notin push
    <3>1. ASSUME NEW l \in given, inum[l] = i
          PROVE  FALSE
      BY <1>4, <2>1, <2>2, <3>1 DEF InodesPlaced, PagesDiffer
    <3>2. ASSUME NEW l \in given, FirstOfTable(l), table[Table(l)] = i
          PROVE  FALSE
      BY <1>4, <2>1, <3>2 DEF InodesPlaced, TablesNoPages
    <3> QED
      BY <3>1, <3>2
  <2>4. i \in free => i \in pop
    BY <2>1
  <2> HIDE DEF push, pop
  <2>5. i \in Inodes \ free'
    BY <1>2, <1>3, <2>1, <2>3, <2>4
  <2> QED
    BY <2>5 DEF i
<1>6. ASSUME NEW t \in TablesFor(SizeThen(m, n, new))
      PROVE  TableThen(m, t, n, table) \in Inodes \ free'
  <2> DEFINE i == TableThen(m, t, n, table)
  <2>1. \/ t \in TablesFor(size[m]) /\ i = expnum[m][t] /\ i \in Inodes \ free
        \/ m = n /\ t \in Tables(taken) /\ i = table[t] /\ i \in free
    BY TableKept
  <2>2. m = n => t \in TablesFor(new)
    BY DEF SizeThen
  <2> HIDE DEF i
  <2>3. i \notin push
    <3>1. ASSUME NEW l \in given, inum[l] = i
          PROVE  FALSE
      BY <1>4, <2>1, <3>1 DEF InodesPlaced, TablesNoPages
    <3>2. ASSUME NEW l \in given, FirstOfTable(l), table[Table(l)] = i
          PROVE  FALSE
      BY <1>4, <2>1, <2>2, <3>2 DEF InodesPlaced, TablesDiffer
    <3> QED
      BY <3>1, <3>2
  <2>4. i \in free => i \in pop
    BY <2>1
  <2> HIDE DEF push, pop
  <2>5. i \in Inodes \ free'
    BY <1>2, <1>3, <2>1, <2>3, <2>4
  <2> QED
    BY <2>5 DEF i
<1> QED
  BY <1>5, <1>6

(* Each inode that is needed keeps its one place. *)
LEMMA PlacesStay ==
  ASSUME TypeOK, InodesPlaced, NEW n \in live, NEW new \in 0 .. Largest,
         NEW taken, NEW given, NEW inum, NEW table, NEW dd,
         Allotted(n, new, taken, given, inum, table),
         Stores(n, new, taken, given, inum, table, dd),
         size' = [size EXCEPT ![n] = new],
         live' \subseteq live
  PROVE  InodesPlaced'
<1>1. ASSUME NEW m \in live'
      PROVE  m \in live /\ size'[m] = SizeThen(m, n, new)
  BY TypeParts DEF SizeThen
<1>2. ASSUME NEW m \in live', NEW k \in PagesFor(size'[m])
      PROVE  /\ k \in PagesFor(SizeThen(m, n, new))
             /\ PageInode(m, k)' = PageThen(m, k, n, inum)
  BY <1>1, PagesThere
<1>3. ASSUME NEW m \in live', NEW t \in TablesFor(size'[m])
      PROVE  /\ t \in TablesFor(SizeThen(m, n, new))
             /\ expnum'[m][t] = TableThen(m, t, n, table)
  <2>1. t \in TableNums
    BY DEF TablesFor
  <2> QED
    BY <1>1, <2>1, PagesThere
<1>4. PagesHeld'
  <2> SUFFICES ASSUME NEW m \in live', NEW k \in PagesFor(size'[m])
               PROVE  PageInode(m, k)' \in Inodes \ free'
    BY DEF PagesHeld, PagesFor
  <2> QED
    BY <1>1, <1>2, NeededNotFree
<1>5. TablesHeld'
  <2> SUFFICES ASSUME NEW m \in live', NEW t \in TablesFor(size'[m])
               PROVE  expnum'[m][t] \in Inodes \ free'
    BY DEF TablesHeld, TablesFor
  <2> QED
    BY <1>1, <1>3, NeededNotFree
<1>6. PagesDiffer'
  <2> SUFFICES ASSUME NEW m \in live', NEW h \in live',
                      NEW k \in PagesFor(size'[m]), NEW l \in PagesFor(size'[h]),
                      PageInode(m, k)' = PageInode(h, l)'
               PROVE  m = h /\ k = l
    BY DEF PagesDiffer, PagesFor
  <2> QED
    BY <1>1, <1>2, PlacesDiffer
<1>7. TablesDiffer'
  <2> SUFFICES ASSUME NEW m \in live', NEW h \in live',
                      NEW t \in TablesFor(size'[m]), NEW u \in TablesFor(size'[h]),
                      expnum'[m][t] = expnum'[h][u]
               PROVE  m = h /\ t = u
    BY DEF TablesDiffer, TablesFor
  <2> QED
    BY <1>1, <1>3, PlacesDiffer
<1>8. TablesNoPages'
  <2> SUFFICES ASSUME NEW m \in live', NEW h \in live',
                      NEW k \in PagesFor(size'[m]), NEW t \in TablesFor(size'[h])
               PROVE  PageInode(m, k)' # expnum'[h][t]
    BY DEF TablesNoPages, PagesFor, TablesFor
  <2> QED
    BY <1>1, <1>2, <1>3, PlacesDiffer
<1> QED
  BY <1>4, <1>5, <1>6, <1>7, <1>8 DEF InodesPlaced

-----------------------------------------------------------------------------
(* The types of what dnode_listing_set writes. *)
LEMMA ListingTypes ==
  ASSUME TypeOK, NEW n \in live, NEW new \in 0 .. Largest,
         NEW taken, NEW given, NEW inum, NEW table, NEW dd \in Arrays,
         Allotted(n, new, taken, given, inum, table), given \subseteq PageNums,
         Stores(n, new, taken, given, inum, table, dd),
         size' = [size EXCEPT ![n] = new],
         direct' = [direct EXCEPT ![n] = [s \in 0 .. DIRECT - 1 |-> dd[s]]],
         d' = dd,
         nlink' \in [Nodes -> Nat],
         live' \subseteq live
  PROVE  TypeOK'
<1>1. n \in Nodes
  BY TypeParts
<1>2. size' \in [Nodes -> 0 .. Largest]
  BY <1>1, TypeParts
<1>3. direct' \in [Nodes -> [0 .. DIRECT - 1 -> Entry]]
  <2>1. [s \in 0 .. DIRECT - 1 |-> dd[s]] \in [0 .. DIRECT - 1 -> Entry]
    <3>1. 0 .. DIRECT - 1 \subseteq Slots
      <4>1. DIRECT <= ENTRY_MAX_SIZE
        BY Shape DEF ENTRY_MAX_SIZE
      <4> QED
        BY <4>1, Shape DEF Slots
    <3> QED
      BY <3>1 DEF Arrays
  <2> QED
    BY <1>1, <2>1, TypeParts
<1>4. inum \in [PageNums -> Inodes \cup {0}] /\ table \in [TableNums -> Inodes \cup {0}]
  BY DEF Allotted
<1>5. dpnum' \in [Nodes -> [0 .. LV1 - 1 -> Inodes \cup {0}]]
  <2>1. 0 .. LV1 - 1 \subseteq PageNums
    BY Shape DEF Pages
  <2>2. [k \in 0 .. LV1 - 1 |-> inum[k]] \in [0 .. LV1 - 1 -> Inodes \cup {0}]
    BY <1>4, <2>1
  <2>3. dpnum' = [dpnum EXCEPT ![n] = [k \in 0 .. LV1 - 1 |-> inum[k]]]
    BY StoresTables
  <2>4. dpnum \in [Nodes -> [0 .. LV1 - 1 -> Inodes \cup {0}]]
    BY TypeParts
  <2> QED
    BY <1>1, <2>2, <2>3, <2>4
<1>6. expnum' \in [Nodes -> [TableNums -> Inodes \cup {0}]]
  <2>1. expnum' = [expnum EXCEPT ![n] = table]
    BY StoresTables
  <2>2. expnum \in [Nodes -> [TableNums -> Inodes \cup {0}]]
    BY TypeParts
  <2> QED
    BY <1>1, <1>4, <2>1, <2>2
<1>7. ASSUME NEW t \in TableNums
      PROVE  Named(t, taken, inum) \in [0 .. FAN - 1 -> Inodes \cup {0}]
  BY <1>4, PageOfTable DEF Named
<1>8. ASSUME NEW i \in Inodes \cup {0}
      PROVE  TableStored(i, taken, inum, table) \in [0 .. FAN - 1 -> Inodes \cup {0}]
  <2>1. exnum[i] \in [0 .. FAN - 1 -> Inodes \cup {0}]
    BY TypeParts
  <2>2. Changed(taken) \subseteq TableNums
    BY ChangedAre DEF TablesFor
  <2>3. CASE \E t \in Changed(taken) : table[t] = i
    <3> DEFINE t == CHOOSE u \in Changed(taken) : table[u] = i
    <3>1. t \in Changed(taken)
      BY <2>3
    <3>2. TableStored(i, taken, inum, table) = Named(t, taken, inum)
      BY <2>3 DEF TableStored
    <3> HIDE DEF t
    <3> QED
      BY <1>7, <2>2, <3>1, <3>2
  <2>4. CASE ~ \E t \in Changed(taken) : table[t] = i
    BY <2>1, <2>4 DEF TableStored
  <2> QED
    BY <2>3, <2>4
<1>9. exnum' \in [Inodes \cup {0} -> [0 .. FAN - 1 -> Inodes \cup {0}]]
  <2>1. DOMAIN exnum = Inodes \cup {0}
    BY TypeParts
  <2>2. DOMAIN exnum' = Inodes \cup {0}
    BY <2>1, StoresNames
  <2>3. \A i \in Inodes \cup {0} : exnum'[i] \in [0 .. FAN - 1 -> Inodes \cup {0}]
    BY <1>8, <2>1, StoresNames
  <2>4. exnum' = [i \in Inodes \cup {0} |-> exnum'[i]]
    BY <2>2 DEF Stores
  <2> QED
    BY <2>3, <2>4
<1>10. ASSUME NEW k \in PageNums
       PROVE  Filled(k, dd) \in [PageSlots -> Entry]
  BY PageInArray DEF Filled, Arrays
<1>11. ASSUME NEW i \in Inodes \cup {0}
       PROVE  PageStored(i, new, inum, dd) \in [PageSlots -> Entry]
  <2>1. page[i] \in [PageSlots -> Entry]
    BY TypeParts
  <2>2. PagesFor(new) \subseteq PageNums
    BY DEF PagesFor
  <2>3. CASE \E k \in PagesFor(new) : inum[k] = i
    <3> DEFINE k == CHOOSE l \in PagesFor(new) : inum[l] = i
    <3>1. k \in PagesFor(new)
      BY <2>3
    <3>2. PageStored(i, new, inum, dd) = Filled(k, dd)
      BY <2>3 DEF PageStored
    <3> HIDE DEF k
    <3> QED
      BY <1>10, <2>2, <3>1, <3>2
  <2>4. CASE ~ \E k \in PagesFor(new) : inum[k] = i
    BY <2>1, <2>4 DEF PageStored
  <2> QED
    BY <2>3, <2>4
<1>12. page' \in [Inodes \cup {0} -> [PageSlots -> Entry]]
  <2>1. DOMAIN page = Inodes \cup {0}
    BY TypeParts
  <2>2. DOMAIN page' = Inodes \cup {0}
    BY <2>1, StoresPages
  <2>3. \A i \in Inodes \cup {0} : page'[i] \in [PageSlots -> Entry]
    BY <1>11, <2>1, StoresPages
  <2>4. page' = [i \in Inodes \cup {0} |-> page'[i]]
    BY <2>2 DEF Stores
  <2> QED
    BY <2>3, <2>4
<1>13. free' \subseteq Inodes
  <2>1. free' = FreeThen(taken, given, inum, table)
    BY StoresFree
  <2>2. ASSUME NEW i \in free'
        PROVE  \/ i \in free
               \/ i >= 2 /\ \E k \in given : inum[k] = i
               \/ i >= 2 /\ \E k \in given : FirstOfTable(k) /\ table[Table(k)] = i
    BY <2>1 DEF FreeThen
  <2>3. \A k \in given : inum[k] \in Inodes \cup {0}
    BY <1>4
  <2>4. \A k \in given : FirstOfTable(k) => table[Table(k)] \in Inodes \cup {0}
    BY <1>4, FirstPages
  <2>5. free \subseteq Inodes /\ ~ (0 >= 2)
    BY TypeParts
  <2> QED
    BY <2>2, <2>3, <2>4, <2>5
<1>14. ERRNO' \in {0, -ENOSPC, -EFBIG}
  BY StoresFree DEF TypeOK
<1>15. live' \subseteq Nodes /\ d' \in [Slots -> Entry]
  BY TypeParts DEF Arrays
<1> QED
  BY <1>2, <1>3, <1>5, <1>6, <1>9, <1>12, <1>13, <1>14, <1>15 DEF TypeOK, Entry, TableNums

LEMMA StoredType ==
  ASSUME TypeOK, NEW n \in Nodes, NEW s \in Slots
  PROVE  Stored(n, s) \in Entry
<1>1. s \in Nat /\ s < ENTRY_MAX_SIZE
  BY Shape DEF Slots
<1>2. CASE s < DIRECT
  <2>1. s \in 0 .. DIRECT - 1
    BY <1>1, <1>2, Shape
  <2>2. direct[n] \in [0 .. DIRECT - 1 -> Entry]
    BY TypeParts
  <2>3. Stored(n, s) = direct[n][s]
    BY <1>2 DEF Stored, EntryIn
  <2> QED
    BY <2>1, <2>2, <2>3
<1>3. CASE ~ (s < DIRECT)
  <2>1. PageOf(s) \in PageNums /\ InPage(s) \in PageSlots
    BY <1>1, <1>3, Shape, SlotInPage
  <2>2. PageInode(n, PageOf(s)) \in Inodes \cup {0}
    BY <2>1, PageInodeType
  <2>3. page[PageInode(n, PageOf(s))] \in [PageSlots -> Entry]
    BY <2>2, TypeParts
  <2>4. Stored(n, s) = page[PageInode(n, PageOf(s))][InPage(s)]
    BY <1>3 DEF Stored, EntryIn, PageOf, InPage
  <2> QED
    BY <2>1, <2>3, <2>4
<1> QED
  BY <1>2, <1>3

(* A listing has every entry of the directory. *)
LEMMA ListedHas ==
  ASSUME TypeOK, NEW n \in Nodes
  PROVE  /\ Listed(n) \in Arrays
         /\ \A s \in 0 .. size[n] - 1 : s \in Slots /\ Listed(n)[s] = Stored(n, s)
<1>1. Listed(n) \in Arrays
  BY StoredType, TypeParts DEF Listed, Arrays
<1>2. ASSUME NEW s \in 0 .. size[n] - 1
      PROVE  s \in Slots /\ Listed(n)[s] = Stored(n, s)
  <2>1. size[n] \in Nat /\ size[n] <= ENTRY_MAX_SIZE /\ s \in Nat /\ s < size[n]
    BY TypeParts, Shape
  <2>2. s \in Slots
    BY <2>1, Shape DEF Slots
  <2>3. CASE s < DIRECT
    BY <2>2, <2>3 DEF Listed
  <2>4. CASE ~ (s < DIRECT)
    <3>1. PageOf(s) \in Nat /\ Start(PageOf(s)) <= s
      BY <2>1, <2>4, Shape, SlotInPage
    <3>2. Start(PageOf(s)) < size[n]
      BY <2>1, <3>1, StartNat
    <3> QED
      BY <2>2, <3>2 DEF Listed, PageOf
  <2> QED
    BY <2>2, <2>3, <2>4
<1> QED
  BY <1>1, <1>2

(***************************************************************************)
(* dnode_listing_set as its callers use it.                                *)
(***************************************************************************)
LEMMA SetListingKeeps ==
  ASSUME TypeOK, InodesPlaced, NEW n \in live, NEW new \in 0 .. Largest,
         NEW dd \in Arrays, Wanted(n, new), SetListing(n, new, dd),
         nlink' \in [Nodes -> Nat], live' \subseteq live
  PROVE  /\ TypeOK' /\ InodesPlaced'
         /\ size' = [size EXCEPT ![n] = new]
         /\ \A m \in live : \A s \in 0 .. SizeThen(m, n, new) - 1 :
              Stored(m, s)' = IF m = n THEN dd[s] ELSE Stored(m, s)
<1> DEFINE taken == Taken(size[n], new)
           given == GivenUp(size[n], new)
           inum == InumAfter(n, taken)
           table == TableAfter(n, taken)
<1>1. n \in Nodes
  BY TypeParts
<1>2. /\ Stores(n, new, taken, given, inum, table, dd)
      /\ size' = [size EXCEPT ![n] = new]
      /\ direct' = [direct EXCEPT ![n] = [s \in 0 .. DIRECT - 1 |-> dd[s]]]
      /\ d' = dd
  BY SetListingParts
<1>3. Allotted(n, new, taken, given, inum, table)
  BY <1>1, Allots
<1>4. given \subseteq PageNums
  BY DEF GivenUp
<1> HIDE DEF taken, given, inum, table
<1>5. TypeOK'
  BY <1>2, <1>3, <1>4, ListingTypes
<1>6. InodesPlaced'
  BY <1>2, <1>3, PlacesStay
<1>7. \A m \in live : \A s \in 0 .. SizeThen(m, n, new) - 1 :
        Stored(m, s)' = IF m = n THEN dd[s] ELSE Stored(m, s)
  BY <1>2, <1>3, EntriesStored
<1> QED
  BY <1>2, <1>5, <1>6, <1>7

-----------------------------------------------------------------------------
(***************************************************************************)
(* The entries.                                                            *)
(***************************************************************************)
LEMMA NamesAreNot ==
  /\ Dot # DotDot
  /\ \A x \in Names : x # Dot /\ x # DotDot
  /\ \A n \in Nodes : NamesOf[n] \subseteq Names
BY NodePagesAssumption

LEMMA EntryParts ==
  ASSUME IInv, NEW n \in live
  PROVE  /\ n \in Nodes /\ size[n] \in 0 .. Largest /\ size[n] \in Nat /\ size[n] >= 2
         /\ nlink[n] = size[n]
         /\ Stored(n, 0) = Dot /\ Stored(n, 1) = DotDot
         /\ \A s \in 2 .. size[n] - 1 : Stored(n, s) \in Names
         /\ \A s, t \in 0 .. size[n] - 1 : Stored(n, s) = Stored(n, t) => s = t
BY TypeParts, Shape
   DEF IInv, EntriesPlaced, DotsFirst, NamesFollow, EntriesDiffer, LinksCounted

(* What a directory has but for the dots, and where. *)
LEMMA PresentAre ==
  ASSUME IInv, NEW n \in live
  PROVE  /\ Present(n) = {Stored(n, s) : s \in 2 .. size[n] - 1}
         /\ Present(n) \subseteq Names
         /\ \A x \in Names : \A s \in 0 .. size[n] - 1 :
              Stored(n, s) = x => s \in 2 .. size[n] - 1
<1>1. /\ size[n] \in Nat /\ size[n] >= 2
      /\ Stored(n, 0) = Dot /\ Stored(n, 1) = DotDot
      /\ \A s \in 2 .. size[n] - 1 : Stored(n, s) \in Names
  BY EntryParts
<1>2. \A s \in 0 .. size[n] - 1 : s = 0 \/ s = 1 \/ s \in 2 .. size[n] - 1
  BY <1>1
<1>3. \A s \in 2 .. size[n] - 1 : s \in 0 .. size[n] - 1
  BY <1>1
<1>4. Present(n) = {Stored(n, s) : s \in 2 .. size[n] - 1}
  <2>1. \A s \in 2 .. size[n] - 1 : Stored(n, s) \notin Dots
    BY <1>1, NamesAreNot DEF Dots
  <2>2. Stored(n, 0) \in Dots /\ Stored(n, 1) \in Dots
    BY <1>1 DEF Dots
  <2> QED
    BY <1>2, <1>3, <2>1, <2>2 DEF Present
<1>5. \A x \in Names : \A s \in 0 .. size[n] - 1 : Stored(n, s) = x => s \in 2 .. size[n] - 1
  BY <1>1, <1>2, NamesAreNot
<1> QED
  BY <1>1, <1>4, <1>5

(* Directories other than n, after a call on n. *)
Beside(n) ==
  \A m \in live' : m # n =>
    /\ size'[m] = size[m] /\ nlink'[m] = nlink[m]
    /\ \A s \in 0 .. size[m] - 1 : Stored(m, s)' = Stored(m, s)

LEMMA EntriesFrom ==
  ASSUME IInv, NEW n, live' \subseteq live, Beside(n),
         n \in live' =>
           /\ size'[n] >= 2 /\ nlink'[n] = size'[n]
           /\ Stored(n, 0)' = Dot /\ Stored(n, 1)' = DotDot
           /\ \A s \in 2 .. size'[n] - 1 : Stored(n, s)' \in Names
           /\ \A s, t \in 0 .. size'[n] - 1 : Stored(n, s)' = Stored(n, t)' => s = t
  PROVE  EntriesPlaced'
<1>1. ASSUME NEW m \in live'
      PROVE  /\ size'[m] >= 2 /\ nlink'[m] = size'[m]
             /\ Stored(m, 0)' = Dot /\ Stored(m, 1)' = DotDot
             /\ \A s \in 2 .. size'[m] - 1 : Stored(m, s)' \in Names
             /\ \A s, t \in 0 .. size'[m] - 1 : Stored(m, s)' = Stored(m, t)' => s = t
  <2>1. CASE m = n
    BY <2>1
  <2>2. CASE m # n
    <3>1. /\ size'[m] = size[m] /\ nlink'[m] = nlink[m]
          /\ \A s \in 0 .. size[m] - 1 : Stored(m, s)' = Stored(m, s)
      BY <2>2 DEF Beside
    <3>2. /\ size[m] \in Nat /\ size[m] >= 2 /\ nlink[m] = size[m]
          /\ Stored(m, 0) = Dot /\ Stored(m, 1) = DotDot
          /\ \A s \in 2 .. size[m] - 1 : Stored(m, s) \in Names
          /\ \A s, t \in 0 .. size[m] - 1 : Stored(m, s) = Stored(m, t) => s = t
      BY EntryParts
    <3>3. 0 \in 0 .. size[m] - 1 /\ 1 \in 0 .. size[m] - 1
      BY <3>2
    <3>4. \A s \in 2 .. size[m] - 1 : s \in 0 .. size[m] - 1
      BY <3>2
    <3> QED
      BY <3>1, <3>2, <3>3, <3>4
  <2> QED
    BY <2>1, <2>2
<1>2. DotsFirst'
  BY <1>1 DEF DotsFirst
<1>3. NamesFollow'
  BY <1>1 DEF NamesFollow
<1>4. EntriesDiffer'
  BY <1>1 DEF EntriesDiffer
<1>5. LinksCounted'
  BY <1>1 DEF LinksCounted
<1> QED
  BY <1>2, <1>3, <1>4, <1>5 DEF EntriesPlaced

(* Directories beside n have what they had. *)
LEMMA BesideHas ==
  ASSUME IInv, IInv', NEW n, live' \subseteq live, Beside(n)
  PROVE  \A m \in live' : m # n => Present(m)' = Present(m)
<1> SUFFICES ASSUME NEW m \in live', m # n
             PROVE  Present(m)' = Present(m)
  OBVIOUS
<1>1. size'[m] = size[m] /\ \A s \in 0 .. size[m] - 1 : Stored(m, s)' = Stored(m, s)
  BY DEF Beside
<1>2. /\ Present(m) = {Stored(m, s) : s \in 0 .. size[m] - 1} \ Dots
      /\ Present(m)' = {Stored(m, s)' : s \in 0 .. size'[m] - 1} \ Dots
  BY DEF Present, Dots
<1> QED
  BY <1>1, <1>2

(* dnode_append: the new entry is the last. *)
LEMMA AppendEffect ==
  ASSUME IInv, NEW n \in live, NEW x \in NamesOf[n], dnode_append(n, x)
  PROVE  /\ IInv' /\ Beside(n) /\ live' = live
         /\ x \notin Present(n) /\ Present(n)' = Present(n) \cup {x}
<1> DEFINE new == size[n] + 1
           dd == [Listed(n) EXCEPT ![size[n]] = x]
<1>1. /\ n \in Nodes /\ size[n] \in 0 .. Largest /\ size[n] \in Nat /\ size[n] >= 2
      /\ nlink[n] = size[n]
      /\ Stored(n, 0) = Dot /\ Stored(n, 1) = DotDot
      /\ \A s \in 2 .. size[n] - 1 : Stored(n, s) \in Names
      /\ \A s, t \in 0 .. size[n] - 1 : Stored(n, s) = Stored(n, t) => s = t
  BY EntryParts
<1>2. x \in Names /\ x # Dot /\ x # DotDot
  BY <1>1, NamesAreNot
<1>3. /\ x \notin Present(n) /\ size[n] + 1 <= Largest /\ NewInodes(n) <= Cardinality(free)
      /\ SetListing(n, new, dd)
      /\ nlink' = [nlink EXCEPT ![n] = @ + 1]
      /\ live' = live
  BY DEF dnode_append
<1>4. TypeOK /\ InodesPlaced
  BY DEF IInv
<1>5. new \in 0 .. Largest /\ Wanted(n, new)
  BY <1>1, <1>3, Shape DEF Wanted
<1>6. /\ Listed(n) \in Arrays
      /\ \A s \in 0 .. size[n] - 1 : s \in Slots /\ Listed(n)[s] = Stored(n, s)
  BY <1>1, <1>4, ListedHas
<1>7. size[n] \in Slots
  BY <1>1, <1>3, Shape DEF Slots
<1>8. /\ dd \in Arrays /\ dd[size[n]] = x
      /\ \A s \in 0 .. size[n] - 1 : dd[s] = Stored(n, s)
  BY <1>1, <1>2, <1>6, <1>7 DEF Arrays, Entry
<1>9. nlink \in [Nodes -> Nat]
  BY <1>4 DEF TypeOK
<1>10. nlink' \in [Nodes -> Nat] /\ nlink'[n] = new /\ \A m \in Nodes : m # n => nlink'[m] = nlink[m]
  BY <1>1, <1>3, <1>9
<1> HIDE DEF dd
<1>11. /\ TypeOK' /\ InodesPlaced'
       /\ size' = [size EXCEPT ![n] = new]
       /\ \A m \in live : \A s \in 0 .. SizeThen(m, n, new) - 1 :
            Stored(m, s)' = IF m = n THEN dd[s] ELSE Stored(m, s)
  <2> HIDE DEF new
  <2> QED
    BY <1>3, <1>4, <1>5, <1>8, <1>10, SetListingKeeps
<1>12. size'[n] = new /\ \A m \in live : m # n => size'[m] = size[m]
  BY <1>1, <1>4, <1>11, TypeParts
<1>13. Beside(n)
  <2>1. \A m \in live : m \in Nodes
    BY <1>4, TypeParts
  <2>2. \A m \in live : m # n => \A s \in 0 .. size[m] - 1 : Stored(m, s)' = Stored(m, s)
    BY <1>11 DEF SizeThen
  <2> QED
    BY <1>3, <1>10, <1>12, <2>1, <2>2 DEF Beside
<1>14. /\ \A s \in 0 .. size[n] - 1 : Stored(n, s)' = Stored(n, s)
       /\ \A s \in 0 .. new - 1 : s = size[n] => Stored(n, s)' = x
  <2>1. \A s \in 0 .. new - 1 : Stored(n, s)' = dd[s]
    BY <1>11 DEF SizeThen
  <2>2. size[n] \in 0 .. new - 1 /\ \A s \in 0 .. size[n] - 1 : s \in 0 .. new - 1
    BY <1>1
  <2> HIDE DEF new
  <2> QED
    BY <1>8, <2>1, <2>2
<1>15. \A s \in 0 .. size[n] - 1 : Stored(n, s) # x
  <2>1. \A s \in 2 .. size[n] - 1 : Stored(n, s) \in Present(n)
    BY PresentAre
  <2>2. \A s \in 0 .. size[n] - 1 : Stored(n, s) = x => s \in 2 .. size[n] - 1
    BY <1>2, PresentAre
  <2> QED
    BY <1>3, <2>1, <2>2
<1>16. \A s \in 0 .. new - 1 : s = size[n] \/ s \in 0 .. size[n] - 1
  BY <1>1
<1>17. EntriesPlaced'
  <2>1. Stored(n, 0)' = Dot /\ Stored(n, 1)' = DotDot
    BY <1>1, <1>14
  <2>2. \A s \in 2 .. new - 1 : Stored(n, s)' \in Names
    <3>1. \A s \in 2 .. new - 1 :
            /\ s \in 0 .. new - 1
            /\ s = size[n] \/ (s \in 0 .. size[n] - 1 /\ s \in 2 .. size[n] - 1)
      BY <1>1
    <3> HIDE DEF new
    <3> QED
      BY <1>1, <1>2, <1>14, <3>1
  <2>3. ASSUME NEW s \in 0 .. new - 1, NEW t \in 0 .. new - 1, Stored(n, s)' = Stored(n, t)'
        PROVE  s = t
    <3> HIDE DEF new
    <3> QED
      BY <1>1, <1>14, <1>15, <1>16, <2>3
  <2>4. size'[n] >= 2 /\ nlink'[n] = size'[n]
    BY <1>1, <1>10, <1>12
  <2> HIDE DEF new
  <2> QED
    BY <1>3, <1>12, <1>13, <2>1, <2>2, <2>3, <2>4, EntriesFrom
<1>18. Present(n)' = Present(n) \cup {x}
  <2>1. /\ Present(n) = {Stored(n, s) : s \in 0 .. size[n] - 1} \ Dots
        /\ Present(n)' = {Stored(n, s)' : s \in 0 .. new - 1} \ Dots
    BY <1>12 DEF Present, Dots
  <2>2. size[n] \in 0 .. new - 1 /\ \A s \in 0 .. size[n] - 1 : s \in 0 .. new - 1
    BY <1>1
  <2>3. {Stored(n, s)' : s \in 0 .. new - 1} = {Stored(n, s) : s \in 0 .. size[n] - 1} \cup {x}
    <3> HIDE DEF new
    <3> QED
      BY <1>14, <1>16, <2>2
  <2>4. x \notin Dots
    BY <1>2 DEF Dots
  <2> QED
    BY <2>1, <2>3, <2>4
<1> QED
  BY <1>3, <1>11, <1>13, <1>17, <1>18 DEF IInv

(* dnode_remove: the last entry takes the place of the one removed. *)
LEMMA RemoveEffect ==
  ASSUME IInv, NEW n \in live, NEW x \in NamesOf[n], dnode_remove(n, x)
  PROVE  /\ IInv' /\ Beside(n) /\ live' = live
         /\ x \in Present(n) /\ Present(n)' = Present(n) \ {x}
<1> DEFINE new == size[n] - 1
           last == size[n] - 1
           found == {s \in 0 .. size[n] - 1 : Listed(n)[s] = x}
           dd == [s \in Slots |-> IF s \in found THEN Listed(n)[last] ELSE Listed(n)[s]]
<1>1. /\ n \in Nodes /\ size[n] \in 0 .. Largest /\ size[n] \in Nat /\ size[n] >= 2
      /\ nlink[n] = size[n]
      /\ Stored(n, 0) = Dot /\ Stored(n, 1) = DotDot
      /\ \A s \in 2 .. size[n] - 1 : Stored(n, s) \in Names
      /\ \A s, t \in 0 .. size[n] - 1 : Stored(n, s) = Stored(n, t) => s = t
  BY EntryParts
<1>2. x \in Names /\ x # Dot /\ x # DotDot
  BY <1>1, NamesAreNot
<1>3. /\ found # {}
      /\ SetListing(n, new, dd)
      /\ nlink' = [nlink EXCEPT ![n] = @ - Cardinality(found)]
      /\ live' = live
  BY DEF dnode_remove
<1>4. TypeOK /\ InodesPlaced
  BY DEF IInv
<1>5. /\ Listed(n) \in Arrays
      /\ \A s \in 0 .. size[n] - 1 : s \in Slots /\ Listed(n)[s] = Stored(n, s)
  BY <1>1, <1>4, ListedHas
<1>6. PICK i \in 2 .. size[n] - 1 : found = {i} /\ Stored(n, i) = x
  <2>1. PICK i \in 0 .. size[n] - 1 : Listed(n)[i] = x
    BY <1>3
  <2>2. Stored(n, i) = x
    BY <1>5, <2>1
  <2>3. i \in 2 .. size[n] - 1
    BY <1>2, <2>2, PresentAre
  <2>4. \A s \in found : s = i
    BY <1>1, <1>5, <2>2
  <2>5. i \in found
    BY <2>1
  <2> QED
    BY <2>2, <2>3, <2>4, <2>5
<1>7. /\ size[n] >= 3 /\ last \in 2 .. size[n] - 1 /\ last \in 0 .. size[n] - 1
      /\ i \in 0 .. size[n] - 1 /\ new \in Nat /\ new >= 2
  BY <1>1, <1>6
<1>8. new \in 0 .. Largest /\ Wanted(n, new)
  BY <1>1, <1>7, Shape DEF Wanted
<1>9. /\ dd \in Arrays
      /\ \A s \in 0 .. size[n] - 1 :
           dd[s] = IF s = i THEN Stored(n, last) ELSE Stored(n, s)
  <2>1. last \in Slots
    BY <1>5, <1>7
  <2>2. \A s \in Slots : Listed(n)[s] \in Entry
    BY <1>5 DEF Arrays
  <2> HIDE DEF found, last
  <2>3. dd \in Arrays
    BY <2>1, <2>2 DEF Arrays
  <2>4. ASSUME NEW s \in 0 .. size[n] - 1
        PROVE  dd[s] = IF s = i THEN Stored(n, last) ELSE Stored(n, s)
    <3>1. dd[s] = IF s \in found THEN Listed(n)[last] ELSE Listed(n)[s]
      BY <1>5
    <3> QED
      BY <1>5, <1>6, <1>7, <3>1
  <2> QED
    BY <2>3, <2>4
<1>10. Cardinality(found) = 1
  BY <1>6, FS_Singleton
<1>11. nlink \in [Nodes -> Nat]
  BY <1>4 DEF TypeOK
<1>12. /\ nlink' \in [Nodes -> Nat] /\ nlink'[n] = new
       /\ \A m \in Nodes : m # n => nlink'[m] = nlink[m]
  <2>1. nlink' = [nlink EXCEPT ![n] = @ - 1]
    BY <1>3, <1>10
  <2> QED
    BY <1>1, <1>7, <1>11, <2>1
<1> HIDE DEF dd, found
<1>13. /\ TypeOK' /\ InodesPlaced'
       /\ size' = [size EXCEPT ![n] = new]
       /\ \A m \in live : \A s \in 0 .. SizeThen(m, n, new) - 1 :
            Stored(m, s)' = IF m = n THEN dd[s] ELSE Stored(m, s)
  <2> HIDE DEF new
  <2> QED
    BY <1>3, <1>4, <1>8, <1>9, <1>12, SetListingKeeps
<1>14. size'[n] = new /\ \A m \in live : m # n => size'[m] = size[m]
  BY <1>1, <1>4, <1>13, TypeParts
<1>15. Beside(n)
  <2>1. \A m \in live : m \in Nodes
    BY <1>4, TypeParts
  <2>2. \A m \in live : m # n => \A s \in 0 .. size[m] - 1 : Stored(m, s)' = Stored(m, s)
    BY <1>13 DEF SizeThen
  <2> QED
    BY <1>3, <1>12, <1>14, <2>1, <2>2 DEF Beside
<1>16. \A s \in 0 .. new - 1 : s \in 0 .. size[n] - 1 /\ s # last
  BY <1>1
<1>17. \A s \in 0 .. new - 1 : Stored(n, s)' = IF s = i THEN Stored(n, last) ELSE Stored(n, s)
  <2>1. \A s \in 0 .. new - 1 : Stored(n, s)' = dd[s]
    BY <1>13 DEF SizeThen
  <2> HIDE DEF new, last
  <2> QED
    BY <1>9, <1>16, <2>1
<1>18. EntriesPlaced'
  <2>1. Stored(n, 0)' = Dot /\ Stored(n, 1)' = DotDot
    <3>1. 0 \in 0 .. new - 1 /\ 1 \in 0 .. new - 1 /\ 0 # i /\ 1 # i
      BY <1>6, <1>7
    <3> QED
      BY <1>1, <1>17, <3>1
  <2>2. \A s \in 2 .. new - 1 : Stored(n, s)' \in Names
    <3>1. \A s \in 2 .. new - 1 : s \in 0 .. new - 1 /\ s \in 2 .. size[n] - 1
      BY <1>1
    <3> HIDE DEF new, last
    <3> QED
      BY <1>1, <1>7, <1>17, <3>1
  <2>3. ASSUME NEW s \in 0 .. new - 1, NEW t \in 0 .. new - 1, Stored(n, s)' = Stored(n, t)'
        PROVE  s = t
    <3> HIDE DEF new, last
    <3> QED
      BY <1>1, <1>7, <1>16, <1>17, <2>3
  <2>4. size'[n] >= 2 /\ nlink'[n] = size'[n]
    BY <1>7, <1>12, <1>14
  <2> HIDE DEF new
  <2> QED
    BY <1>3, <1>14, <1>15, <2>1, <2>2, <2>3, <2>4, EntriesFrom
<1>19. Present(n)' = Present(n) \ {x}
  <2>1. /\ Present(n) = {Stored(n, s) : s \in 0 .. size[n] - 1} \ Dots
        /\ Present(n)' = {Stored(n, s)' : s \in 0 .. new - 1} \ Dots
    BY <1>14 DEF Present, Dots
  <2>2. \A s \in 0 .. size[n] - 1 : s = last \/ s \in 0 .. new - 1
    BY <1>1
  <2>3. {Stored(n, s)' : s \in 0 .. new - 1} = {Stored(n, s) : s \in 0 .. size[n] - 1} \ {x}
    <3> HIDE DEF new, last
    <3>1. ASSUME NEW s \in 0 .. new - 1
          PROVE  \E t \in 0 .. size[n] - 1 : Stored(n, s)' = Stored(n, t) /\ Stored(n, t) # x
      BY <1>1, <1>6, <1>7, <1>16, <1>17
    <3>2. ASSUME NEW t \in 0 .. size[n] - 1, Stored(n, t) # x
          PROVE  \E s \in 0 .. new - 1 : Stored(n, s)' = Stored(n, t)
      <4>1. CASE t = last
        <5>1. i # last
          BY <1>6, <3>2, <4>1
        <5>2. i \in 0 .. new - 1
          BY <1>7, <2>2, <5>1
        <5> QED
          BY <1>17, <4>1, <5>2
      <4>2. CASE t # last
        <5>1. t \in 0 .. new - 1 /\ t # i
          BY <1>6, <2>2, <3>2, <4>2
        <5> QED
          BY <1>17, <5>1
      <4> QED
        BY <4>1, <4>2
    <3> QED
      BY <3>1, <3>2
  <2> QED
    BY <2>1, <2>3
<1>20. x \in Present(n)
  BY <1>6, PresentAre
<1> QED
  BY <1>3, <1>13, <1>15, <1>18, <1>19, <1>20 DEF IInv

(* sfs_rmdir empties a directory, and it is gone. *)
LEMMA ClearEffect ==
  ASSUME IInv, NEW n \in live, dnode_clear(n)
  PROVE  IInv' /\ Beside(n) /\ live' = live \ {n}
<1>1. n \in Nodes /\ size[n] \in Nat
  BY EntryParts
<1>2. SetListing(n, 0, d) /\ live' = live \ {n} /\ nlink' = nlink
  BY DEF dnode_clear
<1>3. TypeOK /\ InodesPlaced
  BY DEF IInv
<1>4. d \in Arrays /\ nlink' \in [Nodes -> Nat]
  BY <1>2, <1>3, TypeParts DEF Arrays, TypeOK
<1>5. 0 \in 0 .. Largest /\ Wanted(n, 0)
  BY <1>1, Shape DEF Wanted
<1>6. /\ TypeOK' /\ InodesPlaced'
      /\ size' = [size EXCEPT ![n] = 0]
      /\ \A m \in live : \A s \in 0 .. SizeThen(m, n, 0) - 1 :
           Stored(m, s)' = IF m = n THEN d[s] ELSE Stored(m, s)
  BY <1>2, <1>3, <1>4, <1>5, SetListingKeeps
<1>7. Beside(n)
  <2>1. \A m \in live : m # n => size'[m] = size[m]
    BY <1>1, <1>3, <1>6, TypeParts
  <2>2. \A m \in live : m # n => \A s \in 0 .. size[m] - 1 : Stored(m, s)' = Stored(m, s)
    BY <1>6 DEF SizeThen
  <2> QED
    BY <1>2, <2>1, <2>2 DEF Beside
<1>8. EntriesPlaced'
  BY <1>2, <1>7, EntriesFrom
<1> QED
  BY <1>2, <1>6, <1>7, <1>8 DEF IInv

-----------------------------------------------------------------------------
(***************************************************************************)
(* The invariant holds.                                                    *)
(***************************************************************************)
LEMMA InitPlaces == Init => IInv
<1> SUFFICES ASSUME Init
             PROVE  IInv
  OBVIOUS
<1>1. TypeOK
  <2>1. Blank \in Entry /\ Dot \in Entry /\ DotDot \in Entry
    BY DEF Entry, Dots
  <2>2. size \in [Nodes -> 0 .. Largest] /\ nlink \in [Nodes -> Nat]
    <3>1. 2 \in 0 .. Largest
      <4>1. Largest >= 2
        BY NodePagesAssumption DEF Largest, ENTRY_MAX_SIZE, Pages
      <4> QED
        BY <4>1, Shape
    <3> QED
      BY <3>1 DEF Init
  <2>3. direct \in [Nodes -> [0 .. DIRECT - 1 -> Entry]]
    BY <2>1 DEF Init
  <2>4. /\ dpnum \in [Nodes -> [0 .. LV1 - 1 -> Inodes \cup {0}]]
        /\ expnum \in [Nodes -> [0 .. LV2 - 1 -> Inodes \cup {0}]]
        /\ exnum \in [Inodes \cup {0} -> [0 .. FAN - 1 -> Inodes \cup {0}]]
    BY DEF Init, NoPages, NoTables, NoNames
  <2>5. /\ page \in [Inodes \cup {0} -> [PageSlots -> Entry]]
        /\ d \in [Slots -> Entry]
    BY <2>1 DEF Init, BlankPage
  <2>6. free \subseteq Inodes /\ ERRNO = 0 /\ live \subseteq Nodes
    BY DEF Init
  <2> QED
    BY <2>2, <2>3, <2>4, <2>5, <2>6 DEF TypeOK, Entry
<1>2. \A n \in live : n \in Nodes /\ size[n] = 2 /\ nlink[n] = 2
  BY DEF Init
<1>3. PagesFor(2) = {} /\ TablesFor(2) = {}
  <2>1. \A k \in PageNums : ~ (Start(k) < 2)
    BY Shape, StartNat
  <2> QED
    BY <2>1, FirstPages DEF PagesFor, TablesFor
<1>4. InodesPlaced
  BY <1>2, <1>3
     DEF InodesPlaced, PagesHeld, TablesHeld, PagesDiffer, TablesDiffer, TablesNoPages
<1>5. EntriesPlaced
  <2>1. 0 < DIRECT /\ 1 < DIRECT /\ 0 \in 0 .. DIRECT - 1 /\ 1 \in 0 .. DIRECT - 1
    BY Shape
  <2>2. \A n \in live : Stored(n, 0) = Dot /\ Stored(n, 1) = DotDot
    BY <1>2, <2>1 DEF Stored, EntryIn, Init
  <2>3. \A s \in 0 .. 2 - 1 : s = 0 \/ s = 1
    OBVIOUS
  <2>4. 2 .. 2 - 1 = {}
    OBVIOUS
  <2>5. DotsFirst /\ NamesFollow /\ EntriesDiffer /\ LinksCounted
    BY <1>2, <2>2, <2>3, <2>4, NamesAreNot
       DEF DotsFirst, NamesFollow, EntriesDiffer, LinksCounted
  <2> QED
    BY <2>5 DEF EntriesPlaced
<1> QED
  BY <1>1, <1>4, <1>5 DEF IInv

(* What a call that only lists or reports changes. *)
LEMMA ListingKeeps ==
  ASSUME IInv, d' \in Arrays, ERRNO' \in {0, -ENOSPC, -EFBIG},
         UNCHANGED <<size, nlink, direct, tables, page, free, live>>
  PROVE  /\ IInv' /\ live' = live
         /\ \A m \in live : Present(m)' = Present(m)
<1>1. /\ size' = size /\ nlink' = nlink /\ direct' = direct /\ dpnum' = dpnum
      /\ expnum' = expnum /\ exnum' = exnum /\ page' = page /\ free' = free
      /\ live' = live
  BY DEF tables
<1>2. TypeOK'
  BY <1>1 DEF IInv, TypeOK, Arrays, Entry
<1>3. \A m, k : PageInode(m, k)' = PageInode(m, k)
  BY <1>1 DEF PageInode
<1>4. \A m, t : Stored(m, t)' = Stored(m, t)
  BY <1>1, <1>3 DEF Stored, EntryIn
<1>5. InodesPlaced'
  BY <1>1, <1>3
     DEF IInv, InodesPlaced, PagesHeld, TablesHeld, PagesDiffer, TablesDiffer, TablesNoPages,
         PagesFor, TablesFor
<1>6. EntriesPlaced'
  BY <1>1, <1>4
     DEF IInv, EntriesPlaced, DotsFirst, NamesFollow, EntriesDiffer, LinksCounted
<1>7. \A m \in live : Present(m)' = Present(m)
  BY <1>1, <1>4 DEF Present, Dots
<1> QED
  BY <1>1, <1>2, <1>5, <1>6, <1>7 DEF IInv

LEMMA StepKeepsPlaces == IInv /\ [Next]_vars => IInv'
<1> SUFFICES ASSUME IInv, [Next]_vars
             PROVE  IInv'
  OBVIOUS
<1>0. TypeOK /\ d \in Arrays /\ ERRNO \in {0, -ENOSPC, -EFBIG}
  BY TypeParts DEF IInv, TypeOK, Arrays
<1>1. CASE UNCHANGED vars
  <2>1. /\ d' \in Arrays /\ ERRNO' \in {0, -ENOSPC, -EFBIG}
        /\ UNCHANGED <<size, nlink, direct, tables, page, free, live>>
    BY <1>0, <1>1 DEF vars, tables
  <2> QED
    BY <2>1, ListingKeeps
<1>2. ASSUME NEW n \in live, NEW x \in NamesOf[n], dnode_append(n, x)
      PROVE  IInv'
  BY <1>2, AppendEffect
<1>3. ASSUME NEW n \in live, NEW x \in NamesOf[n], dnode_remove(n, x)
      PROVE  IInv'
  BY <1>3, RemoveEffect
<1>4. ASSUME NEW n \in live, dnode_clear(n)
      PROVE  IInv'
  BY <1>4, ClearEffect
<1>5. ASSUME NEW n \in live, dnode_listing(n)
      PROVE  IInv'
  <2>1. n \in Nodes /\ Listed(n) \in Arrays
    BY <1>0, TypeParts, ListedHas
  <2>2. /\ d' \in Arrays /\ ERRNO' \in {0, -ENOSPC, -EFBIG}
        /\ UNCHANGED <<size, nlink, direct, tables, page, free, live>>
    BY <1>0, <1>5, <2>1 DEF dnode_listing
  <2> QED
    BY <2>2, ListingKeeps
<1>6. CASE errno_pop
  <2>1. /\ d' \in Arrays /\ ERRNO' \in {0, -ENOSPC, -EFBIG}
        /\ UNCHANGED <<size, nlink, direct, tables, page, free, live>>
    BY <1>0, <1>6 DEF errno_pop
  <2> QED
    BY <2>1, ListingKeeps
<1> QED
  BY <1>1, <1>2, <1>3, <1>4, <1>5, <1>6 DEF Next

LEMMA PlacesHold == Spec => []IInv
BY InitPlaces, StepKeepsPlaces, PTL DEF Spec

(***************************************************************************)
(* Sizes stay within what a directory can have, pages and tables are       *)
(* inodes, and the array and the pages hold entries.                       *)
(***************************************************************************)
THEOREM TypesStay == Spec => []TypeOK
<1>1. IInv => TypeOK
  BY DEF IInv
<1> QED
  BY <1>1, PlacesHold, PTL

-----------------------------------------------------------------------------
(***************************************************************************)
(* Counting.                                                               *)
(***************************************************************************)
LEMMA NeededFinite ==
  ASSUME NEW n
  PROVE  /\ Needed(n) = PagesFor(size[n]) /\ IsFiniteSet(Needed(n))
         /\ IsFiniteSet({k \in Needed(n) : FirstOfTable(k)})
         /\ Cardinality(Needed(n)) \in Nat
         /\ Cardinality({k \in Needed(n) : FirstOfTable(k)}) \in Nat
<1>1. Needed(n) = PagesFor(size[n])
  BY Shape DEF Needed, PagesFor
<1>2. IsFiniteSet(0 .. Pages - 1)
  BY Shape, FS_Interval
<1>3. Needed(n) \in SUBSET (0 .. Pages - 1)
  BY DEF Needed
<1>4. IsFiniteSet(Needed(n))
  BY <1>2, <1>3, FS_Subset
<1>5. {k \in Needed(n) : FirstOfTable(k)} \in SUBSET Needed(n)
  OBVIOUS
<1>6. IsFiniteSet({k \in Needed(n) : FirstOfTable(k)})
  BY <1>4, <1>5, FS_Subset
<1> QED
  BY <1>1, <1>4, <1>6, FS_CardinalityType

(* First pages that are needed are of tables that are. *)
LEMMA FirstNeeded ==
  ASSUME NEW n, NEW k \in Needed(n), FirstOfTable(k)
  PROVE  Table(k) \in TablesFor(size[n]) /\ FirstPage(Table(k)) = k
<1>1. k \in PageNums /\ Start(k) < size[n]
  BY NeededFinite DEF PagesFor
<1>2. Table(k) \in TableNums /\ FirstPage(Table(k)) = k
  BY <1>1, FirstPages
<1> QED
  BY <1>1, <1>2 DEF TablesFor

LEMMA OwnedCount ==
  ASSUME IInv, NEW n \in live
  PROVE  Cardinality(Owned(n)) = Need(n)
<1> DEFINE pages == {PageInode(n, k) : k \in Needed(n)}
           firsts == {k \in Needed(n) : FirstOfTable(k)}
           tabs == {expnum[n][Table(k)] : k \in firsts}
<1>1. Needed(n) = PagesFor(size[n]) /\ IsFiniteSet(Needed(n)) /\ IsFiniteSet(firsts)
  BY NeededFinite
<1>2. IsFiniteSet(pages) /\ Cardinality(pages) = Cardinality(Needed(n))
  <2> DEFINE g == [k \in Needed(n) |-> PageInode(n, k)]
  <2>1. \A k, l \in Needed(n) : g[k] = g[l] => k = l
    BY <1>1 DEF IInv, InodesPlaced, PagesDiffer
  <2>2. pages = {g[k] : k \in Needed(n)}
    OBVIOUS
  <2> HIDE DEF g, pages
  <2> QED
    BY <1>1, <2>1, <2>2, CountImage
<1>3. IsFiniteSet(tabs) /\ Cardinality(tabs) = Cardinality(firsts)
  <2> DEFINE g == [k \in firsts |-> expnum[n][Table(k)]]
  <2>1. ASSUME NEW k \in firsts, NEW l \in firsts, g[k] = g[l]
        PROVE  k = l
    <3>1. /\ Table(k) \in TablesFor(size[n]) /\ FirstPage(Table(k)) = k
          /\ Table(l) \in TablesFor(size[n]) /\ FirstPage(Table(l)) = l
      BY FirstNeeded
    <3>2. expnum[n][Table(k)] = expnum[n][Table(l)]
      BY <2>1
    <3>3. Table(k) = Table(l)
      BY <3>1, <3>2 DEF IInv, InodesPlaced, TablesDiffer
    <3> QED
      BY <3>1, <3>3
  <2>2. tabs = {g[k] : k \in firsts}
    OBVIOUS
  <2> HIDE DEF g, tabs, firsts
  <2> QED
    BY <1>1, <2>1, <2>2, CountImage
<1>4. pages \cap tabs = {}
  <2> SUFFICES ASSUME NEW k \in Needed(n), NEW l \in firsts,
                      PageInode(n, k) = expnum[n][Table(l)]
               PROVE  FALSE
    OBVIOUS
  <2>1. Table(l) \in TablesFor(size[n])
    BY FirstNeeded
  <2> QED
    BY <1>1, <2>1 DEF IInv, InodesPlaced, TablesNoPages
<1>5. Owned(n) = pages \cup tabs /\ Need(n) = Cardinality(Needed(n)) + Cardinality(firsts)
  BY DEF Owned, Need
<1>6. Cardinality(Needed(n)) \in Nat /\ Cardinality(firsts) \in Nat
  BY NeededFinite
<1> HIDE DEF pages, tabs, firsts
<1>7. Cardinality(pages \cup tabs) = Cardinality(pages) + Cardinality(tabs) - Cardinality(pages \cap tabs)
  BY <1>2, <1>3, FS_Union
<1>8. Cardinality(pages \cap tabs) = 0
  BY <1>4, FS_EmptySet
<1> QED
  BY <1>2, <1>3, <1>5, <1>6, <1>7, <1>8

LEMMA OwnedAre ==
  ASSUME IInv
  PROVE  PagesOwned
<1>1. ASSUME NEW n \in live, NEW i \in Owned(n)
      PROVE  \/ \E k \in PagesFor(size[n]) : i = PageInode(n, k)
             \/ \E t \in TablesFor(size[n]) : i = expnum[n][t]
  BY NeededFinite, FirstNeeded DEF Owned
<1>2. ASSUME NEW n \in live
      PROVE  Owned(n) \subseteq Inodes \ free
  BY <1>1 DEF IInv, InodesPlaced, PagesHeld, TablesHeld
<1>3. ASSUME NEW m \in live, NEW n \in live, m # n
      PROVE  Owned(m) \cap Owned(n) = {}
  BY <1>1, <1>3 DEF IInv, InodesPlaced, PagesDiffer, TablesDiffer, TablesNoPages
<1> QED
  BY <1>2, <1>3, OwnedCount DEF PagesOwned

(***************************************************************************)
(* However directories grow and shrink, the page and table inodes that one *)
(* needs are neither free nor in use in another place.                     *)
(***************************************************************************)
THEOREM PagesStayOwned == Spec => []PagesOwned
<1>1. IInv => PagesOwned
  BY OwnedAre
<1> QED
  BY <1>1, PlacesHold, PTL

(***************************************************************************)
(* The count of links that stat reports is the number of entries, whatever *)
(* order dnode_remove leaves them in.                                      *)
(***************************************************************************)
THEOREM NlinkStaysRight == Spec => []NlinkCounts
<1>1. ASSUME IInv, NEW n \in live
      PROVE  nlink[n] = size[n] /\ Cardinality(Present(n)) = size[n] - 2
  <2> DEFINE S == 2 .. size[n] - 1
             g == [s \in S |-> Stored(n, s)]
  <2>1. /\ size[n] \in Nat /\ size[n] >= 2 /\ nlink[n] = size[n]
        /\ \A s, t \in 0 .. size[n] - 1 : Stored(n, s) = Stored(n, t) => s = t
    BY <1>1, EntryParts
  <2>2. IsFiniteSet(S) /\ Cardinality(S) = size[n] - 2
    <3>1. size[n] - 1 \in Int /\ 2 \in Int
      BY <2>1
    <3>2. IsFiniteSet(S) /\ Cardinality(S) = IF 2 > size[n] - 1 THEN 0 ELSE (size[n] - 1) - 2 + 1
      BY <3>1, FS_Interval
    <3> HIDE DEF S
    <3> QED
      BY <2>1, <3>2
  <2>3. \A s \in S : s \in 0 .. size[n] - 1
    BY <2>1
  <2>4. \A s, t \in S : g[s] = g[t] => s = t
    BY <2>1, <2>3
  <2>5. Present(n) = {g[s] : s \in S}
    BY <1>1, PresentAre
  <2> HIDE DEF S, g
  <2> QED
    BY <2>1, <2>2, <2>4, <2>5, CountImage
<1>2. IInv => NlinkCounts
  BY <1>1 DEF NlinkCounts
<1> QED
  BY <1>2, PlacesHold, PTL

-----------------------------------------------------------------------------
(***************************************************************************)
(* The accessors by offset.                                                *)
(***************************************************************************)

LEMMA SmallQuotient ==
  ASSUME NEW a \in Nat, NEW b \in Nat \ {0}, a < b
  PROVE  a \div b = 0 /\ a % b = a
OBVIOUS

(* Among the first FAN entries in tables their table is the first, and     *)
(* their page the one that the listings read.                              *)
LEMMA SamePage ==
  ASSUME NEW n, NEW off \in Nat, DIRECT <= off, off < ENTRY_MAX_SIZE, Lv2Offset(off) < FAN
  PROVE  EntryPage(n, off) = PageInode(n, PageOf(off))
<1>1. LV1 * PER_PAGE \in Nat /\ off - DIRECT \in Nat
  BY Shape
<1>2. Lv2Offset(off) = (off - DIRECT) - LV1 * PER_PAGE /\ Lv2Offset(off) \in Int
  BY <1>1, Shape DEF Lv2Offset
<1>3. CASE Lv2Offset(off) < 0
  <2>1. off - DIRECT < LV1 * PER_PAGE
    BY <1>1, <1>2, <1>3
  <2>2. PageOf(off) < LV1
    BY <1>1, <2>1, Shape, QuotientBelow DEF PageOf
  <2> QED
    BY <1>3, <2>2 DEF EntryPage, PageInode, PageOf
<1>4. CASE ~ (Lv2Offset(off) < 0)
  <2> DEFINE o == Lv2Offset(off)
             q == o \div PER_PAGE
  <2>1. o \in Nat /\ o < FAN /\ off - DIRECT = LV1 * PER_PAGE + o
    BY <1>1, <1>2, <1>4
  <2>2. q \in Nat /\ q * PER_PAGE \in Nat /\ q * PER_PAGE <= o /\ o < q * PER_PAGE + PER_PAGE
    <3> HIDE DEF o
    <3>1. q \in Nat /\ q * PER_PAGE <= o /\ o < q * PER_PAGE + PER_PAGE
      BY <2>1, Shape, Quotient
    <3> HIDE DEF q
    <3>2. q * PER_PAGE \in Nat
      BY <3>1, Shape
    <3> QED
      BY <3>1, <3>2
  <2>3. q < FAN
    <3>1. q <= q * PER_PAGE
      <4> HIDE DEF q
      <4> QED
        BY <2>2, Shape
    <3> QED
      BY <2>1, <2>2, <3>1, Shape
  <2>4. PageOf(off) = LV1 + q
    <3>1. (LV1 + q) * PER_PAGE = LV1 * PER_PAGE + q * PER_PAGE
      <4> HIDE DEF q
      <4> QED
        BY <2>2, Shape
    <3>2. (LV1 + q + 1) * PER_PAGE = LV1 * PER_PAGE + q * PER_PAGE + PER_PAGE
      <4> HIDE DEF q
      <4> QED
        BY <2>2, Shape
    <3> HIDE DEF o, q
    <3>3. LV1 + q \in Nat /\ LV1 + q + 1 \in Nat
      BY <2>2, Shape
    <3>4. (LV1 + q) * PER_PAGE <= off - DIRECT /\ off - DIRECT < (LV1 + q + 1) * PER_PAGE
      BY <1>1, <2>1, <2>2, <3>1, <3>2, Shape
    <3>5. LV1 + q <= PageOf(off) /\ PageOf(off) < LV1 + q + 1
      BY <1>1, <3>3, <3>4, Shape, QuotientBelow DEF PageOf
    <3> QED
      BY <3>3, <3>5, SlotInPage
  <2>5. /\ ~ (PageOf(off) < LV1) /\ PageOf(off) - LV1 = q
    <3> HIDE DEF o, q
    <3> QED
      BY <2>2, <2>4, Shape
  <2>6. q \div FAN = 0 /\ q % FAN = q
    <3> HIDE DEF o, q
    <3> QED
      BY <2>2, <2>3, Shape, SmallQuotient
  <2>7. o \div FAN = 0
    <3> HIDE DEF o, q
    <3> QED
      BY <2>1, Shape, SmallQuotient
  <2>8. EntryPage(n, off) = exnum[expnum[n][0]][q]
    <3>1. EntryPage(n, off) = exnum[expnum[n][(o \div FAN) * PER_PAGE]][q]
      BY <1>4 DEF EntryPage
    <3>2. (o \div FAN) * PER_PAGE = 0
      BY <2>7, Shape
    <3> QED
      BY <3>1, <3>2
  <2>9. Table(PageOf(off)) = 0 /\ InTable(PageOf(off)) = q
    BY <2>5, <2>6 DEF Table, InTable
  <2> QED
    BY <2>5, <2>8, <2>9 DEF PageInode
<1> QED
  BY <1>3, <1>4

(* What an entry that a directory has is read from. *)
LEMMA EntryFrom ==
  ASSUME IInv, NEW m \in live, NEW s \in 0 .. size[m] - 1, NEW dir, NEW pg
  PROVE  /\ m \in Nodes /\ s \in Nat /\ s < ENTRY_MAX_SIZE
         /\ s < DIRECT => s \in 0 .. DIRECT - 1 /\ EntryIn(dir, pg, m, s) = dir[m][s]
         /\ ~ (s < DIRECT) =>
              /\ DIRECT <= s
              /\ EntryIn(dir, pg, m, s) = pg[PageInode(m, PageOf(s))][InPage(s)]
              /\ PageOf(s) \in PagesFor(size[m]) /\ InPage(s) \in PageSlots
              /\ PageInode(m, PageOf(s)) \in Inodes \cup {0}
<1>1. /\ TypeOK /\ m \in Nodes /\ size[m] \in Nat /\ size[m] <= ENTRY_MAX_SIZE
      /\ s \in Nat /\ s < size[m] /\ s < ENTRY_MAX_SIZE
  <2>1. TypeOK /\ m \in Nodes /\ size[m] \in 0 .. Largest /\ size[m] \in Nat
    BY EntryParts DEF IInv
  <2> QED
    BY <2>1, Shape
<1>2. ASSUME s < DIRECT
      PROVE  s \in 0 .. DIRECT - 1 /\ EntryIn(dir, pg, m, s) = dir[m][s]
  BY <1>1, <1>2, Shape DEF EntryIn
<1>3. ASSUME ~ (s < DIRECT)
      PROVE  /\ DIRECT <= s
             /\ EntryIn(dir, pg, m, s) = pg[PageInode(m, PageOf(s))][InPage(s)]
             /\ PageOf(s) \in PagesFor(size[m]) /\ InPage(s) \in PageSlots
             /\ PageInode(m, PageOf(s)) \in Inodes \cup {0}
  <2>1. DIRECT <= s
    BY <1>1, <1>3, Shape
  <2>2. /\ PageOf(s) \in Nat /\ InPage(s) \in PageSlots
        /\ Start(PageOf(s)) <= s /\ PageOf(s) \in PageNums
    BY <1>1, <2>1, SlotInPage
  <2>3. PageOf(s) \in PagesFor(size[m])
    BY <1>1, <2>2, StartNat DEF PagesFor
  <2>4. PageInode(m, PageOf(s)) \in Inodes \cup {0}
    BY <1>1, <2>2, PageInodeType
  <2> QED
    BY <1>3, <2>1, <2>2, <2>3, <2>4 DEF EntryIn, PageOf, InPage
<1> QED
  BY <1>1, <1>2, <1>3

(* Setting one entry changes that one, in the inode or in a page. *)
LEMMA SettingOne ==
  ASSUME IInv, NEW n \in live, NEW off \in 0 .. size[n] - 1, Lv2Offset(off) < FAN, NEW x,
         NEW m \in live, NEW s \in 0 .. size[m] - 1
  PROVE  EntryIn(dnode_entry_set(n, off, x).direct, dnode_entry_set(n, off, x).page, m, s) =
           IF m = n /\ s = off THEN x ELSE Stored(m, s)
<1> DEFINE r == dnode_entry_set(n, off, x)
           want == IF m = n /\ s = off THEN x ELSE Stored(m, s)
<1>1. /\ n \in Nodes /\ m \in Nodes /\ s \in Nat /\ off \in Nat /\ off < size[n]
      /\ s < ENTRY_MAX_SIZE /\ off < ENTRY_MAX_SIZE /\ ~ (off >= size[n])
  <2>1. size[n] \in Nat
    BY EntryParts
  <2> QED
    BY <2>1, EntryFrom
<1>2. TypeOK /\ Stored(m, s) = EntryIn(direct, page, m, s)
  BY DEF IInv, Stored
<1>3. CASE off < DIRECT
  <2> DEFINE dir == [direct EXCEPT ![n][off] = x]
  <2>1. r = [direct |-> dir, page |-> page]
    BY <1>1, <1>3 DEF dnode_entry_set
  <2>2. r.direct = dir /\ r.page = page
    BY <2>1
  <2>3. CASE s < DIRECT
    <3>1. EntryIn(dir, page, m, s) = dir[m][s] /\ Stored(m, s) = direct[m][s]
      BY <2>3 DEF EntryIn, Stored
    <3>2. s \in 0 .. DIRECT - 1 /\ off \in 0 .. DIRECT - 1
      BY <1>3, <2>3, EntryFrom
    <3>3. /\ direct \in [Nodes -> [0 .. DIRECT - 1 -> Entry]]
          /\ direct[m] \in [0 .. DIRECT - 1 -> Entry]
      BY <1>1, <1>2, TypeParts
    <3>4. dir[m] = IF m = n THEN [direct[m] EXCEPT ![off] = x] ELSE direct[m]
      BY <1>1, <3>3
    <3>5. dir[m][s] = IF m = n /\ s = off THEN x ELSE direct[m][s]
      <4> HIDE DEF dir
      <4>1. CASE m = n
        <5>1. [direct[m] EXCEPT ![off] = x][s] = IF s = off THEN x ELSE direct[m][s]
          BY <3>2, <3>3
        <5>2. dir[m] = [direct[m] EXCEPT ![off] = x]
          BY <3>4, <4>1
        <5> QED
          BY <4>1, <5>1, <5>2
      <4>2. CASE m # n
        BY <3>4, <4>2
      <4> QED
        BY <4>1, <4>2
    <3> QED
      BY <2>2, <3>1, <3>5
  <2>4. CASE ~ (s < DIRECT)
    <3>1. EntryIn(dir, page, m, s) = Stored(m, s)
      BY <1>2, <2>4, EntryFrom
    <3>2. s # off
      BY <1>3, <2>4
    <3> QED
      BY <2>2, <3>1, <3>2
  <2> QED
    BY <2>3, <2>4
<1>4. CASE ~ (off < DIRECT)
  <2> DEFINE i == PageInode(n, PageOf(off))
             pg == [page EXCEPT ![i][InPage(off)] = x]
  <2>1. /\ DIRECT <= off /\ PageOf(off) \in PagesFor(size[n]) /\ InPage(off) \in PageSlots
        /\ i \in Inodes \cup {0}
    BY <1>4, EntryFrom
  <2>2. EntryPage(n, off) = i
    BY <1>1, <2>1, SamePage
  <2>3. r = [direct |-> direct, page |-> pg]
    BY <1>1, <1>4, <2>2 DEF dnode_entry_set, InPage
  <2>4. r.direct = direct /\ r.page = pg
    BY <2>3
  <2>5. CASE s < DIRECT
    <3>1. EntryIn(direct, pg, m, s) = Stored(m, s)
      BY <1>2, <2>5, EntryFrom
    <3>2. s # off
      BY <1>4, <2>5
    <3> QED
      BY <2>4, <3>1, <3>2
  <2>6. CASE ~ (s < DIRECT)
    <3> DEFINE j == PageInode(m, PageOf(s))
    <3>1. /\ DIRECT <= s /\ PageOf(s) \in PagesFor(size[m]) /\ InPage(s) \in PageSlots
          /\ j \in Inodes \cup {0}
          /\ EntryIn(direct, pg, m, s) = pg[j][InPage(s)]
          /\ Stored(m, s) = page[j][InPage(s)]
      <4> HIDE DEF pg
      <4>1. /\ DIRECT <= s /\ PageOf(s) \in PagesFor(size[m]) /\ InPage(s) \in PageSlots
            /\ j \in Inodes \cup {0}
        BY <2>6, EntryFrom
      <4>2. EntryIn(direct, pg, m, s) = pg[j][InPage(s)]
        BY <2>6 DEF EntryIn, PageOf, InPage
      <4>3. Stored(m, s) = page[j][InPage(s)]
        BY <2>6 DEF Stored, EntryIn, PageOf, InPage
      <4> QED
        BY <4>1, <4>2, <4>3
    <3>2. j = i => m = n /\ PageOf(s) = PageOf(off)
      BY <2>1, <3>1 DEF IInv, InodesPlaced, PagesDiffer
    <3>3. j = i /\ InPage(s) = InPage(off) => m = n /\ s = off
      BY <1>1, <2>1, <3>1, <3>2, SlotsDiffer
    <3>4. m = n /\ s = off => j = i
      OBVIOUS
    <3>5. /\ page \in [Inodes \cup {0} -> [PageSlots -> Entry]]
          /\ page[j] \in [PageSlots -> Entry]
      <4> HIDE DEF j
      <4> QED
        BY <1>2, <3>1, TypeParts
    <3> HIDE DEF i, j
    <3>6. pg[j] = IF j = i THEN [page[j] EXCEPT ![InPage(off)] = x] ELSE page[j]
      BY <2>1, <3>1, <3>5
    <3>7. pg[j][InPage(s)] = IF j = i /\ InPage(s) = InPage(off) THEN x ELSE page[j][InPage(s)]
      BY <2>1, <3>1, <3>5, <3>6
    <3>8. m = n /\ s = off => InPage(s) = InPage(off)
      OBVIOUS
    <3>9. EntryIn(direct, pg, m, s) = IF m = n /\ s = off THEN x ELSE Stored(m, s)
      <4> HIDE DEF pg
      <4>1. CASE m = n /\ s = off
        BY <3>1, <3>4, <3>7, <3>8, <4>1
      <4>2. CASE ~ (m = n /\ s = off)
        BY <3>1, <3>3, <3>7, <4>2
      <4> QED
        BY <4>1, <4>2
    <3> HIDE DEF pg
    <3> QED
      BY <2>4, <3>9
  <2> QED
    BY <2>5, <2>6
<1> QED
  BY <1>3, <1>4

(* Getting one reads what the listing has. *)
LEMMA GettingOne ==
  ASSUME IInv, NEW n \in live, NEW off \in 0 .. size[n] - 1, Lv2Offset(off) < FAN
  PROVE  dnode_entry_get(n, off) = Stored(n, off)
<1>1. off \in Nat /\ off < ENTRY_MAX_SIZE /\ ~ (off >= size[n])
  <2>1. size[n] \in Nat
    BY EntryParts
  <2> QED
    BY <2>1, EntryFrom
<1>2. CASE off < DIRECT
  BY <1>1, <1>2 DEF dnode_entry_get, Stored, EntryIn
<1>3. CASE ~ (off < DIRECT)
  <2>1. DIRECT <= off /\ Stored(n, off) = page[PageInode(n, PageOf(off))][InPage(off)]
    BY <1>3, EntryFrom DEF Stored
  <2>2. EntryPage(n, off) = PageInode(n, PageOf(off))
    BY <1>1, <2>1, SamePage
  <2> QED
    BY <1>1, <1>3, <2>1, <2>2 DEF dnode_entry_get, InPage
<1> QED
  BY <1>2, <1>3

(***************************************************************************)
(* In every directory there can be, dnode_entry_get reads what a listing   *)
(* has, and dnode_entry_set changes that entry and no other of any.        *)
(***************************************************************************)
THEOREM AccessorsStayRight == Spec => []AccessorsAgree
<1>1. ASSUME IInv
      PROVE  AccessorsAgree
  BY <1>1, GettingOne, SettingOne DEF AccessorsAgree
<1> QED
  BY <1>1, PlacesHold, PTL

-----------------------------------------------------------------------------
(***************************************************************************)
(* Directories as sets.                                                    *)
(***************************************************************************)

(* The sets before and after, as the abstract directories have them. *)
Sets == [n \in live |-> Present(n)]

LEMMA SetsAfter == Sets' = [n \in live' |-> Present(n)']
BY DEF Sets

LEMMA StartsEmpty == Init => Abstract!Init
<1> SUFFICES ASSUME Init
             PROVE  Abstract!Init
  OBVIOUS
<1>1. IInv
  BY InitPlaces
<1>2. ASSUME NEW n \in live
      PROVE  Present(n) = {}
  <2>1. size[n] = 2
    BY <1>2 DEF Init
  <2>2. 2 .. size[n] - 1 = {}
    BY <2>1
  <2> QED
    BY <1>1, <2>2, PresentAre
<1>3. live = Nodes
  BY DEF Init
<1> QED
  BY <1>2, <1>3 DEF Abstract!Init

LEMMA StepsAreOfSets ==
  ASSUME IInv, [Next]_vars
  PROVE  [Abstract!Next]_Sets
<1>0. /\ TypeOK /\ d \in Arrays /\ ERRNO \in {0, -ENOSPC, -EFBIG}
      /\ live \subseteq Nodes /\ \A n \in Nodes : NamesOf[n] \subseteq Names
  BY TypeParts, NamesAreNot DEF IInv, TypeOK, Arrays
<1>1. ASSUME live' = live, \A m \in live : Present(m)' = Present(m)
      PROVE  Sets' = Sets
  BY <1>1, SetsAfter DEF Sets
<1>2. CASE UNCHANGED vars
  <2>1. /\ d' \in Arrays /\ ERRNO' \in {0, -ENOSPC, -EFBIG}
        /\ UNCHANGED <<size, nlink, direct, tables, page, free, live>>
    BY <1>0, <1>2 DEF vars, tables
  <2> QED
    BY <1>1, <2>1, ListingKeeps
<1>3. ASSUME NEW n \in live, NEW x \in NamesOf[n], dnode_append(n, x)
      PROVE  Abstract!Next
  <2>1. /\ IInv' /\ Beside(n) /\ live' = live
        /\ x \notin Present(n) /\ Present(n)' = Present(n) \cup {x}
    BY <1>3, AppendEffect
  <2>2. \A m \in live : m # n => Present(m)' = Present(m)
    BY <2>1, BesideHas
  <2>3. Sets' = [Sets EXCEPT ![n] = Sets[n] \cup {x}]
    BY <2>1, <2>2, SetsAfter DEF Sets
  <2>4. Sets[n] = Present(n) /\ DOMAIN Sets = live
    BY DEF Sets
  <2>5. Abstract!Add(n, x)
    BY <2>1, <2>3, <2>4 DEF Abstract!Add, Sets
  <2>6. x \in Names
    BY <1>0
  <2> QED
    BY <2>5, <2>6 DEF Abstract!Next
<1>4. ASSUME NEW n \in live, NEW x \in NamesOf[n], dnode_remove(n, x)
      PROVE  Abstract!Next
  <2>1. /\ IInv' /\ Beside(n) /\ live' = live
        /\ x \in Present(n) /\ Present(n)' = Present(n) \ {x}
    BY <1>4, RemoveEffect
  <2>2. \A m \in live : m # n => Present(m)' = Present(m)
    BY <2>1, BesideHas
  <2>3. Sets' = [Sets EXCEPT ![n] = Sets[n] \ {x}]
    BY <2>1, <2>2, SetsAfter DEF Sets
  <2>4. Sets[n] = Present(n) /\ DOMAIN Sets = live
    BY DEF Sets
  <2>5. Abstract!Remove(n, x)
    BY <2>1, <2>3, <2>4 DEF Abstract!Remove, Sets
  <2>6. x \in Names
    BY <1>0
  <2> QED
    BY <2>5, <2>6 DEF Abstract!Next
<1>5. ASSUME NEW n \in live, dnode_clear(n)
      PROVE  Abstract!Next
  <2>1. IInv' /\ Beside(n) /\ live' = live \ {n}
    BY <1>5, ClearEffect
  <2>2. \A m \in live' : m # n => Present(m)' = Present(m)
    BY <2>1, BesideHas
  <2>3. Sets' = [m \in live \ {n} |-> Sets[m]]
    BY <2>1, <2>2, SetsAfter DEF Sets
  <2>4. DOMAIN Sets = live
    BY DEF Sets
  <2>5. Abstract!Destroy(n)
    BY <2>3, <2>4 DEF Abstract!Destroy, Sets
  <2> QED
    BY <2>5 DEF Abstract!Next
<1>6. ASSUME NEW n \in live, dnode_listing(n)
      PROVE  Sets' = Sets
  <2>1. n \in Nodes /\ Listed(n) \in Arrays
    BY <1>0, ListedHas
  <2>2. /\ d' \in Arrays /\ ERRNO' \in {0, -ENOSPC, -EFBIG}
        /\ UNCHANGED <<size, nlink, direct, tables, page, free, live>>
    BY <1>0, <1>6, <2>1 DEF dnode_listing
  <2> QED
    BY <1>1, <2>2, ListingKeeps
<1>7. CASE errno_pop
  <2>1. /\ d' \in Arrays /\ ERRNO' \in {0, -ENOSPC, -EFBIG}
        /\ UNCHANGED <<size, nlink, direct, tables, page, free, live>>
    BY <1>0, <1>7 DEF errno_pop
  <2> QED
    BY <1>1, <2>1, ListingKeeps
<1> QED
  BY <1>2, <1>3, <1>4, <1>5, <1>6, <1>7 DEF Next

(***************************************************************************)
(* Each directory is the set of the names added and not removed: every     *)
(* call, with its listing, swap and storing, is one change of one set or   *)
(* of none.                                                                *)
(***************************************************************************)
THEOREM ImplementsDirectories == Spec => DirectoriesImplemented
<1>1. Spec => []IInv
  BY PlacesHold
<1>2. Init => Abstract!Init
  BY StartsEmpty
<1>3. IInv /\ [Next]_vars => [Abstract!Next]_Sets
  BY StepsAreOfSets
<1> QED
  BY <1>1, <1>2, <1>3, PTL DEF Spec, DirectoriesImplemented, Abstract!Spec, Sets

=============================================================================
