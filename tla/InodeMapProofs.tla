--------------------------- MODULE InodeMapProofs ---------------------------
(***************************************************************************)
(* For every size of the inode table, and whether char is signed or not:   *)
(* the bitmap records exactly the inodes in use, and implements a pool.    *)
(***************************************************************************)
EXTENDS InodeMap, TLAPS

-----------------------------------------------------------------------------
(***************************************************************************)
(* Inodes and the bits that stand for them.                                *)
(***************************************************************************)

(* An inode has one bit, and a bit stands for one inode. *)
LEMMA BitOfInode ==
  ASSUME NEW n \in Nat
  PROVE  /\ n \div 8 \in Nat /\ n % 8 \in Bits
         /\ n = 8 * (n \div 8) + (n % 8)
  BY DEF Bits

LEMMA InodeOfBit ==
  ASSUME NEW i \in Nat, NEW j \in Bits, NEW k \in Nat, NEW l \in Bits,
         8 * i + j = 8 * k + l
  PROVE  i = k /\ j = l
  BY DEF Bits

(* The scanned bytes are the bytes of the inodes below INODE_BLK_SIZE. *)
LEMMA ScannedBytes ==
  /\ Scanned \subseteq Bytes
  /\ Bytes \subseteq Nat
  /\ \A i \in Scanned, j \in Bits : 8 * i + j < INODE_BLK_SIZE
  /\ \A n \in Poppable : n \in Nat /\ n \div 8 \in Scanned
<1>1. PICK m \in Nat : m >= 1 /\ INODE_BLK_SIZE = 8 * m
  BY InodeMapAssumption
<1>2. Scanned = 0 .. m - 1 /\ Bytes = 0 .. 4 * m - 1
  <2>1. INODE_BLK_SIZE \div 8 = m /\ (4 * INODE_BLK_SIZE) \div 8 = 4 * m
    BY <1>1
  <2> QED
    BY <2>1 DEF Scanned, Bytes
<1>3. ASSUME NEW n \in Poppable
      PROVE  n \in Nat /\ n \div 8 \in Scanned
  <2>1. n \in Nat /\ n < 8 * m
    BY <1>1, <1>3 DEF Poppable
  <2>2. n \div 8 \in Nat /\ n \div 8 < m
    BY <2>1, <1>1
  <2> QED
    BY <1>2, <2>1, <2>2
<1> QED
  BY <1>1, <1>2, <1>3 DEF Bits

(***************************************************************************)
(* Where the scan stops, the mask and the byte have one bit in common: the *)
(* leading bits a signed char drags along meet only bits found clear.      *)
(***************************************************************************)
LEMMA MaskHitsOneBit ==
  ASSUME NEW i \in Scanned, NEW j \in Bits, ScanStops(i, j),
         map[i] \subseteq Bits
  PROVE  j \in map[i] /\ map[i] \ ptr(j) = map[i] \ {j}
<1>1. ASSUME NEW k \in Bits, k < j
      PROVE  k \notin map[i]
  <2>1. k \in ptr(k)
    BY DEF ptr, Bits
  <2>2. map[i] \cap ptr(k) = {}
    BY <1>1 DEF ScanStops
  <2> QED
    BY <2>1, <2>2
<1>2. \A k \in ptr(j) : k \in Bits /\ (k < j \/ k = j)
  BY DEF ptr, Bits
<1>3. \A k \in ptr(j) : k \in map[i] => k = j
  BY <1>1, <1>2
<1>4. PICK k \in map[i] : k \in ptr(j)
  BY DEF ScanStops
<1>5. k = j
  BY <1>3, <1>4
<1> QED
  BY <1>3, <1>4, <1>5

-----------------------------------------------------------------------------
(* The bits are exact, and what is in use is what can be popped at all. *)
IInv == TypeOK /\ BitsExact

(* The scan stops at an inode that can be popped and is not in use. *)
LEMMA StopsAtFree ==
  ASSUME IInv, NEW i \in Scanned, NEW j \in Bits, ScanStops(i, j)
  PROVE  /\ 8 * i + j \in Poppable \ held
         /\ i \in Bytes
         /\ map[i] \ ptr(j) = map[i] \ {j}
<1>1. i \in Bytes /\ i \in Nat /\ 8 * i + j < INODE_BLK_SIZE
  BY ScannedBytes
<1>2. map[i] \subseteq Bits
  BY <1>1 DEF IInv, TypeOK
<1>3. j \in map[i] /\ map[i] \ ptr(j) = map[i] \ {j}
  BY <1>2, MaskHitsOneBit
<1>4. 8 * i + j \notin held \cup Reserved
  BY <1>1, <1>3 DEF IInv, BitsExact
<1>5. 8 * i + j \in Nat
  BY <1>1 DEF Bits
<1>6. 8 * i + j \in Poppable
  BY <1>1, <1>4, <1>5, InodeMapAssumption DEF Poppable, Reserved
<1> QED
  BY <1>1, <1>3, <1>4, <1>6

(* A scan that finds no bit set means that everything is in use. *)
LEMMA NothingFree ==
  ASSUME IInv, NoInode
  PROVE  held = Poppable
<1>1. ASSUME NEW n \in Poppable
      PROVE  n \in held
  <2>1. /\ n \in Nat
        /\ n \div 8 \in Scanned
        /\ n \div 8 \in Bytes
        /\ n % 8 \in Bits
        /\ n = 8 * (n \div 8) + (n % 8)
    BY ScannedBytes, BitOfInode
  <2>2. n % 8 \notin map[n \div 8]
    BY <2>1 DEF NoInode
  <2>3. n \in held \cup Reserved
    BY <2>1, <2>2 DEF IInv, BitsExact
  <2>4. n \notin Reserved
    BY DEF Poppable, Reserved
  <2> QED
    BY <2>3, <2>4
<1> QED
  BY <1>1 DEF IInv, TypeOK

(* Initially only the reserved inodes have their bits clear. *)
LEMMA FreshMap ==
  /\ inode_init_map \in [Bytes -> SUBSET Bits]
  /\ \A i \in Bytes, j \in Bits :
       j \in inode_init_map[i] <=> 8 * i + j \notin Reserved
<1>1. ASSUME NEW i \in Bytes, NEW j \in Bits
      PROVE  j \in inode_init_map[i] <=> 8 * i + j \notin Reserved
  <2>1. i \in Nat
    BY ScannedBytes
  <2> QED
    BY <2>1 DEF inode_init_map, Bits, Reserved
<1> QED
  BY <1>1 DEF inode_init_map, Bits

LEMMA InitInvariant == Init => IInv
  BY FreshMap DEF Init, IInv, TypeOK, BitsExact

(* One bit changes with the inode it stands for. *)
LEMMA PopKeepsInvariant ==
  ASSUME IInv, NEW i \in Scanned, NEW j \in Bits, ScanStops(i, j),
         map' = [map EXCEPT ![i] = @ \ ptr(j)],
         got' = 8 * i + j,
         parity' = 1 - parity,
         held' = held \cup {8 * i + j},
         UNCHANGED ERRNO
  PROVE  IInv'
<1>1. /\ 8 * i + j \in Poppable \ held
      /\ i \in Bytes
      /\ map[i] \ ptr(j) = map[i] \ {j}
  BY StopsAtFree
<1>2. map' = [map EXCEPT ![i] = map[i] \ {j}]
  BY <1>1
<1>3. TypeOK'
  BY <1>1, <1>2 DEF IInv, TypeOK
<1>4. ASSUME NEW k \in Bytes, NEW l \in Bits
      PROVE  l \in map'[k] <=> 8 * k + l \notin held' \cup Reserved
  <2>1. l \in map[k] <=> 8 * k + l \notin held \cup Reserved
    BY DEF IInv, BitsExact
  <2>2. l \in map'[k] <=> l \in map[k] /\ ~(k = i /\ l = j)
    BY <1>1, <1>2 DEF IInv, TypeOK
  <2>3. 8 * k + l = 8 * i + j <=> k = i /\ l = j
    BY <1>1, InodeOfBit, ScannedBytes
  <2> QED
    BY <2>1, <2>2, <2>3
<1> QED
  BY <1>3, <1>4 DEF IInv, BitsExact

LEMMA PushKeepsInvariant ==
  ASSUME IInv, NEW inum \in held \cup {0}, free_inode_push(inum)
  PROVE  IInv'
<1>1. CASE inum = 0
  <2>1. held' = held /\ map' = map /\ UNCHANGED <<ERRNO, got, parity>>
    BY <1>1 DEF free_inode_push, IInv, TypeOK, Poppable
  <2> QED
    BY <2>1 DEF IInv, TypeOK, BitsExact
<1>2. CASE inum # 0
  <2> DEFINE i == inum \div 8
             j == inum % 8
  <2>1. inum \in held /\ inum \in Poppable
    BY <1>2 DEF IInv, TypeOK
  <2>2. i \in Bytes /\ j \in Bits /\ inum = 8 * i + j
    BY <2>1, ScannedBytes, BitOfInode
  <2>3. /\ map' = [map EXCEPT ![i] = @ \cup {j}]
        /\ held' = held \ {inum}
        /\ UNCHANGED <<ERRNO, got, parity>>
    BY <2>1 DEF free_inode_push, Poppable
  <2> HIDE DEF i, j
  <2>4. TypeOK'
    BY <2>2, <2>3 DEF IInv, TypeOK
  <2>5. ASSUME NEW k \in Bytes, NEW l \in Bits
        PROVE  l \in map'[k] <=> 8 * k + l \notin held' \cup Reserved
    <3>1. l \in map[k] <=> 8 * k + l \notin held \cup Reserved
      BY DEF IInv, BitsExact
    <3>2. l \in map'[k] <=> l \in map[k] \/ (k = i /\ l = j)
      BY <2>2, <2>3 DEF IInv, TypeOK
    <3>3. 8 * k + l = inum <=> k = i /\ l = j
      BY <2>2, InodeOfBit, ScannedBytes
    <3>4. inum \notin Reserved
      BY <2>1 DEF Poppable, Reserved
    <3> QED
      BY <2>1, <2>3, <3>1, <3>2, <3>3, <3>4
  <2> QED
    BY <2>4, <2>5 DEF IInv, BitsExact
<1> QED
  BY <1>1, <1>2

LEMMA NextInvariant == IInv /\ [Next]_vars => IInv'
<1> SUFFICES ASSUME IInv, [Next]_vars PROVE IInv'
  OBVIOUS
<1>1. CASE inode_init
  BY <1>1, FreshMap DEF inode_init, IInv, TypeOK, BitsExact
<1>2. CASE free_inode_pop
  <2>1. CASE NoInode
    BY <2>1 DEF NoInode, IInv, TypeOK, BitsExact
  <2>2. CASE ~NoInode
    BY <1>2, <2>2, PopKeepsInvariant DEF free_inode_pop
  <2> QED
    BY <2>1, <2>2
<1>3. ASSUME NEW inum \in held \cup {0}, free_inode_push(inum)
      PROVE  IInv'
  BY <1>3, PushKeepsInvariant
<1>4. CASE errno_pop
  BY <1>4 DEF errno_pop, IInv, TypeOK, BitsExact
<1>5. CASE UNCHANGED vars
  BY <1>5 DEF vars, IInv, TypeOK, BitsExact
<1> QED
  BY <1>1, <1>2, <1>3, <1>4, <1>5 DEF Next

(* The inductive invariant holds in every reachable state. *)
THEOREM Invariant == Spec => []IInv
<1> QED
  BY InitInvariant, NextInvariant, PTL DEF Spec

(***************************************************************************)
(* For every table size and either kind of char, the clear bits are at all *)
(* times the inodes in use and the reserved ones.                          *)
(***************************************************************************)
THEOREM BitsStayExact == Spec => []BitsExact
<1>1. IInv => BitsExact
  BY DEF IInv
<1> QED
  BY <1>1, Invariant, PTL

(***************************************************************************)
(* For every table size free_inode_pop returns nothing but an inode that   *)
(* it scans or 0, and the 0 that a reverting call pushes back never enters *)
(* the map as a bit or a holder.                                           *)
(***************************************************************************)
THEOREM TypesStay == Spec => []TypeOK
<1>1. IInv => TypeOK
  BY DEF IInv
<1> QED
  BY <1>1, Invariant, PTL

(***************************************************************************)
(* The bitmap implements a pool: no inode is handed out twice, and a pop   *)
(* is refused only when every inode that it scans is in use.               *)
(***************************************************************************)
THEOREM ImplementsPool == Spec => PoolImplemented
<1>1. Init => InodePool!Init
  BY DEF Init, InodePool!Init
<1>2. IInv /\ [Next]_vars => [InodePool!Next]_(InodePool!poolVars)
  <2> SUFFICES ASSUME IInv, [Next]_vars
               PROVE  InodePool!Next \/ UNCHANGED <<held, got, parity>>
    BY DEF InodePool!poolVars
  <2>1. CASE inode_init
    BY <2>1 DEF inode_init, InodePool!Next, InodePool!Format
  <2>2. CASE NoInode
    BY <2>2, NothingFree DEF NoInode, InodePool!Next, InodePool!Refuse
  <2>3. ASSUME NEW i \in Scanned, NEW j \in Bits, ScanStops(i, j),
               got' = 8 * i + j,
               parity' = 1 - parity, held' = held \cup {8 * i + j}
        PROVE  InodePool!Next
    <3>1. 8 * i + j \in Poppable \ held
      BY <2>3, StopsAtFree
    <3> QED
      BY <2>3, <3>1 DEF InodePool!Next, InodePool!Take
  <2>4. CASE free_inode_pop
    BY <2>2, <2>3, <2>4 DEF free_inode_pop
  <2>5. ASSUME NEW inum \in held \cup {0}, free_inode_push(inum)
        PROVE  InodePool!Next \/ UNCHANGED <<held, got, parity>>
    <3>1. held' = held \ {inum} /\ UNCHANGED <<got, parity>>
      BY <2>5 DEF free_inode_push
    <3>2. CASE inum \in held
      BY <3>1, <3>2 DEF InodePool!Next, InodePool!Give
    <3>3. CASE inum \notin held
      BY <3>1, <3>3
    <3> QED
      BY <3>2, <3>3
  <2>6. CASE errno_pop
    BY <2>6 DEF errno_pop
  <2>7. CASE UNCHANGED vars
    BY <2>7 DEF vars
  <2> QED
    BY <2>1, <2>4, <2>5, <2>6, <2>7 DEF Next
<1> QED
  BY <1>1, <1>2, Invariant, PTL DEF Spec, PoolImplemented, InodePool!Spec

(***************************************************************************)
(* Whichever inodes were pushed back, in a table of any size and with char *)
(* signed or not, a pop takes the lowest that is not in use.               *)
(***************************************************************************)
LEMMA BelowTheStop ==
  ASSUME IInv, NEW i \in Scanned, NEW j \in Bits, ScanStops(i, j),
         NEW k \in Poppable, k < 8 * i + j
  PROVE  k \in held
<1>1. i \in Nat /\ k \in Nat /\ k \div 8 \in Scanned /\ k \div 8 \in Bytes
  BY ScannedBytes
<1>2. k \div 8 \in Nat /\ k % 8 \in Bits /\ k = 8 * (k \div 8) + (k % 8)
  BY <1>1, BitOfInode
<1>3. k % 8 \notin map[k \div 8]
  <2>1. k \div 8 < i \/ (k \div 8 = i /\ k % 8 < j)
    BY <1>1, <1>2 DEF Bits
  <2>2. CASE k \div 8 < i
    BY <1>1, <2>2 DEF ScanStops
  <2>3. CASE k \div 8 = i /\ k % 8 < j
    <3>1. map[i] \cap ptr(k % 8) = {}
      BY <1>2, <2>3 DEF ScanStops
    <3>2. k % 8 \in ptr(k % 8)
      BY <1>2 DEF ptr, Bits
    <3> QED
      BY <2>3, <3>1, <3>2
  <2> QED
    BY <2>1, <2>2, <2>3
<1>4. k \in held \cup Reserved
  BY <1>1, <1>2, <1>3 DEF IInv, BitsExact
<1> QED
  BY <1>4 DEF Poppable, Reserved

LowestTaken ==
  \A n \in held' \ held :
    got' = n /\ \A k \in Poppable : k < n => k \in held

THEOREM PopsStayLowest == Spec => PopsLowest
<1>1. IInv /\ [Next]_vars => [LowestTaken]_vars
  <2> SUFFICES ASSUME IInv, [Next]_vars, NEW n \in held' \ held
               PROVE  got' = n /\ \A k \in Poppable : k < n => k \in held
    BY DEF LowestTaken
  <2>1. ASSUME NEW i \in Scanned, NEW j \in Bits, ScanStops(i, j),
               got' = 8 * i + j, held' = held \cup {8 * i + j}
        PROVE  got' = n /\ \A k \in Poppable : k < n => k \in held
    <3>1. n = 8 * i + j
      BY <2>1
    <3> QED
      BY <2>1, <3>1, BelowTheStop
  <2>2. free_inode_pop
    <3>1. ~inode_init /\ ~UNCHANGED held
      BY DEF inode_init
    <3> QED
      BY <3>1 DEF Next, vars, free_inode_push, errno_pop
  <2>3. ~NoInode
    BY DEF NoInode
  <2> QED
    BY <2>1, <2>2, <2>3 DEF free_inode_pop
<1> QED
  BY <1>1, Invariant, PTL DEF Spec, PopsLowest, LowestTaken

=============================================================================
