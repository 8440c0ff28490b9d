--------------------------- MODULE FreeListProofs ---------------------------
(***************************************************************************)
(* What the operations of free_block.c do to a list, with no reference to  *)
(* the state of any component: v and w are volumes before and after an     *)
(* operation, F is the set of blocks on the list of v. The proofs about    *)
(* FreeBlock, FreeBlockThreads and Stream rest on these lemmas.            *)
(***************************************************************************)
EXTENDS FreeList, FiniteSetTheorems, TLAPS

(* The blocks there can be on a list; block 0 is the superblock. *)
BlockSets == SUBSET (Nat \ {0})

(* An exhausted list has no block at all, and its head says so. *)
LEMMA ExhaustedList ==
  ASSUME NEW F \in BlockSets, NEW v, ListsExactly(v, F), ~HasFree(v)
  PROVE  F = {} /\ v.head = NIL
<1>1. PICK s \in [1 .. v.size -> F] :
         /\ \A b \in F : \E i \in 1 .. v.size : s[i] = b
         /\ Walk(v, s)
  BY DEF ListsExactly
<1>2. v.size \in Nat
  BY DEF ListsExactly
<1>3. v.size = 0
  <2>1. SUFFICES ASSUME v.size # 0 PROVE FALSE
    OBVIOUS
  <2>2. v.size \in 1 .. v.size /\ v.head = s[v.size]
    BY <1>1, <1>2, <2>1 DEF Walk
  <2>3. v.head \in Nat \ {0}
    BY <1>1, <2>2 DEF BlockSets
  <2> QED
    BY <2>3 DEF HasFree
<1>4. v.head = NIL
  BY <1>1, <1>3 DEF Walk
<1> QED
  BY <1>1, <1>3, <1>4

(* The head of a list that is not exhausted is on it. *)
LEMMA HeadIsFree ==
  ASSUME NEW F \in BlockSets, NEW v, ListsExactly(v, F), HasFree(v)
  PROVE  v.head \in F
<1>1. PICK s \in [1 .. v.size -> F] : Walk(v, s)
  BY DEF ListsExactly
<1>2. v.size \in Nat
  BY DEF ListsExactly
<1>3. v.size # 0
  BY <1>1 DEF Walk, HasFree, NIL
<1>4. v.size \in 1 .. v.size /\ v.head = s[v.size]
  BY <1>1, <1>2, <1>3 DEF Walk
<1> QED
  BY <1>1, <1>4

(* What the head of a list can be: a block of it, or the end mark. *)
LEMMA HeadType ==
  ASSUME NEW F \in BlockSets, NEW v, ListsExactly(v, F)
  PROVE  v.head \in F \cup {NIL}
BY ExhaustedList, HeadIsFree

(* The first word of the first block leads on: to a block of the list, or  *)
(* to its end.                                                             *)
LEMMA HeadLink ==
  ASSUME NEW F \in BlockSets, NEW v, ListsExactly(v, F), HasFree(v)
  PROVE  v.link[v.head] \in F \cup {NIL}
<1>1. PICK s \in [1 .. v.size -> F] : Walk(v, s)
  BY DEF ListsExactly
<1>2. v.size \in Nat
  BY DEF ListsExactly
<1>3. v.size # 0
  BY <1>1 DEF Walk, HasFree, NIL
<1>4. v.size \in 1 .. v.size /\ v.head = s[v.size]
  BY <1>1, <1>2, <1>3 DEF Walk
<1>5. v.link[v.head] = IF v.size = 1 THEN NIL ELSE s[v.size - 1]
  BY <1>1, <1>4 DEF Walk
<1>6. v.size # 1 => v.size - 1 \in 1 .. v.size
  BY <1>2, <1>3
<1> QED
  BY <1>1, <1>5, <1>6

(* Taking the head off a list: the head was on it, the rest is the list of *)
(* the remaining blocks whatever the head's first word becomes.            *)
LEMMA UnlinkedList ==
  ASSUME NEW F \in BlockSets, NEW v, NEW w,
         ListsExactly(v, F), HasFree(v),
         w.head = v.link[v.head],
         w.size = v.size - 1,
         \A b \in F \ {v.head} : w.link[b] = v.link[b]
  PROVE  v.head \in F /\ ListsExactly(w, F \ {v.head})
<1>1. PICK s \in [1 .. v.size -> F] :
         /\ \A i, j \in 1 .. v.size : s[i] = s[j] => i = j
         /\ \A b \in F : \E i \in 1 .. v.size : s[i] = b
         /\ Walk(v, s)
  BY DEF ListsExactly
<1>2. v.size \in Nat
  BY DEF ListsExactly
<1>3. v.size # 0
  BY <1>1, <1>2 DEF Walk, HasFree, NIL
<1>4. v.size \in 1 .. v.size /\ w.size \in Nat /\ 1 .. w.size \subseteq 1 .. v.size
  BY <1>2, <1>3
<1>5. v.head = s[v.size] /\ v.head \in F
  BY <1>1, <1>3, <1>4 DEF Walk
<1>6. ListsExactly(w, F \ {v.head})
  <2> DEFINE t == [i \in 1 .. w.size |-> s[i]]
  <2>1. t \in [1 .. w.size -> F \ {v.head}]
    <3>1. ASSUME NEW i \in 1 .. w.size
          PROVE  s[i] \in F \ {v.head}
      <4>1. i \in 1 .. v.size /\ i # v.size
        BY <1>2, <1>4
      <4> QED
        BY <1>1, <1>4, <1>5, <4>1
    <3> QED
      BY <3>1
  <2>2. \A i, j \in 1 .. w.size : t[i] = t[j] => i = j
    BY <1>1, <1>4
  <2>3. \A b \in F \ {v.head} : \E i \in 1 .. w.size : t[i] = b
    <3>1. SUFFICES ASSUME NEW b \in F \ {v.head}
                   PROVE  \E i \in 1 .. w.size : t[i] = b
      OBVIOUS
    <3>2. PICK i \in 1 .. v.size : s[i] = b
      BY <1>1
    <3>3. i # v.size
      BY <1>5, <3>2
    <3>4. i \in 1 .. w.size
      BY <1>2, <3>3
    <3> QED
      BY <3>2, <3>4
  <2>4. Walk(w, t)
    <3>1. w.head = IF w.size = 0 THEN NIL ELSE t[w.size]
      BY <1>1, <1>2, <1>4, <1>5 DEF Walk
    <3>2. ASSUME NEW i \in 1 .. w.size
          PROVE  w.link[t[i]] = IF i = 1 THEN NIL ELSE t[i - 1]
      <4>1. i \in 1 .. v.size /\ (i # 1 => i - 1 \in 1 .. w.size)
        BY <1>2, <1>4
      <4>2. s[i] \in F \ {v.head}
        BY <2>1
      <4>3. v.link[s[i]] = IF i = 1 THEN NIL ELSE s[i - 1]
        BY <1>1, <4>1 DEF Walk
      <4> QED
        BY <4>1, <4>2, <4>3
    <3> QED
      BY <3>1, <3>2 DEF Walk
  <2> QED
    BY <1>4, <2>1, <2>2, <2>3, <2>4 DEF ListsExactly
<1> QED
  BY <1>5, <1>6

(* Pushing a block that is not on the list puts it there. *)
LEMMA LinkedList ==
  ASSUME NEW F \in BlockSets, NEW v, NEW w, NEW b \in (Nat \ {0}) \ F,
         ListsExactly(v, F),
         w.head = b,
         w.size = v.size + 1,
         w.link[b] = v.head,
         \A c \in F : w.link[c] = v.link[c]
  PROVE  ListsExactly(w, F \cup {b})
<1>1. PICK s \in [1 .. v.size -> F] :
         /\ \A i, j \in 1 .. v.size : s[i] = s[j] => i = j
         /\ \A c \in F : \E i \in 1 .. v.size : s[i] = c
         /\ Walk(v, s)
  BY DEF ListsExactly
<1>2. v.size \in Nat
  BY DEF ListsExactly
<1> DEFINE t == [i \in 1 .. w.size |-> IF i = w.size THEN b ELSE s[i]]
<1>4. \A i \in 1 .. w.size : i # w.size => i \in 1 .. v.size
  BY <1>2
<1>5. t \in [1 .. w.size -> F \cup {b}]
  BY <1>1, <1>4
<1>6. \A i, j \in 1 .. w.size : t[i] = t[j] => i = j
  BY <1>1, <1>4
<1>7. \A c \in F \cup {b} : \E i \in 1 .. w.size : t[i] = c
  <2>1. w.size \in 1 .. w.size /\ t[w.size] = b
    BY <1>2
  <2>2. ASSUME NEW c \in F
        PROVE  \E i \in 1 .. w.size : t[i] = c
    <3>1. PICK i \in 1 .. v.size : s[i] = c
      BY <1>1
    <3>2. i \in 1 .. w.size /\ i # w.size
      BY <1>2
    <3> QED
      BY <3>1, <3>2
  <2> QED
    BY <2>1, <2>2
<1>8. Walk(w, t)
  <2>1. w.head = IF w.size = 0 THEN NIL ELSE t[w.size]
    BY <1>2
  <2>2. ASSUME NEW i \in 1 .. w.size
        PROVE  w.link[t[i]] = IF i = 1 THEN NIL ELSE t[i - 1]
    <3>1. CASE i = w.size
      <4>1. w.link[t[i]] = v.head
        BY <3>1
      <4>2. CASE v.size = 0
        BY <1>1, <1>2, <3>1, <4>1, <4>2 DEF Walk
      <4>3. CASE v.size # 0
        <5>1. v.head = s[v.size] /\ i # 1 /\ i - 1 = v.size
          BY <1>1, <1>2, <3>1, <4>3 DEF Walk
        <5>2. i - 1 \in 1 .. w.size /\ i - 1 # w.size
          BY <1>2, <4>3, <5>1
        <5> QED
          BY <4>1, <5>1, <5>2
      <4> QED
        BY <4>2, <4>3
    <3>2. CASE i # w.size
      <4>1. i \in 1 .. v.size /\ t[i] = s[i]
        BY <1>4, <3>2
      <4>2. s[i] \in F
        BY <1>1, <4>1
      <4>3. w.link[t[i]] = v.link[s[i]]
        BY <4>1, <4>2
      <4>4. v.link[s[i]] = IF i = 1 THEN NIL ELSE s[i - 1]
        BY <1>1, <4>1 DEF Walk
      <4>5. i # 1 => i - 1 \in 1 .. w.size /\ i - 1 # w.size
        BY <1>2
      <4> QED
        BY <4>3, <4>4, <4>5
    <3> QED
      BY <3>1, <3>2
  <2> QED
    BY <2>1, <2>2 DEF Walk
<1>9. w.size \in Nat
  BY <1>2
<1> QED
  BY <1>5, <1>6, <1>7, <1>8, <1>9 DEF ListsExactly

(* A list does not depend on the first words of other blocks. *)
LEMMA ForeignWrite ==
  ASSUME NEW F \in BlockSets, NEW v, NEW w,
         ListsExactly(v, F),
         w.head = v.head, w.size = v.size,
         \A b \in F : w.link[b] = v.link[b]
  PROVE  ListsExactly(w, F)
<1>1. PICK s \in [1 .. v.size -> F] :
         /\ \A i, j \in 1 .. v.size : s[i] = s[j] => i = j
         /\ \A c \in F : \E i \in 1 .. v.size : s[i] = c
         /\ Walk(v, s)
  BY DEF ListsExactly
<1>2. Walk(w, s)
  BY <1>1 DEF Walk
<1> QED
  BY <1>1, <1>2 DEF ListsExactly

(* Formatting lists the blocks from the first to the last one in order. *)
LEMMA FormattedList ==
  ASSUME NEW first \in Nat \ {0}, NEW last \in Nat, first <= last, NEW v,
         v.head = first,
         v.size = last - first + 1,
         \A b \in first .. last : v.link[b] = IF b = last THEN NIL ELSE b + 1
  PROVE  ListsExactly(v, first .. last)
<1> DEFINE s == [i \in 1 .. v.size |-> last + 1 - i]
<1>1. s \in [1 .. v.size -> first .. last]
  OBVIOUS
<1>2. \A i, j \in 1 .. v.size : s[i] = s[j] => i = j
  OBVIOUS
<1>3. \A b \in first .. last : \E i \in 1 .. v.size : s[i] = b
  <2>1. SUFFICES ASSUME NEW b \in first .. last
                 PROVE  \E i \in 1 .. v.size : s[i] = b
    OBVIOUS
  <2>2. last + 1 - b \in 1 .. v.size /\ s[last + 1 - b] = b
    OBVIOUS
  <2> QED
    BY <2>2
<1>4. Walk(v, s)
  <2>1. v.head = IF v.size = 0 THEN NIL ELSE s[v.size]
    OBVIOUS
  <2>2. ASSUME NEW i \in 1 .. v.size
        PROVE  v.link[s[i]] = IF i = 1 THEN NIL ELSE s[i - 1]
    <3>1. s[i] = last + 1 - i /\ s[i] \in first .. last
      BY <1>1
    <3>2. i # 1 => s[i - 1] = s[i] + 1 /\ s[i] # last
      BY <3>1
    <3>3. i = 1 => s[i] = last
      BY <3>1
    <3> HIDE DEF s
    <3> QED
      BY <3>1, <3>2, <3>3
  <2> QED
    BY <2>1, <2>2 DEF Walk
<1>5. v.size \in Nat
  OBVIOUS
<1> QED
  BY <1>1, <1>2, <1>3, <1>4, <1>5 DEF ListsExactly

(* The counter of a list is the number of its blocks. *)
LEMMA ListCounts ==
  ASSUME NEW F, NEW v, ListsExactly(v, F)
  PROVE  IsFiniteSet(F) /\ v.size = Cardinality(F)
<1>1. PICK s \in [1 .. v.size -> F] :
         /\ \A i, j \in 1 .. v.size : s[i] = s[j] => i = j
         /\ \A c \in F : \E i \in 1 .. v.size : s[i] = c
  BY DEF ListsExactly
<1>2. v.size \in Nat
  BY DEF ListsExactly
<1>3. IsFiniteSet(1 .. v.size) /\ Cardinality(1 .. v.size) = v.size
  BY <1>2, FS_Interval
<1>4. ExistsBijection(1 .. v.size, F)
  BY <1>1 DEF ExistsBijection, Bijection, Injection, Surjection, IsInjective
<1> QED
  BY <1>3, <1>4, FS_Bijection

=============================================================================
