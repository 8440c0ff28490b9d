----------------------------- MODULE LoopProofs -----------------------------
(***************************************************************************)
(* What the loops of the code need: a loop that runs N rounds, written as  *)
(* a recursive function of the number of rounds done, has a value at every *)
(* round, and what holds before the first round and is kept by each holds  *)
(* after the last. Induction is over sets of numbers: a set of states or   *)
(* of rounds is a constant, where a formula about them would be an         *)
(* operator that the provers cannot instantiate. Quotients and the number  *)
(* of values of a function, which several components need, are here too.   *)
(***************************************************************************)
EXTENDS Integers, WellFoundedInduction, FiniteSetTheorems, TLAPS

(* A set of numbers that is not empty has a least one: an interval from 0  *)
(* is smaller the smaller its end, and finite sets are well-founded.       *)
LEMMA LeastNumber ==
  ASSUME NEW T \in SUBSET Nat, T # {}
  PROVE  \E m \in T : \A k \in T : m <= k
<1>1. PICK n \in T : TRUE
  OBVIOUS
<1> DEFINE Finite == FiniteSubsetsOf(0 .. n)
           Smaller == StrictSubsetOrdering(0 .. n)
           Intervals == {X \in SUBSET (0 .. n) : \E m \in T : m <= n /\ X = 0 .. m}
<1>2. IsWellFoundedOn(Smaller, Finite)
  BY FS_StrictSubsetOrderingWellFounded
<1>3. Intervals \subseteq Finite
  BY FS_Interval, FS_Subset DEF FiniteSubsetsOf
<1>4. 0 .. n \in Intervals
  OBVIOUS
<1>5. PICK X \in Intervals : \A Y \in Intervals : ~ (<<Y, X>> \in Smaller)
  <2> HIDE DEF Intervals, Finite, Smaller
  <2> QED
    BY <1>2, <1>3, <1>4, WFMin
<1>6. PICK m \in T : m <= n /\ X = 0 .. m
  OBVIOUS
<1>7. ASSUME NEW k \in T, k < m
      PROVE  FALSE
  <2>1. 0 .. k \in Intervals
    BY <1>6, <1>7
  <2>2. <<0 .. k, X>> \in Smaller
    BY <1>3, <1>6, <1>7, <2>1 DEF StrictSubsetOrdering
  <2> QED
    BY <1>5, <2>1, <2>2
<1> QED
  BY <1>6, <1>7

(* Induction up to N, over a set of rounds. *)
LEMMA UpTo ==
  ASSUME NEW N \in Nat, NEW T,
         0 \in T, \A k \in 0 .. N - 1 : k \in T => k + 1 \in T
  PROVE  \A k \in 0 .. N : k \in T
<1> DEFINE Missed == (0 .. N) \ T
<1> SUFFICES ASSUME Missed # {}
             PROVE  FALSE
  OBVIOUS
<1>1. PICK m \in Missed : \A k \in Missed : m <= k
  <2>1. Missed \in SUBSET Nat
    OBVIOUS
  <2> HIDE DEF Missed
  <2> QED
    BY <2>1, LeastNumber
<1>2. m - 1 \in 0 .. N - 1 /\ m - 1 \in T
  BY <1>1
<1>3. (m - 1) + 1 = m
  BY <1>1
<1> QED
  BY <1>1, <1>2, <1>3

(* A loop of N rounds on states in S: round i maps a state to another. *)
Loops(N, S) == [0 .. N - 1 -> [S -> S]]

(* h tells the state before every round, and after the last. *)
Run(h, N, S, a, loop) ==
  /\ h \in [0 .. N -> S]
  /\ h[0] = a
  /\ \A i \in 0 .. N - 1 : h[i + 1] = loop[i][h[i]]

(* A loop has a state at every round. *)
LEMMA LoopRuns ==
  ASSUME NEW N \in Nat, NEW S, NEW a \in S, NEW loop \in Loops(N, S)
  PROVE  \E h : Run(h, N, S, a, loop)
<1> DEFINE Possible == {k \in 0 .. N : \E h : Run(h, k, S, a, loop)}
<1>1. 0 \in Possible
  <2>1. Run([i \in 0 .. 0 |-> a], 0, S, a, loop)
    BY DEF Run
  <2> QED
    BY <2>1
<1>2. ASSUME NEW k \in 0 .. N - 1, k \in Possible
      PROVE  k + 1 \in Possible
  <2>1. PICK h : Run(h, k, S, a, loop)
    BY <1>2
  <2> DEFINE last == loop[k][h[k]]
             g == [i \in 0 .. k + 1 |-> IF i = k + 1 THEN last ELSE h[i]]
  <2>2. k \in Nat /\ k \in 0 .. k /\ h \in [0 .. k -> S] /\ h[0] = a
    BY <2>1 DEF Run
  <2>3. last \in S
    BY <2>2 DEF Loops
  <2>4. \A i \in 0 .. k - 1 : h[i + 1] = loop[i][h[i]]
    BY <2>1 DEF Run
  <2> HIDE DEF last
  <2>5. g \in [0 .. k + 1 -> S]
    BY <2>2, <2>3
  <2>6. g[0] = a
    BY <2>2
  <2>7. ASSUME NEW i \in 0 .. k
        PROVE  g[i + 1] = loop[i][g[i]]
    <3>1. g[i] = h[i] /\ i + 1 \in 0 .. k + 1
      BY <2>2
    <3>2. CASE i = k
      BY <3>1, <3>2 DEF last
    <3>3. CASE i # k
      <4>1. i \in 0 .. k - 1 /\ i + 1 # k + 1
        BY <2>2, <3>3
      <4>2. g[i + 1] = h[i + 1]
        BY <3>1, <4>1
      <4> QED
        BY <2>4, <3>1, <4>1, <4>2
    <3> QED
      BY <3>2, <3>3
  <2>8. (k + 1) - 1 = k /\ k + 1 \in 0 .. N
    BY <2>2
  <2> HIDE DEF g
  <2>9. Run(g, k + 1, S, a, loop)
    BY <2>5, <2>6, <2>7, <2>8 DEF Run
  <2> QED
    BY <2>8, <2>9
<1> HIDE DEF Possible
<1>3. N \in Possible
  BY <1>1, <1>2, UpTo
<1> QED
  BY <1>3 DEF Possible

(* The quotient, by which C's division of numbers that are not negative is *)
(* meant.                                                                  *)
LEMMA Quotient ==
  ASSUME NEW a \in Nat, NEW b \in Nat \ {0}
  PROVE  /\ a \div b \in Nat
         /\ (a \div b) * b <= a
         /\ a < (a \div b) * b + b
         /\ a % b \in 0 .. b - 1
         /\ a = (a \div b) * b + (a % b)
OBVIOUS

(* What is below m times b has a quotient below m. *)
LEMMA QuotientBelow ==
  ASSUME NEW a \in Nat, NEW b \in Nat \ {0}, NEW m \in Nat
  PROVE  /\ a < m * b => a \div b < m
         /\ m * b <= a => m <= a \div b
<1> DEFINE q == a \div b
<1>1. q \in Nat /\ q * b <= a /\ a < q * b + b
  BY Quotient
<1> HIDE DEF q
<1>2. ASSUME a < m * b, m <= q
      PROVE  FALSE
  <2>1. m * b <= q * b
    BY <1>1, <1>2
  <2> QED
    BY <1>1, <1>2, <2>1
<1>3. ASSUME m * b <= a, q + 1 <= m
      PROVE  FALSE
  <2>1. (q + 1) * b <= m * b
    BY <1>1, <1>3
  <2>2. (q + 1) * b = q * b + b
    BY <1>1
  <2> QED
    BY <1>1, <1>3, <2>1, <2>2
<1>4. (a < m * b => q < m) /\ (m * b <= a => m <= q)
  BY <1>1, <1>2, <1>3
<1> QED
  BY <1>4 DEF q

LEMMA QuotientMonotone ==
  ASSUME NEW a \in Nat, NEW c \in Nat, NEW b \in Nat \ {0}, a <= c
  PROVE  a \div b <= c \div b
<1> DEFINE q == a \div b
<1>1. q \in Nat /\ q * b <= a
  BY Quotient
<1> HIDE DEF q
<1>2. q * b <= c
  BY <1>1
<1>3. q <= c \div b
  BY <1>1, <1>2, QuotientBelow
<1> QED
  BY <1>3 DEF q

-----------------------------------------------------------------------------
(* As many values as arguments, if none is taken twice. *)
LEMMA CountImage ==
  ASSUME NEW S, IsFiniteSet(S), NEW g, \A x, y \in S : g[x] = g[y] => x = y
  PROVE  /\ IsFiniteSet({g[x] : x \in S})
         /\ Cardinality({g[x] : x \in S}) = Cardinality(S)
<1> DEFINE T == {g[x] : x \in S}
           h == [x \in S |-> g[x]]
<1>1. h \in Bijection(S, T)
  BY DEF Bijection, Injection, Surjection, IsInjective
<1>2. ExistsBijection(S, T)
  BY <1>1 DEF ExistsBijection
<1> QED
  BY <1>2, FS_Bijection

=============================================================================
