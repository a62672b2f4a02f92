------------------------------ MODULE Counting ------------------------------
(***************************************************************************)
(* Facts about numbers and finite sets that the proofs of several modules  *)
(* need: a set of numbers has a least one, and so induction over numbers;  *)
(* a function may be defined by recursion over them, as the loops of the   *)
(* source are; counting how many elements come before each one numbers a   *)
(* finite set that is totally ordered.                                     *)
(***************************************************************************)
EXTENDS Integers, FiniteSetTheorems, WellFoundedInduction, TLAPS

\* Sets 0..n have a least one among them, as finite sets are well founded by
\* inclusion.
LEMMA LeastNat ==
  ASSUME NEW S \in SUBSET Nat, S # {}
  PROVE  \E m \in S : \A n \in S : m <= n
<1> DEFINE T == {0..n : n \in S}
           R == StrictSubsetOrdering(Nat)
<1>1. IsWellFoundedOn(R, FiniteSubsetsOf(Nat))
  BY FS_StrictSubsetOrderingWellFounded
<1>2. T \subseteq FiniteSubsetsOf(Nat) /\ T # {}
  <2>1. \A n \in S : 0..n \in FiniteSubsetsOf(Nat)
    BY FS_Interval DEF FiniteSubsetsOf
  <2>. QED BY <2>1
<1>3. \E x \in T : \A y \in T : ~(<<y, x>> \in R)
  <2>. HIDE DEF T, R
  <2>. QED BY <1>1, <1>2, WFMin
<1>4. PICK m \in S : \A n \in S : ~(<<0..n, 0..m>> \in R)
  BY <1>3
<1>5. ASSUME NEW n \in S, n < m PROVE FALSE
  <2>1. 0..n \in SUBSET Nat /\ 0..m \in SUBSET Nat /\ 0..n \subseteq 0..m /\ m \in 0..m /\ m \notin 0..n
    BY <1>5
  <2>2. <<0..n, 0..m>> \in R
    BY <2>1 DEF StrictSubsetOrdering
  <2>. QED BY <1>4, <2>2
<1>. QED BY <1>5

\* Induction over the numbers of which something holds.
LEMMA NatSetInduction ==
  ASSUME NEW S, 0 \in S, \A n \in Nat : n \in S => n + 1 \in S
  PROVE  Nat \subseteq S
<1>. SUFFICES ASSUME Nat \ S # {} PROVE FALSE
  OBVIOUS
<1>1. PICK m \in Nat \ S : \A n \in Nat \ S : m <= n
  BY LeastNat
<1>2. m # 0 /\ m - 1 \in Nat /\ m - 1 \in S
  BY <1>1
<1>. QED BY <1>1, <1>2

\* A finite set of numbers has a greatest one.
LEMMA GreatestNat ==
  ASSUME NEW S \in SUBSET Nat, S # {}, NEW b \in Nat, \A n \in S : n <= b
  PROVE  \E m \in S : \A n \in S : n <= m
<1> DEFINE U == {b - n : n \in S}
<1>1. U \in SUBSET Nat /\ U # {}
  <2>1. \A n \in S : b - n \in Nat
    OBVIOUS
  <2>. QED BY <2>1
<1>2. PICK u \in U : \A v \in U : u <= v
  BY <1>1, LeastNat
<1>3. PICK m \in S : u = b - m
  BY <1>2
<1>4. \A n \in S : b - m <= b - n
  BY <1>2, <1>3
<1>. QED BY <1>3, <1>4

-----------------------------------------------------------------------------
\* g begins with b, and its i-th round makes of a state what F[i] makes of it.
IsLoop(g, n, b, F) == g[0] = b /\ \A i \in 1..n : g[i] = F[i][g[i - 1]]

\* A loop whose rounds keep its variables in U has its states, however often it
\* is run: what a recursive function over its rounds rests on.
LEMMA LoopExists ==
  ASSUME NEW n \in Nat, NEW U, NEW b \in U, NEW F \in [1..n -> [U -> U]]
  PROVE  \E g \in [0..n -> U] : IsLoop(g, n, b, F)
<1> DEFINE S == {k \in Nat : k <= n => \E g \in [0..k -> U] : IsLoop(g, k, b, F)}
<1>1. 0 \in S
  <2>1. [i \in 0..0 |-> b] \in [0..0 -> U] /\ IsLoop([i \in 0..0 |-> b], 0, b, F)
    BY DEF IsLoop
  <2>. QED BY <2>1
<1>2. ASSUME NEW k \in Nat, k \in S PROVE k + 1 \in S
  <2>. SUFFICES ASSUME k + 1 <= n PROVE \E g \in [0..(k + 1) -> U] : IsLoop(g, k + 1, b, F)
    OBVIOUS
  <2>1. PICK g \in [0..k -> U] : IsLoop(g, k, b, F)
    BY <1>2
  <2> DEFINE h == [i \in 0..(k + 1) |-> IF i = k + 1 THEN F[k + 1][g[k]] ELSE g[i]]
  <2>2. h \in [0..(k + 1) -> U]
    BY F[k + 1] \in [U -> U], g[k] \in U
  <2>3. \A i \in 0..k : h[i] = g[i]
    OBVIOUS
  <2>4. h[k + 1] = F[k + 1][g[k]] /\ h[0] = g[0]
    OBVIOUS
  <2>. HIDE DEF h
  <2>5. ASSUME NEW i \in 1..(k + 1) PROVE h[i] = F[i][h[i - 1]]
    <3>1. CASE i = k + 1
      BY <2>3, <2>4, <3>1
    <3>2. CASE i \in 1..k
      BY <2>1, <2>3, <3>2 DEF IsLoop
    <3>. QED BY <3>1, <3>2
  <2>6. IsLoop(h, k + 1, b, F)
    BY <2>1, <2>4, <2>5 DEF IsLoop
  <2>. QED BY <2>2, <2>6
<1>3. Nat \subseteq S
  <2>. HIDE DEF S
  <2>. QED BY <1>1, <1>2, NatSetInduction
<1>. QED BY <1>3

\* What each round of a loop keeps up holds after the last one.
LEMMA LoopInvariant ==
  ASSUME NEW n \in Nat, NEW G, NEW g, g[0] \in G[0],
         \A i \in 1..n : g[i - 1] \in G[i - 1] => g[i] \in G[i]
  PROVE  \A i \in 0..n : g[i] \in G[i]
<1> DEFINE S == {k \in Nat : k <= n => g[k] \in G[k]}
<1>1. 0 \in S
  OBVIOUS
<1>2. ASSUME NEW k \in Nat, k \in S PROVE k + 1 \in S
  BY <1>2, k + 1 <= n => k + 1 \in 1..n /\ (k + 1) - 1 = k
<1>3. Nat \subseteq S
  <2>. HIDE DEF S
  <2>. QED BY <1>1, <1>2, NatSetInduction
<1>. QED BY <1>3

\* A loop whose rounds keep its variables in U has states in U only.
LEMMA LoopType ==
  ASSUME NEW n \in Nat, NEW U, NEW st, st = [k \in 0..n |-> st[k]], st[0] \in U,
         \A k \in 1..n : st[k - 1] \in U => st[k] \in U
  PROVE  st \in [0..n -> U]
<1> DEFINE G == [k \in 0..n |-> U]
<1>1. st[0] \in G[0] /\ \A k \in 1..n : st[k - 1] \in G[k - 1] => st[k] \in G[k]
  OBVIOUS
<1>2. \A k \in 0..n : st[k] \in G[k]
  <2>. HIDE DEF G
  <2>. QED BY <1>1, LoopInvariant
<1>3. \A k \in 0..n : st[k] \in U
  BY <1>2
<1>. QED BY <1>3

-----------------------------------------------------------------------------
\* How many elements of D are not after i in the order T.
RankIn(D, T, i) == Cardinality({j \in D : <<j, i>> \in T})

\* T orders D totally.
OrdersTotally(T, D) ==
  /\ \A i \in D : <<i, i>> \in T
  /\ \A i, j \in D : <<i, j>> \in T \/ <<j, i>> \in T
  /\ \A i, j \in D : <<i, j>> \in T /\ <<j, i>> \in T => i = j
  /\ \A i, j, k \in D : <<i, j>> \in T /\ <<j, k>> \in T => <<i, k>> \in T

\* The elements of D are numbered from 1 to its cardinality in the order T.
Numbers(D, T) ==
  /\ Cardinality(D) \in Nat
  /\ \A i \in D : RankIn(D, T, i) \in 1..Cardinality(D)
  /\ \A i, j \in D : RankIn(D, T, i) < RankIn(D, T, j) <=> i # j /\ <<i, j>> \in T
  /\ \A i, j \in D : RankIn(D, T, i) = RankIn(D, T, j) => i = j
  /\ \A n \in 1..Cardinality(D) : \E i \in D : RankIn(D, T, i) = n

\* Counting numbers the elements of a finite set that is totally ordered.
LEMMA Ranking ==
  ASSUME NEW D, IsFiniteSet(D), NEW T, OrdersTotally(T, D)
  PROVE  Numbers(D, T)
<1> DEFINE Upto(i) == {j \in D : <<j, i>> \in T}
           m == Cardinality(D)
           f == [i \in D |-> RankIn(D, T, i)]
<1>1. m \in Nat
  BY FS_CardinalityType
<1>2. ASSUME NEW i \in D
      PROVE  IsFiniteSet(Upto(i)) /\ RankIn(D, T, i) \in 1..m
  <2>1. /\ IsFiniteSet(Upto(i)) /\ Cardinality(Upto(i)) <= m
    BY FS_Subset
  <2>2. i \in Upto(i)
    BY DEF OrdersTotally
  <2>3. Cardinality(Upto(i)) \in Nat /\ Cardinality(Upto(i)) # 0
    <3>. HIDE DEF Upto
    <3>. QED BY <2>1, <2>2, FS_CardinalityType, FS_EmptySet
  <2>. QED BY <1>1, <2>1, <2>3 DEF RankIn
<1>3. ASSUME NEW i \in D, NEW j \in D, i # j, <<i, j>> \in T
      PROVE  RankIn(D, T, i) < RankIn(D, T, j)
  <2>1. Upto(i) \in SUBSET Upto(j) /\ j \in Upto(j) /\ j \notin Upto(i)
    BY <1>3 DEF OrdersTotally
  <2>2. /\ Cardinality(Upto(i)) <= Cardinality(Upto(j))
        /\ Cardinality(Upto(i)) # Cardinality(Upto(j))
    <3>. HIDE DEF Upto
    <3>. QED BY <1>2, <2>1, FS_Subset
  <2>. QED BY <1>2, <2>2 DEF RankIn
<1>4. ASSUME NEW i \in D, NEW j \in D
      PROVE  RankIn(D, T, i) < RankIn(D, T, j) <=> i # j /\ <<i, j>> \in T
  <2>1. /\ RankIn(D, T, i) \in Int /\ RankIn(D, T, j) \in Int
    <3>1. \A n \in 1..m : n \in Int
      OBVIOUS
    <3>. HIDE DEF m, Upto
    <3>. QED BY <1>2, <3>1
  <2>2. <<i, j>> \in T \/ <<j, i>> \in T
    BY DEF OrdersTotally
  <2>. QED BY <1>3, <2>1, <2>2
<1>5. \A i, j \in D : RankIn(D, T, i) = RankIn(D, T, j) => i = j
  BY <1>1, <1>2, <1>4 DEF OrdersTotally
<1>6. \A n \in 1..m : \E i \in D : RankIn(D, T, i) = n
  <2>1. IsFiniteSet(1..m) /\ Cardinality(1..m) = m
    BY <1>1, FS_Interval
  <2>2. f \in Injection(D, 1..m)
    BY <1>2, <1>5 DEF Injection, IsInjective
  <2>3. f \in Surjection(D, 1..m)
    <3>. HIDE DEF f, m
    <3>. QED BY <2>1, <2>2, FS_Injection DEF m
  <2>. QED BY <2>3 DEF Surjection
<1>. QED BY <1>1, <1>2, <1>4, <1>5, <1>6 DEF Numbers

\* How many numbers of K are not greater than i.
PlaceIn(K, i) == Cardinality({k \in K : k <= i})

\* A finite set of numbers is numbered from 1 on by the places of its elements.
LEMMA RankingNat ==
  ASSUME NEW K \in SUBSET Nat, IsFiniteSet(K)
  PROVE  /\ Cardinality(K) \in Nat
         /\ \A i \in K : PlaceIn(K, i) \in 1..Cardinality(K)
         /\ \A i, j \in K : PlaceIn(K, i) < PlaceIn(K, j) <=> i < j
         /\ \A i, j \in K : PlaceIn(K, i) = PlaceIn(K, j) => i = j
         /\ \A n \in 1..Cardinality(K) : \E i \in K : PlaceIn(K, i) = n
<1> DEFINE T == {p \in Nat \X Nat : p[1] <= p[2]}
<1>1. OrdersTotally(T, K)
  BY DEF OrdersTotally
<1>2. \A i \in K : RankIn(K, T, i) = PlaceIn(K, i)
  <2>. SUFFICES ASSUME NEW i \in K
                PROVE  {k \in K : <<k, i>> \in T} = {k \in K : k <= i}
    BY DEF RankIn, PlaceIn
  <2>. QED OBVIOUS
<1>3. \A i, j \in K : i # j /\ <<i, j>> \in T <=> i < j
  OBVIOUS
<1>. HIDE DEF T
<1>4. Numbers(K, T)
  BY <1>1, Ranking
<1>5. /\ Cardinality(K) \in Nat
      /\ \A i \in K : PlaceIn(K, i) \in 1..Cardinality(K)
      /\ \A i, j \in K : PlaceIn(K, i) = PlaceIn(K, j) => i = j
      /\ \A n \in 1..Cardinality(K) : \E i \in K : PlaceIn(K, i) = n
  BY <1>2, <1>4 DEF Numbers
<1>6. ASSUME NEW i \in K, NEW j \in K PROVE PlaceIn(K, i) < PlaceIn(K, j) <=> i < j
  <2>1. RankIn(K, T, i) < RankIn(K, T, j) <=> i # j /\ <<i, j>> \in T
    BY <1>4 DEF Numbers
  <2>2. RankIn(K, T, i) = PlaceIn(K, i) /\ RankIn(K, T, j) = PlaceIn(K, j)
    BY <1>2
  <2>. QED BY <1>3, <2>1, <2>2
<1>. QED BY <1>5, <1>6
=============================================================================
