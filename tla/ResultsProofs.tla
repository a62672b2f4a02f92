--------------------------- MODULE ResultsProofs ---------------------------
(***************************************************************************)
(* For every set of packages, words and distances: each order that --sort  *)
(* knows is an order, and what was found is printed in it, once each.      *)
(***************************************************************************)
EXTENDS Results, Counting

\* A package of the AUR has no more votes than the comparison can tell from those
\* of libalpm's packages.
VotesFit == \A p \in Packages : p.type = "R_AUR_PKG" => p.votes < INT_MAX

Item == [ele : Packages, rel : 0..Dbl_Max, mem : Memory]

-----------------------------------------------------------------------------
(***************************************************************************)
(* Every comparison compares a number.                                     *)
(***************************************************************************)
LEMMA ModSmall == ASSUME NEW m \in Nat \ {0}, NEW n \in 0..(m - 1) PROVE n % m = n
OBVIOUS

LEMMA ModNegative ==
  ASSUME NEW m \in Nat \ {0}, NEW n \in Int, -m <= n, n < 0 PROVE n % m = n + m
OBVIOUS

\* A difference that an int can hold is what it is read as.
LEMMA AsIntSmall ==
  ASSUME INT_MAX \in Nat, NEW n \in Int, -INT_MAX <= n, n <= INT_MAX PROVE AsInt(n) = n
<1> DEFINE m == UINT_MAX + 1
<1>1. m \in Nat \ {0} /\ m = 2 * INT_MAX + 2
  BY DEF UINT_MAX
<1>. HIDE DEF m
<1>2. CASE n >= 0
  <2>1. n \in 0..(m - 1)
    BY <1>1, <1>2
  <2>2. n % m = n
    BY <1>1, <2>1, ModSmall
  <2>. QED BY <1>2, <2>2 DEF AsInt, m
<1>3. CASE n < 0
  <2>1. -m <= n
    BY <1>1
  <2>2. n % m = n + m
    BY <1>1, <1>3, <2>1, ModNegative
  <2>3. ~(n + m <= INT_MAX) /\ (n + m) - m = n
    BY <1>1
  <2>. QED BY <2>2, <2>3 DEF AsInt, m
<1>. QED BY <1>2, <1>3

\* The votes of a package of libalpm count as one less than none.
LEMMA AsIntTop ==
  ASSUME INT_MAX \in Nat, NEW v \in Nat, v < INT_MAX
  PROVE  AsInt(UINT_MAX - v) = -1 - v /\ AsInt(v - UINT_MAX) = v + 1
<1> DEFINE m == UINT_MAX + 1
<1>1. m \in Nat \ {0} /\ m = 2 * INT_MAX + 2 /\ UINT_MAX = 2 * INT_MAX + 1
  BY DEF UINT_MAX
<1>. HIDE DEF m
<1>2. (UINT_MAX - v) % m = UINT_MAX - v
  <2>1. UINT_MAX - v \in 0..(m - 1)
    BY <1>1
  <2>. QED BY <1>1, <2>1, ModSmall
<1>3. (v - UINT_MAX) % m = v + 1
  <2>1. v - UINT_MAX \in Int /\ -m <= v - UINT_MAX /\ v - UINT_MAX < 0
    BY <1>1
  <2>2. (v - UINT_MAX) + m = v + 1
    BY <1>1
  <2>. QED BY <1>1, <2>1, <2>2, ModNegative
<1>4. ~(UINT_MAX - v <= INT_MAX) /\ (UINT_MAX - v) - m = -1 - v /\ v + 1 <= INT_MAX
  BY <1>1
<1>. QED BY <1>2, <1>3, <1>4 DEF AsInt, m

VoteKey(r) == IF r.ele.type # "R_AUR_PKG" THEN 1 ELSE -r.ele.votes

\* What a sort compares: the smaller comes first.
Key(r) ==
  IF sort = "S_NAME" THEN r.ele.name ELSE IF sort = "S_VOTE" THEN VoteKey(r)
  ELSE IF sort = "S_POP" THEN -results_popularity(r)
  ELSE IF sort = "S_IDATE" THEN results_installdate(r)
  ELSE IF sort = "S_ISIZE" THEN results_isize(r)
  ELSE IF sort = "S_REL" THEN r.rel ELSE 0

LEMMA PackageFields ==
  ASSUME ResultsAssumption, NEW r \in Item
  PROVE  /\ r.ele \in Packages /\ r.ele.name \in Nat /\ r.rel \in 0..Dbl_Max /\ Dbl_Max \in Nat
         /\ r.ele.votes \in 0..UINT_MAX /\ r.ele.popularity \in 0..(Dbl_Max - 1)
         /\ r.ele.isize \in Nat /\ LocalDate[r.ele.name] \in Nat /\ INT_MAX \in Nat
<1>0. Dbl_Max \in Nat
  BY DEF Dbl_Max
<1>1. r.ele \in Packages /\ r.rel \in 0..Dbl_Max
  BY DEF Item
<1>2. /\ r.ele.name \in Nat /\ r.ele.votes \in 0..UINT_MAX
      /\ r.ele.popularity \in 0..(Dbl_Max - 1) /\ r.ele.isize \in Nat /\ INT_MAX \in Nat
  BY <1>1 DEF ResultsAssumption
<1>3. LocalDate[r.ele.name] \in Nat
  <2>1. r.ele.name \in Names
    BY <1>1 DEF Names
  <2>2. LocalDate \in [Names -> Nat]
    BY DEF ResultsAssumption
  <2>. QED BY <2>1, <2>2
<1>. QED BY <1>0, <1>1, <1>2, <1>3

LEMMA KeyInt ==
  ASSUME ResultsAssumption, NEW r \in Item
  PROVE  /\ Key(r) \in Int /\ VoteKey(r) \in Int /\ results_popularity(r) \in Nat
         /\ results_installdate(r) \in Nat /\ results_isize(r) \in Nat
<1>1. VoteKey(r) \in Int
  BY PackageFields DEF VoteKey, UINT_MAX
<1>2. /\ results_popularity(r) \in Nat /\ results_installdate(r) \in Nat
      /\ results_isize(r) \in Nat
  BY PackageFields DEF results_popularity, results_installdate, results_isize
<1>. QED BY <1>1, <1>2, PackageFields DEF Key

LEMMA CompareVotes ==
  ASSUME ResultsAssumption, VotesFit, NEW r \in Item, NEW s \in Item
  PROVE  AsInt(results_votes(s) - results_votes(r)) = VoteKey(r) - VoteKey(s)
<1> DEFINE v == r.ele.votes
           w == s.ele.votes
<1>1. INT_MAX \in Nat /\ UINT_MAX = 2 * INT_MAX + 1
  BY DEF ResultsAssumption, UINT_MAX
<1>2. v \in 0..UINT_MAX /\ w \in 0..UINT_MAX /\ r.ele \in Packages /\ s.ele \in Packages
  BY PackageFields
<1>3. v \in Nat /\ w \in Nat
  BY <1>1, <1>2
<1>4. /\ r.ele.type = "R_AUR_PKG" => v < INT_MAX
      /\ s.ele.type = "R_AUR_PKG" => w < INT_MAX
  BY <1>2 DEF VotesFit
<1>5. CASE r.ele.type # "R_AUR_PKG" /\ s.ele.type # "R_AUR_PKG"
  <2>1. AsInt(UINT_MAX - UINT_MAX) = 0
    BY <1>1, AsIntSmall
  <2>. QED BY <1>5, <2>1 DEF results_votes, VoteKey
<1>6. CASE r.ele.type = "R_AUR_PKG" /\ s.ele.type # "R_AUR_PKG"
  <2>1. AsInt(UINT_MAX - v) = -1 - v
    BY <1>1, <1>3, <1>4, <1>6, AsIntTop
  <2>. QED BY <1>3, <1>6, <2>1 DEF results_votes, VoteKey
<1>7. CASE r.ele.type # "R_AUR_PKG" /\ s.ele.type = "R_AUR_PKG"
  <2>1. AsInt(w - UINT_MAX) = w + 1
    BY <1>1, <1>3, <1>4, <1>7, AsIntTop
  <2>. QED BY <1>3, <1>7, <2>1 DEF results_votes, VoteKey
<1>8. CASE r.ele.type = "R_AUR_PKG" /\ s.ele.type = "R_AUR_PKG"
  <2>1. AsInt(w - v) = w - v
    BY <1>1, <1>3, <1>4, <1>8, AsIntSmall
  <2>. QED BY <1>3, <1>8, <2>1 DEF results_votes, VoteKey
<1>. QED BY <1>5, <1>6, <1>7, <1>8

LEMMA CompareKey ==
  ASSUME ResultsAssumption, VotesFit, NEW r \in Item, NEW s \in Item
  PROVE  /\ Compare(r, s) \in Int
         /\ Compare(r, s) < 0 <=> Key(r) < Key(s)
         /\ Compare(r, s) > 0 <=> Key(r) > Key(s)
         /\ Compare(r, s) = 0 <=> Key(r) = Key(s)
<1>1. /\ r.ele.name \in Int /\ s.ele.name \in Int /\ r.rel \in Int /\ s.rel \in Int
      /\ results_popularity(r) \in Int /\ results_popularity(s) \in Int
      /\ results_installdate(r) \in Int /\ results_installdate(s) \in Int
      /\ results_isize(r) \in Int /\ results_isize(s) \in Int
      /\ VoteKey(r) \in Int /\ VoteKey(s) \in Int
  BY PackageFields, KeyInt
<1>2. CASE sort = "S_NAME"
  <2>1. Compare(r, s) = Sign(r.ele.name, s.ele.name)
    BY <1>2 DEF Compare
  <2>2. Key(r) = r.ele.name /\ Key(s) = s.ele.name
    BY <1>2 DEF Key
  <2>. QED BY <1>1, <2>1, <2>2 DEF Sign
<1>3. CASE sort = "S_VOTE"
  <2>1. Compare(r, s) = VoteKey(r) - VoteKey(s)
    BY <1>3, CompareVotes DEF Compare
  <2>. QED BY <1>1, <1>3, <2>1 DEF Key
<1>4. CASE sort = "S_POP"
  <2>1. Compare(r, s) = Sign(results_popularity(s), results_popularity(r))
    BY <1>4 DEF Compare, results_popularity_cmp
  <2>2. Key(r) = -results_popularity(r) /\ Key(s) = -results_popularity(s)
    BY <1>4 DEF Key
  <2>. QED BY <1>1, <2>1, <2>2 DEF Sign
<1>5. CASE sort = "S_IDATE"
  <2>1. Compare(r, s) = Sign(results_installdate(r), results_installdate(s))
    BY <1>5 DEF Compare
  <2>2. Key(r) = results_installdate(r) /\ Key(s) = results_installdate(s)
    BY <1>5 DEF Key
  <2>. QED BY <1>1, <2>1, <2>2 DEF Sign
<1>6. CASE sort = "S_ISIZE"
  <2>1. Compare(r, s) = Sign(results_isize(r), results_isize(s))
    BY <1>6 DEF Compare
  <2>2. Key(r) = results_isize(r) /\ Key(s) = results_isize(s)
    BY <1>6 DEF Key
  <2>. QED BY <1>1, <2>1, <2>2 DEF Sign
<1>7. CASE sort = "S_REL"
  <2>1. Compare(r, s) = Sign(r.rel, s.rel)
    BY <1>7 DEF Compare
  <2>2. Key(r) = r.rel /\ Key(s) = s.rel
    BY <1>7 DEF Key
  <2>. QED BY <1>1, <2>1, <2>2 DEF Sign
<1>8. CASE sort \notin {"S_NAME", "S_VOTE", "S_POP", "S_IDATE", "S_ISIZE", "S_REL"}
  <2>1. Compare(r, s) = 0
    BY <1>8 DEF Compare
  <2>. QED BY <1>8, <2>1 DEF Key
<1>. QED BY <1>2, <1>3, <1>4, <1>5, <1>6, <1>7, <1>8
-----------------------------------------------------------------------------
(***************************************************************************)
(* The sort: every result has one place, and the places follow the keys.   *)
(***************************************************************************)
\* g undoes f.
Undoes(g, f, n) ==
  /\ f \in [1..n -> 1..n] /\ g \in [1..n -> 1..n]
  /\ \A i \in 1..n : f[g[i]] = i /\ g[f[i]] = i

\* Two sequences that differ in the order of their elements only.
Reordered(s, t, f, g, n) ==
  n \in Nat /\ Undoes(g, f, n) /\ \A i \in 1..n : s[i] = t[f[i]]

\* How often p is among the first n of s.
Occurs(s, n, p) == Cardinality({i \in 1..n : s[i] = p})

LEMMA SameCount ==
  ASSUME NEW s, NEW t, NEW f, NEW g, NEW n, Reordered(s, t, f, g, n), NEW p
  PROVE  Occurs(s, n, p) = Occurs(t, n, p)
<1> DEFINE A == {i \in 1..n : s[i] = p}
           B == {i \in 1..n : t[i] = p}
           h == [i \in A |-> f[i]]
<1>1. IsFiniteSet(A)
  <2>1. IsFiniteSet(1..n)
    BY FS_Interval DEF Reordered
  <2>2. A \subseteq 1..n
    OBVIOUS
  <2>. HIDE DEF A
  <2>. QED BY <2>1, <2>2, FS_Subset
<1>2. h \in [A -> B]
  BY DEF Reordered, Undoes
<1>3. \A i, j \in A : h[i] = h[j] => i = j
  BY DEF Reordered, Undoes
<1>4. \A j \in B : \E i \in A : h[i] = j
  <2>1. ASSUME NEW j \in B PROVE g[j] \in A /\ f[g[j]] = j
    BY DEF Reordered, Undoes
  <2>. QED BY <2>1
<1>. HIDE DEF A, B, h
<1>5. h \in Bijection(A, B)
  BY <1>2, <1>3, <1>4 DEF Bijection, Injection, Surjection, IsInjective
<1>6. ExistsBijection(A, B)
  BY <1>5 DEF ExistsBijection
<1>. QED BY <1>1, <1>6, FS_Bijection DEF A, B, Occurs

\* The elements of S by what k gives for them, and one like the other by themselves.
OrderBy(S, k) ==
  {p \in S \X S : k[p[1]] < k[p[2]] \/ (k[p[1]] = k[p[2]] /\ p[1] <= p[2])}

LEMMA OrderByIs ==
  ASSUME NEW S, NEW k, NEW i \in S, NEW j \in S
  PROVE  <<i, j>> \in OrderBy(S, k) <=> (k[i] < k[j] \/ (k[i] = k[j] /\ i <= j))
BY DEF OrderBy

\* The order of the sort, a stable one.
SortOrder == OrderBy(1..Len(results), [i \in 1..Len(results) |-> Key(results[i])])

LEMMA PlacesNumbered ==
  ASSUME ResultsAssumption, VotesFit, results \in Seq(Item)
  PROVE  /\ DOMAIN results = 1..Len(results) /\ Len(results) \in Nat
         /\ Cardinality(1..Len(results)) = Len(results)
         /\ Numbers(1..Len(results), SortOrder)
         /\ \A i \in 1..Len(results) : Place(i) = RankIn(1..Len(results), SortOrder, i)
         /\ \A i, j \in 1..Len(results) :
              <<i, j>> \in SortOrder => Key(results[i]) <= Key(results[j])
<1> DEFINE n == Len(results)
           D == 1..n
           k == [i \in D |-> Key(results[i])]
<1>1. DOMAIN results = D /\ n \in Nat /\ \A i \in D : results[i] \in Item
  OBVIOUS
<1>2. \A i \in D : k[i] \in Int /\ k[i] = Key(results[i]) /\ i \in Int
  BY <1>1, KeyInt
<1>3. IsFiniteSet(D) /\ Cardinality(D) = n
  <2>. HIDE DEF n
  <2>1. IsFiniteSet(D) /\ Cardinality(D) = IF 1 > n THEN 0 ELSE n - 1 + 1
    BY <1>1, FS_Interval
  <2>2. (IF 1 > n THEN 0 ELSE n - 1 + 1) = n
    BY <1>1
  <2>. QED BY <2>1, <2>2
<1>. HIDE DEF n, D, k
<1>4. ASSUME NEW i \in D, NEW j \in D
      PROVE  <<i, j>> \in SortOrder <=> (k[i] < k[j] \/ (k[i] = k[j] /\ i <= j))
  <2>1. SortOrder = OrderBy(D, k)
    BY DEF SortOrder, D, n, k
  <2>. QED BY <2>1, OrderByIs
<1>5. OrdersTotally(SortOrder, D)
  <2>a. \A i \in D : k[i] \in Int /\ i \in Int
    BY <1>2
  <2>b. \A i, j \in D : <<i, j>> \in SortOrder <=> (k[i] < k[j] \/ (k[i] = k[j] /\ i <= j))
    BY <1>4
  <2>1. \A i \in D : <<i, i>> \in SortOrder
    BY <2>a, <2>b
  <2>2. ASSUME NEW i \in D, NEW j \in D
        PROVE  <<i, j>> \in SortOrder \/ <<j, i>> \in SortOrder
    <3>1. /\ <<i, j>> \in SortOrder <=> (k[i] < k[j] \/ (k[i] = k[j] /\ i <= j))
          /\ <<j, i>> \in SortOrder <=> (k[j] < k[i] \/ (k[j] = k[i] /\ j <= i))
      BY <2>b
    <3>. QED BY <2>a, <3>1
  <2>3. ASSUME NEW i \in D, NEW j \in D, <<i, j>> \in SortOrder, <<j, i>> \in SortOrder
        PROVE  i = j
    <3>1. /\ k[i] < k[j] \/ (k[i] = k[j] /\ i <= j)
          /\ k[j] < k[i] \/ (k[j] = k[i] /\ j <= i)
      BY <2>b, <2>3
    <3>. QED BY <2>a, <3>1
  <2>4. ASSUME NEW i \in D, NEW j \in D, NEW l \in D,
               <<i, j>> \in SortOrder, <<j, l>> \in SortOrder
        PROVE  <<i, l>> \in SortOrder
    <3>1. /\ k[i] < k[j] \/ (k[i] = k[j] /\ i <= j)
          /\ k[j] < k[l] \/ (k[j] = k[l] /\ j <= l)
      BY <2>b, <2>4
    <3>2. k[i] < k[l] \/ (k[i] = k[l] /\ i <= l)
      BY <2>a, <3>1
    <3>. QED BY <2>b, <3>2
  <2>. QED BY <2>1, <2>2, <2>3, <2>4 DEF OrdersTotally
<1>6. ASSUME NEW i \in D PROVE Place(i) = RankIn(D, SortOrder, i)
  <2>1. ASSUME NEW j \in D
        PROVE  (Compare(results[j], results[i]) < 0 \/ (Compare(results[j], results[i]) = 0 /\ j <= i))
                 <=> <<j, i>> \in SortOrder
    <3> DEFINE r == results[j]
               s == results[i]
    <3>1. r \in Item /\ s \in Item /\ k[j] = Key(r) /\ k[i] = Key(s)
      BY <1>1, <1>2
    <3>. HIDE DEF r, s
    <3>2. /\ Compare(r, s) < 0 <=> Key(r) < Key(s)
          /\ Compare(r, s) = 0 <=> Key(r) = Key(s)
      BY <3>1, CompareKey
    <3>. QED BY <1>4, <3>1, <3>2 DEF r, s
  <2>2. {j \in DOMAIN results : LET c == Compare(results[j], results[i])
                               IN c < 0 \/ (c = 0 /\ j <= i)} = {j \in D : <<j, i>> \in SortOrder}
    BY <1>1, <2>1
  <2>. QED BY <2>2 DEF Place, RankIn
<1>7. ASSUME NEW i \in D, NEW j \in D, <<i, j>> \in SortOrder
      PROVE  Key(results[i]) <= Key(results[j])
  BY <1>2, <1>4, <1>7
<1>. QED BY <1>1, <1>3, <1>5, <1>6, <1>7, Ranking DEF n, D

\* The sorted list: f[m] is where its m-th element was.
SortedBy(f) ==
  /\ \E g : Undoes(g, f, Len(results))
  /\ Sorted = [m \in 1..Len(results) |-> results[f[m]]]
  /\ \A i, j \in 1..Len(results) : i < j => Key(results[f[i]]) <= Key(results[f[j]])

LEMMA SortedIs ==
  ASSUME ResultsAssumption, VotesFit, results \in Seq(Item)
  PROVE  \E f : SortedBy(f)
<1> DEFINE n == Len(results)
           D == 1..n
           g == [i \in D |-> Place(i)]
           f == [m \in D |-> CHOOSE i \in D : Place(i) = m]
<1>1. DOMAIN results = D /\ n \in Nat /\ \A i \in D : results[i] \in Item
  OBVIOUS
<1>2. /\ \A i \in D : Place(i) \in D
      /\ \A i, j \in D : Place(i) < Place(j) <=> i # j /\ <<i, j>> \in SortOrder
      /\ \A i, j \in D : Place(i) = Place(j) => i = j
      /\ \A m \in D : \E i \in D : Place(i) = m
  <2>1. /\ Cardinality(D) = n /\ Numbers(D, SortOrder)
        /\ \A i \in D : Place(i) = RankIn(D, SortOrder, i)
    BY PlacesNumbered
  <2>. HIDE DEF D, n
  <2>2. /\ \A i \in D : RankIn(D, SortOrder, i) \in 1..n
        /\ \A i, j \in D : RankIn(D, SortOrder, i) < RankIn(D, SortOrder, j)
                            <=> i # j /\ <<i, j>> \in SortOrder
        /\ \A i, j \in D : RankIn(D, SortOrder, i) = RankIn(D, SortOrder, j) => i = j
        /\ \A m \in 1..n : \E i \in D : RankIn(D, SortOrder, i) = m
    BY <2>1 DEF Numbers
  <2>3. 1..n = D
    BY DEF D
  <2>4. ASSUME NEW i \in D PROVE Place(i) \in D
    <3>1. Place(i) = RankIn(D, SortOrder, i) /\ RankIn(D, SortOrder, i) \in 1..n
      BY <2>1, <2>2
    <3>. QED BY <2>3, <3>1, Zenon
  <2>5. ASSUME NEW i \in D, NEW j \in D
        PROVE  (Place(i) < Place(j) <=> i # j /\ <<i, j>> \in SortOrder)
               /\ (Place(i) = Place(j) => i = j)
    <3>1. Place(i) = RankIn(D, SortOrder, i) /\ Place(j) = RankIn(D, SortOrder, j)
      BY <2>1
    <3>2. (RankIn(D, SortOrder, i) < RankIn(D, SortOrder, j) <=> i # j /\ <<i, j>> \in SortOrder)
          /\ (RankIn(D, SortOrder, i) = RankIn(D, SortOrder, j) => i = j)
      BY <2>2
    <3>. QED BY <3>1, <3>2
  <2>6. ASSUME NEW m \in D PROVE \E i \in D : Place(i) = m
    <3>1. PICK i \in D : RankIn(D, SortOrder, i) = m
      BY <2>2, <2>3
    <3>. QED BY <2>1, <3>1
  <2>. QED BY <2>4, <2>5, <2>6
<1>3. \A m \in D : f[m] \in D /\ Place(f[m]) = m
  BY <1>2
<1>4. \A i \in D : f[Place(i)] = i
  BY <1>2, <1>3
<1>5. Undoes(g, f, n)
  BY <1>2, <1>3, <1>4 DEF Undoes
<1>6. Sorted = [m \in D |-> results[f[m]]]
  BY <1>1 DEF Sorted
<1>7. ASSUME NEW i \in D, NEW j \in D, i < j PROVE Key(results[f[i]]) <= Key(results[f[j]])
  <2>1. Place(f[i]) < Place(f[j]) /\ f[i] \in D /\ f[j] \in D
    BY <1>3, <1>7
  <2>. HIDE DEF f
  <2>2. <<f[i], f[j]>> \in SortOrder
    BY <1>2, <2>1
  <2>. QED BY <2>1, <2>2, PlacesNumbered
<1>. HIDE DEF f, g
<1>8. SortedBy(f)
  BY <1>5, <1>6, <1>7 DEF SortedBy
<1>. QED BY <1>8
-----------------------------------------------------------------------------
(***************************************************************************)
(* The inductive invariant.                                                *)
(***************************************************************************)
\* While the searches run, results has what was found, in order and with no
\* distance, unless it was printed.
SearchInv ==
  pc = "search" =>
    IF sort = "none" THEN results = <<>> /\ printed = found
    ELSE /\ printed = <<>> /\ Len(results) = Len(found)
         /\ \A i \in 1..Len(found) : results[i].ele = found[i] /\ results[i].rel = Dbl_Max

\* rel is the smallest distance to a word, if there are words.
Nearest(r) ==
  /\ \A w \in Words : r.rel <= Distance[w][r.ele.name]
  /\ r.rel = Dbl_Max \/ \E w \in Words : r.rel = Distance[w][r.ele.name]

\* Before they are shown, the distances are there if they are asked for.
ShowInv ==
  pc = "show" =>
    IF sort = "none" THEN results = <<>> /\ printed = found
    ELSE /\ printed = <<>> /\ Len(results) = Len(found)
         /\ \A i \in 1..Len(found) : results[i].ele = found[i]
         /\ sort = "S_REL" => \A i \in 1..Len(found) : Nearest(results[i])

\* In the end what was found has been printed, in the order of f.
ExitInv ==
  pc = "exit" =>
    /\ results = <<>> /\ Len(printed) = Len(found)
    /\ \E f : /\ \E g : Undoes(g, f, Len(found))
              /\ \A i \in 1..Len(found) : printed[i] = found[f[i]]

\* No result is a package of the reply itself.
MemoryInv ==
  /\ \A i \in DOMAIN results : results[i].mem # "reply"
  /\ ~read_freed

ResInv == TypeOK /\ MemoryInv /\ SearchInv /\ ShowInv /\ ExitInv /\ PrintedInOrder

\* Before the first step.
LEMMA ResInit == Init => ResInv
<1>. SUFFICES ASSUME Init PROVE ResInv
  OBVIOUS
<1> DEFINE T == [ele : Packages, rel : 0..Dbl_Max, mem : Memory]
<1>1. TypeOK
  <2>1. <<>> \in Seq(T) /\ <<>> \in Seq(Packages)
    OBVIOUS
  <2>2. /\ sort \in SortKeys /\ rsort \in BOOLEAN
        /\ results = <<>> /\ found = <<>> /\ printed = <<>>
        /\ reply \in {"none", "held", "freed"} /\ pc \in {"search", "show", "exit"}
    BY DEF Init
  <2>3. read_freed \in BOOLEAN
    BY DEF Init
  <2>4. results \in Seq(T) /\ found \in Seq(Packages) /\ printed \in Seq(Packages)
    BY <2>1, <2>2
  <2>. QED BY <2>2, <2>3, <2>4 DEF TypeOK
<1>2. MemoryInv /\ SearchInv /\ ShowInv /\ ExitInv /\ PrintedInOrder
  BY DEF Init, MemoryInv, SearchInv, ShowInv, ExitInv, PrintedInOrder
<1>. QED BY <1>1, <1>2 DEF ResInv

\* A package that is found is printed or kept.
LEMMA FindStep ==
  ASSUME ResultsAssumption, ResInv, NEW p \in Packages, print_or_add_result(p)
  PROVE  ResInv'
<1> DEFINE n == Len(found)
           r == results_new(p)
           F == Append(found, p)
           P == Append(printed, p)
           R == Append(results, r)
<1>1. /\ results \in Seq(Item) /\ found \in Seq(Packages) /\ printed \in Seq(Packages)
      /\ pc = "search" /\ MemoryInv /\ SearchInv /\ TypeOK
  BY DEF ResInv, TypeOK, Item, Memory, print_or_add_result
<1>2. r \in Item /\ r.ele = p /\ r.rel = Dbl_Max /\ r.mem # "reply"
  BY DEF results_new, Item, Memory, Dbl_Max
<1>. HIDE DEF r
<1>3. /\ F \in Seq(Packages) /\ Len(F) = n + 1 /\ n \in Nat
      /\ \A i \in 1..n : F[i] = found[i]
      /\ F[n + 1] = p
  BY <1>1
<1>4. P \in Seq(Packages)
  BY <1>1
<1>5. /\ R \in Seq(Item) /\ DOMAIN R = 1..(Len(results) + 1) /\ Len(R) = Len(results) + 1
      /\ DOMAIN results = 1..Len(results) /\ Len(results) \in Nat
      /\ \A i \in 1..Len(results) : R[i] = results[i]
      /\ R[Len(results) + 1] = r
  BY <1>1, <1>2
<1>6. /\ found' = F
      /\ IF sort = "none" THEN printed' = P /\ results' = results
         ELSE results' = R /\ printed' = printed
      /\ sort' = sort /\ rsort' = rsort /\ reply' = reply /\ pc' = pc /\ read_freed' = read_freed
  <2>1. /\ found' = F
        /\ sort' = sort /\ rsort' = rsort /\ reply' = reply /\ pc' = pc /\ read_freed' = read_freed
    BY DEF print_or_add_result
  <2>2. sort = "none" => printed' = P /\ results' = results
    BY DEF print_or_add_result
  <2>3. sort # "none" => results' = R /\ printed' = printed
    BY DEF print_or_add_result, r
  <2>. QED BY <2>1, <2>2, <2>3
<1>7. sort = "none" => P = F
  BY <1>1 DEF SearchInv
<1>. HIDE DEF n, F, P, R
<1>8. TypeOK'
  BY <1>1, <1>3, <1>4, <1>5, <1>6 DEF TypeOK, Item
<1>9. MemoryInv'
  <2>1. \A i \in 1..(Len(results) + 1) : i \in 1..Len(results) \/ i = Len(results) + 1
    BY <1>5
  <2>. QED BY <1>1, <1>2, <1>5, <1>6, <2>1 DEF MemoryInv
<1>10. SearchInv'
  <2>1. CASE sort = "none"
    BY <1>1, <1>6, <1>7, <2>1 DEF SearchInv
  <2>2. CASE sort # "none"
    <3>1. /\ printed = <<>> /\ Len(results) = n
          /\ \A i \in 1..n : results[i].ele = found[i] /\ results[i].rel = Dbl_Max
      BY <1>1, <2>2 DEF SearchInv, n
    <3>2. \A i \in 1..(n + 1) : i \in 1..n \/ i = n + 1
      BY <1>3
    <3>3. \A i \in 1..(n + 1) : R[i].ele = F[i] /\ R[i].rel = Dbl_Max
      <4>1. \A i \in 1..n : R[i] = results[i] /\ F[i] = found[i]
        BY <1>3, <1>5, <3>1
      <4>2. R[n + 1] = r /\ F[n + 1] = p
        BY <1>3, <1>5, <3>1
      <4>. QED BY <1>2, <3>1, <3>2, <4>1, <4>2
    <3>. QED BY <1>3, <1>5, <1>6, <2>2, <3>1, <3>3 DEF SearchInv
  <2>. QED BY <2>1, <2>2
<1>11. ShowInv' /\ ExitInv' /\ PrintedInOrder'
  BY <1>1, <1>6 DEF ShowInv, ExitInv, PrintedInOrder
<1>. QED BY <1>8, <1>9, <1>10, <1>11 DEF ResInv

LEMMA DistanceType ==
  ASSUME ResultsAssumption, NEW w \in Words, NEW n \in Names
  PROVE  Distance[w][n] \in Nat /\ Distance[w][n] < Dbl_Max
<1> DEFINE T == 0..(Dbl_Max - 1)
<1>1. Distance[w] \in [Names -> T]
  BY Zenon DEF ResultsAssumption
<1>2. \A d \in T : d \in Nat /\ d < Dbl_Max
  BY DEF Dbl_Max
<1>. HIDE DEF T
<1>3. Distance[w][n] \in T
  BY <1>1
<1>. QED BY <1>2, <1>3

\* The smallest distance is one of those there are.
LEMMA BestIs ==
  ASSUME ResultsAssumption, NEW r \in Item, r.rel = Dbl_Max
  PROVE  /\ Best(r) \in 0..Dbl_Max
         /\ \A w \in Words : Best(r) <= Distance[w][r.ele.name]
         /\ Best(r) = Dbl_Max \/ \E w \in Words : Best(r) = Distance[w][r.ele.name]
<1> DEFINE S == {r.rel} \cup {Distance[w][r.ele.name] : w \in Words}
<1>0. Dbl_Max \in Nat /\ Dbl_Max = 1000
  BY DEF Dbl_Max
<1>a. r.ele.name \in Names
  BY DEF Item, Names
<1>1. r.ele.name \in Names /\ Dbl_Max \in Nat /\ Dbl_Max = 1000
  BY <1>0, <1>a
<1>2. \A w \in Words : Distance[w][r.ele.name] \in Nat /\ Distance[w][r.ele.name] < Dbl_Max
  BY <1>1, DistanceType
<1>3. S \in SUBSET Nat /\ S # {} /\ \A d \in S : d <= Dbl_Max
  <2>1. ASSUME NEW d \in S PROVE d \in Nat /\ d <= Dbl_Max
    <3>1. CASE d = r.rel
      BY <1>1, <3>1
    <3>2. CASE \E w \in Words : d = Distance[w][r.ele.name]
      <4>1. PICK w \in Words : d = Distance[w][r.ele.name]
        BY <3>2
      <4>2. d \in Nat /\ d < Dbl_Max
        BY <1>2, <4>1
      <4>. QED BY <1>1, <4>2
    <3>. QED BY <3>1, <3>2
  <2>. QED BY <2>1
<1>4. PICK m \in S : \A n \in S : m <= n
  BY <1>3, LeastNat
<1>5. \A w \in Words : m <= r.rel /\ m <= Distance[w][r.ele.name]
  BY <1>4
<1>6. Best(r) \in S /\ \A w \in Words : Best(r) <= r.rel /\ Best(r) <= Distance[w][r.ele.name]
  BY <1>4, <1>5 DEF Best
<1>. QED BY <1>3, <1>6

\* The searches are over: where it is asked for, each result gets its distance.
LEMMA RelevanceStep ==
  ASSUME ResultsAssumption, ResInv, calculate_results_relevance
  PROVE  ResInv'
<1> DEFINE N == Len(results)
           R == [i \in DOMAIN results |-> [results[i] EXCEPT !.rel = Best(results[i])]]
<1>1. /\ results \in Seq(Item) /\ pc = "search" /\ MemoryInv /\ SearchInv /\ TypeOK
      /\ DOMAIN results = 1..N /\ N \in Nat
  BY DEF ResInv, TypeOK, Item, Memory, calculate_results_relevance
<1>2. /\ results' = IF sort = "S_REL" THEN R ELSE results
      /\ sort' = sort /\ rsort' = rsort /\ reply' = reply /\ pc' = "show"
      /\ found' = found /\ printed' = printed /\ read_freed' = read_freed
  BY DEF calculate_results_relevance
<1>3. sort # "none" =>
        /\ printed = <<>> /\ N = Len(found)
        /\ \A i \in 1..N : results[i].ele = found[i] /\ results[i].rel = Dbl_Max
  BY <1>1 DEF SearchInv
<1>4. sort = "none" => results = <<>> /\ printed = found
  BY <1>1 DEF SearchInv
<1>5. ASSUME sort = "S_REL", NEW i \in 1..N
      PROVE  /\ R[i] \in Item /\ R[i].ele = results[i].ele /\ R[i].mem = results[i].mem
             /\ Nearest(R[i])
  <2> DEFINE r == results[i]
  <2>1. r \in Item /\ r.rel = Dbl_Max /\ R[i] = [r EXCEPT !.rel = Best(r)]
    BY <1>1, <1>3, <1>5
  <2>. HIDE DEF r, R
  <2>2. /\ Best(r) \in 0..Dbl_Max
        /\ \A w \in Words : Best(r) <= Distance[w][r.ele.name]
        /\ Best(r) = Dbl_Max \/ \E w \in Words : Best(r) = Distance[w][r.ele.name]
    BY <2>1, BestIs
  <2>3. R[i] \in Item /\ R[i].ele = r.ele /\ R[i].mem = r.mem /\ R[i].rel = Best(r)
    BY <2>1, <2>2 DEF Item
  <2>4. Nearest(R[i])
    BY <2>2, <2>3 DEF Nearest
  <2>. QED BY <2>3, <2>4 DEF r
<1>6. sort = "S_REL" => DOMAIN R = 1..N /\ R \in Seq(Item) /\ Len(R) = N
  <2>1. SUFFICES ASSUME sort = "S_REL" PROVE DOMAIN R = 1..N /\ R \in Seq(Item) /\ Len(R) = N
    OBVIOUS
  <2>2. R = [i \in 1..N |-> R[i]] /\ DOMAIN R = 1..N
    BY <1>1
  <2>3. \A i \in 1..N : R[i] \in Item
    BY <1>5, <2>1
  <2>. HIDE DEF R, N
  <2>4. R \in [1..N -> Item]
    BY <2>2, <2>3
  <2>. QED BY <1>1, <2>2, <2>4
<1>. HIDE DEF R
<1>7. TypeOK'
  BY <1>1, <1>2, <1>6 DEF TypeOK, Item
<1>8. MemoryInv'
  BY <1>1, <1>2, <1>5, <1>6 DEF MemoryInv
<1>9. ShowInv'
  <2>1. CASE sort = "none"
    BY <1>2, <1>4, <2>1 DEF ShowInv
  <2>2. CASE sort = "S_REL"
    BY <1>2, <1>3, <1>5, <1>6, <2>2 DEF ShowInv
  <2>3. CASE sort # "none" /\ sort # "S_REL"
    BY <1>2, <1>3, <2>3 DEF ShowInv
  <2>. QED BY <2>1, <2>2, <2>3
<1>10. SearchInv' /\ ExitInv' /\ PrintedInOrder'
  BY <1>2 DEF SearchInv, ExitInv, PrintedInOrder
<1>. QED BY <1>7, <1>8, <1>9, <1>10 DEF ResInv

LEMMA PackageIs ==
  ASSUME ResultsAssumption, NEW r \in Item
  PROVE  /\ r.ele \in Packages /\ r.ele.name \in Names /\ r.rel \in Nat /\ Dbl_Max \in Nat
         /\ r.ele.popularity \in Nat /\ r.ele.popularity < Dbl_Max
         /\ r.ele.type \in {"R_ALPM_PKG", "R_AUR_PKG"}
<1>0. Dbl_Max \in Nat
  BY DEF Dbl_Max
<1>a. r.ele \in Packages /\ r.ele.name \in Names
  BY DEF Item, Names
<1>1. /\ r.ele \in Packages /\ r.ele.name \in Names /\ Dbl_Max \in Nat
      /\ r.ele.type \in {"R_ALPM_PKG", "R_AUR_PKG"}
  BY <1>0, <1>a DEF ResultsAssumption
<1>2. r.rel \in 0..Dbl_Max /\ r.ele.popularity \in 0..(Dbl_Max - 1)
  BY DEF ResultsAssumption, Item
<1>3. /\ \A d \in 0..Dbl_Max : d \in Nat
      /\ \A d \in 0..(Dbl_Max - 1) : d \in Nat /\ d < Dbl_Max
  BY DEF Dbl_Max
<1>. QED BY <1>1, <1>2, <1>3, Zenon

\* A sort's order is the one asked for.
LEMMA KeysInOrder ==
  ASSUME ResultsAssumption, NEW r \in Item, NEW s \in Item, Key(r) <= Key(s),
         sort = "S_REL" => Nearest(r) /\ Nearest(s)
  PROVE  InOrder(r.ele, s.ele)
<1> DEFINE p == r.ele
           q == s.ele
<1>1. /\ p \in Packages /\ q \in Packages /\ p.name \in Names /\ q.name \in Names
      /\ p.name \in Nat /\ q.name \in Nat
      /\ r.rel \in Nat /\ s.rel \in Nat /\ Dbl_Max \in Nat
      /\ p.popularity \in Nat /\ q.popularity \in Nat
      /\ p.popularity < Dbl_Max /\ q.popularity < Dbl_Max
      /\ p.type \in {"R_ALPM_PKG", "R_AUR_PKG"} /\ q.type \in {"R_ALPM_PKG", "R_AUR_PKG"}
      /\ p.isize \in Nat /\ q.isize \in Nat
      /\ LocalDate[p.name] \in Nat /\ LocalDate[q.name] \in Nat
  BY PackageIs, PackageFields
<1>2. p.votes \in Nat /\ q.votes \in Nat
  BY PackageFields DEF UINT_MAX
<1>3. CASE sort = "S_NAME"
  BY <1>3 DEF Key, InOrder
<1>4. CASE sort = "S_VOTE"
  <2>1. p.type = "R_AUR_PKG" /\ q.type = "R_AUR_PKG" => p.votes >= q.votes
    BY <1>2, <1>4 DEF Key, VoteKey
  <2>. QED BY <1>4, <2>1 DEF InOrder
<1>5. CASE sort = "S_POP"
  <2>1. p.type = "R_AUR_PKG" => q.type = "R_AUR_PKG" /\ p.popularity >= q.popularity
    <3>1. Key(r) = -results_popularity(r) /\ Key(s) = -results_popularity(s)
      BY <1>5 DEF Key
    <3>2. /\ p.type = "R_AUR_PKG" => results_popularity(r) = p.popularity
          /\ results_popularity(s) = IF q.type # "R_AUR_PKG" THEN Dbl_Max ELSE q.popularity
      BY DEF results_popularity
    <3>3. results_popularity(r) >= results_popularity(s)
      BY <3>1, KeyInt
    <3>4. CASE q.type = "R_AUR_PKG"
      BY <3>2, <3>3, <3>4
    <3>5. CASE q.type # "R_AUR_PKG"
      <4>1. p.popularity \in Nat /\ p.popularity < Dbl_Max /\ Dbl_Max \in Nat
        BY <1>1
      <4>2. p.type # "R_AUR_PKG"
        BY <3>2, <3>3, <3>5, <4>1
      <4>. QED BY <4>2
    <3>. QED BY <3>4, <3>5
  <2>. QED BY <1>5, <2>1 DEF InOrder
<1>6. CASE sort = "S_IDATE"
  <2>1. p.type = "R_ALPM_PKG" /\ q.type = "R_ALPM_PKG" => LocalDate[p.name] <= LocalDate[q.name]
    BY <1>1, <1>6 DEF Key, results_installdate
  <2>. QED BY <1>6, <2>1 DEF InOrder
<1>7. CASE sort = "S_ISIZE"
  <2>1. p.type = "R_ALPM_PKG" /\ q.type = "R_ALPM_PKG" => p.isize <= q.isize
    BY <1>1, <1>7 DEF Key, results_isize
  <2>. QED BY <1>7, <2>1 DEF InOrder
<1>8. CASE sort = "S_REL"
  <2>1. r.rel <= s.rel
    BY <1>8 DEF Key
  <2>2. ASSUME NEW d \in Near(q) PROVE \E e \in Near(p) : e <= d
    <3>1. PICK w \in Words : Distance[w][q.name] = d
      BY DEF Near
    <3>2. d \in Nat /\ d < Dbl_Max /\ s.rel <= d
      BY <1>1, <1>8, <3>1, DistanceType DEF Nearest
    <3>3. r.rel <= d /\ r.rel # Dbl_Max
      <4>1. r.rel \in Int /\ s.rel \in Int /\ Dbl_Max \in Int
        BY <1>1
      <4>. QED BY <2>1, <3>2, <4>1
    <3>4. r.rel \in Near(p)
      BY <1>1, <1>8, <3>3 DEF Nearest, Near
    <3>. QED BY <3>3, <3>4
  <2>. QED BY <1>8, <2>2 DEF InOrder
<1>9. CASE sort \notin {"S_NAME", "S_VOTE", "S_POP", "S_IDATE", "S_ISIZE", "S_REL"}
  BY <1>9 DEF InOrder
<1>. QED BY <1>3, <1>4, <1>5, <1>6, <1>7, <1>8, <1>9

LEMMA Backwards ==
  ASSUME NEW n \in Nat, NEW f, NEW g, Undoes(g, f, n)
  PROVE  Undoes([i \in 1..n |-> n + 1 - g[i]], [m \in 1..n |-> f[n + 1 - m]], n)
<1>1. \A m \in 1..n : n + 1 - m \in 1..n /\ n + 1 - (n + 1 - m) = m
  OBVIOUS
<1>. QED BY <1>1 DEF Undoes
-----------------------------------------------------------------------------
\* What is shown: f[n] is the place in results of what is shown n-th.
ShownBy(f) ==
  /\ \E g : Undoes(g, f, Len(results))
  /\ Shown(Sorted) = [m \in 1..Len(results) |-> results[f[m]]]
  /\ \A i, j \in 1..Len(results) :
       i < j => IF rsort THEN Key(results[f[j]]) <= Key(results[f[i]])
                ELSE Key(results[f[i]]) <= Key(results[f[j]])

LEMMA ShownIs ==
  ASSUME ResultsAssumption, VotesFit, results \in Seq(Item)
  PROVE  \E f : ShownBy(f)
<1> DEFINE n == Len(results)
           D == 1..n
<1>1. PICK f : SortedBy(f)
  BY SortedIs
<1>2. PICK g : Undoes(g, f, n)
  BY <1>1 DEF SortedBy
<1>3. Sorted = [m \in D |-> results[f[m]]] /\ n \in Nat
  BY <1>1 DEF SortedBy
<1>4. \A i, j \in D : i < j => Key(results[f[i]]) <= Key(results[f[j]])
  BY <1>1 DEF SortedBy
<1>5. CASE ~rsort
  <2>1. Shown(Sorted) = Sorted
    BY <1>5 DEF Shown
  <2>2. ShownBy(f)
    BY <1>2, <1>3, <1>4, <1>5, <2>1 DEF ShownBy
  <2>. QED BY <2>2
<1>6. CASE rsort
  <2> DEFINE h == [m \in D |-> f[n + 1 - m]]
             s == [m \in D |-> results[f[m]]]
  <2>1. \A m \in D : n + 1 - m \in D /\ n + 1 - m \in Int
    BY <1>3
  <2>2. s \in Seq({results[f[m]] : m \in D}) /\ Len(s) = n /\ DOMAIN s = D
    BY <1>3
  <2>3. Shown(s) = [m \in D |-> s[n + 1 - m]]
    BY <1>6, <2>2 DEF Shown
  <2>4. \A m \in D : s[n + 1 - m] = results[h[m]]
    BY <2>1
  <2>. HIDE DEF s
  <2>5. Shown(Sorted) = [m \in D |-> results[h[m]]]
    BY <1>3, <2>3, <2>4 DEF s
  <2>6. \E k : Undoes(k, h, n)
    BY <1>2, <1>3, Backwards
  <2>7. ASSUME NEW i \in D, NEW j \in D, i < j PROVE Key(results[h[j]]) <= Key(results[h[i]])
    <3>1. n + 1 - j < n + 1 - i /\ n + 1 - j \in D /\ n + 1 - i \in D
      BY <1>3, <2>1, <2>7
    <3>. QED BY <1>4, <3>1
  <2>. HIDE DEF h
  <2>8. ShownBy(h)
    BY <1>6, <2>5, <2>6, <2>7 DEF ShownBy
  <2>. QED BY <2>8
<1>. QED BY <1>5, <1>6

LEMMA FunctionIsSeq ==
  ASSUME NEW S, NEW n \in Nat, NEW e \in [1..n -> S]
  PROVE  e \in Seq(S) /\ Len(e) = n
OBVIOUS

LEMMA AppendNothing ==
  ASSUME NEW S, NEW s \in Seq(S), NEW e \in Seq(S)
  PROVE  (Len(e) = 0 => s \o e = s) /\ (s = <<>> => s \o e = e)
OBVIOUS

\* What is kept is sorted and printed.
LEMMA ShowStep ==
  ASSUME ResultsAssumption, VotesFit, ResInv, show_results
  PROVE  ResInv'
<1> DEFINE n == Len(results)
           D == 1..n
           t == Shown(Sorted)
           e == [m \in DOMAIN t |-> t[m].ele]
           P == printed \o e
<1>1. /\ results \in Seq(Item) /\ printed \in Seq(Packages) /\ found \in Seq(Packages)
      /\ TypeOK /\ MemoryInv /\ ShowInv /\ pc = "show"
      /\ n \in Nat /\ \A i \in D : results[i] \in Item
  <2>1. TypeOK /\ MemoryInv /\ ShowInv /\ pc = "show"
    BY DEF ResInv, show_results
  <2>2. results \in Seq(Item) /\ printed \in Seq(Packages) /\ found \in Seq(Packages)
    BY <2>1 DEF TypeOK, Item
  <2>. QED BY <2>1, <2>2
<1>2. PICK f : ShownBy(f)
  BY <1>1, ShownIs
<1>3. PICK g : Undoes(g, f, n)
  BY <1>2 DEF ShownBy
<1>4. t = [m \in D |-> results[f[m]]]
  BY <1>2 DEF ShownBy
<1>5. \A i, j \in D : i < j => IF rsort THEN Key(results[f[j]]) <= Key(results[f[i]])
                                ELSE Key(results[f[i]]) <= Key(results[f[j]])
  BY <1>2 DEF ShownBy
<1>6. \A m \in D : f[m] \in D
  BY <1>3 DEF Undoes
<1>7. /\ sort' = sort /\ rsort' = rsort /\ reply' = reply /\ found' = found /\ pc' = "exit"
      /\ results' = <<>> /\ printed' = P
      /\ read_freed' = (reply = "freed" /\ \E m \in DOMAIN t : t[m].mem = "reply")
  BY DEF show_results
<1>. HIDE DEF t
<1>8. DOMAIN t = D /\ \A m \in D : t[m] = results[f[m]]
  BY <1>4
<1>9. \A m \in D : t[m].mem # "reply" /\ t[m].ele \in Packages
  <2>1. \A i \in D : results[i].mem # "reply"
    BY <1>1 DEF MemoryInv
  <2>2. \A i \in D : results[i].ele \in Packages
    BY <1>1 DEF Item
  <2>. QED BY <1>6, <1>8, <2>1, <2>2
<1>10. read_freed' = FALSE
  BY <1>7, <1>8, <1>9
<1>11. DOMAIN e = D /\ e \in [D -> Packages] /\ \A m \in D : e[m] = results[f[m]].ele
  BY <1>8, <1>9
<1>. HIDE DEF D, e
<1>12. e \in Seq(Packages) /\ Len(e) = n
  <2>. HIDE DEF n
  <2>1. n \in Nat /\ e \in [1..n -> Packages]
    BY <1>1, <1>11 DEF D
  <2>. QED BY <2>1, FunctionIsSeq
<1>13. P \in Seq(Packages)
  BY <1>1, <1>12
<1>14. sort = "none" => n = 0 /\ printed = found
  BY <1>1 DEF ShowInv
<1>15. sort # "none" => printed = <<>> /\ n = Len(found) /\ \A i \in D : results[i].ele = found[i]
  BY <1>1 DEF ShowInv, D
<1>16. sort = "none" => P = printed
  <2>. HIDE DEF n
  <2>. QED BY <1>1, <1>12, <1>14, AppendNothing
<1>17. sort # "none" => P = e
  <2>. HIDE DEF n
  <2>. QED BY <1>1, <1>12, <1>15, AppendNothing
<1>. HIDE DEF P
<1>18. TypeOK'
  <2>1. <<>> \in Seq([ele : Packages, rel : 0..Dbl_Max, mem : Memory])
    OBVIOUS
  <2>2. read_freed' \in BOOLEAN
    BY <1>10
  <2>. HIDE DEF n
  <2>3. sort' \in SortKeys /\ rsort' \in BOOLEAN /\ reply' \in {"none", "held", "freed"}
        /\ pc' \in {"search", "show", "exit"}
    BY <1>1, <1>7 DEF TypeOK
  <2>4. results' \in Seq([ele : Packages, rel : 0..Dbl_Max, mem : Memory])
        /\ found' \in Seq(Packages) /\ printed' \in Seq(Packages)
    BY <1>1, <1>7, <1>13, <2>1
  <2>. QED BY <2>2, <2>3, <2>4 DEF TypeOK
<1>19. MemoryInv'
  BY <1>7, <1>10 DEF MemoryInv
<1>20. ExitInv'
  <2>1. CASE sort = "none"
    <3> DEFINE id == [i \in 1..Len(found) |-> i]
    <3>1. Undoes(id, id, Len(found))
      BY DEF Undoes
    <3>2. \A i \in 1..Len(found) : printed'[i] = found[id[i]]
      BY <1>7, <1>14, <1>16, <2>1
    <3>3. Len(printed') = Len(found)
      BY <1>7, <1>14, <1>16, <2>1
    <3>. HIDE DEF id
    <3>. QED BY <1>7, <3>1, <3>2, <3>3 DEF ExitInv
  <2>2. CASE sort # "none"
    <3>1. Len(printed') = Len(found) /\ n = Len(found)
      BY <1>7, <1>12, <1>15, <1>17, <2>2
    <3>2. \A i \in D : printed'[i] = found[f[i]]
      BY <1>6, <1>7, <1>11, <1>15, <1>17, <2>2
    <3>3. Undoes(g, f, Len(found)) /\ \A i \in 1..Len(found) : printed'[i] = found[f[i]]
      BY <1>3, <3>1, <3>2 DEF D
    <3>. QED BY <1>7, <3>1, <3>3 DEF ExitInv
  <2>. QED BY <2>1, <2>2
<1>21. PrintedInOrder'
  <2>1. CASE sort = "none"
    <3>1. \A p, q : InOrder(p, q)'
      BY <1>7, <2>1 DEF InOrder
    <3>. QED BY <3>1 DEF PrintedInOrder
  <2>2. CASE sort # "none"
    <3>1. printed' = e /\ rsort' = rsort /\ DOMAIN e = D
      BY <1>7, <1>11, <1>17, <2>2
    <3>2. ASSUME NEW i \in D, NEW j \in D, Key(results[f[i]]) <= Key(results[f[j]])
          PROVE  InOrder(e[i], e[j])
      <4> DEFINE r == results[f[i]]
                 s == results[f[j]]
      <4>1. r \in Item /\ s \in Item /\ e[i] = r.ele /\ e[j] = s.ele
        BY <1>1, <1>6, <1>11 DEF D
      <4>2. sort = "S_REL" => Nearest(r) /\ Nearest(s)
        <5>1. sort = "S_REL" => \A m \in D : Nearest(results[m])
          BY <1>1, <1>15, <2>2 DEF ShowInv, D
        <5>. QED BY <1>6, <5>1
      <4>3. Key(r) <= Key(s)
        BY <3>2
      <4>. HIDE DEF r, s
      <4>. QED BY <4>1, <4>2, <4>3, KeysInOrder
    <3>3. \A p, q : InOrder(p, q) => InOrder(p, q)'
      BY <1>7 DEF InOrder, Near
    <3>4. \A i, j \in D : i < j => IF rsort THEN InOrder(e[j], e[i]) ELSE InOrder(e[i], e[j])
      BY <1>5, <3>2
    <3>. QED BY <3>1, <3>3, <3>4 DEF PrintedInOrder
  <2>. QED BY <2>1, <2>2
<1>22. SearchInv' /\ ShowInv'
  BY <1>7 DEF SearchInv, ShowInv
<1>. QED BY <1>18, <1>19, <1>20, <1>21, <1>22 DEF ResInv

\* A reply is read or freed; nothing at all happens.
LEMMA ReplyStep ==
  ASSUME ResInv, Reply \/ FreeReply \/ UNCHANGED vars
  PROVE  ResInv'
<1>1. /\ sort' = sort /\ rsort' = rsort /\ results' = results /\ pc' = pc
      /\ found' = found /\ printed' = printed /\ read_freed' = read_freed
  BY DEF Reply, FreeReply, vars
<1>2. reply' \in {"none", "held", "freed"}
  BY DEF ResInv, TypeOK, Reply, FreeReply, vars
<1>3. TypeOK'
  BY <1>1, <1>2 DEF ResInv, TypeOK
<1>4. MemoryInv' /\ SearchInv' /\ ShowInv' /\ ExitInv' /\ PrintedInOrder'
  BY <1>1 DEF ResInv, MemoryInv, SearchInv, ShowInv, ExitInv, PrintedInOrder, InOrder
<1>. QED BY <1>3, <1>4 DEF ResInv

LEMMA ResInductive == ASSUME VotesFit PROVE Spec => []ResInv
<1>1. ResInv /\ [Next]_vars => ResInv'
  <2>. SUFFICES ASSUME ResInv, [Next]_vars PROVE ResInv'
    OBVIOUS
  <2>1. CASE \E p \in Packages : FindAlpm(p) \/ FindAur(p)
    BY <2>1, FindStep, ResultsAssumption DEF FindAlpm, FindAur
  <2>2. CASE Reply \/ FreeReply \/ UNCHANGED vars
    BY <2>2, ReplyStep
  <2>3. CASE calculate_results_relevance
    BY <2>3, RelevanceStep, ResultsAssumption
  <2>4. CASE show_results
    BY <2>4, ShowStep, ResultsAssumption
  <2>. QED BY <2>1, <2>2, <2>3, <2>4 DEF Next
<1>. QED BY <1>1, ResInit, PTL DEF Spec

-----------------------------------------------------------------------------
\* What is kept and printed are packages that can be found, with distances in
\* range.  Needs VotesFit: without an order the model does not say what is shown.
THEOREM ResultsTypes == ASSUME VotesFit PROVE Spec => []TypeOK
<1>1. ResInv => TypeOK
  BY DEF ResInv
<1>. QED BY <1>1, ResInductive, PTL

\* The sort and the walk through its result, forwards or backwards, lose no
\* package and print none twice.
THEOREM PrintsWhatIsFound == ASSUME VotesFit PROVE Spec => []PrintedIsFound
<1>1. ResInv => PrintedIsFound
  <2>. SUFFICES ASSUME ResInv, pc = "exit" PROVE PrintedIsFound
    BY DEF PrintedIsFound
  <2>1. /\ Len(printed) = Len(found) /\ Len(found) \in Nat
        /\ DOMAIN printed = 1..Len(found) /\ DOMAIN found = 1..Len(found)
    BY DEF ResInv, ExitInv, TypeOK
  <2>2. PICK f : /\ \E g : Undoes(g, f, Len(found))
                 /\ \A i \in 1..Len(found) : printed[i] = found[f[i]]
    BY DEF ResInv, ExitInv
  <2>3. PICK g : Undoes(g, f, Len(found))
    BY <2>2
  <2>4. \A p : Cardinality({i \in 1..Len(found) : printed[i] = p}) =
              Cardinality({i \in 1..Len(found) : found[i] = p})
    <3> DEFINE n == Len(found)
    <3>1. n \in Nat /\ Undoes(g, f, n) /\ \A i \in 1..n : printed[i] = found[f[i]]
      BY <2>1, <2>2, <2>3
    <3>. HIDE DEF n
    <3>2. ASSUME NEW p
          PROVE  Cardinality({i \in 1..n : printed[i] = p}) = Cardinality({i \in 1..n : found[i] = p})
      <4> DEFINE s == printed
                 t == found
      <4>1. Reordered(s, t, f, g, n)
        BY <3>1 DEF Reordered
      <4>. HIDE DEF s, t
      <4>2. Occurs(s, n, p) = Occurs(t, n, p)
        BY <4>1, SameCount
      <4>. QED BY <4>2 DEF s, t, Occurs
    <3>. QED BY <3>2 DEF n
  <2>. QED BY <2>1, <2>4 DEF PrintedIsFound
<1>. QED BY <1>1, ResInductive, PTL

\* The comparison is an order on all that can be kept, also where the difference
\* of two votes is no unsigned int.
THEOREM ComparisonOrders == ASSUME VotesFit PROVE Spec => []CompareIsOrder
<1>1. ResInv => CompareIsOrder
  <2>. SUFFICES ASSUME ResInv, NEW i \in DOMAIN results, NEW j \in DOMAIN results,
                       NEW k \in DOMAIN results
                PROVE  /\ Compare(results[i], results[j]) < 0 <=> Compare(results[j], results[i]) > 0
                       /\ Compare(results[i], results[j]) <= 0 /\ Compare(results[j], results[k]) <= 0
                            => Compare(results[i], results[k]) <= 0
    BY DEF CompareIsOrder
  <2> DEFINE a == results[i]
             b == results[j]
             c == results[k]
  <2>1. a \in Item /\ b \in Item /\ c \in Item
    <3>1. results \in Seq(Item)
      BY DEF ResInv, TypeOK, Item, Memory
    <3>. QED BY <3>1
  <2>. HIDE DEF a, b, c
  <2>2. /\ Compare(a, b) \in Int /\ Compare(b, a) \in Int /\ Compare(b, c) \in Int
        /\ Compare(a, c) \in Int /\ Key(a) \in Int /\ Key(b) \in Int /\ Key(c) \in Int
    BY <2>1, CompareKey, KeyInt, ResultsAssumption
  <2>3. /\ Compare(a, b) < 0 <=> Key(a) < Key(b)
        /\ Compare(a, b) > 0 <=> Key(a) > Key(b)
        /\ Compare(b, a) > 0 <=> Key(b) > Key(a)
        /\ Compare(b, c) > 0 <=> Key(b) > Key(c)
        /\ Compare(a, c) > 0 <=> Key(a) > Key(c)
    BY <2>1, CompareKey, ResultsAssumption
  <2>. QED BY <2>2, <2>3 DEF a, b, c
<1>. QED BY <1>1, ResInductive, PTL

\* What is printed is in the order asked for, whatever is found and by which
\* numbers it is compared.
THEOREM PrintsInOrder == ASSUME VotesFit PROVE Spec => []PrintedInOrder
<1>1. ResInv => PrintedInOrder
  BY DEF ResInv
<1>. QED BY <1>1, ResInductive, PTL

\* No package is read after its reply was freed.
THEOREM PrintsAlive == ASSUME VotesFit PROVE Spec => []PrintedAlive
<1>1. ResInv => PrintedAlive
  BY DEF ResInv, MemoryInv, PrintedAlive
<1>. QED BY <1>1, ResInductive, PTL
=============================================================================
