---------------------------- MODULE AurJsonProofs ----------------------------
(***************************************************************************)
(* For every alphabet of keys, every set of names and replies of any size: *)
(* the callbacks return a package for each object of the reply or nothing, *)
(* in the order asked for, with what stood under their own keys.           *)
(***************************************************************************)
EXTENDS AurJson, Counting, SequenceTheorems

Container == [kind : {"map", "array"}, key : {"none"} \cup DocKeys]
MapsOf(s) == {i \in 1..Len(s) : s[i].kind = "map"}

\* An array stands under a key of the document, which is that of the container
\* around it, and a value is due under such a key.
NestInv ==
  /\ \A i \in 1..Len(open) :
       open[i].kind = "array" => open[i].key \in DocKeys /\ (i > 1 => open[i - 1].key = open[i].key)
  /\ due => open # <<>> /\ Under \in DocKeys

\* While the reply is read, level counts the maps that are open, and a package is
\* under construction from the second one on.
DepthInv ==
  /\ objects \in Nat
  /\ status = "start" => open = <<>>
  /\ status \in {"start", "parsing"} =>
       level = Maps /\ Maps <= maps /\ (pkg # NoPkg <=> Maps >= 2) /\ Len(pkgs) = objects
  /\ status = "ok" => Len(pkgs) = objects /\ pkg = NoPkg
  /\ status = "failed" => pkgs = <<>>

\* Where a value of a package may stand, current_key is the key above it.
KeyInv ==
  status = "parsing" /\ plain =>
    /\ Maps <= 2
    /\ Maps = 2 /\ (InArray \/ due) => Under = current_key

JsonInv == TypeOK /\ NestInv /\ DepthInv /\ KeyInv /\ SortedWhenNamed /\ FieldUnderItsKey

-----------------------------------------------------------------------------
\* The stack of containers.
LEMMA MapsFinite ==
  ASSUME NEW s \in Seq(Container)
  PROVE  IsFiniteSet(MapsOf(s)) /\ Cardinality(MapsOf(s)) \in Nat
<1>1. IsFiniteSet(1..Len(s)) /\ MapsOf(s) \subseteq 1..Len(s)
  BY FS_Interval DEF MapsOf
<1>. QED BY <1>1, FS_Subset, FS_CardinalityType

LEMMA MapsPushed ==
  ASSUME NEW s \in Seq(Container), NEW c \in Container
  PROVE  /\ Append(s, c) \in Seq(Container)
         /\ Cardinality(MapsOf(Append(s, c))) =
              Cardinality(MapsOf(s)) + (IF c.kind = "map" THEN 1 ELSE 0)
<1>1. CASE c.kind = "map"
  <2>1. MapsOf(Append(s, c)) = MapsOf(s) \cup {Len(s) + 1} /\ Len(s) + 1 \notin MapsOf(s)
    BY <1>1 DEF MapsOf
  <2>2. Cardinality(MapsOf(Append(s, c))) = Cardinality(MapsOf(s)) + 1
    BY <2>1, MapsFinite, FS_AddElement
  <2>. QED BY <1>1, <2>2
<1>2. CASE c.kind # "map"
  <2>1. MapsOf(Append(s, c)) = MapsOf(s)
    BY <1>2 DEF MapsOf
  <2>. QED BY <1>2, <2>1, MapsFinite
<1>. QED BY <1>1, <1>2

LEMMA MapsPopped ==
  ASSUME NEW s \in Seq(Container), s # <<>>, NEW t, t = SubSeq(s, 1, Len(s) - 1)
  PROVE  /\ t \in Seq(Container) /\ Len(t) = Len(s) - 1
         /\ \A i \in 1..Len(t) : t[i] = s[i]
         /\ Cardinality(MapsOf(t)) =
              Cardinality(MapsOf(s)) - (IF s[Len(s)].kind = "map" THEN 1 ELSE 0)
<1>1. Len(s) \in Nat /\ Len(s) >= 1
  BY EmptySeq
<1>2. t \in Seq(Container) /\ Len(t) = Len(s) - 1 /\ \A i \in 1..Len(t) : t[i] = s[i]
  <2>1. \A i \in 1..(Len(s) - 1) : s[i] \in Container
    BY <1>1, ElementOfSeq
  <2>2. /\ t \in Seq(Container) /\ Len(t) = IF 1 <= Len(s) - 1 THEN Len(s) - 1 - 1 + 1 ELSE 0
        /\ \A i \in 1..(Len(s) - 1 - 1 + 1) : t[i] = s[1 + i - 1]
    BY <1>1, <2>1, SubSeqProperties
  <2>3. Len(t) = Len(s) - 1
    <3>1. Len(t) = IF 1 <= Len(s) - 1 THEN Len(s) - 1 - 1 + 1 ELSE 0
      BY <2>2
    <3>. DEFINE n == Len(s)
    <3>2. n \in Nat /\ n >= 1 => (IF 1 <= n - 1 THEN n - 1 - 1 + 1 ELSE 0) = n - 1
      <4>. HIDE DEF n
      <4>. QED OBVIOUS
    <3>. QED BY <1>1, <3>1, <3>2, Zenon
  <2>4. ASSUME NEW i \in 1..Len(t) PROVE t[i] = s[i]
    <3>1. i \in 1..(Len(s) - 1 - 1 + 1) /\ 1 + i - 1 = i
      BY <1>1, <2>3
    <3>. QED BY <2>2, <3>1
  <2>. QED BY <2>2, <2>3, <2>4
<1>3. CASE s[Len(s)].kind = "map"
  <2>1. MapsOf(t) = MapsOf(s) \ {Len(s)} /\ Len(s) \in MapsOf(s)
    BY <1>1, <1>2, <1>3 DEF MapsOf
  <2>. QED BY <1>2, <1>3, <2>1, MapsFinite, FS_RemoveElement
<1>4. CASE s[Len(s)].kind # "map"
  <2>1. MapsOf(t) = MapsOf(s)
    BY <1>1, <1>2, <1>4 DEF MapsOf
  <2>. QED BY <1>2, <1>4, <2>1, MapsFinite
<1>. QED BY <1>2, <1>3, <1>4

Rekeyed(s, k, t) ==
  /\ t \in Seq(Container) /\ Len(t) = Len(s)
  /\ t[Len(t)].key = k /\ \A i \in 1..Len(t) : t[i].kind = s[i].kind
  /\ Cardinality(MapsOf(t)) = Cardinality(MapsOf(s))

LEMMA MapsRekeyed ==
  ASSUME NEW s \in Seq(Container), s # <<>>, NEW k \in DocKeys
  PROVE  Rekeyed(s, k, [s EXCEPT ![Len(s)].key = k])
<1>. DEFINE t == [s EXCEPT ![Len(s)].key = k]
<1>1. Len(s) \in Nat /\ Len(s) >= 1 /\ s[Len(s)] \in Container
  BY EmptySeq, ElementOfSeq
<1>2. [s[Len(s)] EXCEPT !.key = k] \in Container /\ [s[Len(s)] EXCEPT !.key = k].kind = s[Len(s)].kind
  BY <1>1 DEF Container
<1>3. t = [s EXCEPT ![Len(s)] = [s[Len(s)] EXCEPT !.key = k]]
  OBVIOUS
<1>4. /\ t \in Seq(Container) /\ Len(t) = Len(s)
      /\ \A j \in 1..Len(s) : t[j] = IF j = Len(s) THEN [s[Len(s)] EXCEPT !.key = k] ELSE s[j]
  BY <1>1, <1>2, <1>3, ExceptSeq
<1>5. t[Len(t)].key = k /\ \A i \in 1..Len(t) : t[i].kind = s[i].kind
  BY <1>1, <1>2, <1>4 DEF Container
<1>. HIDE DEF t
<1>6. MapsOf(t) = MapsOf(s)
  BY <1>4, <1>5 DEF MapsOf
<1>7. Rekeyed(s, k, t)
  BY <1>4, <1>5, <1>6 DEF Rekeyed
<1>. QED BY <1>7 DEF t

-----------------------------------------------------------------------------
\* What alpm_list_add_sorted does: t is s with p at place k.
Placed(s, p, k, t) ==
  /\ Len(t) = Len(s) + 1
  /\ \A i \in 1..(Len(s) + 1) : t[i] = IF i < k THEN s[i] ELSE IF i = k THEN p ELSE s[i - 1]

Inserted(s, p, k, t) ==
  /\ Placed(s, p, k, t)
  /\ \A i \in 1..(k - 1) : After(p, s[i])
  /\ k <= Len(s) => ~After(p, s[k])

\* d is a, then p, then b.
Around(a, p, b, d) ==
  /\ Len(d) = Len(a) + 1 + Len(b)
  /\ \A i \in 1..(Len(a) + 1 + Len(b)) :
       /\ i <= Len(a) => d[i] = a[i]
       /\ i = Len(a) + 1 => d[i] = p
       /\ i > Len(a) + 1 => d[i] = b[i - (Len(a) + 1)]

LEMMA ConcatAround ==
  ASSUME NEW S, NEW a \in Seq(S), NEW b \in Seq(S), NEW p \in S
  PROVE  a \o <<p>> \o b \in Seq(S) /\ Around(a, p, b, a \o <<p>> \o b)
<1>1. /\ a \o <<p>> \in Seq(S) /\ Len(a \o <<p>>) = Len(a) + 1
      /\ \A i \in 1..(Len(a) + 1) : (a \o <<p>>)[i] = IF i <= Len(a) THEN a[i] ELSE p
  OBVIOUS
<1>2. ASSUME NEW c \in Seq(S)
      PROVE  /\ c \o b \in Seq(S) /\ Len(c \o b) = Len(c) + Len(b)
             /\ \A i \in 1..(Len(c) + Len(b)) :
                  (c \o b)[i] = IF i <= Len(c) THEN c[i] ELSE b[i - Len(c)]
  BY ConcatProperties
<1>. DEFINE c == a \o <<p>>
            d == c \o b
            l == Len(a)
            m == Len(b)
<1>3. c \in Seq(S) /\ Len(c) = l + 1 /\ \A i \in 1..(l + 1) : c[i] = IF i <= l THEN a[i] ELSE p
  BY <1>1
<1>4. /\ d \in Seq(S) /\ Len(d) = l + 1 + m
      /\ \A i \in 1..(l + 1 + m) : d[i] = IF i <= l + 1 THEN c[i] ELSE b[i - (l + 1)]
  <2>1. /\ d \in Seq(S) /\ Len(d) = Len(c) + Len(b)
        /\ \A i \in 1..(Len(c) + Len(b)) : d[i] = IF i <= Len(c) THEN c[i] ELSE b[i - Len(c)]
    <3>. HIDE DEF c
    <3>. QED BY <1>2, <1>3
  <2>2. Len(c) = l + 1
    BY <1>3
  <2>. HIDE DEF c, d
  <2>. QED BY <2>1, <2>2
<1>5. l \in Nat /\ m \in Nat
  OBVIOUS
<1>6. ASSUME NEW i \in 1..(l + 1 + m)
      PROVE  /\ i <= l => d[i] = a[i]
             /\ i = l + 1 => d[i] = p
             /\ i > l + 1 => d[i] = b[i - (l + 1)]
  <2>. HIDE DEF c, d, l, m
  <2>. QED BY <1>3, <1>4, <1>5
<1>. QED BY <1>4, <1>6 DEF Around

\* A list between whose parts of length k - 1 and n - k + 1 an element stands.
LEMMA AroundPlace ==
  ASSUME NEW n \in Nat, NEW k \in 1..(n + 1), NEW s, NEW a, NEW b, NEW p, NEW t,
         \A i \in 1..(k - 1) : a[i] = s[i],
         \A i \in 1..(n - k + 1) : b[i] = s[k + i - 1],
         \A i \in 1..(k - 1 + 1 + (n - k + 1)) :
           /\ i <= k - 1 => t[i] = a[i]
           /\ i = k - 1 + 1 => t[i] = p
           /\ i > k - 1 + 1 => t[i] = b[i - (k - 1 + 1)],
         NEW j \in 1..(n + 1)
  PROVE  t[j] = IF j < k THEN s[j] ELSE IF j = k THEN p ELSE s[j - 1]
<1>1. j \in 1..(k - 1 + 1 + (n - k + 1))
  OBVIOUS
<1>2. CASE j < k
  BY <1>1, <1>2
<1>3. CASE j = k
  BY <1>1, <1>3
<1>4. CASE j > k
  <2>1. j - k \in 1..(n - k + 1) /\ k + (j - k) - 1 = j - 1 /\ k - 1 + 1 = k
    BY <1>4
  <2>2. t[j] = b[j - k]
    BY <1>1, <1>4, <2>1
  <2>. QED BY <1>4, <2>1, <2>2
<1>. QED BY <1>2, <1>3, <1>4

LEMMA ConcatThree ==
  ASSUME NEW S, NEW s \in Seq(S), NEW p \in S, NEW k \in 1..(Len(s) + 1),
         NEW t, t = SubSeq(s, 1, k - 1) \o <<p>> \o SubSeq(s, k, Len(s))
  PROVE  t \in Seq(S) /\ Placed(s, p, k, t)
<1> DEFINE n == Len(s)
           a == SubSeq(s, 1, k - 1)
           b == SubSeq(s, k, Len(s))
           d == a \o <<p>> \o b
<1>1. n \in Nat /\ k \in Nat /\ k >= 1 /\ k <= n + 1 /\ \A i \in 1..n : s[i] \in S
  BY ElementOfSeq
<1>2. /\ a \in Seq(S) /\ Len(a) = k - 1
      /\ \A i \in 1..(k - 1) : a[i] = s[i]
  <2>1. \A i \in 1..(k - 1) : s[i] \in S
    BY <1>1
  <2>2. /\ a \in Seq(S) /\ Len(a) = IF 1 <= k - 1 THEN k - 1 - 1 + 1 ELSE 0
        /\ \A i \in 1..(k - 1 - 1 + 1) : a[i] = s[1 + i - 1]
    BY <1>1, <2>1, SubSeqProperties
  <2>. HIDE DEF a, n
  <2>3. k - 1 - 1 + 1 = k - 1 /\ \A i \in 1..(k - 1) : 1 + i - 1 = i
    BY <1>1
  <2>. QED BY <1>1, <2>2, <2>3
<1>3. /\ b \in Seq(S) /\ Len(b) = n - k + 1
      /\ \A i \in 1..(n - k + 1) : b[i] = s[k + i - 1]
  <2>1. \A i \in k..n : s[i] \in S
    BY <1>1
  <2>2. /\ b \in Seq(S) /\ Len(b) = IF k <= n THEN n - k + 1 ELSE 0
        /\ \A i \in 1..(n - k + 1) : b[i] = s[k + i - 1]
    BY <1>1, <2>1, SubSeqProperties
  <2>. HIDE DEF b, n
  <2>. QED BY <1>1, <2>2
<1>. HIDE DEF a, b, n
<1>4. d \in Seq(S) /\ Around(a, p, b, d)
  BY <1>2, <1>3, ConcatAround
<1>5. t = d
  BY DEF a, b
<1>. HIDE DEF d
<1>6. \A i \in 1..(n + 1) : d[i] = IF i < k THEN s[i] ELSE IF i = k THEN p ELSE s[i - 1]
  <2>1. k \in 1..(n + 1)
    BY <1>1
  <2>2. \A i \in 1..(k - 1 + 1 + (n - k + 1)) :
           /\ i <= k - 1 => d[i] = a[i]
           /\ i = k - 1 + 1 => d[i] = p
           /\ i > k - 1 + 1 => d[i] = b[i - (k - 1 + 1)]
    BY <1>2, <1>3, <1>4 DEF Around
  <2>. QED BY <1>1, <1>2, <1>3, <2>1, <2>2, AroundPlace
<1>7. Len(d) = n + 1
  <2>1. k - 1 + 1 + (n - k + 1) = n + 1
    BY <1>1
  <2>. QED BY <1>2, <1>3, <1>4, <2>1 DEF Around
<1>. QED BY <1>4, <1>5, <1>6, <1>7 DEF n, Placed

LEMMA AddSortedInserts ==
  ASSUME NEW s \in Seq(Pkg), NEW p \in Pkg
  PROVE  /\ AddSorted(s, p) \in Seq(Pkg)
         /\ \E k \in 1..(Len(s) + 1) : Inserted(s, p, k, AddSorted(s, p))
<1> DEFINE places == {i \in 1..Len(s) : ~After(p, s[i])}
           place == IF places = {} THEN Len(s) + 1
                    ELSE CHOOSE i \in places : \A j \in places : i <= j
<1>1. AddSorted(s, p) = SubSeq(s, 1, place - 1) \o <<p>> \o SubSeq(s, place, Len(s))
  BY DEF AddSorted
<1>2. place \in 1..(Len(s) + 1) /\ (place <= Len(s) => place \in places)
      /\ \A j \in places : place <= j
  <2>1. Len(s) \in Nat /\ places \in SUBSET Nat
    OBVIOUS
  <2>2. CASE places = {}
    BY <2>1, <2>2
  <2>3. CASE places # {}
    <3>1. \E m \in places : \A j \in places : m <= j
      <4>. HIDE DEF places
      <4>. QED BY <2>1, <2>3, LeastNat
    <3>2. place \in places /\ \A j \in places : place <= j
      <4>. HIDE DEF places
      <4>. QED BY <2>3, <3>1
    <3>3. places \subseteq 1..Len(s)
      OBVIOUS
    <3>. HIDE DEF places, place
    <3>. QED BY <2>1, <3>2, <3>3
  <2>. QED BY <2>2, <2>3
<1>3. \A i \in 1..(place - 1) : After(p, s[i])
  <2>1. ASSUME NEW i \in 1..(place - 1) PROVE i \in 1..Len(s) /\ ~(place <= i)
    <3>. HIDE DEF place
    <3>. QED BY <1>2
  <2>. QED BY <1>2, <2>1
<1>4. place <= Len(s) => ~After(p, s[place])
  BY <1>2
<1>. HIDE DEF places, place
<1>5. AddSorted(s, p) \in Seq(Pkg) /\ Placed(s, p, place, AddSorted(s, p))
  BY <1>1, <1>2, ConcatThree
<1>. QED BY <1>2, <1>3, <1>4, <1>5 DEF Inserted

\* The order of SortedWhenNamed, of any list.
Sorted(s) ==
  \A i, j \in 1..Len(s) : i < j =>
    IF sort_votes THEN s[i].votes <= s[j].votes
    ELSE (\A k \in 1..Len(s) : s[k].Name # Nothing) => s[i].Name.text <= s[j].Name.text

LEMMA InsertedSorted ==
  ASSUME AurJsonAssumption, NEW s \in Seq(Pkg), NEW p \in Pkg, NEW k \in 1..(Len(s) + 1),
         NEW t, Inserted(s, p, k, t), Sorted(s)
  PROVE  Sorted(t)
<1>1. Len(s) \in Nat /\ Len(t) = Len(s) + 1
  BY DEF Inserted, Placed
<1>2. \A i \in 1..Len(s) : s[i] \in Pkg
  BY ElementOfSeq
<1>3. \A q \in Pkg : q.votes \in Int /\ (q.Name # Nothing => q.Name.text \in Int)
  <2>1. \A q \in Pkg : q.votes \in 0..1 /\ q.Name \in Strings \cup {Nothing}
    BY DEF Pkg
  <2>2. \A x \in Strings : x.text \in Nat
    BY DEF Strings, AurJsonAssumption
  <2>. QED BY <2>1, <2>2
<1>4. ASSUME NEW i \in 1..Len(t), NEW j \in 1..Len(t), i < j, sort_votes
      PROVE  t[i].votes <= t[j].votes
  <2>1. \A a, b \in 1..Len(s) : a < b => s[a].votes <= s[b].votes
    BY <1>4 DEF Sorted
  <2>2. /\ \A a \in 1..(k - 1) : p.votes > s[a].votes
        /\ k <= Len(s) => ~(p.votes > s[k].votes)
    BY <1>4 DEF Inserted, Placed, After
  <2>3. /\ t[i] = IF i < k THEN s[i] ELSE IF i = k THEN p ELSE s[i - 1]
        /\ t[j] = IF j < k THEN s[j] ELSE IF j = k THEN p ELSE s[j - 1]
    BY DEF Inserted, Placed
  <2>4. CASE j < k
    BY <1>1, <1>4, <2>1, <2>3, <2>4
  <2>5. CASE j = k
    BY <1>1, <1>2, <1>3, <1>4, <2>2, <2>3, <2>5
  <2>6. CASE j > k /\ i < k
    BY <1>1, <1>4, <2>1, <2>3, <2>6
  <2>7. CASE j > k /\ i = k
    <3>1. k <= Len(s) /\ j - 1 \in 1..Len(s) /\ k \in 1..Len(s) /\ (k < j - 1 \/ k = j - 1)
      BY <1>1, <2>7
    <3>3. p.votes \in Int /\ s[k].votes \in Int /\ s[j - 1].votes \in Int
      BY <1>2, <1>3, <3>1
    <3>2. s[k].votes <= s[j - 1].votes
      BY <2>1, <3>1, <3>3
    <3>4. t[i] = p /\ t[j] = s[j - 1]
      BY <2>3, <2>7
    <3>. QED BY <2>2, <3>1, <3>2, <3>3, <3>4
  <2>8. CASE i > k
    BY <1>1, <1>4, <2>1, <2>3, <2>8
  <2>. QED BY <1>1, <2>4, <2>5, <2>6, <2>7, <2>8
<1>5. ASSUME NEW i \in 1..Len(t), NEW j \in 1..Len(t), i < j, ~sort_votes,
             \A a \in 1..Len(t) : t[a].Name # Nothing
      PROVE  t[i].Name.text <= t[j].Name.text
  <2>0. /\ p.Name # Nothing
        /\ \A a \in 1..Len(s) : s[a].Name # Nothing
    <3>1. k \in 1..Len(t) /\ t[k] = p
      BY <1>1 DEF Inserted, Placed
    <3>2. ASSUME NEW a \in 1..Len(s)
          PROVE  \E b \in 1..Len(t) : t[b] = s[a]
      <4>1. CASE a < k
        BY <1>1, <4>1 DEF Inserted, Placed
      <4>2. CASE a >= k
        <5>1. a + 1 \in 1..Len(t) /\ ~(a + 1 < k) /\ a + 1 # k /\ a + 1 - 1 = a
          BY <1>1, <4>2
        <5>2. t[a + 1] = s[a + 1 - 1]
          BY <5>1 DEF Inserted, Placed
        <5>. QED BY <5>1, <5>2
      <4>. QED BY <1>1, <4>1, <4>2
    <3>. QED BY <1>5, <3>1, <3>2
  <2>1. \A a, b \in 1..Len(s) : a < b => s[a].Name.text <= s[b].Name.text
    BY <1>5, <2>0 DEF Sorted
  <2>2. /\ \A a \in 1..(k - 1) : p.Name.text > s[a].Name.text
        /\ k <= Len(s) => ~(p.Name.text > s[k].Name.text)
    <3>1. k <= Len(s) => k \in 1..Len(s)
      BY <1>1
    <3>. QED BY <1>5, <2>0, <3>1 DEF Inserted, Placed, After
  <2>3. /\ t[i] = IF i < k THEN s[i] ELSE IF i = k THEN p ELSE s[i - 1]
        /\ t[j] = IF j < k THEN s[j] ELSE IF j = k THEN p ELSE s[j - 1]
    BY DEF Inserted, Placed
  <2>9. p.Name.text \in Int /\ \A a \in 1..Len(s) : s[a].Name.text \in Int
    BY <1>2, <1>3, <2>0
  <2>4. CASE j < k
    BY <1>1, <1>5, <2>1, <2>3, <2>4
  <2>5. CASE j = k
    BY <1>1, <1>5, <2>2, <2>3, <2>5, <2>9
  <2>6. CASE j > k /\ i < k
    BY <1>1, <1>5, <2>1, <2>3, <2>6
  <2>7. CASE j > k /\ i = k
    <3>1. k <= Len(s) /\ j - 1 \in 1..Len(s) /\ k \in 1..Len(s) /\ (k < j - 1 \/ k = j - 1)
      BY <1>1, <2>7
    <3>2. s[k].Name.text <= s[j - 1].Name.text
      BY <2>1, <2>9, <3>1
    <3>4. t[i] = p /\ t[j] = s[j - 1]
      BY <2>3, <2>7
    <3>. QED BY <2>2, <2>9, <3>1, <3>2, <3>4
  <2>8. CASE i > k
    BY <1>1, <1>5, <2>1, <2>3, <2>8
  <2>. QED BY <1>1, <2>4, <2>5, <2>6, <2>7, <2>8
<1>. QED BY <1>4, <1>5 DEF Sorted

-----------------------------------------------------------------------------
\* What yajl's steps do to the stack.
LEMMA EnterStep ==
  ASSUME TypeOK, NEW c \in {"map", "array"}, Enter(c)
  PROVE  /\ open' \in Seq(Container) /\ Len(open') = Len(open) + 1 /\ open' # <<>>
         /\ \A i \in 1..Len(open) : open'[i] = open[i]
         /\ open'[Len(open')] = [kind |-> c, key |-> Under]
         /\ Under' = Under /\ (InMap' <=> c = "map") /\ (InArray' <=> c = "array")
         /\ Maps \in Nat /\ Maps' = Maps + (IF c = "map" THEN 1 ELSE 0)
<1>1. open \in Seq(Container)
  BY DEF TypeOK, Container
<1>2. [kind |-> c, key |-> Under] \in Container
  <2>1. CASE open = <<>>
    BY <2>1 DEF Under, Container
  <2>2. CASE open # <<>>
    <3>1. Len(open) \in 1..Len(open)
      BY <1>1, <2>2, EmptySeq
    <3>2. open[Len(open)] \in Container
      BY <1>1, <3>1, ElementOfSeq
    <3>. QED BY <2>2, <3>2 DEF Under, Innermost, Container
  <2>. QED BY <2>1, <2>2
<1>. DEFINE x == [kind |-> c, key |-> Under]
<1>3. open' = Append(open, x) /\ x \in Container /\ x.kind = c /\ x.key = Under
  BY <1>2 DEF Enter
<1>4. /\ open' \in Seq(Container)
      /\ Cardinality(MapsOf(open')) =
           Cardinality(MapsOf(open)) + (IF x.kind = "map" THEN 1 ELSE 0)
  BY <1>1, <1>3, MapsPushed
<1>. HIDE DEF x
<1>5. /\ Len(open') = Len(open) + 1 /\ open'[Len(open')] = x
      /\ \A i \in 1..Len(open) : open'[i] = open[i]
  BY <1>1, <1>3
<1>6. open' # <<>>
  BY <1>1, <1>4, <1>5, EmptySeq
<1>7. Under' = Under /\ (InMap' <=> c = "map") /\ (InArray' <=> c = "array")
  BY <1>3, <1>5, <1>6 DEF Under, Innermost, InMap, InArray
<1>8. Maps \in Nat /\ Maps' = Maps + (IF c = "map" THEN 1 ELSE 0)
  BY <1>1, <1>3, <1>4, MapsFinite DEF Maps, MapsOf
<1>. QED BY <1>3, <1>4, <1>5, <1>6, <1>7, <1>8 DEF x

LEMMA LeaveStep ==
  ASSUME TypeOK, open # <<>>, Leave
  PROVE  /\ open' \in Seq(Container) /\ Len(open') = Len(open) - 1
         /\ \A i \in 1..Len(open') : open'[i] = open[i]
         /\ Maps \in Nat /\ Maps' \in Nat /\ Maps' = Maps - (IF InMap THEN 1 ELSE 0)
<1>1. open \in Seq(Container)
  BY DEF TypeOK, Container
<1>2. open' = SubSeq(open, 1, Len(open) - 1)
  BY DEF Leave
<1>3. /\ open' \in Seq(Container) /\ Len(open') = Len(open) - 1
      /\ \A i \in 1..Len(open') : open'[i] = open[i]
      /\ Cardinality(MapsOf(open')) =
           Cardinality(MapsOf(open)) - (IF open[Len(open)].kind = "map" THEN 1 ELSE 0)
  BY <1>1, <1>2, MapsPopped
<1>4. Maps = Cardinality(MapsOf(open)) /\ Maps' = Cardinality(MapsOf(open'))
  BY DEF Maps, MapsOf
<1>5. InMap <=> open[Len(open)].kind = "map"
  BY DEF InMap, Innermost
<1>. QED BY <1>1, <1>3, <1>4, <1>5, MapsFinite

LEMMA KeyStep ==
  ASSUME TypeOK, open # <<>>, NEW k \in DocKeys, open' = [open EXCEPT ![Len(open)].key = k]
  PROVE  /\ open' \in Seq(Container) /\ Len(open') = Len(open) /\ open' # <<>>
         /\ \A i \in 1..Len(open) : open'[i].kind = open[i].kind
         /\ \A i \in 1..(Len(open) - 1) : open'[i] = open[i]
         /\ Under' = k /\ (InMap' <=> InMap) /\ (InArray' <=> InArray) /\ Maps' = Maps
<1>1. open \in Seq(Container)
  BY DEF TypeOK, Container
<1>2. /\ open' \in Seq(Container) /\ Len(open') = Len(open)
      /\ open'[Len(open')].key = k /\ \A i \in 1..Len(open') : open'[i].kind = open[i].kind
      /\ Cardinality(MapsOf(open')) = Cardinality(MapsOf(open))
  <2>1. Rekeyed(open, k, open')
    BY <1>1, MapsRekeyed
  <2>. QED BY <2>1 DEF Rekeyed
<1>3. Len(open) \in Nat \ {0} /\ open' # <<>>
  BY <1>1, <1>2, EmptySeq
<1>4. \A i \in 1..(Len(open) - 1) : open'[i] = open[i]
  BY <1>1, <1>3
<1>5. Maps' = Maps
  BY <1>2 DEF Maps, MapsOf
<1>6. Under' = k /\ (InMap' <=> InMap) /\ (InArray' <=> InArray)
  BY <1>2, <1>3 DEF Under, Innermost, InMap, InArray
<1>. QED BY <1>2, <1>3, <1>4, <1>5, <1>6

-----------------------------------------------------------------------------
LEMMA PkgFacts ==
  /\ NewPkg \in Pkg /\ NewPkg # NoPkg /\ OwnFields(NewPkg) /\ OwnFields(NoPkg)
  /\ \A p \in Pkg : p # NoPkg
<1>1. NoPkg.votes = 2
  BY DEF NoPkg
<1>2. \A p \in Pkg : p.votes \in 0..1
  BY DEF Pkg
<1>3. NewPkg \in Pkg
  BY DEF NewPkg, NoPkg, Pkg
<1>4. OwnFields(NewPkg) /\ OwnFields(NoPkg)
  BY DEF OwnFields, NewPkg, NoPkg, Nothing
<1>. QED BY <1>1, <1>2, <1>3, <1>4

\* SortedWhenNamed and the packages' part of FieldUnderItsKey, of any list.
AllOwn(s) == \A i \in 1..Len(s) : OwnFields(s[i])

LEMMA OfAnyList ==
  /\ SortedWhenNamed <=> Sorted(pkgs)
  /\ FieldUnderItsKey <=> (plain => OwnFields(pkg) /\ AllOwn(pkgs))
<1>1. SortedWhenNamed <=> Sorted(pkgs)
  BY DEF SortedWhenNamed, Sorted
<1>2. FieldUnderItsKey <=> (plain => OwnFields(pkg) /\ AllOwn(pkgs))
  BY DEF FieldUnderItsKey, AllOwn
<1>. QED BY <1>1, <1>2

LEMMA EmptySorted == Sorted(<<>>) /\ AllOwn(<<>>)
BY DEF Sorted, AllOwn

LEMMA SameSorted ==
  ASSUME SortedWhenNamed, UNCHANGED <<sort_votes, pkgs>>
  PROVE  SortedWhenNamed'
BY DEF SortedWhenNamed, After

\* A step that reads a value.
LEMMA ValueStep ==
  ASSUME JsonInv, ValueMay, Value,
         UNCHANGED <<sort_votes, level, current_key, pkgs, history>>,
         error' \in BOOLEAN, error_msg' \in BOOLEAN, pkg' \in Pkg \cup {NoPkg},
         pkg' # NoPkg <=> pkg # NoPkg,
         plain /\ OwnFields(pkg) => OwnFields(pkg')
  PROVE  JsonInv'
<1>1. /\ due' = FALSE /\ open' = open /\ status' = status /\ status = "parsing"
      /\ objects' = objects /\ maps' = maps /\ keys' = keys /\ plain' = plain
      /\ pkgs' = pkgs /\ level' = level /\ current_key' = current_key /\ sort_votes' = sort_votes
  BY DEF Value, ValueMay, history
<1>2. Maps' = Maps /\ Under' = Under /\ (InArray' <=> InArray)
  BY <1>1 DEF Maps, Under, InArray, Innermost
<1>3. TypeOK'
  BY <1>1 DEF JsonInv, TypeOK
<1>4. NestInv'
  BY <1>1 DEF JsonInv, NestInv
<1>5. DepthInv'
  BY <1>1, <1>2 DEF JsonInv, DepthInv
<1>6. KeyInv'
  BY <1>1, <1>2 DEF JsonInv, KeyInv
<1>7. SortedWhenNamed'
  BY <1>1, SameSorted DEF JsonInv
<1>8. FieldUnderItsKey'
  BY <1>1 DEF JsonInv, FieldUnderItsKey
<1>. QED BY <1>3, <1>4, <1>5, <1>6, <1>7, <1>8 DEF JsonInv

\* Where a value may stand, it is under a key of the document.
LEMMA UnderKey ==
  ASSUME JsonInv, ValueMay
  PROVE  Under \in DocKeys /\ (InArray \/ due) /\ (plain /\ Maps >= 2 => Under = current_key)
<1>1. open \in Seq(Container) /\ open # <<>> /\ status = "parsing"
  BY DEF JsonInv, TypeOK, Container, ValueMay
<1>2. Len(open) \in 1..Len(open) /\ Innermost \in Container
  <2>1. Len(open) \in 1..Len(open)
    BY <1>1, EmptySeq
  <2>. QED BY <1>1, <2>1, ElementOfSeq DEF Innermost
<1>3. InMap \/ InArray
  BY <1>1, <1>2 DEF InMap, InArray, Container
<1>4. InArray \/ due
  BY <1>3 DEF ValueMay
<1>5. Under \in DocKeys
  BY <1>1, <1>2, <1>4 DEF JsonInv, NestInv, InArray, Under, Innermost
<1>6. Maps \in Nat
  BY <1>1, MapsFinite DEF Maps, MapsOf
<1>7. plain /\ Maps >= 2 => Under = current_key
  BY <1>1, <1>4, <1>6 DEF JsonInv, KeyInv
<1>. QED BY <1>4, <1>5, <1>7

LEMMA NextInteger ==
  ASSUME JsonInv, NEW n \in 0..1, json_integer(n)
  PROVE  JsonInv'
<1>1. ValueMay /\ Value /\ UNCHANGED <<sort_votes, level, current_key, error, error_msg, pkgs, history>>
  BY DEF json_integer
<1>2. error' \in BOOLEAN /\ error_msg' \in BOOLEAN
  BY <1>1 DEF JsonInv, TypeOK
<1>3. pkg \in Pkg \cup {NoPkg}
  BY DEF JsonInv, TypeOK
<1>4. CASE pkg' = pkg
  BY <1>1, <1>2, <1>3, <1>4, ValueStep
<1>5. CASE pkg' # pkg
  <2>1. pkg \in Pkg /\ pkg' = [pkg EXCEPT !.votes = n]
    BY <1>3, <1>5 DEF json_integer
  <2>2. pkg' \in Pkg
    BY <2>1 DEF Pkg
  <2>3. pkg'.Name = pkg.Name /\ pkg'.Maintainer = pkg.Maintainer /\ pkg'.Depends = pkg.Depends
    BY <2>1 DEF Pkg
  <2>4. OwnFields(pkg) => OwnFields(pkg')
    BY <2>3 DEF OwnFields
  <2>. QED BY <1>1, <1>2, <2>1, <2>2, <2>4, PkgFacts, ValueStep
<1>. QED BY <1>4, <1>5

LEMMA NextString ==
  ASSUME AurJsonAssumption, JsonInv, NEW text \in Texts, NEW is_error \in BOOLEAN,
         json_string(text, is_error)
  PROVE  JsonInv'
<1> DEFINE s == [key |-> Under, text |-> text]
<1>1. ValueMay /\ Value /\ UNCHANGED <<sort_votes, level, current_key, pkgs, history>>
  BY DEF json_string
<1>2. IF level < 2 THEN TopString(is_error) ELSE PkgString(s)
  BY DEF json_string
<1>3. pkg \in Pkg \cup {NoPkg} /\ error \in BOOLEAN /\ error_msg \in BOOLEAN
  BY DEF JsonInv, TypeOK
<1>4. CASE level < 2
  <2>1. TopString(is_error)
    BY <1>2, <1>4
  <2>2. error' \in BOOLEAN
    BY <2>1 DEF TopString
  <2>3. error_msg' \in BOOLEAN
    BY <1>3, <2>1 DEF TopString
  <2>4. pkg' = pkg
    BY <2>1 DEF TopString
  <2>. QED BY <1>1, <1>3, <2>2, <2>3, <2>4, ValueStep
<1>5. CASE ~(level < 2)
  <2>1. PkgString(s)
    BY <1>2, <1>5
  <2>2. error' \in BOOLEAN /\ error_msg' \in BOOLEAN
    BY <1>3, <2>1 DEF PkgString
  <2>3. CASE pkg = NoPkg
    <3>1. pkg' = pkg
      BY <2>1, <2>3 DEF PkgString
    <3>. QED BY <1>1, <1>3, <2>2, <3>1, ValueStep
  <2>4. CASE pkg # NoPkg
    <3>1. /\ pkg \in Pkg
          /\ pkg' = [pkg EXCEPT !.Name = IF current_key = "Name" THEN s ELSE @,
                                !.Maintainer = IF current_key = "Maintainer" THEN s.key ELSE @,
                                !.Depends = IF current_key = "Depends" THEN @ \cup {s.key} ELSE @]
      BY <1>3, <2>1, <2>4 DEF PkgString
    <3>2. Under \in DocKeys /\ s \in Strings /\ s.key = Under
      BY UnderKey, <1>1 DEF Strings
    <3>3. Maps \in Nat /\ Maps >= 2 /\ (plain => current_key = Under)
      <4>1. level = Maps /\ level \in Nat
        BY <1>1 DEF JsonInv, DepthInv, TypeOK, ValueMay, AurJsonAssumption
      <4>. QED BY <1>1, <1>5, <4>1, UnderKey
    <3>. HIDE DEF s
    <3>4. /\ pkg'.Name = (IF current_key = "Name" THEN s ELSE pkg.Name)
          /\ pkg'.Maintainer = (IF current_key = "Maintainer" THEN s.key ELSE pkg.Maintainer)
          /\ pkg'.Depends = (IF current_key = "Depends" THEN pkg.Depends \cup {s.key} ELSE pkg.Depends)
      BY <3>1 DEF Pkg
    <3>5. pkg' \in Pkg
      BY <3>1, <3>2 DEF Pkg
    <3>6. plain /\ OwnFields(pkg) => OwnFields(pkg')
      BY <3>2, <3>3, <3>4 DEF OwnFields
    <3>. QED BY <1>1, <2>2, <2>4, <3>5, <3>6, PkgFacts, ValueStep
  <2>. QED BY <2>3, <2>4
<1>. QED BY <1>4, <1>5

\* A container under a key of the document, or the outermost map, is opened.
LEMMA NestsEntered ==
  ASSUME JsonInv, NEW c \in {"map", "array"}, Enter(c),
         c = "array" => Under \in DocKeys /\ open # <<>>
  PROVE  NestInv'
<1>1. open \in Seq(Container) /\ Len(open) \in Nat
  BY DEF JsonInv, TypeOK, Container
<1>2. /\ Len(open') = Len(open) + 1 /\ due' = FALSE
      /\ \A i \in 1..Len(open) : open'[i] = open[i]
      /\ open'[Len(open) + 1] = [kind |-> c, key |-> Under]
  BY EnterStep DEF JsonInv, Enter
<1>3. \A i \in 1..Len(open) :
        open[i].kind = "array" => open[i].key \in DocKeys /\ (i > 1 => open[i - 1].key = open[i].key)
  BY DEF JsonInv, NestInv
<1>4. ASSUME c = "array" PROVE Len(open) >= 1 /\ open[Len(open)].key = Under
  <2>1. Len(open) \in 1..Len(open)
    BY <1>1, <1>4, EmptySeq
  <2>. QED BY <1>4, <2>1 DEF Under, Innermost
<1>5. ASSUME NEW i \in 1..Len(open'), open'[i].kind = "array"
      PROVE  open'[i].key \in DocKeys /\ (i > 1 => open'[i - 1].key = open'[i].key)
  <2>1. CASE i \in 1..Len(open)
    <3>1. open'[i] = open[i] /\ (i > 1 => open'[i - 1] = open[i - 1])
      BY <1>1, <1>2, <2>1
    <3>. QED BY <1>3, <1>5, <2>1, <3>1
  <2>2. CASE i = Len(open) + 1
    <3>1. c = "array" /\ open'[i].key = Under
      BY <1>2, <1>5, <2>2
    <3>2. open'[i - 1] = open[Len(open)]
      BY <1>1, <1>2, <1>4, <2>2, <3>1
    <3>. QED BY <1>4, <3>1, <3>2
  <2>. QED BY <1>1, <1>2, <2>1, <2>2
<1>. QED BY <1>2, <1>5 DEF NestInv

LEMMA NestsLeft ==
  ASSUME JsonInv, open # <<>>, Leave
  PROVE  NestInv' /\ (InArray /\ InArray' => Under' = Under)
<1>1. open \in Seq(Container) /\ Len(open) \in Nat \ {0}
  <2>1. open \in Seq(Container)
    BY DEF JsonInv, TypeOK, Container
  <2>. QED BY <2>1, EmptySeq
<1>2. /\ open' \in Seq(Container) /\ Len(open') = Len(open) - 1 /\ due' = FALSE
      /\ \A i \in 1..Len(open') : open'[i] = open[i]
  BY LeaveStep DEF JsonInv, Leave
<1>3. \A i \in 1..Len(open) :
        open[i].kind = "array" => open[i].key \in DocKeys /\ (i > 1 => open[i - 1].key = open[i].key)
  BY DEF JsonInv, NestInv
<1>4. ASSUME NEW i \in 1..Len(open'), open'[i].kind = "array"
      PROVE  open'[i].key \in DocKeys /\ (i > 1 => open'[i - 1].key = open'[i].key)
  <2>1. i \in 1..Len(open) /\ (i > 1 => i - 1 \in 1..Len(open'))
    BY <1>1, <1>2
  <2>. QED BY <1>2, <1>3, <1>4, <2>1
<1>5. ASSUME InArray, InArray' PROVE Under' = Under
  <2>1. open' # <<>> /\ open[Len(open)].kind = "array"
    BY <1>5 DEF InArray, Innermost
  <2>2. Len(open') \in Nat \ {0}
    BY <1>2, <2>1, EmptySeq
  <2>3. Len(open) \in 1..Len(open) /\ Len(open) > 1 /\ Len(open) - 1 = Len(open')
        /\ Len(open') \in 1..Len(open')
    BY <1>1, <1>2, <2>2
  <2>4. open[Len(open) - 1].key = open[Len(open)].key
    BY <1>3, <2>1, <2>3
  <2>5. open'[Len(open')].key = open[Len(open)].key
    BY <1>2, <2>3, <2>4
  <2>. QED BY <2>1, <2>5 DEF Under, Innermost
<1>. QED BY <1>2, <1>4, <1>5 DEF NestInv

LEMMA NextStartMap ==
  ASSUME AurJsonAssumption, JsonInv, json_start_map
  PROVE  JsonInv'
<1>1. /\ Enter("map") /\ maps < MaxMaps /\ maps' = maps + 1 /\ status' = "parsing"
      /\ plain' = (plain /\ Maps < 2) /\ objects' = objects /\ keys' = keys
      /\ level' = level + 1 /\ pkg' = (IF level' > 1 THEN NewPkg ELSE pkg)
      /\ sort_votes' = sort_votes /\ current_key' = current_key /\ error' = error
      /\ error_msg' = error_msg /\ pkgs' = pkgs /\ due' = FALSE
      /\ status \in {"start", "parsing"}
  BY DEF json_start_map, OpenMap, Enter, ValueMay
<1>2. /\ open' \in Seq(Container) /\ Maps \in Nat /\ Maps' = Maps + 1
      /\ ~InArray'
  BY <1>1, EnterStep DEF JsonInv
<1>3. level = Maps /\ Maps <= maps /\ (pkg # NoPkg <=> Maps >= 2) /\ Len(pkgs) = objects
      /\ objects \in Nat
  BY <1>1 DEF JsonInv, DepthInv
<1>4. maps \in Nat /\ MaxMaps \in Nat /\ maps' \in 0..MaxMaps /\ level' \in 0..MaxMaps
  <2>1. maps \in 0..MaxMaps
    BY DEF JsonInv, TypeOK
  <2>. QED BY <1>1, <1>2, <1>3, <2>1 DEF AurJsonAssumption
<1>5. pkg' \in Pkg \cup {NoPkg} /\ (pkg' # NoPkg <=> Maps' >= 2)
  <2>1. CASE level' > 1
    BY <1>1, <1>2, <1>3, <2>1, PkgFacts
  <2>2. CASE ~(level' > 1)
    <3>1. Maps' < 2 /\ Maps < 2 /\ pkg' = pkg /\ pkg = NoPkg
      BY <1>1, <1>2, <1>3, <2>2
    <3>. QED BY <1>2, <3>1
  <2>. QED BY <2>1, <2>2
<1>6. TypeOK'
  <2>1. plain' \in BOOLEAN
    BY <1>1
  <2>. QED BY <1>1, <1>2, <1>4, <1>5, <2>1 DEF JsonInv, TypeOK, Container
<1>7. NestInv'
  BY <1>1, NestsEntered
<1>8. DepthInv'
  <2>1. level' = Maps' /\ Maps' <= maps' /\ Len(pkgs') = objects'
    BY <1>1, <1>2, <1>3, <1>4
  <2>. QED BY <1>1, <1>3, <1>5, <2>1 DEF DepthInv
<1>9. KeyInv'
  <2>1. ~(InArray' \/ due')
    BY <1>1, <1>2
  <2>2. plain' => Maps' <= 2
    <3>1. plain' => Maps < 2
      BY <1>1
    <3>. QED BY <1>2, <3>1
  <2>. QED BY <2>1, <2>2 DEF KeyInv
<1>10. SortedWhenNamed'
  BY <1>1, SameSorted DEF JsonInv
<1>11. FieldUnderItsKey'
  BY <1>1, OfAnyList, PkgFacts DEF JsonInv, FieldUnderItsKey
<1>. QED BY <1>6, <1>7, <1>8, <1>9, <1>10, <1>11 DEF JsonInv

LEMMA NextEndMap ==
  ASSUME AurJsonAssumption, JsonInv, json_end_map
  PROVE  JsonInv'
<1>1. /\ Leave /\ open # <<>> /\ InMap /\ status = "parsing" /\ status' = "parsing"
      /\ objects' = (IF Maps = 2 THEN objects + 1 ELSE objects)
      /\ maps' = maps /\ keys' = keys /\ plain' = plain /\ level' = level - 1
      /\ sort_votes' = sort_votes /\ current_key' = current_key /\ error' = error
      /\ error_msg' = error_msg /\ due' = FALSE
      /\ IF level' = 1 /\ pkg # NoPkg
         THEN pkgs' = AddSorted(pkgs, pkg) /\ pkg' = NoPkg
         ELSE pkgs' = pkgs /\ pkg' = pkg
  BY DEF json_end_map, CloseMap, Leave, KeyMay, InMap
<1>2. open' \in Seq(Container) /\ Maps \in Nat /\ Maps' \in Nat /\ Maps' = Maps - 1
  BY <1>1, LeaveStep DEF JsonInv
<1>3. level = Maps /\ Maps <= maps /\ (pkg # NoPkg <=> Maps >= 2) /\ Len(pkgs) = objects
      /\ objects \in Nat
  BY <1>1 DEF JsonInv, DepthInv
<1>4. maps \in Nat /\ MaxMaps \in Nat /\ maps <= MaxMaps /\ level' \in 0..MaxMaps
      /\ level' = Maps' /\ Maps' <= maps
  <2>1. maps \in 0..MaxMaps
    BY DEF JsonInv, TypeOK
  <2>. QED BY <1>1, <1>2, <1>3, <2>1 DEF AurJsonAssumption
<1>5. pkg \in Pkg \cup {NoPkg} /\ pkgs \in Seq(Pkg)
  BY DEF JsonInv, TypeOK
<1>6. /\ pkgs' \in Seq(Pkg) /\ pkg' \in Pkg \cup {NoPkg}
      /\ (pkg' # NoPkg <=> Maps' >= 2) /\ Len(pkgs') = objects' /\ objects' \in Nat
      /\ SortedWhenNamed' /\ FieldUnderItsKey'
  <2>1. CASE level' = 1 /\ pkg # NoPkg
    <3>1. pkgs' = AddSorted(pkgs, pkg) /\ pkg' = NoPkg /\ pkg \in Pkg /\ Maps = 2 /\ Maps' = 1
      <4>1. pkgs' = AddSorted(pkgs, pkg) /\ pkg' = NoPkg
        BY <1>1, <2>1
      <4>2. Maps' = 1 /\ Maps = 2
        BY <1>2, <1>4, <2>1
      <4>. QED BY <1>5, <2>1, <4>1, <4>2
    <3>2. pkgs' \in Seq(Pkg) /\ \E k \in 1..(Len(pkgs) + 1) : Inserted(pkgs, pkg, k, pkgs')
      BY <1>5, <3>1, AddSortedInserts
    <3>3. PICK k \in 1..(Len(pkgs) + 1) : Inserted(pkgs, pkg, k, pkgs')
      BY <3>2
    <3>4. Len(pkgs') = Len(pkgs) + 1
      BY <3>3 DEF Inserted, Placed
    <3>5. SortedWhenNamed'
      <4>1. Sorted(pkgs')
        BY <1>5, <3>1, <3>3, InsertedSorted, OfAnyList DEF JsonInv
      <4>. QED BY <1>1, <4>1 DEF Sorted, SortedWhenNamed
    <3>6. ASSUME plain, NEW i \in 1..Len(pkgs') PROVE OwnFields(pkgs'[i])
      <4>1. OwnFields(pkg) /\ \A j \in 1..Len(pkgs) : OwnFields(pkgs[j])
        BY <3>6 DEF JsonInv, FieldUnderItsKey
      <4>2. Len(pkgs) \in Nat /\ pkgs'[i] = IF i < k THEN pkgs[i] ELSE IF i = k THEN pkg ELSE pkgs[i - 1]
        BY <1>5, <3>3, <3>4, <3>6 DEF Inserted, Placed
      <4>3. CASE i < k
        BY <3>4, <4>1, <4>2, <4>3
      <4>4. CASE i = k
        BY <4>1, <4>2, <4>4
      <4>5. CASE i > k
        BY <3>4, <4>1, <4>2, <4>5
      <4>. QED BY <4>2, <4>3, <4>4, <4>5
    <3>7. FieldUnderItsKey'
      BY <1>1, <3>1, <3>6, PkgFacts DEF FieldUnderItsKey
    <3>. QED BY <1>1, <1>3, <3>1, <3>2, <3>4, <3>5, <3>7
  <2>2. CASE ~(level' = 1 /\ pkg # NoPkg)
    <3>1. pkgs' = pkgs /\ pkg' = pkg
      BY <1>1, <2>2
    <3>2. Maps # 2
      BY <1>1, <1>2, <1>3, <2>2
    <3>3. pkg' # NoPkg <=> Maps' >= 2
      BY <1>2, <1>3, <3>1, <3>2
    <3>4. SortedWhenNamed'
      BY <1>1, <3>1, SameSorted DEF JsonInv
    <3>5. FieldUnderItsKey'
      BY <1>1, <3>1 DEF JsonInv, FieldUnderItsKey
    <3>. QED BY <1>1, <1>3, <1>5, <3>1, <3>2, <3>3, <3>4, <3>5
  <2>. QED BY <2>1, <2>2
<1>7. TypeOK'
  BY <1>1, <1>2, <1>4, <1>6 DEF JsonInv, TypeOK, Container
<1>8. NestInv'
  BY <1>1, NestsLeft
<1>9. DepthInv'
  BY <1>1, <1>4, <1>6 DEF DepthInv
<1>10. KeyInv'
  <2>1. plain => Maps <= 2
    BY <1>1 DEF JsonInv, KeyInv
  <2>. QED BY <1>1, <1>2, <2>1 DEF KeyInv
<1>. QED BY <1>6, <1>7, <1>8, <1>9, <1>10 DEF JsonInv

LEMMA NextKey ==
  ASSUME AurJsonAssumption, JsonInv, NEW k \in DocKeys, json_key(k)
  PROVE  JsonInv'
<1>1. /\ open # <<>> /\ InMap /\ status = "parsing" /\ status' = status
      /\ open' = [open EXCEPT ![Len(open)].key = k] /\ due' = TRUE
      /\ keys < MaxKeys /\ keys' = keys + 1
      /\ objects' = objects /\ maps' = maps /\ level' = level /\ sort_votes' = sort_votes
      /\ pkg' = pkg /\ error' = error /\ error_msg' = error_msg /\ pkgs' = pkgs
      /\ current_key' = (IF k \in KnownKeys THEN k ELSE current_key)
  BY DEF json_key, ReadKey, KeyMay, InMap
<1>2. plain' = (plain /\ k \in KnownKeys)
  BY DEF json_key, ReadKey
<1>3. plain' => plain /\ current_key' = k
  BY <1>1, <1>2
<1>4. /\ open' \in Seq(Container) /\ Len(open') = Len(open) /\ open' # <<>>
      /\ \A i \in 1..Len(open) : open'[i].kind = open[i].kind
      /\ \A i \in 1..(Len(open) - 1) : open'[i] = open[i]
      /\ Under' = k /\ (InArray' <=> InArray) /\ Maps' = Maps
  BY <1>1, KeyStep DEF JsonInv
<1>5. Len(open) \in Nat /\ open[Len(open)].kind = "map"
  BY <1>1 DEF JsonInv, TypeOK, InMap, Innermost
<1>6. TypeOK'
  <2>1. keys' \in 0..MaxKeys
    BY <1>1 DEF JsonInv, TypeOK, AurJsonAssumption
  <2>2. plain' \in BOOLEAN
    BY <1>2
  <2>3. current_key' \in KnownKeys
    BY <1>1 DEF JsonInv, TypeOK
  <2>. QED BY <1>1, <1>4, <2>1, <2>2, <2>3 DEF JsonInv, TypeOK, Container
<1>7. NestInv'
  <2>1. \A i \in 1..Len(open) :
          open[i].kind = "array" => open[i].key \in DocKeys /\ (i > 1 => open[i - 1].key = open[i].key)
    BY DEF JsonInv, NestInv
  <2>2. ASSUME NEW i \in 1..Len(open'), open'[i].kind = "array"
        PROVE  open'[i].key \in DocKeys /\ (i > 1 => open'[i - 1].key = open'[i].key)
    <3>1. i \in 1..Len(open) /\ open[i].kind = "array" /\ i # Len(open)
      BY <1>4, <1>5, <2>2
    <3>2. i \in 1..(Len(open) - 1) /\ (i > 1 => i - 1 \in 1..(Len(open) - 1))
      BY <1>5, <3>1
    <3>. QED BY <1>4, <2>1, <3>1, <3>2
  <2>. QED BY <1>1, <1>4, <2>2 DEF NestInv
<1>8. DepthInv'
  BY <1>1, <1>4 DEF JsonInv, DepthInv
<1>9. KeyInv'
  BY <1>1, <1>3, <1>4 DEF JsonInv, KeyInv
<1>10. SortedWhenNamed'
  BY <1>1, SameSorted DEF JsonInv
<1>11. FieldUnderItsKey'
  BY <1>1, <1>3 DEF JsonInv, FieldUnderItsKey
<1>. QED BY <1>6, <1>7, <1>8, <1>9, <1>10, <1>11 DEF JsonInv

LEMMA NextStartArray ==
  ASSUME AurJsonAssumption, JsonInv, StartArray
  PROVE  JsonInv'
<1>1. /\ ValueMay /\ Enter("array") /\ status' = status /\ due' = FALSE
      /\ objects' = objects /\ maps' = maps /\ keys' = keys /\ plain' = plain
      /\ level' = level /\ sort_votes' = sort_votes /\ current_key' = current_key
      /\ pkg' = pkg /\ error' = error /\ error_msg' = error_msg /\ pkgs' = pkgs
      /\ status = "parsing" /\ open # <<>>
  BY DEF StartArray, Enter, ctx, history, ValueMay
<1>2. open' \in Seq(Container) /\ Maps \in Nat /\ Maps' = Maps /\ Under' = Under
  BY <1>1, EnterStep DEF JsonInv
<1>3. Under \in DocKeys /\ (plain /\ Maps >= 2 => Under = current_key)
  BY <1>1, UnderKey
<1>4. TypeOK'
  BY <1>1, <1>2 DEF JsonInv, TypeOK, Container
<1>5. NestInv'
  BY <1>1, <1>3, NestsEntered
<1>6. DepthInv'
  BY <1>1, <1>2 DEF JsonInv, DepthInv
<1>7. KeyInv'
  BY <1>1, <1>2, <1>3 DEF JsonInv, KeyInv
<1>8. SortedWhenNamed'
  BY <1>1, SameSorted DEF JsonInv
<1>9. FieldUnderItsKey'
  BY <1>1 DEF JsonInv, FieldUnderItsKey
<1>. QED BY <1>4, <1>5, <1>6, <1>7, <1>8, <1>9 DEF JsonInv

LEMMA NextEndArray ==
  ASSUME AurJsonAssumption, JsonInv, EndArray
  PROVE  JsonInv'
<1>1. /\ InArray /\ Leave /\ status' = status /\ due' = FALSE
      /\ objects' = objects /\ maps' = maps /\ keys' = keys /\ plain' = plain
      /\ level' = level /\ sort_votes' = sort_votes /\ current_key' = current_key
      /\ pkg' = pkg /\ error' = error /\ error_msg' = error_msg /\ pkgs' = pkgs
      /\ status = "parsing" /\ open # <<>>
  BY DEF EndArray, Leave, ctx, history, InArray
<1>2. open' \in Seq(Container) /\ Maps' = Maps
  <2>1. ~InMap
    BY <1>1 DEF InMap, InArray
  <2>. QED BY <1>1, <2>1, LeaveStep DEF JsonInv
<1>3. NestInv' /\ (InArray' => Under' = Under)
  BY <1>1, NestsLeft
<1>4. TypeOK'
  BY <1>1, <1>2 DEF JsonInv, TypeOK, Container
<1>5. DepthInv'
  BY <1>1, <1>2 DEF JsonInv, DepthInv
<1>6. KeyInv'
  BY <1>1, <1>2, <1>3, Zenon DEF JsonInv, KeyInv
<1>7. SortedWhenNamed'
  BY <1>1, SameSorted DEF JsonInv
<1>8. FieldUnderItsKey'
  BY <1>1 DEF JsonInv, FieldUnderItsKey
<1>. QED BY <1>3, <1>4, <1>5, <1>6, <1>7, <1>8 DEF JsonInv

LEMMA NextFail ==
  ASSUME JsonInv, Fail
  PROVE  JsonInv'
<1>1. /\ status' = "failed" /\ pkgs' = <<>>
      /\ open' = open /\ due' = due /\ level' = level /\ sort_votes' = sort_votes
      /\ current_key' = current_key /\ pkg' = pkg /\ error' = error /\ error_msg' = error_msg
      /\ objects' = objects /\ maps' = maps /\ keys' = keys /\ plain' = plain
  BY DEF Fail, history
<1>2. Maps' = Maps /\ Under' = Under
  BY <1>1 DEF Maps, Under, Innermost
<1>3. TypeOK'
  BY <1>1 DEF JsonInv, TypeOK
<1>4. NestInv' /\ DepthInv' /\ KeyInv'
  BY <1>1, <1>2 DEF JsonInv, NestInv, DepthInv, KeyInv
<1>5. SortedWhenNamed'
  BY <1>1 DEF SortedWhenNamed
<1>6. FieldUnderItsKey'
  BY <1>1 DEF JsonInv, FieldUnderItsKey
<1>. QED BY <1>3, <1>4, <1>5, <1>6 DEF JsonInv

\* The end of the reply, and a step that changes nothing.
LEMMA NextQuiet ==
  ASSUME JsonInv, Complete \/ UNCHANGED vars
  PROVE  JsonInv'
<1>1. /\ status' = status \/ (status = "parsing" /\ status' = "ok" /\ open = <<>>)
      /\ pkgs' = pkgs
      /\ open' = open /\ due' = due /\ level' = level /\ sort_votes' = sort_votes
      /\ current_key' = current_key /\ pkg' = pkg /\ error' = error /\ error_msg' = error_msg
      /\ objects' = objects /\ maps' = maps /\ keys' = keys /\ plain' = plain
  BY DEF Complete, vars, yajl, ctx, history
<1>2. Maps' = Maps /\ Under' = Under /\ (InArray' <=> InArray)
  BY <1>1 DEF Maps, Under, InArray, Innermost
<1>3. TypeOK'
  BY <1>1 DEF JsonInv, TypeOK
<1>4. NestInv' /\ KeyInv'
  BY <1>1, <1>2 DEF JsonInv, NestInv, KeyInv
<1>5. DepthInv'
  <2>1. open = <<>> => Maps = 0
    <3>1. ASSUME open = <<>> PROVE {i \in 1..Len(open) : open[i].kind = "map"} = {}
      BY <3>1
    <3>. QED BY <3>1, FS_EmptySet DEF Maps
  <2>2. status = "parsing" /\ open = <<>> => pkg = NoPkg /\ Len(pkgs) = objects
    BY <2>1 DEF JsonInv, DepthInv
  <2>. QED BY <1>1, <1>2, <2>2 DEF JsonInv, DepthInv
<1>6. SortedWhenNamed'
  BY <1>1, SameSorted DEF JsonInv
<1>7. FieldUnderItsKey'
  BY <1>1 DEF JsonInv, FieldUnderItsKey
<1>. QED BY <1>3, <1>4, <1>5, <1>6, <1>7 DEF JsonInv

LEMMA InitJson == ASSUME AurJsonAssumption, Init PROVE JsonInv
<1>1. Maps = 0
  <2>1. {i \in 1..Len(open) : open[i].kind = "map"} = {}
    BY DEF Init
  <2>. QED BY <2>1, FS_EmptySet DEF Maps
<1>2. TypeOK
  <2>1. 0 \in 0..MaxMaps /\ 0 \in 0..MaxKeys
    BY DEF AurJsonAssumption
  <2>2. /\ due \in BOOLEAN /\ error \in BOOLEAN /\ error_msg \in BOOLEAN /\ plain \in BOOLEAN
        /\ sort_votes \in BOOLEAN
    BY Zenon DEF Init
  <2>3. /\ open = <<>> /\ status = "start" /\ level = 0 /\ pkg = NoPkg
        /\ current_key = "empty" /\ pkgs = <<>> /\ maps = 0 /\ keys = 0
    BY Zenon DEF Init
  <2>4. current_key \in KnownKeys
    BY <2>3 DEF KnownKeys
  <2>. QED BY <2>1, <2>2, <2>3, <2>4 DEF TypeOK
<1>3. NestInv
  BY DEF Init, NestInv
<1>4. DepthInv
  BY <1>1 DEF Init, DepthInv
<1>5. KeyInv
  BY <1>1 DEF Init, KeyInv
<1>6. SortedWhenNamed
  BY DEF Init, SortedWhenNamed
<1>7. FieldUnderItsKey
  BY PkgFacts DEF Init, FieldUnderItsKey
<1>. QED BY <1>2, <1>3, <1>4, <1>5, <1>6, <1>7 DEF JsonInv

LEMMA NextJson == ASSUME AurJsonAssumption, JsonInv, [Next]_vars PROVE JsonInv'
<1>1. CASE json_start_map
  BY <1>1, NextStartMap
<1>2. CASE json_end_map
  BY <1>2, NextEndMap
<1>3. CASE \E k \in DocKeys : json_key(k)
  BY <1>3, NextKey
<1>4. CASE \E n \in 0..1 : json_integer(n)
  BY <1>4, NextInteger
<1>5. CASE \E text \in Texts, is_error \in BOOLEAN : json_string(text, is_error)
  BY <1>5, NextString
<1>6. CASE OtherValue
  <2>1. ValueMay /\ Value /\ UNCHANGED <<sort_votes, level, current_key, pkgs, history>>
    BY <1>6 DEF OtherValue, ctx
  <2>2. pkg' = pkg /\ error' \in BOOLEAN /\ error_msg' \in BOOLEAN /\ pkg \in Pkg \cup {NoPkg}
    BY <1>6 DEF OtherValue, ctx, JsonInv, TypeOK
  <2>. QED BY <2>1, <2>2, ValueStep
<1>7. CASE StartArray
  BY <1>7, NextStartArray
<1>8. CASE EndArray
  BY <1>8, NextEndArray
<1>9. CASE Fail
  BY <1>9, NextFail
<1>10. CASE Complete \/ UNCHANGED vars
  BY <1>10, NextQuiet
<1>. QED BY <1>1, <1>2, <1>3, <1>4, <1>5, <1>6, <1>7, <1>8, <1>9, <1>10 DEF Next

-----------------------------------------------------------------------------
LEMMA JsonInductive == Spec => []JsonInv
<1>. USE AurJsonAssumption
<1>1. Init => JsonInv
  BY InitJson
<1>2. JsonInv /\ [Next]_vars => JsonInv'
  BY NextJson
<1>. QED BY <1>1, <1>2, PTL DEF Spec

\* The parser's variables have their types, whatever the reply.
THEOREM TypeCorrect == Spec => []TypeOK
<1>1. JsonInv => TypeOK
  BY DEF JsonInv
<1>. QED BY <1>1, JsonInductive, PTL

\* A reply yields a package for each of its objects or, when it is malformed or
\* cut off anywhere, none: json_start_map, json_end_map, aur_json_parse.
THEOREM ParsedWhole == Spec => []AllOrNothing
<1>1. JsonInv => AllOrNothing
  BY DEF JsonInv, DepthInv, AllOrNothing
<1>. QED BY <1>1, JsonInductive, PTL

\* The list json_end_map builds by inserting is sorted by votes, or by name when
\* every package has one.
THEOREM ParsedSorted == Spec => []SortedWhenNamed
<1>1. JsonInv => SortedWhenNamed
  BY DEF JsonInv
<1>. QED BY <1>1, JsonInductive, PTL

\* No package takes a string that stood under another key, as long as no package
\* holds a map and every key is known: json_key, json_string.
THEOREM ParsedFields == Spec => []FieldUnderItsKey
<1>1. JsonInv => FieldUnderItsKey
  BY DEF JsonInv
<1>. QED BY <1>1, JsonInductive, PTL
=============================================================================
