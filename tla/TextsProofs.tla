----------------------------- MODULE TextsProofs -----------------------------
(***************************************************************************)
(* For all texts, of whatever length and characters: what the loops of     *)
(* Strings compute is what the properties of Texts say of positions.       *)
(***************************************************************************)
EXTENDS Texts, Counting, SequenceTheorems

\* The kind of a text is chosen once, and what is written is of its characters.
Written ==
  /\ kind \in Kinds
  /\ text \in Seq(Alphabet[kind]) /\ other \in Seq(Alphabet[kind])

LEMMA WrittenInductive == Spec => []Written
<1>1. Init => Written
  BY DEF Init, Written
<1>2. Written /\ [Next]_vars => Written'
  <2>. SUFFICES ASSUME Written, [Next]_vars PROVE Written'
    OBVIOUS
  <2>1. ASSUME NEW c \in Alphabet[kind], Write(c) PROVE Written'
    BY <2>1 DEF Write, Written
  <2>2. ASSUME NEW c \in Alphabet[kind], WriteOther(c) PROVE Written'
    BY <2>2 DEF WriteOther, Written
  <2>3. CASE UNCHANGED vars
    BY <2>3 DEF Written, vars
  <2>. QED BY <2>1, <2>2, <2>3 DEF Next
<1>. QED BY <1>1, <1>2, PTL DEF Spec

\* A text of any kind is a text of characters.
LEMMA WrittenText ==
  ASSUME Written
  PROVE  text \in Seq(Char) /\ other \in Seq(Char)
<1>1. Alphabet[kind] \subseteq Char
  BY TextsAssumption DEF Written
<1>. QED BY <1>1, SeqMonotonic DEF Written

-----------------------------------------------------------------------------
(***************************************************************************)
(* Searching.                                                              *)
(***************************************************************************)
LEMMA LeastOf ==
  ASSUME NEW S \in SUBSET Nat, S # {}
  PROVE  Least(S) \in S /\ \A j \in S : Least(S) <= j
BY LeastNat DEF Least

\* A part of a text from its m-th to its n-th character, be it empty.
LEMMA PartOf ==
  ASSUME NEW s \in Seq(Char), NEW m \in Nat \ {0}, NEW n \in Nat, n <= Len(s)
  PROVE  /\ SubSeq(s, m, n) \in Seq(Char)
         /\ Len(SubSeq(s, m, n)) = IF m <= n THEN n - m + 1 ELSE 0
         /\ \A i \in 1..(n - m + 1) : SubSeq(s, m, n)[i] = s[m + i - 1]
<1>1. \A i \in m..n : s[i] \in Char
  OBVIOUS
<1>. QED BY <1>1, SubSeqProperties

\* A text of one character.
LEMMA SingleOf ==
  ASSUME NEW S, NEW u \in Seq(S), Len(u) = 1
  PROVE  u = <<u[1]>>
<1>1. <<u[1]>> \in Seq(S) /\ Len(<<u[1]>>) = 1 /\ <<u[1]>>[1] = u[1]
  OBVIOUS
<1> DEFINE v == <<u[1]>>
<1>2. v \in Seq(S) /\ Len(v) = Len(u) /\ \A i \in 1..Len(u) : v[i] = u[i]
  BY <1>1
<1>3. u = v
  <2>. HIDE DEF v
  <2>. QED BY <1>2, SeqEqual
<1>. QED BY <1>3

\* strstr for one character: its first place from i on, or 0.
LEMMA FirstOf ==
  ASSUME NEW s \in Seq(Char), NEW i \in Nat \ {0}, NEW c
  PROVE  LET j == strstr(s, i, <<c>>)
         IN  \/ j = 0 /\ \A k \in i..Len(s) : s[k] # c
             \/ /\ j \in i..Len(s) /\ s[j] = c
                /\ \A k \in i..(j - 1) : s[k] # c
<1> DEFINE S == {k \in i..Len(s) : IsAt(s, k, <<c>>)}
<1>1. ASSUME NEW k \in i..Len(s) PROVE IsAt(s, k, <<c>>) <=> s[k] = c
  <2>1. /\ SubSeq(s, k, k) \in Seq(Char) /\ Len(SubSeq(s, k, k)) = 1
        /\ SubSeq(s, k, k)[1] = s[k]
    BY PartOf
  <2>2. Len(<<c>>) = 1 /\ <<c>>[1] = c /\ k + 1 - 1 = k
    OBVIOUS
  <2>3. IsAt(s, k, <<c>>) <=> SubSeq(s, k, k) = <<c>>
    BY <2>2 DEF IsAt
  <2>4. SubSeq(s, k, k) = <<s[k]>>
    BY <2>1, SingleOf
  <2>. QED BY <2>2, <2>3, <2>4
<1>2. S = {k \in i..Len(s) : s[k] = c} /\ S \in SUBSET Nat
  BY <1>1
<1>3. strstr(s, i, <<c>>) = Least(S)
  BY DEF strstr
<1>4. CASE S = {}
  BY <1>2, <1>3, <1>4 DEF Least
<1>5. CASE S # {}
  <2>1. Least(S) \in S /\ \A k \in S : Least(S) <= k
    <3>. HIDE DEF S
    <3>. QED BY <1>2, <1>5, LeastOf
  <2>. QED BY <1>2, <1>3, <2>1
<1>. QED BY <1>4, <1>5

-----------------------------------------------------------------------------
(***************************************************************************)
(* The memory of strings.                                                  *)
(***************************************************************************)
\* string_ncat's loop: its size doubles at least once for each number that is
\* still too large for it.
LEMMA GrownHolds ==
  ASSUME NEW size \in Nat \ {0}, NEW n \in Nat
  PROVE  Grown(size, n) \in Nat /\ Grown(size, n) > n
<1> DEFINE F == [k \in 1..n |-> [d \in Nat |-> Doubled(d, n)]]
           st[k \in 0..n] == IF k = 0 THEN size ELSE Doubled(st[k - 1], n)
           G == [k \in 0..n |-> {d \in Nat \ {0} : d > k \/ d > n}]
<1>1. \A d \in Nat : Doubled(d, n) \in Nat
  BY DEF Doubled
<1>2. F \in [1..n -> [Nat -> Nat]]
  BY <1>1
<1>3. PICK g \in [0..n -> Nat] : IsLoop(g, n, size, F)
  <2>. HIDE DEF F
  <2>. QED BY <1>2, LoopExists
<1>4. g = [k \in 0..n |-> IF k = 0 THEN size ELSE Doubled(g[k - 1], n)]
  <2>1. \A k \in 0..n \ {0} : k \in 1..n /\ g[k - 1] \in Nat
    OBVIOUS
  <2>. QED BY <1>3, <2>1 DEF IsLoop
<1>5. st = [k \in 0..n |-> IF k = 0 THEN size ELSE Doubled(st[k - 1], n)]
  BY <1>4
<1>6. Grown(size, n) = st[n]
  BY DEF Grown
<1>. HIDE DEF st
<1>7. st[0] \in G[0]
  BY <1>5
<1>8. ASSUME NEW k \in 1..n, st[k - 1] \in G[k - 1] PROVE st[k] \in G[k]
  <2>1. st[k] = Doubled(st[k - 1], n) /\ k \in 0..n /\ k - 1 \in 0..n
    BY <1>5
  <2>2. st[k - 1] \in Nat \ {0} /\ (st[k - 1] > k - 1 \/ st[k - 1] > n)
    BY <1>8, <2>1
  <2>3. Doubled(st[k - 1], n) \in Nat \ {0} /\ (Doubled(st[k - 1], n) > k \/ Doubled(st[k - 1], n) > n)
    BY SMTT(30), <2>2 DEF Doubled
  <2>. QED BY <2>1, <2>3
<1>9. \A k \in 0..n : st[k] \in G[k]
  <2>. HIDE DEF F, G
  <2>. QED BY <1>7, <1>8, LoopInvariant
<1>. QED BY <1>6, <1>9

\* A string_t that counts its text, and has room for it and its terminator.
Holding == {str \in [size : Nat, used : Nat, s : Seq(Char)] :
              str.used = Len(str.s) /\ str.used < str.size}

LEMMA CatHolds ==
  ASSUME NEW dest \in Holding, NEW src \in Seq(Char)
  PROVE  string_cat(dest, src) \in Holding /\ string_cat(dest, src).s = dest.s \o src
<1>1. dest.size \in Nat \ {0} /\ dest.used \in Nat /\ dest.s \in Seq(Char) /\ dest.used = Len(dest.s)
  BY DEF Holding
<1>2. /\ Grown(dest.size, dest.used + Len(src)) \in Nat
      /\ Grown(dest.size, dest.used + Len(src)) > dest.used + Len(src)
  <2>1. dest.used + Len(src) \in Nat
    BY <1>1
  <2>. QED BY <1>1, <2>1, GrownHolds
<1>3. dest.s \o src \in Seq(Char) /\ Len(dest.s \o src) = Len(dest.s) + Len(src)
  BY <1>1, ConcatProperties
<1>. QED BY <1>1, <1>2, <1>3 DEF string_cat, Holding

LEMMA NewHolds == string_new \in Holding /\ string_new.s = <<>>
BY StringsAssumption DEF string_new, Holding

LEMMA InfoText == \A letter : Info(letter) \in Seq(Char)
<1>1. <<"-">> \in Seq(Char)
  BY StringsAssumption
<1>. QED BY <1>1, StringsAssumption DEF Info

PkgStates == [ptr : Nat \ {0}, ret : Holding]

\* What pkg_to_str finds and appends in a round.
LEMMA PkgRound ==
  ASSUME NEW format \in Seq(Char), NEW st \in PkgStates
  PROVE  PkgStep(format, st) \in PkgStates
<1> DEFINE c == strstr(format, st.ptr, <<"%">>)
           before == SubSeq(format, st.ptr, c - 1)
           what == IF format[c + 1] = "%" THEN <<"%", "%">> ELSE Info(format[c + 1])
<1>1. st.ptr \in Nat \ {0} /\ st.ret \in Holding
  BY DEF PkgStates
<1>2. c = 0 \/ (c \in st.ptr..Len(format) /\ format[c] = "%")
  BY <1>1, FirstOf
<1>3. CASE c = 0 \/ c = Len(format)
  BY <1>3 DEF PkgStep
<1>4. CASE c # 0 /\ c # Len(format)
  <2>1. c \in Nat \ {0} /\ c + 1 \in 1..Len(format)
    BY <1>1, <1>2, <1>4
  <2>2. before \in Seq(Char)
    BY <1>1, <2>1, PartOf
  <2>3. <<"%", "%">> \in Seq(Char)
    BY StringsAssumption
  <2>4. what \in Seq(Char)
    BY <2>3, InfoText
  <2>5. PkgStep(format, st) = [ptr |-> Skipped(c), ret |-> string_cat(string_cat(st.ret, before), what)]
    BY <1>4 DEF PkgStep
  <2>6. Skipped(c) \in Nat \ {0}
    BY <2>1 DEF Skipped
  <2>. HIDE DEF before, what, c
  <2>7. string_cat(string_cat(st.ret, before), what) \in Holding
    BY <1>1, <2>2, <2>4, CatHolds
  <2>. QED BY <2>5, <2>6, <2>7 DEF PkgStates
<1>. QED BY <1>3, <1>4

\* pkg_to_str is the last of its rounds and what is left of the format then.
LEMMA PkgLoop ==
  ASSUME NEW format \in Seq(Char)
  PROVE  \E st \in [0..Len(format) -> PkgStates] :
           /\ st[0] = [ptr |-> 1, ret |-> string_new]
           /\ \A k \in 1..Len(format) : st[k] = PkgStep(format, st[k - 1])
           /\ pkg_to_str(format)
                = string_cat(st[Len(format)].ret, From(format, st[Len(format)].ptr))
<1> DEFINE n == Len(format)
           b == [ptr |-> 1, ret |-> string_new]
           F == [k \in 1..n |-> [u \in PkgStates |-> PkgStep(format, u)]]
           st[k \in 0..n] == IF k = 0 THEN b ELSE PkgStep(format, st[k - 1])
<1>1. n \in Nat /\ b \in PkgStates
  BY NewHolds DEF PkgStates
<1>2. F \in [1..n -> [PkgStates -> PkgStates]]
  BY PkgRound
<1>3. PICK g \in [0..n -> PkgStates] : IsLoop(g, n, b, F)
  <2>. HIDE DEF F, n, b
  <2>. QED BY <1>1, <1>2, LoopExists
<1>4. g = [k \in 0..n |-> IF k = 0 THEN b ELSE PkgStep(format, g[k - 1])]
  <2>1. \A k \in 0..n \ {0} : k \in 1..n /\ g[k - 1] \in PkgStates
    BY <1>1
  <2>. HIDE DEF b
  <2>. QED BY <1>3, <2>1 DEF IsLoop
<1>5. st = [k \in 0..n |-> IF k = 0 THEN b ELSE PkgStep(format, st[k - 1])]
  BY <1>4
<1>6. pkg_to_str(format) = string_cat(st[n].ret, From(format, st[n].ptr))
  BY DEF pkg_to_str
<1>. HIDE DEF st
<1>7. st[0] = b /\ \A k \in 1..n : st[k] = PkgStep(format, st[k - 1])
  <2>. HIDE DEF b
  <2>. QED BY <1>1, <1>5
<1>8. st \in [0..n -> PkgStates]
  <2>1. \A k \in 1..n : st[k - 1] \in PkgStates => st[k] \in PkgStates
    BY <1>7, PkgRound
  <2>2. st = [k \in 0..n |-> st[k]]
    BY <1>5
  <2>. HIDE DEF F, n, b
  <2>. QED BY <1>1, <1>7, <2>1, <2>2, LoopType
<1>. QED BY <1>6, <1>7, <1>8

-----------------------------------------------------------------------------
FormatStates == [s : Seq(Char), c : Nat \ {0}]

LEMMA FormatRound ==
  ASSUME NEW st \in FormatStates
  PROVE  FormatStep(st) \in FormatStates
<1> DEFINE c == strstr(st.s, st.c, <<"\\">>)
           replaced == c < Len(st.s) /\ st.s[c + 1] \in DOMAIN Translation
           new == Upto(st.s, c - 1) \o <<Translation[st.s[c + 1]]>> \o From(st.s, c + 2)
<1>1. st.s \in Seq(Char) /\ st.c \in Nat \ {0}
  BY DEF FormatStates
<1>2. c = 0 \/ c \in st.c..Len(st.s)
  BY <1>1, FirstOf
<1>3. CASE c = 0
  <2>1. FormatStep(st) = [st EXCEPT !.c = Len(st.s) + 1]
    BY <1>3 DEF FormatStep
  <2>. QED BY <1>1, <2>1 DEF FormatStates
<1>4. CASE c # 0
  <2>1. c \in Nat \ {0}
    BY <1>1, <1>2, <1>4
  <2>2. FormatStep(st) = [s |-> IF replaced THEN new ELSE st.s, c |-> NextFrom(c, replaced)]
    BY <1>4 DEF FormatStep
  <2>3. NextFrom(c, replaced) \in Nat \ {0}
    BY <2>1 DEF NextFrom
  <2>4. ASSUME replaced PROVE new \in Seq(Char)
    <3>1. <<Translation[st.s[c + 1]]>> \in Seq(Char)
      BY <2>4, StringsAssumption
    <3>2. Upto(st.s, c - 1) \in Seq(Char) /\ From(st.s, c + 2) \in Seq(Char)
      BY <1>1, <1>2, <2>1, PartOf DEF Upto, From
    <3>. QED BY <3>1, <3>2, ConcatProperties
  <2>. HIDE DEF c, new, replaced
  <2>. QED BY <1>1, <2>2, <2>3, <2>4 DEF FormatStates
<1>. QED BY <1>3, <1>4

\* format_str is the text of its last round.
LEMMA FormatLoop ==
  ASSUME NEW str \in Seq(Char)
  PROVE  \E st \in [0..Len(str) -> FormatStates] :
           /\ st[0] = [s |-> str, c |-> 1]
           /\ \A k \in 1..Len(str) : st[k] = FormatStep(st[k - 1])
           /\ format_str(str) = st[Len(str)].s
<1> DEFINE n == Len(str)
           b == [s |-> str, c |-> 1]
           F == [k \in 1..n |-> [u \in FormatStates |-> FormatStep(u)]]
           st[k \in 0..n] == IF k = 0 THEN b ELSE FormatStep(st[k - 1])
<1>1. n \in Nat /\ b \in FormatStates
  BY DEF FormatStates
<1>2. F \in [1..n -> [FormatStates -> FormatStates]]
  BY FormatRound
<1>3. PICK g \in [0..n -> FormatStates] : IsLoop(g, n, b, F)
  <2>. HIDE DEF F, n, b
  <2>. QED BY <1>1, <1>2, LoopExists
<1>4. g = [k \in 0..n |-> IF k = 0 THEN b ELSE FormatStep(g[k - 1])]
  <2>1. \A k \in 0..n \ {0} : k \in 1..n /\ g[k - 1] \in FormatStates
    BY <1>1
  <2>. HIDE DEF b
  <2>. QED BY <1>3, <2>1 DEF IsLoop
<1>5. st = [k \in 0..n |-> IF k = 0 THEN b ELSE FormatStep(st[k - 1])]
  BY <1>4
<1>6. format_str(str) = st[n].s
  BY DEF format_str
<1>. HIDE DEF st
<1>7. st[0] = b /\ \A k \in 1..n : st[k] = FormatStep(st[k - 1])
  <2>. HIDE DEF b
  <2>. QED BY <1>1, <1>5
<1>8. st \in [0..n -> FormatStates]
  <2>1. \A k \in 1..n : st[k - 1] \in FormatStates => st[k] \in FormatStates
    BY <1>7, FormatRound
  <2>2. st = [k \in 0..n |-> st[k]]
    BY <1>5
  <2>. HIDE DEF F, n, b
  <2>. QED BY <1>1, <1>7, <2>1, <2>2, LoopType
<1>. QED BY <1>6, <1>7, <1>8

-----------------------------------------------------------------------------
LEMMA EntryTexts ==
  ASSUME NEW e \in Char
  PROVE  /\ EntryText(e) \in Seq(Char)
         /\ Len(EntryText(e)) = IF EntryText(e) # <<>> THEN 1 ELSE 0
         /\ e = "null" => EntryText(e) = <<>>
<1>1. <<e>> \in Seq(Char) /\ <<>> \in Seq(Char) /\ <<e>> # <<>> /\ Len(<<e>>) = 1 /\ Len(<<>>) = 0
  OBVIOUS
<1>. QED BY <1>1 DEF EntryText

\* The entries up to the i-th that have a delimiter before them, or a text.
Delimited(entries, i) == {j \in 1..i : j # 1 /\ entries[j] # "null"}
Filled(entries, i)    == {j \in 1..i : EntryText(entries[j]) # <<>>}

ListStep(entries, delimiter, ret, i) ==
  IF entries[i] = "null" THEN ret
  ELSE ret \o (IF i = 1 THEN <<>> ELSE delimiter) \o EntryText(entries[i])

LEMMA ListRound ==
  ASSUME NEW entries \in Seq(Char), NEW delimiter \in Seq(Char), NEW ret \in Seq(Char),
         NEW i \in 1..Len(entries)
  PROVE  /\ ListStep(entries, delimiter, ret, i) \in Seq(Char)
         /\ Len(ListStep(entries, delimiter, ret, i))
              = Len(ret) + (IF i # 1 /\ entries[i] # "null" THEN Len(delimiter) ELSE 0)
                         + (IF EntryText(entries[i]) # <<>> THEN 1 ELSE 0)
<1> DEFINE d == IF i = 1 THEN <<>> ELSE delimiter
           e == EntryText(entries[i])
<1>1. /\ e \in Seq(Char) /\ Len(e) = IF e # <<>> THEN 1 ELSE 0
      /\ entries[i] = "null" => e = <<>>
  <2>1. entries[i] \in Char
    OBVIOUS
  <2>. QED BY <2>1, EntryTexts
<1>2. d \in Seq(Char) /\ Len(d) = IF i = 1 THEN 0 ELSE Len(delimiter)
  OBVIOUS
<1>3. ret \o d \o e \in Seq(Char) /\ Len(ret \o d \o e) = Len(ret) + Len(d) + Len(e)
  <2>. HIDE DEF d, e
  <2> DEFINE r == ret \o d
  <2>1. r \in Seq(Char) /\ Len(r) = Len(ret) + Len(d)
    BY <1>2, ConcatProperties
  <2>. HIDE DEF r
  <2>2. r \o e \in Seq(Char) /\ Len(r \o e) = Len(r) + Len(e)
    BY <1>1, <2>1, ConcatProperties
  <2>. QED BY <2>1, <2>2 DEF r
<1>4. ListStep(entries, delimiter, ret, i) = IF entries[i] = "null" THEN ret ELSE ret \o d \o e
  BY DEF ListStep
<1>5. EntryText(entries[i]) = e
  OBVIOUS
<1> DEFINE r == ret \o d \o e
<1>6. Len(r) = Len(ret) + Len(d) + Len(e) /\ r \in Seq(Char)
      /\ ListStep(entries, delimiter, ret, i) = IF entries[i] = "null" THEN ret ELSE r
  BY <1>3, <1>4
<1>. HIDE DEF d, e, r
<1>7. CASE entries[i] = "null"
  BY <1>1, <1>5, <1>6, <1>7
<1>8. CASE entries[i] # "null"
  BY <1>1, <1>2, <1>5, <1>6, <1>8
<1>. QED BY <1>7, <1>8

\* How many have a delimiter, or a text, grows by one where there is one.
LEMMA CountedOne ==
  ASSUME NEW P, NEW i \in Nat
  PROVE  LET S(k) == {j \in 1..k : j \in P}
         IN  /\ Cardinality(S(i)) \in Nat
             /\ Cardinality(S(i + 1)) = Cardinality(S(i)) + (IF i + 1 \in P THEN 1 ELSE 0)
             /\ Cardinality(S(0)) = 0
<1> DEFINE S(k) == {j \in 1..k : j \in P}
<1>1. IsFiniteSet(S(i)) /\ i + 1 \notin S(i)
  <2>1. S(i) \subseteq 1..i /\ IsFiniteSet(1..i)
    BY FS_Interval
  <2>. QED BY <2>1, FS_Subset
<1>2. Cardinality(S(i)) \in Nat
  BY <1>1, FS_CardinalityType
<1>3. S(i + 1) = IF i + 1 \in P THEN S(i) \cup {i + 1} ELSE S(i)
  OBVIOUS
<1>4. S(0) = {}
  OBVIOUS
<1>5. Cardinality(S(0)) = 0
  BY <1>4, FS_EmptySet
<1>6. Cardinality(S(i) \cup {i + 1}) = Cardinality(S(i)) + 1
  <2>. HIDE DEF S
  <2>. QED BY <1>1, FS_AddElement
<1>7. Cardinality(S(i + 1)) = Cardinality(S(i)) + (IF i + 1 \in P THEN 1 ELSE 0)
  <2>. HIDE DEF S
  <2>. QED BY <1>2, <1>3, <1>6
<1>. QED BY <1>2, <1>5, <1>7

LEMMA Distributes ==
  ASSUME NEW a \in Nat, NEW b \in Nat
  PROVE  a * (b + 1) = a * b + a /\ a * b \in Nat /\ a * 0 = 0
OBVIOUS

\* The second loop of the concat functions writes as much as the first counted.
LEMMA ListLoop ==
  ASSUME NEW entries \in Seq(Char), NEW delimiter \in Seq(Char)
  PROVE  \E ret \in [0..Len(entries) -> Seq(Char)] :
           /\ ret[0] = <<>>
           /\ \A i \in 1..Len(entries) : ret[i] = ListStep(entries, delimiter, ret[i - 1], i)
           /\ LET len == Separators(entries, Len(delimiter))
                         + Cardinality({i \in DOMAIN entries : EntryText(entries[i]) # <<>>})
              IN concat_list(entries, delimiter)
                   = IF len = 0 THEN [size |-> 0, s |-> <<>>]
                     ELSE [size |-> len + 1, s |-> ret[Len(entries)]]
<1> DEFINE n == Len(entries)
           U == Seq(Char)
           b == <<>>
           F == [i \in 1..n |-> [u \in U |-> ListStep(entries, delimiter, u, i)]]
           ret[i \in 0..n] ==
             IF i = 0 THEN <<>> ELSE IF entries[i] = "null" THEN ret[i - 1]
             ELSE ret[i - 1] \o (IF i = 1 THEN <<>> ELSE delimiter) \o EntryText(entries[i])
<1>1. n \in Nat /\ b \in U
  OBVIOUS
<1>2. \A i \in 1..n : \A u \in U : ListStep(entries, delimiter, u, i) \in U
  BY ListRound
<1>3. F \in [1..n -> [U -> U]]
  BY <1>2
<1>4. PICK g \in [0..n -> U] : IsLoop(g, n, b, F)
  <2>. HIDE DEF F, n, b, U
  <2>. QED BY <1>1, <1>3, LoopExists
<1>5. \A i \in 0..n : g[i] = IF i = 0 THEN <<>> ELSE ListStep(entries, delimiter, g[i - 1], i)
  <2>1. \A i \in 0..n \ {0} : i \in 1..n /\ g[i - 1] \in U
    BY <1>1
  <2>. HIDE DEF U
  <2>. QED BY <1>4, <2>1 DEF IsLoop
<1>6. g = [i \in 0..n |->
             IF i = 0 THEN <<>> ELSE IF entries[i] = "null" THEN g[i - 1]
             ELSE g[i - 1] \o (IF i = 1 THEN <<>> ELSE delimiter) \o EntryText(entries[i])]
  <2>. HIDE DEF U
  <2>. QED BY <1>5 DEF ListStep
<1>7. ret = [i \in 0..n |->
             IF i = 0 THEN <<>> ELSE IF entries[i] = "null" THEN ret[i - 1]
             ELSE ret[i - 1] \o (IF i = 1 THEN <<>> ELSE delimiter) \o EntryText(entries[i])]
  <2>. HIDE DEF F, U, b
  <2>. QED BY <1>6
<1> DEFINE len == Separators(entries, Len(delimiter))
                  + Cardinality({i \in DOMAIN entries : EntryText(entries[i]) # <<>>})
<1>8. concat_list(entries, delimiter) = IF len = 0 THEN [size |-> 0, s |-> <<>>]
                                        ELSE [size |-> len + 1, s |-> ret[n]]
  BY DEF concat_list
<1>. HIDE DEF ret
<1>9. ret[0] = <<>> /\ \A i \in 1..n : ret[i] = ListStep(entries, delimiter, ret[i - 1], i)
  <2>1. \A i \in 0..n : ret[i] = IF i = 0 THEN <<>> ELSE ListStep(entries, delimiter, ret[i - 1], i)
    <3>. HIDE DEF len, F, U, b
    <3>. QED BY <1>7 DEF ListStep
  <2>. QED BY SMTT(30), <1>1, <2>1
<1>10. ret \in [0..n -> U]
  <2>1. \A i \in 1..n : ret[i - 1] \in U => ret[i] \in U
    <3>. HIDE DEF U
    <3>. QED BY <1>2, <1>9
  <2>2. ret = [i \in 0..n |-> ret[i]]
    BY <1>7
  <2>. HIDE DEF F, n, U
  <2>. QED BY ZenonT(30), <1>1, <1>9, <2>1, <2>2, LoopType
<1>. QED BY <1>8, <1>9, <1>10

\* The memory of a list is the text written into it and its terminator.
LEMMA ListHolds ==
  ASSUME NEW entries \in Seq(Char), NEW delimiter \in Seq(Char)
  PROVE  LET list == concat_list(entries, delimiter)
         IN  list.s = <<>> \/ list.size = Len(list.s) + 1
<1> DEFINE n == Len(entries)
           l == Len(delimiter)
           P == {j \in 1..n : j # 1 /\ entries[j] # "null"}
           Q == {j \in 1..n : EntryText(entries[j]) # <<>>}
           D(i) == Cardinality({j \in 1..i : j \in P})
           T(i) == Cardinality({j \in 1..i : j \in Q})
           len == Separators(entries, l) + Cardinality({i \in DOMAIN entries : EntryText(entries[i]) # <<>>})
<1>1. n \in Nat /\ l \in Nat /\ DOMAIN entries = 1..n
  OBVIOUS
<1>2. PICK ret \in [0..n -> Seq(Char)] :
        /\ ret[0] = <<>>
        /\ \A i \in 1..n : ret[i] = ListStep(entries, delimiter, ret[i - 1], i)
        /\ concat_list(entries, delimiter) = IF len = 0 THEN [size |-> 0, s |-> <<>>]
                                             ELSE [size |-> len + 1, s |-> ret[n]]
  BY ListLoop
<1>3. len = l * D(n) + T(n)
  <2>1. {i \in DOMAIN entries : i # 1 /\ entries[i] # "null"} = {j \in 1..n : j \in P}
    BY <1>1
  <2>2. {i \in DOMAIN entries : EntryText(entries[i]) # <<>>} = {j \in 1..n : j \in Q}
    BY <1>1
  <2>. QED BY <2>1, <2>2 DEF Separators
<1>4. \A i \in Nat : /\ D(i) \in Nat /\ D(i + 1) = D(i) + (IF i + 1 \in P THEN 1 ELSE 0)
                     /\ T(i) \in Nat /\ T(i + 1) = T(i) + (IF i + 1 \in Q THEN 1 ELSE 0)
                     /\ D(0) = 0 /\ T(0) = 0
  <2>. HIDE DEF P, Q
  <2>. QED BY CountedOne
<1> DEFINE G == [i \in 0..n |-> {u \in Seq(Char) : Len(u) = l * D(i) + T(i)}]
<1>. HIDE DEF D, T, len
<1>5. ret[0] \in G[0]
  <2>1. Len(<<>>) = 0 /\ <<>> \in Seq(Char) /\ 0 \in 0..n /\ 0 \in Nat
    BY <1>1
  <2>2. l * D(0) + T(0) = 0
    BY <1>1, <1>4, <2>1, Distributes
  <2>. QED BY <1>2, <2>1, <2>2
<1>6. ASSUME NEW i \in 1..n, ret[i - 1] \in G[i - 1] PROVE ret[i] \in G[i]
  <2>1. i - 1 \in 0..n /\ i \in 0..n /\ i - 1 \in Nat /\ (i - 1) + 1 = i
    BY <1>1
  <2>2. ret[i - 1] \in Seq(Char) /\ Len(ret[i - 1]) = l * D(i - 1) + T(i - 1)
    BY <1>6, <2>1
  <2>3. /\ ret[i] \in Seq(Char)
        /\ Len(ret[i]) = Len(ret[i - 1]) + (IF i \in P THEN l ELSE 0) + (IF i \in Q THEN 1 ELSE 0)
    <3>1. ret[i] = ListStep(entries, delimiter, ret[i - 1], i)
      BY <1>2
    <3>2. (i \in P <=> i # 1 /\ entries[i] # "null") /\ (i \in Q <=> EntryText(entries[i]) # <<>>)
      OBVIOUS
    <3>3. i \in 1..Len(entries)
      OBVIOUS
    <3> DEFINE r == ret[i - 1]
               v == ListStep(entries, delimiter, r, i)
    <3>4. /\ v \in Seq(Char)
          /\ Len(v) = Len(r) + (IF i # 1 /\ entries[i] # "null" THEN l ELSE 0)
                              + (IF EntryText(entries[i]) # <<>> THEN 1 ELSE 0)
      <4>1. r \in Seq(Char)
        BY <2>2
      <4>. HIDE DEF r, P, Q, n, G
      <4>. QED BY <3>3, <4>1, ListRound
    <3>5. ret[i] = v
      BY <3>1
    <3>. HIDE DEF P, Q, n, G, v, l
    <3>. QED BY <3>2, <3>4, <3>5
  <2>4. /\ D(i - 1) \in Nat /\ D(i) = D(i - 1) + (IF i \in P THEN 1 ELSE 0)
        /\ T(i - 1) \in Nat /\ T(i) = T(i - 1) + (IF i \in Q THEN 1 ELSE 0)
    BY <1>4, <2>1
  <2>. HIDE DEF P, Q
  <2>5. l * D(i) = l * D(i - 1) + (IF i \in P THEN l ELSE 0) /\ l * D(i - 1) \in Nat
    BY <1>1, <2>4, Distributes
  <2>6. Len(ret[i]) = l * D(i) + T(i)
    <3> DEFINE a == l * D(i - 1)
               b == l * D(i)
    <3>1. /\ a \in Nat /\ b = a + (IF i \in P THEN l ELSE 0)
          /\ Len(ret[i - 1]) = a + T(i - 1)
      BY <2>2, <2>5
    <3>. HIDE DEF a, b, G
    <3>2. Len(ret[i]) = b + T(i)
      BY SMTT(30), <1>1, <2>3, <2>4, <3>1
    <3>. QED BY <3>2 DEF b
  <2>. QED BY <2>1, <2>3, <2>6
<1>7. \A i \in 0..n : ret[i] \in G[i]
  <2>. HIDE DEF G, n
  <2>. QED BY <1>1, <1>5, <1>6, LoopInvariant
<1>8. Len(ret[n]) = len
  BY <1>1, <1>3, <1>7
<1>. QED BY <1>2, <1>8

LEMMA FormatText ==
  ASSUME NEW str \in Seq(Char)
  PROVE  format_str(str) \in Seq(Char)
<1>1. PICK st \in [0..Len(str) -> FormatStates] : format_str(str) = st[Len(str)].s
  BY FormatLoop
<1>2. st[Len(str)] \in FormatStates
  OBVIOUS
<1>. QED BY <1>1, <1>2 DEF FormatStates

LEMMA PkgHolds ==
  ASSUME NEW format \in Seq(Char)
  PROVE  pkg_to_str(format) \in Holding
<1> DEFINE n == Len(format)
<1>1. PICK st \in [0..n -> PkgStates] :
        pkg_to_str(format) = string_cat(st[n].ret, From(format, st[n].ptr))
  BY PkgLoop
<1>2. st[n].ptr \in Nat \ {0} /\ st[n].ret \in Holding
  <2>1. st[n] \in PkgStates
    OBVIOUS
  <2>. QED BY <2>1 DEF PkgStates
<1>3. From(format, st[n].ptr) \in Seq(Char)
  BY <1>2, PartOf DEF From
<1>. QED BY <1>1, <1>2, <1>3, CatHolds

\* Whatever the format, its values and escapes, and however long the texts of a
\* list and the delimiter: string_ncat never has less memory than its text and
\* the terminator need, and the concat functions allocate what they write.
THEOREM BuffersHold == Spec => []BuffersSuffice
<1>1. ASSUME Written PROVE BuffersSuffice
  <2>1. text \in Seq(Char) /\ other \in Seq(Char)
    BY <1>1, WrittenText
  <2>2. pkg_to_str(format_str(text)) \in Holding
    BY <2>1, FormatText, PkgHolds
  <2>3. LET list == concat_list(text, other) IN list.s = <<>> \/ list.size = Len(list.s) + 1
    BY <2>1, ListHolds
  <2>. QED BY <2>2, <2>3 DEF BuffersSuffice, Holding
<1>. QED BY <1>1, WrittenInductive, PTL

-----------------------------------------------------------------------------
(***************************************************************************)
(* Distances.  What the cells of both tables stand for: the first m        *)
(* characters of s against the first n of t.                               *)
(***************************************************************************)
CostUpto(s, t, m, n, p) ==
  (m - Cardinality(DOMAIN p)) + (n - Cardinality(DOMAIN p)) + Cardinality(Replaced(s, t, p))

IsLeastCost(s, t, m, n, d) ==
  /\ d \in Nat
  /\ \E p \in Pairings(m, n) : CostUpto(s, t, m, n, p) = d
  /\ \A p \in Pairings(m, n) : d <= CostUpto(s, t, m, n, p)

Keeps(s, t, p) == Replaced(s, t, p) = {}

IsMostKept(s, t, m, n, d) ==
  /\ d \in Nat
  /\ \E p \in Pairings(m, n) : Keeps(s, t, p) /\ Cardinality(DOMAIN p) = d
  /\ \A p \in Pairings(m, n) : Keeps(s, t, p) => Cardinality(DOMAIN p) <= d

\* The pairing p and the pair of m and n, which are behind it.
Extended(p, m, n) == [i \in DOMAIN p \cup {m} |-> IF i = m THEN n ELSE p[i]]

LEMMA PairingType ==
  ASSUME NEW m \in Nat, NEW n \in Nat, NEW p \in Pairings(m, n), NEW s, NEW t
  PROVE  /\ DOMAIN p \subseteq 1..m /\ p = [i \in DOMAIN p |-> p[i]]
         /\ \A i \in DOMAIN p : p[i] \in 1..n
         /\ \A i, j \in DOMAIN p : i < j => p[i] < p[j]
         /\ IsFiniteSet(DOMAIN p) /\ Cardinality(DOMAIN p) \in Nat
         /\ Cardinality(DOMAIN p) <= m
         /\ IsFiniteSet(Replaced(s, t, p)) /\ Cardinality(Replaced(s, t, p)) \in Nat
<1>1. PICK D \in SUBSET (1..m) : p \in [D -> 1..n]
  BY DEF Pairings
<1>2. \A i, j \in DOMAIN p : i < j => p[i] < p[j]
  BY DEF Pairings
<1>3. IsFiniteSet(1..m) /\ Cardinality(1..m) = m
  BY FS_Interval
<1>4. DOMAIN p = D /\ D \subseteq 1..m /\ p = [i \in DOMAIN p |-> p[i]] /\ \A i \in DOMAIN p : p[i] \in 1..n
  BY <1>1
<1>5. IsFiniteSet(DOMAIN p) /\ Cardinality(DOMAIN p) <= m
  BY <1>3, <1>4, FS_Subset
<1>6. IsFiniteSet(Replaced(s, t, p))
  <2>1. Replaced(s, t, p) \subseteq DOMAIN p
    BY DEF Replaced
  <2>. QED BY <1>5, <2>1, FS_Subset
<1>7. Cardinality(DOMAIN p) \in Nat /\ Cardinality(Replaced(s, t, p)) \in Nat
  BY <1>5, <1>6, FS_CardinalityType
<1>. QED BY <1>2, <1>4, <1>5, <1>6, <1>7

\* A function is a pairing.
LEMMA IsPairing ==
  ASSUME NEW m \in Nat, NEW n \in Nat, NEW p, p = [i \in DOMAIN p |-> p[i]],
         DOMAIN p \subseteq 1..m, \A i \in DOMAIN p : p[i] \in 1..n,
         \A i, j \in DOMAIN p : i < j => p[i] < p[j]
  PROVE  p \in Pairings(m, n)
<1>1. p \in [DOMAIN p -> 1..n]
  OBVIOUS
<1>2. DOMAIN p \in SUBSET (1..m)
  OBVIOUS
<1>. QED BY <1>1, <1>2 DEF Pairings

\* With a pair more there is one pair more, and of different characters one
\* more if those two are different.
LEMMA Extending ==
  ASSUME NEW m \in Nat \ {0}, NEW n \in Nat \ {0}, NEW p \in Pairings(m - 1, n - 1), NEW s, NEW t
  PROVE  /\ Extended(p, m, n) \in Pairings(m, n)
         /\ Cardinality(DOMAIN Extended(p, m, n)) = Cardinality(DOMAIN p) + 1
         /\ Cardinality(Replaced(s, t, Extended(p, m, n)))
              = Cardinality(Replaced(s, t, p)) + (IF s[m] = t[n] THEN 0 ELSE 1)
         /\ Keeps(s, t, Extended(p, m, n)) <=> Keeps(s, t, p) /\ s[m] = t[n]
<1> DEFINE q == Extended(p, m, n)
<1>1. /\ DOMAIN p \subseteq 1..(m - 1) /\ \A i \in DOMAIN p : p[i] \in 1..(n - 1)
      /\ \A i, j \in DOMAIN p : i < j => p[i] < p[j]
      /\ IsFiniteSet(DOMAIN p) /\ Cardinality(DOMAIN p) \in Nat
      /\ IsFiniteSet(Replaced(s, t, p)) /\ Cardinality(Replaced(s, t, p)) \in Nat
  <2>1. m - 1 \in Nat /\ n - 1 \in Nat
    OBVIOUS
  <2>. QED BY <2>1, PairingType
<1>2. /\ DOMAIN q = DOMAIN p \cup {m} /\ q = [i \in DOMAIN q |-> q[i]] /\ m \notin DOMAIN p
      /\ q[m] = n /\ \A i \in DOMAIN p : q[i] = p[i]
  BY <1>1 DEF Extended
<1>. HIDE DEF q
<1>3. q \in Pairings(m, n)
  <2>1. DOMAIN q \subseteq 1..m
    BY <1>1, <1>2
  <2>2. \A i \in DOMAIN q : q[i] \in 1..n
    BY <1>1, <1>2
  <2>3. \A i, j \in DOMAIN q : i < j => q[i] < q[j]
    BY <1>1, <1>2
  <2>. QED BY <1>2, <2>1, <2>2, <2>3, IsPairing
<1>4. Cardinality(DOMAIN q) = Cardinality(DOMAIN p) + 1
  BY <1>1, <1>2, FS_AddElement
<1>5. Replaced(s, t, q) = IF s[m] = t[n] THEN Replaced(s, t, p) ELSE Replaced(s, t, p) \cup {m}
  BY <1>2 DEF Replaced
<1>6. m \notin Replaced(s, t, p)
  BY <1>2 DEF Replaced
<1>7. Cardinality(Replaced(s, t, q)) = Cardinality(Replaced(s, t, p)) + (IF s[m] = t[n] THEN 0 ELSE 1)
  <2> DEFINE R == Replaced(s, t, p)
  <2>1. Cardinality(R \cup {m}) = Cardinality(R) + 1
    <3>1. IsFiniteSet(R) /\ m \notin R
      BY <1>1, <1>6
    <3>. HIDE DEF R
    <3>. QED BY <3>1, FS_AddElement
  <2>. QED BY <1>1, <1>5, <2>1
<1>. QED BY <1>3, <1>4, <1>5, <1>7 DEF q, Keeps

\* A pairing leaves out the last character of the one text, or that of the
\* other, or it pairs both.
LEMMA LastPair ==
  ASSUME NEW m \in Nat \ {0}, NEW n \in Nat \ {0}, NEW p \in Pairings(m, n)
  PROVE  \/ p \in Pairings(m - 1, n)
         \/ p \in Pairings(m, n - 1)
         \/ \E q \in Pairings(m - 1, n - 1) : p = Extended(q, m, n)
<1>1. /\ DOMAIN p \subseteq 1..m /\ p = [i \in DOMAIN p |-> p[i]] /\ \A i \in DOMAIN p : p[i] \in 1..n
      /\ \A i, j \in DOMAIN p : i < j => p[i] < p[j]
  BY PairingType
<1>2. m - 1 \in Nat /\ n - 1 \in Nat
  OBVIOUS
<1>3. CASE m \notin DOMAIN p
  <2>1. DOMAIN p \subseteq 1..(m - 1)
    BY <1>1, <1>3
  <2>. QED BY <1>1, <1>2, <2>1, IsPairing
<1>4. CASE m \in DOMAIN p /\ p[m] # n
  <2>1. \A i \in DOMAIN p : p[i] \in 1..(n - 1)
    BY <1>1, <1>4
  <2>. QED BY <1>1, <1>2, <2>1, IsPairing
<1>5. CASE m \in DOMAIN p /\ p[m] = n
  <2> DEFINE q == [i \in DOMAIN p \ {m} |-> p[i]]
  <2>1. /\ DOMAIN q = DOMAIN p \ {m} /\ q = [i \in DOMAIN q |-> q[i]]
        /\ \A i \in DOMAIN q : q[i] = p[i]
    OBVIOUS
  <2>2. p = Extended(q, m, n)
    BY <1>1, <1>5 DEF Extended
  <2>. HIDE DEF q
  <2>3. DOMAIN q \subseteq 1..(m - 1) /\ \A i, j \in DOMAIN q : i < j => q[i] < q[j]
    BY <1>1, <2>1
  <2>4. \A i \in DOMAIN q : q[i] \in 1..(n - 1)
    BY <1>1, <1>5, <2>1
  <2>5. q \in Pairings(m - 1, n - 1)
    BY <1>2, <2>1, <2>3, <2>4, IsPairing
  <2>. QED BY <2>2, <2>5
<1>. QED BY <1>3, <1>4, <1>5

\* A pairing of shorter texts is one of longer texts.
LEMMA LongerTexts ==
  ASSUME NEW m \in Nat \ {0}, NEW n \in Nat \ {0}
  PROVE  Pairings(m - 1, n) \subseteq Pairings(m, n) /\ Pairings(m, n - 1) \subseteq Pairings(m, n)
<1>1. m - 1 \in Nat /\ n - 1 \in Nat /\ 1..(m - 1) \subseteq 1..m /\ 1..(n - 1) \subseteq 1..n
  OBVIOUS
<1>2. ASSUME NEW p \in Pairings(m - 1, n) PROVE p \in Pairings(m, n)
  <2>1. /\ DOMAIN p \subseteq 1..(m - 1) /\ p = [i \in DOMAIN p |-> p[i]] /\ \A i \in DOMAIN p : p[i] \in 1..n
        /\ \A i, j \in DOMAIN p : i < j => p[i] < p[j]
    BY <1>1, PairingType
  <2>. QED BY <1>1, <2>1, IsPairing
<1>3. ASSUME NEW p \in Pairings(m, n - 1) PROVE p \in Pairings(m, n)
  <2>1. /\ DOMAIN p \subseteq 1..m /\ p = [i \in DOMAIN p |-> p[i]] /\ \A i \in DOMAIN p : p[i] \in 1..(n - 1)
        /\ \A i, j \in DOMAIN p : i < j => p[i] < p[j]
    BY <1>1, PairingType
  <2>. QED BY <1>1, <2>1, IsPairing
<1>. QED BY <1>2, <1>3

\* A pairing gives up at most one pair when the last character of one of the
\* texts is taken away, and keeps what it keeps.
LEMMA ShorterTexts ==
  ASSUME NEW m \in Nat, NEW n \in Nat, NEW p \in Pairings(m, n), NEW s, NEW t, Keeps(s, t, p)
  PROVE  /\ m # 0 => \E q \in Pairings(m - 1, n) :
                       Keeps(s, t, q) /\ Cardinality(DOMAIN p) <= Cardinality(DOMAIN q) + 1
         /\ n # 0 => \E q \in Pairings(m, n - 1) :
                       Keeps(s, t, q) /\ Cardinality(DOMAIN p) <= Cardinality(DOMAIN q) + 1
<1>1. /\ DOMAIN p \subseteq 1..m /\ p = [i \in DOMAIN p |-> p[i]] /\ \A i \in DOMAIN p : p[i] \in 1..n
      /\ \A i, j \in DOMAIN p : i < j => p[i] < p[j]
      /\ IsFiniteSet(DOMAIN p) /\ Cardinality(DOMAIN p) \in Nat
  BY PairingType
<1> DEFINE Without(x) == [i \in DOMAIN p \ {x} |-> p[i]]
<1>2. ASSUME NEW x
      PROVE  /\ DOMAIN Without(x) = DOMAIN p \ {x} /\ Without(x) = [i \in DOMAIN Without(x) |-> Without(x)[i]]
             /\ \A i \in DOMAIN Without(x) : Without(x)[i] = p[i]
             /\ Keeps(s, t, Without(x))
             /\ Cardinality(DOMAIN p) <= Cardinality(DOMAIN Without(x)) + 1
  <2>1. /\ DOMAIN Without(x) = DOMAIN p \ {x} /\ Without(x) = [i \in DOMAIN Without(x) |-> Without(x)[i]]
        /\ \A i \in DOMAIN Without(x) : Without(x)[i] = p[i]
    OBVIOUS
  <2>. HIDE DEF Without
  <2>2. Replaced(s, t, Without(x)) \subseteq Replaced(s, t, p)
    BY <2>1 DEF Replaced
  <2>3. /\ IsFiniteSet(DOMAIN p \ {x}) /\ Cardinality(DOMAIN p \ {x}) \in Nat
        /\ Cardinality(DOMAIN p \ {x}) = IF x \in DOMAIN p THEN Cardinality(DOMAIN p) - 1 ELSE Cardinality(DOMAIN p)
    BY <1>1, FS_RemoveElement, FS_CardinalityType
  <2>. QED BY <1>1, <2>1, <2>2, <2>3 DEF Keeps
<1>. HIDE DEF Without
<1>3. ASSUME m # 0 PROVE Without(m) \in Pairings(m - 1, n)
  <2>1. m - 1 \in Nat /\ DOMAIN Without(m) \subseteq 1..(m - 1)
    <3>1. DOMAIN Without(m) = DOMAIN p \ {m}
      BY <1>2
    <3>. QED BY <1>1, <1>3, <3>1
  <2>. QED BY ZenonT(30), <1>1, <1>2, <2>1, IsPairing
<1>4. ASSUME n # 0 PROVE \E x : Without(x) \in Pairings(m, n - 1)
  <2>1. PICK x : \A i \in DOMAIN p : p[i] = n => i = x
    BY <1>1
  <2>2. n - 1 \in Nat /\ \A i \in DOMAIN Without(x) : Without(x)[i] \in 1..(n - 1)
    <3>1. \A i \in DOMAIN p \ {x} : p[i] \in 1..n /\ p[i] # n
      BY <1>1, <2>1
    <3>2. /\ DOMAIN Without(x) = DOMAIN p \ {x}
          /\ \A i \in DOMAIN Without(x) : Without(x)[i] = p[i]
      BY <1>2
    <3>. QED BY <1>4, <3>1, <3>2
  <2>3. DOMAIN Without(x) \subseteq 1..m /\ \A i, j \in DOMAIN Without(x) : i < j => Without(x)[i] < Without(x)[j]
    BY <1>1, <1>2
  <2>4. Without(x) = [i \in DOMAIN Without(x) |-> Without(x)[i]]
    BY <1>2
  <2>. QED BY <2>2, <2>3, <2>4, IsPairing
<1>. QED BY <1>2, <1>3, <1>4

\* A cell of levenshtein_distance, of those above, beside and before it.
LEMMA LeastCell ==
  ASSUME NEW m \in Nat \ {0}, NEW n \in Nat \ {0}, NEW s, NEW t, NEW a, NEW b, NEW c,
         IsLeastCost(s, t, m - 1, n, a), IsLeastCost(s, t, m, n - 1, b),
         IsLeastCost(s, t, m - 1, n - 1, c)
  PROVE  IsLeastCost(s, t, m, n, Least({b + 1, a + 1, c + (IF s[m] = t[n] THEN 0 ELSE 1)}))
<1> DEFINE e == IF s[m] = t[n] THEN 0 ELSE 1
           d == Least({b + 1, a + 1, c + e})
<1>1. m - 1 \in Nat /\ n - 1 \in Nat /\ a \in Nat /\ b \in Nat /\ c \in Nat /\ e \in {0, 1}
  BY DEF IsLeastCost
<1>2. d \in {b + 1, a + 1, c + e} /\ d <= b + 1 /\ d <= a + 1 /\ d <= c + e /\ d \in Nat
  <2> DEFINE S == {b + 1, a + 1, c + e}
  <2>1. S \in SUBSET Nat /\ S # {}
    BY <1>1
  <2>2. Least(S) \in S /\ \A j \in S : Least(S) <= j
    <3>. HIDE DEF S
    <3>. QED BY <2>1, LeastOf
  <2>. QED BY <2>1, <2>2
<1>. HIDE DEF d, e
<1>3. ASSUME NEW p \in Pairings(m - 1, n)
      PROVE  p \in Pairings(m, n) /\ CostUpto(s, t, m, n, p) = CostUpto(s, t, m - 1, n, p) + 1
  <2>1. Cardinality(DOMAIN p) \in Nat /\ Cardinality(Replaced(s, t, p)) \in Nat
    BY <1>1, PairingType
  <2>. QED BY <2>1, LongerTexts DEF CostUpto
<1>4. ASSUME NEW p \in Pairings(m, n - 1)
      PROVE  p \in Pairings(m, n) /\ CostUpto(s, t, m, n, p) = CostUpto(s, t, m, n - 1, p) + 1
  <2>1. Cardinality(DOMAIN p) \in Nat /\ Cardinality(Replaced(s, t, p)) \in Nat
    BY <1>1, PairingType
  <2>. QED BY <2>1, LongerTexts DEF CostUpto
<1>5. ASSUME NEW p \in Pairings(m - 1, n - 1)
      PROVE  /\ Extended(p, m, n) \in Pairings(m, n)
             /\ CostUpto(s, t, m, n, Extended(p, m, n)) = CostUpto(s, t, m - 1, n - 1, p) + e
  <2>1. Cardinality(DOMAIN p) \in Nat /\ Cardinality(Replaced(s, t, p)) \in Nat
    BY <1>1, PairingType
  <2>2. /\ Extended(p, m, n) \in Pairings(m, n)
        /\ Cardinality(DOMAIN Extended(p, m, n)) = Cardinality(DOMAIN p) + 1
        /\ Cardinality(Replaced(s, t, Extended(p, m, n))) = Cardinality(Replaced(s, t, p)) + e
    BY Extending DEF e
  <2>. QED BY <1>1, <2>1, <2>2 DEF CostUpto
<1>6. \E p \in Pairings(m, n) : CostUpto(s, t, m, n, p) = d
  BY <1>2, <1>3, <1>4, <1>5 DEF IsLeastCost
<1>7. ASSUME NEW p \in Pairings(m, n) PROVE d <= CostUpto(s, t, m, n, p)
  <2>1. CASE p \in Pairings(m - 1, n)
    <3>1. a <= CostUpto(s, t, m - 1, n, p)
      BY <2>1 DEF IsLeastCost
    <3>2. CostUpto(s, t, m - 1, n, p) \in Int
      BY <1>1, <2>1, PairingType DEF CostUpto
    <3>. QED BY <1>1, <1>2, <1>3, <2>1, <3>1, <3>2
  <2>2. CASE p \in Pairings(m, n - 1)
    <3>1. b <= CostUpto(s, t, m, n - 1, p)
      BY <2>2 DEF IsLeastCost
    <3>2. CostUpto(s, t, m, n - 1, p) \in Int
      BY <1>1, <2>2, PairingType DEF CostUpto
    <3>. QED BY <1>1, <1>2, <1>4, <2>2, <3>1, <3>2
  <2>3. ASSUME NEW q \in Pairings(m - 1, n - 1), p = Extended(q, m, n)
        PROVE  d <= CostUpto(s, t, m, n, p)
    <3>1. c <= CostUpto(s, t, m - 1, n - 1, q)
      BY DEF IsLeastCost
    <3>2. CostUpto(s, t, m - 1, n - 1, q) \in Int
      BY <1>1, PairingType DEF CostUpto
    <3>. QED BY <1>1, <1>2, <1>5, <2>3, <3>1, <3>2
  <2>. QED BY <2>1, <2>2, <2>3, LastPair
<1>. QED BY <1>2, <1>6, <1>7 DEF IsLeastCost, d, e

\* Against no characters, all there are are deleted, or inserted, and none kept.
LEMMA NoPairs ==
  ASSUME NEW k \in Nat, NEW s, NEW t
  PROVE  /\ IsLeastCost(s, t, k, 0, k) /\ IsLeastCost(s, t, 0, k, k)
         /\ IsMostKept(s, t, k, 0, 0) /\ IsMostKept(s, t, 0, k, 0)
<1> DEFINE none == [i \in {} |-> 0]
<1>1. Cardinality({}) = 0
  BY FS_EmptySet
<1>2. ASSUME NEW m \in Nat, NEW n \in Nat, m = 0 \/ n = 0, NEW p \in Pairings(m, n)
      PROVE  /\ CostUpto(s, t, m, n, p) = m + n
             /\ Cardinality(DOMAIN p) = 0 /\ Keeps(s, t, p)
  <2>1. DOMAIN p = {}
    <3>1. DOMAIN p \subseteq 1..m /\ \A i \in DOMAIN p : p[i] \in 1..n
      BY PairingType
    <3>2. 1..0 = {}
      OBVIOUS
    <3>3. CASE m = 0
      BY <3>1, <3>2, <3>3
    <3>4. CASE n = 0
      BY <3>1, <3>2, <3>4
    <3>. QED BY <1>2, <3>3, <3>4
  <2>2. Replaced(s, t, p) = {}
    BY <2>1 DEF Replaced
  <2>. QED BY <1>1, <2>1, <2>2 DEF CostUpto, Keeps
<1>3. ASSUME NEW m \in Nat, NEW n \in Nat PROVE none \in Pairings(m, n)
  <2>1. none = [i \in DOMAIN none |-> none[i]] /\ DOMAIN none = {}
    OBVIOUS
  <2>. HIDE DEF none
  <2>. QED BY <2>1, IsPairing
<1>4. ASSUME NEW m \in Nat, NEW n \in Nat, m = 0 \/ n = 0
      PROVE  IsLeastCost(s, t, m, n, m + n) /\ IsMostKept(s, t, m, n, 0)
  <2>. HIDE DEF none
  <2>. QED BY <1>2, <1>3, <1>4 DEF IsLeastCost, IsMostKept
<1>5. IsLeastCost(s, t, k, 0, k + 0) /\ IsLeastCost(s, t, 0, k, 0 + k)
  BY <1>4
<1>. QED BY <1>4, <1>5

-----------------------------------------------------------------------------
\* The cells above the y-th are those of this row, and from the y-th on of the
\* row before, and lastdiag is what the cell above the y-th was then.
RowStates(m) == [lastdiag : Nat, column : [0..m -> Nat]]

InRow(s, t, x, st, m, y) ==
  /\ st \in RowStates(m)
  /\ IsLeastCost(s, t, y, x - 1, st.lastdiag)
  /\ \A k \in 0..y : IsLeastCost(s, t, k, x, st.column[k])
  /\ \A k \in (y + 1)..m : IsLeastCost(s, t, k, x - 1, st.column[k])

LEMMA CellType ==
  ASSUME NEW m \in Nat, NEW column \in [0..m -> Nat], NEW lastdiag \in Nat, NEW y \in 1..m, NEW same
  PROVE  Cell(column, lastdiag, y, same) \in Nat
<1> DEFINE S == {column[y] + 1, column[y - 1] + 1, lastdiag + (IF same THEN 0 ELSE 1)}
<1>1. y \in 0..m /\ y - 1 \in 0..m
  OBVIOUS
<1>2. S \in SUBSET Nat /\ S # {}
  BY <1>1
<1>3. Least(S) \in S
  <2>. HIDE DEF S
  <2>. QED BY <1>2, LeastOf
<1>. QED BY <1>2, <1>3 DEF Cell

LEMMA RowRound ==
  ASSUME NEW m \in Nat, NEW s, NEW c, NEW st \in RowStates(m), NEW y \in 1..m
  PROVE  /\ RowStep(s, c, st, y) \in RowStates(m)
         /\ RowStep(s, c, st, y).lastdiag = st.column[y]
         /\ RowStep(s, c, st, y).column[y] = Cell(st.column, st.lastdiag, y, s[y] = c)
         /\ \A k \in 0..m \ {y} : RowStep(s, c, st, y).column[k] = st.column[k]
<1>1. st.lastdiag \in Nat /\ st.column \in [0..m -> Nat] /\ y \in 0..m
  BY DEF RowStates
<1> DEFINE v == Cell(st.column, st.lastdiag, y, s[y] = c)
<1>2. v \in Nat
  BY <1>1, CellType
<1>3. RowStep(s, c, st, y) = [lastdiag |-> st.column[y], column |-> [st.column EXCEPT ![y] = v]]
  BY DEF RowStep
<1>. HIDE DEF v
<1>4. [st.column EXCEPT ![y] = v] \in [0..m -> Nat]
  BY <1>1, <1>2
<1>5. RowStep(s, c, st, y) \in RowStates(m)
  BY <1>1, <1>3, <1>4 DEF RowStates
<1>6. RowStep(s, c, st, y).column[y] = v
  BY <1>1, <1>3
<1>. QED BY <1>1, <1>3, <1>5, <1>6 DEF v

\* The inner loop of levenshtein_distance.
IsRowLoop(s, c, column, x, st) ==
  /\ st[0] = [lastdiag |-> x - 1, column |-> [column EXCEPT ![0] = x]]
  /\ \A y \in 1..Len(s) : st[y] = RowStep(s, c, st[y - 1], y)
  /\ Row(s, c, column, x) = st[Len(s)].column

LEMMA RowLoop ==
  ASSUME NEW s \in Seq(Char), NEW c, NEW column \in [0..Len(s) -> Nat], NEW x \in Nat \ {0}
  PROVE  \E st \in [0..Len(s) -> RowStates(Len(s))] : IsRowLoop(s, c, column, x, st)
<1> DEFINE n == Len(s)
           U == RowStates(n)
           b == [lastdiag |-> x - 1, column |-> [column EXCEPT ![0] = x]]
           F == [y \in 1..n |-> [u \in U |-> RowStep(s, c, u, y)]]
           st[y \in 0..n] == IF y = 0 THEN b ELSE RowStep(s, c, st[y - 1], y)
<1>1. n \in Nat /\ b \in U
  BY DEF RowStates
<1>2. \A y \in 1..n : \A u \in U : RowStep(s, c, u, y) \in U
  BY <1>1, RowRound
<1>3. PICK g \in [0..n -> U] : IsLoop(g, n, b, F)
  <2>1. F \in [1..n -> [U -> U]]
    BY <1>2
  <2>. HIDE DEF F, n, b, U
  <2>. QED BY <1>1, <2>1, LoopExists
<1>4. g = [y \in 0..n |-> IF y = 0 THEN b ELSE RowStep(s, c, g[y - 1], y)]
  <2>1. \A y \in 0..n \ {0} : y \in 1..n /\ g[y - 1] \in U
    BY <1>1
  <2>. HIDE DEF b, U
  <2>. QED BY <1>3, <2>1 DEF IsLoop
<1>5. st = [y \in 0..n |-> IF y = 0 THEN b ELSE RowStep(s, c, st[y - 1], y)]
  BY <1>4
<1>6. Row(s, c, column, x) = st[n].column
  BY DEF Row
<1>. HIDE DEF st
<1>7. st[0] = b /\ \A y \in 1..n : st[y] = RowStep(s, c, st[y - 1], y)
  <2>. HIDE DEF b
  <2>. QED BY <1>1, <1>5
<1>8. st \in [0..n -> U]
  <2>1. \A y \in 1..n : st[y - 1] \in U => st[y] \in U
    BY <1>2, <1>7
  <2>2. st = [y \in 0..n |-> st[y]]
    BY <1>5
  <2>. HIDE DEF F, n, b, U
  <2>. QED BY <1>1, <1>7, <2>1, <2>2, LoopType
<1>. QED BY <1>6, <1>7, <1>8 DEF IsRowLoop

LEMMA RowIsLeast ==
  ASSUME NEW s \in Seq(Char), NEW t \in Seq(Char), NEW x \in 1..Len(t),
         NEW column \in [0..Len(s) -> Nat],
         \A y \in 0..Len(s) : IsLeastCost(s, t, y, x - 1, column[y])
  PROVE  /\ Row(s, t[x], column, x) \in [0..Len(s) -> Nat]
         /\ \A y \in 0..Len(s) : IsLeastCost(s, t, y, x, Row(s, t[x], column, x)[y])
<1> DEFINE m == Len(s)
           G == [y \in 0..m |-> {u \in RowStates(m) : InRow(s, t, x, u, m, y)}]
<1>1. m \in Nat /\ x \in Nat \ {0} /\ x - 1 \in Nat
  OBVIOUS
<1>2. PICK st \in [0..m -> RowStates(m)] :
        /\ st[0] = [lastdiag |-> x - 1, column |-> [column EXCEPT ![0] = x]]
        /\ \A y \in 1..m : st[y] = RowStep(s, t[x], st[y - 1], y)
        /\ Row(s, t[x], column, x) = st[m].column
  <2>1. \E st \in [0..m -> RowStates(m)] : IsRowLoop(s, t[x], column, x, st)
    BY <1>1, RowLoop
  <2>. QED BY <2>1 DEF IsRowLoop
<1>3. st[0] \in G[0]
  <2>1. 0 \in 0..m /\ st[0] \in RowStates(m)
    BY <1>1
  <2>2. st[0].lastdiag = x - 1 /\ st[0].column[0] = x /\ \A k \in 1..m : st[0].column[k] = column[k]
    <3>1. st[0].column = [column EXCEPT ![0] = x] /\ st[0].lastdiag = x - 1
      BY <1>2
    <3>. QED BY <1>1, <3>1
  <2>3. IsLeastCost(s, t, 0, x - 1, x - 1) /\ IsLeastCost(s, t, 0, x, x)
    BY <1>1, NoPairs
  <2>4. \A k \in 0..0 : k = 0
    OBVIOUS
  <2>5. \A k \in 1..m : IsLeastCost(s, t, k, x - 1, st[0].column[k])
    BY <1>1, <2>2
  <2>6. InRow(s, t, x, st[0], m, 0)
    BY <2>1, <2>2, <2>3, <2>4, <2>5 DEF InRow
  <2>. QED BY <2>1, <2>6
<1>4. ASSUME NEW y \in 1..m, st[y - 1] \in G[y - 1] PROVE st[y] \in G[y]
  <2>1. y - 1 \in 0..m /\ y \in 0..m /\ y \in Nat \ {0} /\ (y - 1) + 1 = y
    BY <1>1
  <2> DEFINE u == st[y - 1]
             v == st[y]
  <2>2. u \in RowStates(m) /\ InRow(s, t, x, u, m, y - 1)
    BY <1>4, <2>1
  <2>3. v = RowStep(s, t[x], u, y)
    BY <1>2
  <2>. HIDE DEF u, v, G
  <2>4. /\ v \in RowStates(m)
        /\ v.lastdiag = u.column[y]
        /\ v.column[y] = Cell(u.column, u.lastdiag, y, s[y] = t[x])
        /\ \A k \in 0..m \ {y} : v.column[k] = u.column[k]
    BY <1>1, <2>2, <2>3, RowRound
  <2>5. /\ IsLeastCost(s, t, y - 1, x - 1, u.lastdiag)
        /\ IsLeastCost(s, t, y - 1, x, u.column[y - 1])
        /\ IsLeastCost(s, t, y, x - 1, u.column[y])
    BY <2>1, <2>2 DEF InRow
  <2>6. IsLeastCost(s, t, y, x, v.column[y])
    <3>1. IsLeastCost(s, t, y, x, Least({u.column[y] + 1, u.column[y - 1] + 1,
                                         u.lastdiag + (IF s[y] = t[x] THEN 0 ELSE 1)}))
      BY <1>1, <2>1, <2>5, LeastCell
    <3>. QED BY <2>4, <3>1 DEF Cell
  <2>7. ASSUME NEW k \in 0..y PROVE IsLeastCost(s, t, k, x, v.column[k])
    <3>1. CASE k = y
      BY <2>6, <3>1
    <3>2. CASE k # y
      <4>1. k \in 0..(y - 1) /\ k \in 0..m \ {y}
        BY <1>1, <2>1, <3>2
      <4>. QED BY <2>2, <2>4, <4>1 DEF InRow
    <3>. QED BY <3>1, <3>2
  <2>8. ASSUME NEW k \in (y + 1)..m PROVE IsLeastCost(s, t, k, x - 1, v.column[k])
    <3>1. k \in ((y - 1) + 1)..m /\ k \in 0..m \ {y}
      BY <1>1, <2>1
    <3>. QED BY <2>2, <2>4, <3>1 DEF InRow
  <2>9. InRow(s, t, x, v, m, y)
    BY <2>4, <2>5, <2>7, <2>8 DEF InRow
  <2>. QED BY <2>1, <2>4, <2>9 DEF G, v
<1>5. \A y \in 0..m : st[y] \in G[y]
  <2>. HIDE DEF G, m
  <2>. QED BY <1>1, <1>3, <1>4, LoopInvariant
<1>6. st[m] \in RowStates(m) /\ InRow(s, t, x, st[m], m, m)
  BY <1>1, <1>5
<1>. QED BY <1>2, <1>6 DEF InRow, RowStates

\* The outer loop of levenshtein_distance.
IsColumnLoop(s, t, st) ==
  /\ st[0] = [y \in 0..Len(s) |-> y]
  /\ \A x \in 1..Len(t) : st[x] = Row(s, t[x], st[x - 1], x)
  /\ levenshtein_distance(s, t) = IF s = <<>> THEN Len(t) ELSE IF t = <<>> THEN Len(s)
                                  ELSE st[Len(t)][Len(s)]

LEMMA RowType ==
  ASSUME NEW s \in Seq(Char), NEW c, NEW column \in [0..Len(s) -> Nat], NEW x \in Nat \ {0}
  PROVE  Row(s, c, column, x) \in [0..Len(s) -> Nat]
<1>1. PICK st \in [0..Len(s) -> RowStates(Len(s))] : IsRowLoop(s, c, column, x, st)
  BY RowLoop
<1>2. st[Len(s)] \in RowStates(Len(s))
  OBVIOUS
<1>. QED BY <1>1, <1>2 DEF IsRowLoop, RowStates

LEMMA ColumnLoop ==
  ASSUME NEW s \in Seq(Char), NEW t \in Seq(Char)
  PROVE  \E st \in [0..Len(t) -> [0..Len(s) -> Nat]] : IsColumnLoop(s, t, st)
<1> DEFINE n == Len(t)
           U == [0..Len(s) -> Nat]
           b == [y \in 0..Len(s) |-> y]
           F == [x \in 1..n |-> [u \in U |-> Row(s, t[x], u, x)]]
           st[x \in 0..n] == IF x = 0 THEN b ELSE Row(s, t[x], st[x - 1], x)
<1>1. n \in Nat /\ b \in U
  OBVIOUS
<1>2. \A x \in 1..n : \A u \in U : Row(s, t[x], u, x) \in U
  BY <1>1, RowType
<1>3. PICK g \in [0..n -> U] : IsLoop(g, n, b, F)
  <2>1. F \in [1..n -> [U -> U]]
    BY <1>2
  <2>. HIDE DEF F, n, b, U
  <2>. QED BY <1>1, <2>1, LoopExists
<1>4. g = [x \in 0..n |-> IF x = 0 THEN b ELSE Row(s, t[x], g[x - 1], x)]
  <2>1. \A x \in 0..n \ {0} : x \in 1..n /\ g[x - 1] \in U
    <3>. HIDE DEF b, U, F, st
    <3>. QED BY <1>1
  <2>. HIDE DEF b, U, st
  <2>. QED BY <1>3, <2>1 DEF IsLoop
<1>5. st = [x \in 0..n |-> IF x = 0 THEN b ELSE Row(s, t[x], st[x - 1], x)]
  BY <1>4
<1>6. levenshtein_distance(s, t) = IF s = <<>> THEN Len(t) ELSE IF t = <<>> THEN Len(s)
                                   ELSE st[n][Len(s)]
  BY DEF levenshtein_distance
<1>. HIDE DEF st
<1>7. st[0] = b /\ \A x \in 1..n : st[x] = Row(s, t[x], st[x - 1], x)
  <2>. HIDE DEF b
  <2>. QED BY <1>1, <1>5
<1>8. st \in [0..n -> U]
  <2>1. \A x \in 1..n : st[x - 1] \in U => st[x] \in U
    BY <1>2, <1>7
  <2>2. st = [x \in 0..n |-> st[x]]
    BY <1>5
  <2>. HIDE DEF F, n, b, U
  <2>. QED BY <1>1, <1>7, <2>1, <2>2, LoopType
<1>. QED BY <1>6, <1>7, <1>8 DEF IsColumnLoop

\* One column is enough: it ends as the costs against all of t.
LEMMA LevenshteinLeast ==
  ASSUME NEW s \in Seq(Char), NEW t \in Seq(Char)
  PROVE  IsLeastCost(s, t, Len(s), Len(t), levenshtein_distance(s, t))
<1> DEFINE m == Len(s)
           n == Len(t)
           U == [0..m -> Nat]
           G == [x \in 0..n |-> {u \in U : \A y \in 0..m : IsLeastCost(s, t, y, x, u[y])}]
<1>1. m \in Nat /\ n \in Nat
  OBVIOUS
<1>2. PICK st \in [0..n -> U] : IsColumnLoop(s, t, st)
  BY ColumnLoop
<1>3. st[0] \in G[0]
  <2>1. 0 \in 0..n /\ st[0] = [y \in 0..m |-> y]
    BY <1>1, <1>2 DEF IsColumnLoop
  <2>2. \A y \in 0..m : y \in Nat /\ st[0][y] = y
    BY <1>1, <2>1
  <2>3. \A y \in 0..m : IsLeastCost(s, t, y, 0, st[0][y])
    BY <2>2, NoPairs
  <2>. QED BY <2>1, <2>3
<1>4. ASSUME NEW x \in 1..n, st[x - 1] \in G[x - 1] PROVE st[x] \in G[x]
  <2>1. x - 1 \in 0..n /\ x \in 0..n /\ x \in 1..Len(t)
    BY <1>1
  <2> DEFINE u == st[x - 1]
  <2>2. u \in [0..Len(s) -> Nat] /\ \A y \in 0..Len(s) : IsLeastCost(s, t, y, x - 1, u[y])
    BY <1>4, <2>1
  <2>3. st[x] = Row(s, t[x], u, x)
    BY <1>2 DEF IsColumnLoop
  <2>. HIDE DEF u
  <2>4. st[x] \in [0..Len(s) -> Nat] /\ \A y \in 0..Len(s) : IsLeastCost(s, t, y, x, st[x][y])
    <3>. HIDE DEF G, U, m, n
    <3>. QED BY <2>1, <2>2, <2>3, RowIsLeast
  <2>. QED BY <2>1, <2>4
<1>5. \A x \in 0..n : st[x] \in G[x]
  <2>. HIDE DEF G, U, n, m
  <2>. QED BY <1>1, <1>3, <1>4, LoopInvariant
<1>6. IsLeastCost(s, t, m, n, st[n][m])
  BY <1>1, <1>5
<1>7. (s = <<>> => m = 0) /\ (t = <<>> => n = 0)
  OBVIOUS
<1>8. IsLeastCost(s, t, m, 0, m) /\ IsLeastCost(s, t, 0, n, n)
  BY <1>1, NoPairs
<1>9. levenshtein_distance(s, t) = IF s = <<>> THEN n ELSE IF t = <<>> THEN m ELSE st[n][m]
  BY <1>2 DEF IsColumnLoop
<1>. HIDE DEF m, n
<1>10. IsLeastCost(s, t, m, n, levenshtein_distance(s, t))
  BY <1>6, <1>7, <1>8, <1>9
<1>. QED BY <1>10 DEF m, n

-----------------------------------------------------------------------------
\* A cell of longest_common_subseq, of those before, above and beside it.
LEMMA MostCell ==
  ASSUME NEW m \in Nat \ {0}, NEW n \in Nat \ {0}, NEW s, NEW t, NEW diag, NEW up, NEW left,
         IsMostKept(s, t, m - 1, n - 1, diag), IsMostKept(s, t, m - 1, n, up),
         IsMostKept(s, t, m, n - 1, left)
  PROVE  IsMostKept(s, t, m, n, LcsCell(diag, up, left, s[m] = t[n]))
<1>1. m - 1 \in Nat /\ n - 1 \in Nat /\ diag \in Nat /\ up \in Nat /\ left \in Nat
  BY DEF IsMostKept
<1>2. Pairings(m - 1, n) \subseteq Pairings(m, n) /\ Pairings(m, n - 1) \subseteq Pairings(m, n)
  BY LongerTexts
<1>3. ASSUME NEW p \in Pairings(m - 1, n - 1)
      PROVE  /\ Extended(p, m, n) \in Pairings(m, n)
             /\ Cardinality(DOMAIN Extended(p, m, n)) = Cardinality(DOMAIN p) + 1
             /\ Keeps(s, t, Extended(p, m, n)) <=> Keeps(s, t, p) /\ s[m] = t[n]
  BY Extending
<1>4. CASE s[m] = t[n]
  <2>1. PICK p \in Pairings(m - 1, n - 1) : Keeps(s, t, p) /\ Cardinality(DOMAIN p) = diag
    BY DEF IsMostKept
  <2>2. /\ Extended(p, m, n) \in Pairings(m, n) /\ Keeps(s, t, Extended(p, m, n))
        /\ Cardinality(DOMAIN Extended(p, m, n)) = diag + 1
    BY <1>3, <1>4, <2>1
  <2>3. ASSUME NEW q \in Pairings(m, n), Keeps(s, t, q) PROVE Cardinality(DOMAIN q) <= diag + 1
    <3>1. CASE q \in Pairings(m - 1, n)
      <4>1. PICK r \in Pairings(m - 1, n - 1) :
              Keeps(s, t, r) /\ Cardinality(DOMAIN q) <= Cardinality(DOMAIN r) + 1
        BY <1>1, <2>3, <3>1, ShorterTexts
      <4>2. Cardinality(DOMAIN r) <= diag /\ Cardinality(DOMAIN r) \in Nat /\ Cardinality(DOMAIN q) \in Nat
        BY <1>1, <4>1, PairingType DEF IsMostKept
      <4>. QED BY <1>1, <4>1, <4>2
    <3>2. CASE q \in Pairings(m, n - 1)
      <4>1. PICK r \in Pairings(m - 1, n - 1) :
              Keeps(s, t, r) /\ Cardinality(DOMAIN q) <= Cardinality(DOMAIN r) + 1
        BY <1>1, <2>3, <3>2, ShorterTexts
      <4>2. Cardinality(DOMAIN r) <= diag /\ Cardinality(DOMAIN r) \in Nat /\ Cardinality(DOMAIN q) \in Nat
        BY <1>1, <4>1, PairingType DEF IsMostKept
      <4>. QED BY <1>1, <4>1, <4>2
    <3>3. ASSUME NEW r \in Pairings(m - 1, n - 1), q = Extended(r, m, n)
          PROVE  Cardinality(DOMAIN q) <= diag + 1
      <4>1. Keeps(s, t, r) /\ Cardinality(DOMAIN q) = Cardinality(DOMAIN r) + 1
        BY <1>3, <2>3, <3>3
      <4>2. Cardinality(DOMAIN r) <= diag /\ Cardinality(DOMAIN r) \in Nat
        BY <1>1, <4>1, PairingType DEF IsMostKept
      <4>. QED BY <1>1, <4>1, <4>2
    <3>. QED BY <3>1, <3>2, <3>3, LastPair
  <2>. QED BY <1>1, <1>4, <2>2, <2>3 DEF IsMostKept, LcsCell
<1>5. CASE s[m] # t[n]
  <2> DEFINE d == IF up < left THEN left ELSE up
  <2>1. LcsCell(diag, up, left, s[m] = t[n]) = d /\ d \in Nat /\ up <= d /\ left <= d /\ d \in {up, left}
    BY <1>1, <1>5 DEF LcsCell
  <2>. HIDE DEF d
  <2>2. \E p \in Pairings(m, n) : Keeps(s, t, p) /\ Cardinality(DOMAIN p) = d
    BY <1>2, <2>1 DEF IsMostKept
  <2>3. ASSUME NEW q \in Pairings(m, n), Keeps(s, t, q) PROVE Cardinality(DOMAIN q) <= d
    <3>1. Cardinality(DOMAIN q) \in Nat
      BY PairingType
    <3>2. CASE q \in Pairings(m - 1, n)
      BY <1>1, <2>1, <2>3, <3>1, <3>2 DEF IsMostKept
    <3>3. CASE q \in Pairings(m, n - 1)
      BY <1>1, <2>1, <2>3, <3>1, <3>3 DEF IsMostKept
    <3>4. ASSUME NEW r \in Pairings(m - 1, n - 1), q = Extended(r, m, n) PROVE FALSE
      BY <1>3, <1>5, <2>3, <3>4
    <3>. QED BY <3>2, <3>3, <3>4, LastPair
  <2>. QED BY <2>1, <2>2, <2>3 DEF IsMostKept
<1>. QED BY <1>4, <1>5

\* A row of longest_common_subseq, its cells one by one.
LEMMA LcsRowCells ==
  ASSUME NEW t \in Seq(Char), NEW c, NEW above \in [0..Len(t) -> Nat]
  PROVE  LET row == LcsRow(t, c, above)
         IN  /\ row \in [0..Len(t) -> Nat] /\ row[0] = 0
             /\ \A j \in 1..Len(t) :
                  row[j] = LcsCell(above[j - 1], above[j], row[j - 1], c = t[j])
<1> DEFINE n == Len(t)
           U == Nat
           F == [j \in 1..n |-> [u \in U |-> LcsCell(above[j - 1], above[j], u, c = t[j])]]
           row[j \in 0..n] ==
             IF j = 0 THEN 0 ELSE LcsCell(above[j - 1], above[j], row[j - 1], c = t[j])
<1>1. n \in Nat /\ 0 \in U
  OBVIOUS
<1>2. \A j \in 1..n : \A u \in Nat : LcsCell(above[j - 1], above[j], u, c = t[j]) \in Nat
  <2>1. \A j \in 1..n : above[j - 1] \in Nat /\ above[j] \in Nat
    BY <1>1
  <2>. QED BY <2>1 DEF LcsCell
<1>3. PICK g \in [0..n -> U] : IsLoop(g, n, 0, F)
  <2>1. F \in [1..n -> [U -> U]]
    BY <1>2
  <2>. HIDE DEF F, n, U
  <2>. QED BY <1>1, <2>1, LoopExists
<1>4. g = [j \in 0..n |-> IF j = 0 THEN 0 ELSE LcsCell(above[j - 1], above[j], g[j - 1], c = t[j])]
  <2>1. \A j \in 0..n \ {0} : j \in 1..n /\ g[j - 1] \in U
    <3>. HIDE DEF F, row, U
    <3>. QED BY <1>1
  <2>. QED BY <1>3, <2>1 DEF IsLoop
<1>5. row = [j \in 0..n |-> IF j = 0 THEN 0 ELSE LcsCell(above[j - 1], above[j], row[j - 1], c = t[j])]
  BY <1>4
<1>6. LcsRow(t, c, above) = row
  BY DEF LcsRow
<1>. HIDE DEF row
<1>7. row[0] = 0 /\ \A j \in 1..n : row[j] = LcsCell(above[j - 1], above[j], row[j - 1], c = t[j])
  BY <1>1, <1>5
<1>8. row \in [0..n -> U]
  <2>1. \A j \in 1..n : row[j - 1] \in U => row[j] \in U
    BY <1>2, <1>7
  <2>2. row = [j \in 0..n |-> row[j]]
    BY <1>5
  <2>. HIDE DEF F, n, U
  <2>. QED BY <1>1, <1>7, <2>1, <2>2, LoopType
<1>. QED BY <1>6, <1>7, <1>8

\* The rows of the table.
IsTable(s, t, L) ==
  /\ L[0] = [j \in 0..Len(t) |-> 0]
  /\ \A i \in 1..Len(s) : L[i] = LcsRow(t, s[i], L[i - 1])
  /\ longest_common_subseq(s, t) = L[Len(s)][Len(t)]

LEMMA TableExists ==
  ASSUME NEW s \in Seq(Char), NEW t \in Seq(Char)
  PROVE  \E L \in [0..Len(s) -> [0..Len(t) -> Nat]] : IsTable(s, t, L)
<1> DEFINE m == Len(s)
           U == [0..Len(t) -> Nat]
           b == [j \in 0..Len(t) |-> 0]
           F == [i \in 1..m |-> [u \in U |-> LcsRow(t, s[i], u)]]
           L[i \in 0..m] == IF i = 0 THEN b ELSE LcsRow(t, s[i], L[i - 1])
<1>1. m \in Nat /\ b \in U
  OBVIOUS
<1>2. \A i \in 1..m : \A u \in U : LcsRow(t, s[i], u) \in U
  BY <1>1, LcsRowCells
<1>3. PICK g \in [0..m -> U] : IsLoop(g, m, b, F)
  <2>1. F \in [1..m -> [U -> U]]
    BY <1>2
  <2>. HIDE DEF F, m, b, U
  <2>. QED BY <1>1, <2>1, LoopExists
<1>4. g = [i \in 0..m |-> IF i = 0 THEN b ELSE LcsRow(t, s[i], g[i - 1])]
  <2>1. \A i \in 0..m \ {0} : i \in 1..m /\ g[i - 1] \in U
    <3>. HIDE DEF b, U, F, L
    <3>. QED BY <1>1
  <2>. HIDE DEF b, U, L
  <2>. QED BY <1>3, <2>1 DEF IsLoop
<1>5. L = [i \in 0..m |-> IF i = 0 THEN b ELSE LcsRow(t, s[i], L[i - 1])]
  BY <1>4
<1>6. longest_common_subseq(s, t) = L[m][Len(t)]
  BY DEF longest_common_subseq
<1>. HIDE DEF L
<1>7. L[0] = b /\ \A i \in 1..m : L[i] = LcsRow(t, s[i], L[i - 1])
  <2>. HIDE DEF b
  <2>. QED BY <1>1, <1>5
<1>8. L \in [0..m -> U]
  <2>1. \A i \in 1..m : L[i - 1] \in U => L[i] \in U
    BY <1>2, <1>7
  <2>2. L = [i \in 0..m |-> L[i]]
    BY <1>5
  <2>. HIDE DEF F, m, b, U
  <2>. QED BY <1>1, <1>7, <2>1, <2>2, LoopType
<1>. QED BY <1>6, <1>7, <1>8 DEF IsTable

\* A row of the right numbers comes from the one above it.
LEMMA LcsRowMost ==
  ASSUME NEW s \in Seq(Char), NEW t \in Seq(Char), NEW i \in 1..Len(s),
         NEW above \in [0..Len(t) -> Nat],
         \A j \in 0..Len(t) : IsMostKept(s, t, i - 1, j, above[j])
  PROVE  \A j \in 0..Len(t) : IsMostKept(s, t, i, j, LcsRow(t, s[i], above)[j])
<1> DEFINE n == Len(t)
           row == LcsRow(t, s[i], above)
           G == [j \in 0..n |-> {d \in Nat : IsMostKept(s, t, i, j, d)}]
<1>1. n \in Nat /\ i \in Nat \ {0} /\ i - 1 \in Nat
  OBVIOUS
<1>2. /\ row \in [0..n -> Nat] /\ row[0] = 0
      /\ \A j \in 1..n : row[j] = LcsCell(above[j - 1], above[j], row[j - 1], s[i] = t[j])
  BY SMTT(30), LcsRowCells
<1>. HIDE DEF row
<1>3. row[0] \in G[0]
  <2>1. IsMostKept(s, t, i, 0, 0) /\ 0 \in 0..n
    BY <1>1, NoPairs
  <2>. QED BY <1>2, <2>1
<1>4. ASSUME NEW j \in 1..n, row[j - 1] \in G[j - 1] PROVE row[j] \in G[j]
  <2>1. j \in Nat \ {0} /\ j - 1 \in 0..n /\ j \in 0..n
    BY <1>1
  <2>2. IsMostKept(s, t, i, j - 1, row[j - 1])
    BY <1>4, <2>1
  <2>3. IsMostKept(s, t, i - 1, j - 1, above[j - 1]) /\ IsMostKept(s, t, i - 1, j, above[j])
    BY <2>1
  <2>4. IsMostKept(s, t, i, j, LcsCell(above[j - 1], above[j], row[j - 1], s[i] = t[j]))
    <3>. HIDE DEF n, G
    <3>. QED BY <1>1, <2>1, <2>2, <2>3, MostCell
  <2>. QED BY <1>2, <2>1, <2>4
<1>5. \A j \in 0..n : row[j] \in G[j]
  <2>. HIDE DEF G, n
  <2>. QED BY <1>1, <1>3, <1>4, LoopInvariant
<1>. QED BY <1>5 DEF row

LEMMA LcsMost ==
  ASSUME NEW s \in Seq(Char), NEW t \in Seq(Char)
  PROVE  IsMostKept(s, t, Len(s), Len(t), longest_common_subseq(s, t))
<1> DEFINE m == Len(s)
           n == Len(t)
           U == [0..n -> Nat]
           G == [i \in 0..m |-> {u \in U : \A j \in 0..n : IsMostKept(s, t, i, j, u[j])}]
<1>1. m \in Nat /\ n \in Nat
  OBVIOUS
<1>2. PICK L \in [0..m -> U] : IsTable(s, t, L)
  BY TableExists
<1>3. L[0] \in G[0]
  <2>1. 0 \in 0..m /\ L[0] = [j \in 0..n |-> 0]
    BY <1>1, <1>2 DEF IsTable
  <2>2. \A j \in 0..n : j \in Nat /\ L[0][j] = 0
    BY <1>1, <2>1
  <2>3. \A j \in 0..n : IsMostKept(s, t, 0, j, L[0][j])
    BY <2>2, NoPairs
  <2>. QED BY <2>1, <2>3
<1>4. ASSUME NEW i \in 1..m, L[i - 1] \in G[i - 1] PROVE L[i] \in G[i]
  <2>1. i - 1 \in 0..m /\ i \in 0..m
    BY <1>1
  <2> DEFINE u == L[i - 1]
  <2>2. u \in [0..n -> Nat] /\ \A j \in 0..n : IsMostKept(s, t, i - 1, j, u[j])
    BY <1>4, <2>1
  <2>3. L[i] = LcsRow(t, s[i], u)
    BY <1>2 DEF IsTable
  <2>. HIDE DEF u
  <2>4. \A j \in 0..n : IsMostKept(s, t, i, j, L[i][j])
    BY <2>2, <2>3, LcsRowMost
  <2>. QED BY <2>1, <2>4
<1>5. \A i \in 0..m : L[i] \in G[i]
  <2>. HIDE DEF G, U, n, m
  <2>. QED BY <1>1, <1>3, <1>4, LoopInvariant
<1>. QED BY <1>1, <1>2, <1>5 DEF IsTable

\* Whatever the texts: levenshtein_distance, in its one column, is the least
\* number of changes, and longest_common_subseq the most that can be left of both.
LEMMA DistancesOf ==
  ASSUME NEW s \in Seq(Char), NEW t \in Seq(Char)
  PROVE  LET P == Pairings(Len(s), Len(t))
             lev == levenshtein_distance(s, t)
             lcs == longest_common_subseq(s, t)
         IN  /\ \E p \in P : Cost(s, t, p) = lev
             /\ \A p \in P : lev <= Cost(s, t, p)
             /\ \E p \in P : Replaced(s, t, p) = {} /\ Cardinality(DOMAIN p) = lcs
             /\ \A p \in P : Replaced(s, t, p) = {} => Cardinality(DOMAIN p) <= lcs
<1>1. IsLeastCost(s, t, Len(s), Len(t), levenshtein_distance(s, t))
  BY LevenshteinLeast
<1>2. IsMostKept(s, t, Len(s), Len(t), longest_common_subseq(s, t))
  BY LcsMost
<1>3. \A p : CostUpto(s, t, Len(s), Len(t), p) = Cost(s, t, p)
  BY DEF CostUpto, Cost
<1>. QED BY <1>1, <1>2, <1>3 DEF IsLeastCost, IsMostKept, Keeps

-----------------------------------------------------------------------------
(***************************************************************************)
(* Files.                                                                  *)
(***************************************************************************)
\* The files up to the i-th that count, their inodes, and their bytes.
Present(files, i) ==
  {f \in DOMAIN Stat : Stat[f].regular /\ \E k \in 1..i : files[k] = f}
InodesOf(P) == {Stat[f].ino : f \in P}
BytesOf(P)  == UNION {{Stat[f].ino} \X (1..Stat[f].size) : f \in P}

Inodes     == {Stat[f].ino : f \in DOMAIN Stat}
FileStates == [inodes : Seq(Inodes), size : Nat]

\* What alpm_pkg_get_realsize has added up stands for the files P.
Counts(st, P) ==
  /\ ToSet(st.inodes) = InodesOf(P)
  /\ IsFiniteSet(BytesOf(P)) /\ st.size = Cardinality(BytesOf(P))

LEMMA FileRound ==
  ASSUME NEW st \in FileStates, NEW f, NEW P \in SUBSET DOMAIN Stat, Counts(st, P)
  PROVE  /\ FileStep(st, f) \in FileStates
         /\ Counts(FileStep(st, f), IF f \in DOMAIN Stat /\ Stat[f].regular THEN P \cup {f} ELSE P)
<1>1. st.inodes \in Seq(Inodes) /\ st.size \in Nat
  BY DEF FileStates
<1>2. CASE ~(f \in DOMAIN Stat /\ Stat[f].regular)
  BY <1>2 DEF FileStep
<1>3. CASE f \in DOMAIN Stat /\ Stat[f].regular
  <2> DEFINE ino == Stat[f].ino
             size == Stat[f].size
             new == {ino} \X (1..size)
             Q == P \cup {f}
  <2>1. ino \in Inodes /\ size \in Nat
    BY <1>3, StatAssumption DEF Inodes
  <2>2. IsSeen(st.inodes, ino) <=> ino \in InodesOf(P)
    BY <1>1 DEF IsSeen, Counts, ToSet
  <2>3. InodesOf(Q) = InodesOf(P) \cup {ino}
    BY DEF InodesOf
  <2>4. BytesOf(Q) = BytesOf(P) \cup new
    BY DEF BytesOf
  <2>5. CASE ino \in InodesOf(P)
    <3>1. PICK g \in P : Stat[g].ino = ino
      BY <2>5 DEF InodesOf
    <3>2. Stat[g].size = size
      BY <1>3, <3>1, StatAssumption
    <3>3. new \subseteq BytesOf(P)
      BY <3>1, <3>2 DEF BytesOf
    <3>4. FileStep(st, f) = st
      BY <2>2, <2>5 DEF FileStep
    <3>5. InodesOf(Q) = InodesOf(P) /\ BytesOf(Q) = BytesOf(P)
      BY <2>3, <2>4, <2>5, <3>3
    <3>6. Counts(st, Q)
      BY <3>5 DEF Counts
    <3>. QED BY <1>3, <3>4, <3>6
  <2>6. CASE ino \notin InodesOf(P)
    <3>1. FileStep(st, f) = [inodes |-> Append(st.inodes, ino), size |-> st.size + size]
      BY <1>3, <2>2, <2>6 DEF FileStep
    <3>2. IsFiniteSet(new) /\ Cardinality(new) = size
      <4> DEFINE h == [k \in 1..size |-> <<ino, k>>]
      <4>1. h \in Bijection(1..size, new)
        <5>1. h \in [1..size -> new] /\ \A a, b \in 1..size : h[a] = h[b] => a = b
          OBVIOUS
        <5>2. \A x \in new : \E k \in 1..size : h[k] = x
          OBVIOUS
        <5>. HIDE DEF h, new, size, ino
        <5>. QED BY <5>1, <5>2 DEF Bijection, Injection, Surjection, IsInjective
      <4>2. ExistsBijection(1..size, new)
        BY <4>1 DEF ExistsBijection
      <4>3. IsFiniteSet(1..size) /\ Cardinality(1..size) = size
        <5>. HIDE DEF size, new, h, ino
        <5>. QED BY <2>1, FS_Interval
      <4>. HIDE DEF new
      <4>. QED BY <4>2, <4>3, FS_Bijection
    <3>3. BytesOf(P) \cap new = {}
      <4>1. \A x \in BytesOf(P) : x[1] \in InodesOf(P)
        BY DEF BytesOf, InodesOf
      <4>2. \A x \in new : x[1] = ino
        OBVIOUS
      <4>. QED BY <2>6, <4>1, <4>2
    <3>4. IsFiniteSet(BytesOf(P)) /\ st.size = Cardinality(BytesOf(P))
      BY DEF Counts
    <3>5. IsFiniteSet(BytesOf(Q)) /\ Cardinality(BytesOf(Q)) = st.size + size
      <4> DEFINE B == BytesOf(P)
                 C == BytesOf(Q)
      <4>1. IsFiniteSet(B) /\ st.size = Cardinality(B) /\ B \cap new = {} /\ C = B \cup new
        BY <2>4, <3>3, <3>4
      <4>2. Cardinality(B \cap new) = 0
        BY <4>1, FS_EmptySet
      <4>. HIDE DEF B, C, new
      <4>3. IsFiniteSet(C) /\ Cardinality(C) = Cardinality(B) + Cardinality(new) - Cardinality(B \cap new)
        BY <3>2, <4>1, FS_Union
      <4>4. IsFiniteSet(C) /\ Cardinality(C) = st.size + size
        BY <1>1, <2>1, <3>2, <4>1, <4>2, <4>3
      <4>. QED BY <4>4 DEF C
    <3> DEFINE a == Append(st.inodes, ino)
    <3>6. a \in Seq(Inodes) /\ ToSet(a) = InodesOf(Q)
      <4>1. /\ a \in Seq(Inodes) /\ Len(a) = Len(st.inodes) + 1 /\ a[Len(st.inodes) + 1] = ino
            /\ \A k \in 1..Len(st.inodes) : a[k] = st.inodes[k]
        BY <1>1, <2>1, AppendProperties
      <4>2. DOMAIN a = 1..(Len(st.inodes) + 1) /\ DOMAIN st.inodes = 1..Len(st.inodes) /\ Len(st.inodes) \in Nat
        BY <1>1, <4>1, LenProperties
      <4>. HIDE DEF a
      <4>3. ToSet(a) = ToSet(st.inodes) \cup {ino}
        BY <4>1, <4>2 DEF ToSet
      <4>. QED BY <2>3, <4>1, <4>3 DEF Counts
    <3>. HIDE DEF a, new, Q
    <3>7. FileStep(st, f) \in FileStates /\ Counts(FileStep(st, f), Q)
      BY <1>1, <2>1, <3>1, <3>5, <3>6 DEF FileStates, Counts, a
    <3>. QED BY <1>3, <3>7 DEF Q
  <2>. QED BY <2>5, <2>6
<1>. QED BY <1>2, <1>3

\* The rounds of alpm_pkg_get_realsize, and what they have counted.
LEMMA FileType ==
  ASSUME NEW st \in FileStates, NEW f
  PROVE  FileStep(st, f) \in FileStates
<1>1. st.inodes \in Seq(Inodes) /\ st.size \in Nat
  BY DEF FileStates
<1>2. CASE f \notin DOMAIN Stat
  BY <1>2 DEF FileStep
<1>3. CASE f \in DOMAIN Stat
  <2>1. Stat[f].ino \in Inodes /\ Stat[f].size \in Nat
    BY <1>3, StatAssumption DEF Inodes
  <2>2. Append(st.inodes, Stat[f].ino) \in Seq(Inodes) /\ st.size + Stat[f].size \in Nat
    BY <1>1, <2>1, AppendProperties
  <2>. QED BY <2>2 DEF FileStep, FileStates
<1>. QED BY <1>2, <1>3

LEMMA FileLoop ==
  ASSUME NEW files \in Seq(Char)
  PROVE  \E st \in [0..Len(files) -> FileStates] :
           /\ st[0] = [inodes |-> <<>>, size |-> 0]
           /\ \A i \in 1..Len(files) : st[i] = FileStep(st[i - 1], files[i])
           /\ alpm_pkg_get_realsize(files) = st[Len(files)].size
<1> DEFINE n == Len(files)
           b == [inodes |-> <<>>, size |-> 0]
           U == FileStates
           F == [i \in 1..n |-> [u \in U |-> FileStep(u, files[i])]]
           st[i \in 0..n] == IF i = 0 THEN b ELSE FileStep(st[i - 1], files[i])
<1>1. n \in Nat /\ b \in U
  BY DEF FileStates
<1>2. F \in [1..n -> [U -> U]]
  BY FileType
<1>3. PICK g \in [0..n -> U] : IsLoop(g, n, b, F)
  <2>. HIDE DEF F, n, b, U
  <2>. QED BY <1>1, <1>2, LoopExists
<1>4. g = [i \in 0..n |-> IF i = 0 THEN b ELSE FileStep(g[i - 1], files[i])]
  <2>1. \A i \in 0..n \ {0} : i \in 1..n /\ g[i - 1] \in U
    <3>. HIDE DEF U, b, F, st
    <3>. QED BY <1>1
  <2>. HIDE DEF b, U, st
  <2>. QED BY <1>3, <2>1 DEF IsLoop
<1>5. st = [i \in 0..n |-> IF i = 0 THEN b ELSE FileStep(st[i - 1], files[i])]
  BY <1>4
<1>6. alpm_pkg_get_realsize(files) = st[n].size
  BY DEF alpm_pkg_get_realsize
<1>. HIDE DEF st
<1>7. st[0] = b /\ \A i \in 1..n : st[i] = FileStep(st[i - 1], files[i])
  <2>. HIDE DEF b
  <2>. QED BY <1>1, <1>5
<1>8. st \in [0..n -> U]
  <2>1. \A i \in 1..n : st[i - 1] \in U => st[i] \in U
    BY <1>7, FileType
  <2>2. st = [i \in 0..n |-> st[i]]
    BY <1>5
  <2>. HIDE DEF F, n, b, U
  <2>. QED BY <1>1, <1>7, <2>1, <2>2, LoopType
<1>. QED BY <1>6, <1>7, <1>8

\* Whichever files are given, and in whichever order: the size is that of the
\* bytes of all inodes among them.
LEMMA FilesCounted ==
  ASSUME NEW files \in Seq(Char)
  PROVE  alpm_pkg_get_realsize(files) = Cardinality(BytesOf(Present(files, Len(files))))
<1> DEFINE n == Len(files)
           V(i) == {u \in FileStates : Counts(u, Present(files, i))}
           G == [i \in 0..n |-> V(i)]
<1>1. n \in Nat
  OBVIOUS
<1>2. PICK st \in [0..n -> FileStates] :
        /\ st[0] = [inodes |-> <<>>, size |-> 0]
        /\ \A i \in 1..n : st[i] = FileStep(st[i - 1], files[i])
        /\ alpm_pkg_get_realsize(files) = st[n].size
  BY FileLoop
<1>3. st[0] \in V(0)
  <2>1. Present(files, 0) = {} /\ InodesOf({}) = {} /\ BytesOf({}) = {}
    BY DEF Present, InodesOf, BytesOf
  <2>2. ToSet(<<>>) = {}
    BY DEF ToSet
  <2>3. Counts(st[0], Present(files, 0))
    <3> DEFINE u == st[0]
    <3>1. u.inodes = <<>> /\ u.size = 0
      BY <1>2
    <3>2. IsFiniteSet({}) /\ Cardinality({}) = 0
      BY FS_EmptySet
    <3>. HIDE DEF u
    <3>3. Counts(u, Present(files, 0))
      BY <2>1, <2>2, <3>1, <3>2 DEF Counts
    <3>. QED BY <3>3 DEF u
  <2>. QED BY <1>1, <2>3
<1>4. ASSUME NEW i \in 1..n, st[i - 1] \in V(i - 1) PROVE st[i] \in V(i)
  <2> DEFINE f == files[i]
             P == Present(files, i - 1)
             u == st[i - 1]
  <2>1. P \in SUBSET DOMAIN Stat /\ Counts(u, P) /\ u \in FileStates
    BY <1>4 DEF Present
  <2>2. Present(files, i) = IF f \in DOMAIN Stat /\ Stat[f].regular THEN P \cup {f} ELSE P
    <3>1. \A k : k \in 1..i <=> k \in 1..(i - 1) \/ k = i
      BY <1>1
    <3>. QED BY <3>1 DEF Present
  <2>3. st[i] = FileStep(u, f)
    BY <1>2
  <2>. HIDE DEF f, P, u
  <2>4. FileStep(u, f) \in FileStates /\ Counts(FileStep(u, f), Present(files, i))
    BY <2>1, <2>2, FileRound
  <2>. QED BY <2>3, <2>4
<1>5. \A i \in 0..n : st[i] \in G[i]
  <2>1. \A i \in 1..n : st[i - 1] \in G[i - 1] => st[i] \in G[i]
    <3>1. \A i \in 1..n : i - 1 \in 0..n /\ i \in 0..n
      BY <1>1
    <3>. HIDE DEF V, n
    <3>. QED BY <1>4, <3>1
  <2>2. st[0] \in G[0]
    <3>. HIDE DEF V
    <3>. QED BY <1>1, <1>3
  <2>. HIDE DEF G, n
  <2>. QED BY <1>1, <2>1, <2>2, LoopInvariant
<1>6. st[n] \in V(n)
  BY <1>1, <1>5
<1>. QED BY <1>2, <1>6 DEF Counts

\* Whatever the names and whatever the files: the distance is the least number
\* of changes, the common subsequence the longest, and the size of the files
\* that of their inodes.
THEOREM NumbersAreExact == Spec => []NumbersExact
<1>1. ASSUME Written PROVE NumbersExact
  <2>1. text \in Seq(Char) /\ other \in Seq(Char)
    BY <1>1, WrittenText
  <2>2. DistancesExact
    BY <2>1, DistancesOf DEF DistancesExact
  <2>3. Present(text, Len(text)) = {f \in ToSet(text) \cap DOMAIN Stat : Stat[f].regular}
    <3>1. DOMAIN text = 1..Len(text)
      BY <2>1, LenProperties
    <3>. QED BY <3>1 DEF Present, ToSet
  <2>4. FilesCountedOnce
    BY <2>1, <2>3, FilesCounted DEF FilesCountedOnce, BytesOf
  <2>. QED BY <2>2, <2>4 DEF NumbersExact
<1>. QED BY <1>1, WrittenInductive, PTL

-----------------------------------------------------------------------------
(***************************************************************************)
(* Colours.                                                                *)
(***************************************************************************)
Ids  == Seq(IdChars) \ {<<>>}
Vals == Seq(ValChars) \ {<<>>}

\* What the list of colours may be: of some of the ids, each with a value.
Maps(I, V) == UNION {[D -> V] : D \in SUBSET I}

\* The list c is colors, where id has this colour.
IsSet(c, colors, id, color) ==
  /\ DOMAIN c = DOMAIN colors \cup {id} /\ c[id] = color
  /\ \A x \in DOMAIN colors \ {id} : c[x] = colors[x]

LEMMA MapSet ==
  ASSUME NEW I, NEW V, NEW colors \in Maps(I, V), NEW id \in I, NEW color \in V
  PROVE  /\ colors_set_color(colors, id, color) \in Maps(I, V)
         /\ IsSet(colors_set_color(colors, id, color), colors, id, color)
<1> DEFINE D == DOMAIN colors \cup {id}
           c == colors_set_color(colors, id, color)
<1>1. DOMAIN colors \subseteq I /\ \A x \in DOMAIN colors : colors[x] \in V
  BY DEF Maps
<1>2. D \in SUBSET I
  BY <1>1
<1>3. c \in [D -> V] /\ DOMAIN c = D /\ c[id] = color /\ \A x \in DOMAIN colors \ {id} : c[x] = colors[x]
  BY <1>1 DEF colors_set_color
<1>4. c \in Maps(I, V)
  <2>. HIDE DEF D, c
  <2>. QED BY <1>2, <1>3 DEF Maps
<1>. HIDE DEF c
<1>5. c \in Maps(I, V) /\ IsSet(c, colors, id, color)
  BY <1>3, <1>4 DEF IsSet
<1>. QED BY <1>5 DEF c

LEMMA MapEmpty ==
  ASSUME NEW I, NEW V
  PROVE  <<>> \in Maps(I, V) /\ DOMAIN <<>> = {}
<1>1. <<>> \in [1..0 -> V]
  BY EmptySeq, LenProperties
<1>2. 1..0 = {}
  OBVIOUS
<1>. QED BY <1>1, <1>2 DEF Maps

\* Where the loop of parse_var may be, with n characters.
VarStates(n) == [sid : 1..(n + 1), sval : 0..(n + 1), colors : Maps(Seq(Char), Seq(Char))]

LEMMA SetType ==
  ASSUME NEW src \in Seq(Char), NEW st \in VarStates(Len(src)), NEW t \in 1..(Len(src) + 1),
         st.sval # 0
  PROVE  SetField(src, st, t).colors \in Maps(Seq(Char), Seq(Char))
<1> DEFINE n == Len(src)
           id == SubSeq(src, st.sid, st.sval - 2)
           val == SubSeq(src, st.sval, t - 1)
<1>1. /\ n \in Nat /\ st.sid \in 1..(n + 1) /\ st.sval \in 0..(n + 1)
      /\ st.colors \in Maps(Seq(Char), Seq(Char))
  BY DEF VarStates
<1>2. id \in Seq(Char)
  <2>1. \A i \in st.sid..(st.sval - 2) : src[i] \in Char
    BY <1>1
  <2>. QED BY <1>1, <2>1, SubSeqProperties
<1>3. val \in Seq(Char)
  <2>1. \A i \in st.sval..(t - 1) : src[i] \in Char
    BY <1>1
  <2>. QED BY <1>1, <2>1, SubSeqProperties
<1>4. SetField(src, st, t).colors = colors_set_color(st.colors, id, val)
  BY DEF SetField
<1>5. colors_set_color(st.colors, id, val) \in Maps(Seq(Char), Seq(Char))
  <2> DEFINE S == Seq(Char)
             c == st.colors
  <2>1. id \in S /\ val \in S /\ c \in Maps(S, S)
    BY <1>1, <1>2, <1>3
  <2>. HIDE DEF id, val, S, c
  <2>2. colors_set_color(c, id, val) \in Maps(S, S)
    BY <2>1, MapSet
  <2>. QED BY <2>2 DEF S, c
<1>. QED BY <1>4, <1>5

LEMMA VarType ==
  ASSUME NEW src \in Seq(Char), NEW st \in VarStates(Len(src)), NEW t \in 1..Len(src)
  PROVE  VarStep(src, st, t) \in VarStates(Len(src))
<1> DEFINE n == Len(src)
<1>1. /\ n \in Nat /\ st.sid \in 1..(n + 1) /\ st.sval \in 0..(n + 1)
      /\ st.colors \in Maps(Seq(Char), Seq(Char))
      /\ st = [sid |-> st.sid, sval |-> st.sval, colors |-> st.colors]
  BY DEF VarStates
<1>2. t + 1 \in 1..(n + 1) /\ t + 1 \in 0..(n + 1) /\ 0 \in 0..(n + 1) /\ t \in 1..(n + 1)
  BY <1>1
<1>3. st.sval # 0 => SetField(src, st, t) \in VarStates(n)
  <2>1. SetField(src, st, t).sid = t + 1 /\ SetField(src, st, t).sval = 0
        /\ SetField(src, st, t) = [sid |-> t + 1, sval |-> 0, colors |-> SetField(src, st, t).colors]
    BY DEF SetField
  <2>2. st.sval # 0 => SetField(src, st, t).colors \in Maps(Seq(Char), Seq(Char))
    BY <1>2, SetType
  <2>. HIDE DEF n
  <2>. QED BY <1>2, <2>1, <2>2 DEF VarStates
<1>4. [st EXCEPT !.sval = t + 1] \in VarStates(n) /\ [st EXCEPT !.sid = t + 1, !.sval = 0] \in VarStates(n)
  <2>. HIDE DEF n
  <2>. QED BY <1>1, <1>2 DEF VarStates
<1>. QED BY <1>3, <1>4 DEF VarStep

\* The loop of parse_var, and the field that the end of the text ends.
IsVarLoop(src, colors, st) ==
  /\ st[0] = [sid |-> 1, sval |-> 0, colors |-> colors]
  /\ \A t \in 1..Len(src) : st[t] = VarStep(src, st[t - 1], t)
  /\ LET end  == Len(src) + 1
         last == st[Len(src)]
     IN parse_var(colors, src)
          = IF last.sval \notin {0, end} THEN SetField(src, last, end).colors ELSE last.colors

LEMMA VarLoop ==
  ASSUME NEW src \in Seq(Char), NEW colors \in Maps(Seq(Char), Seq(Char))
  PROVE  \E st \in [0..Len(src) -> VarStates(Len(src))] : IsVarLoop(src, colors, st)
<1> DEFINE n == Len(src)
           U == VarStates(Len(src))
           b == [sid |-> 1, sval |-> 0, colors |-> colors]
           F == [t \in 1..n |-> [u \in U |-> VarStep(src, u, t)]]
           st[t \in 0..n] == IF t = 0 THEN b ELSE VarStep(src, st[t - 1], t)
<1>1. n \in Nat /\ b \in U
  BY DEF VarStates
<1>2. \A t \in 1..n : \A u \in U : VarStep(src, u, t) \in U
  BY VarType
<1>3. PICK g \in [0..n -> U] : IsLoop(g, n, b, F)
  <2>1. F \in [1..n -> [U -> U]]
    BY <1>2
  <2>. HIDE DEF F, n, b, U
  <2>. QED BY <1>1, <2>1, LoopExists
<1>4. g = [t \in 0..n |-> IF t = 0 THEN b ELSE VarStep(src, g[t - 1], t)]
  <2>1. \A t \in 0..n \ {0} : t \in 1..n /\ g[t - 1] \in U
    <3>. HIDE DEF b, U, F, st
    <3>. QED BY <1>1
  <2>. HIDE DEF b, U, st
  <2>. QED BY <1>3, <2>1 DEF IsLoop
<1>5. st = [t \in 0..n |-> IF t = 0 THEN b ELSE VarStep(src, st[t - 1], t)]
  BY <1>4
<1>6. LET end  == Len(src) + 1
          last == st[Len(src)]
      IN parse_var(colors, src)
           = IF last.sval \notin {0, end} THEN SetField(src, last, end).colors ELSE last.colors
  BY DEF parse_var
<1>. HIDE DEF st
<1>7. st[0] = b /\ \A t \in 1..n : st[t] = VarStep(src, st[t - 1], t)
  <2>. HIDE DEF b
  <2>. QED BY <1>1, <1>5
<1>8. st \in [0..n -> U]
  <2>1. \A t \in 1..n : st[t - 1] \in U => st[t] \in U
    BY <1>2, <1>7
  <2>2. st = [t \in 0..n |-> st[t]]
    BY <1>5
  <2>. HIDE DEF F, n, b, U
  <2>. QED BY <1>1, <1>7, <2>1, <2>2, LoopType
<1>. QED BY <1>6, <1>7, <1>8 DEF IsVarLoop

\* What may be the beginning of an id.
StartsAt(src, i) == i = 1 \/ Breaks(src, i - 1)

\* Before the t-th character is read, it stands in a field of which all is right
\* so far: characters of an id, and after a "=" characters of a value.
InField(src, t, st) ==
  /\ st.sid <= t + 1 /\ StartsAt(src, st.sid)
  /\ \A i \in st.sid..(IF st.sval = 0 THEN t ELSE st.sval - 2) : src[i] \in IdChars
  /\ st.sval # 0 => /\ st.sid <= st.sval - 2 /\ st.sval <= t + 1
                    /\ src[st.sval - 1] = "="
                    /\ \A i \in st.sval..t : src[i] \in ValChars

\* From i to j is an id, and after a "=" a value up to k and the end of the field.
IsField(src, i, j, k) ==
  /\ i \in Nat \ {0} /\ j \in Nat /\ k \in Nat
  /\ i <= j /\ j + 2 <= k /\ k <= Len(src)
  /\ \A x \in i..j : src[x] \in IdChars
  /\ src[j + 1] = "="
  /\ \A x \in (j + 2)..k : src[x] \in ValChars
  /\ k = Len(src) \/ src[k + 1] = ":"
  /\ StartsAt(src, i)

\* There is a field of this id and this value.
HasField(src, id, val) ==
  \E i, j, k \in Nat : /\ IsField(src, i, j, k)
                       /\ id = SubSeq(src, i, j) /\ val = SubSeq(src, j + 2, k)

\* The colours are those there were, and those of fields.
FromFields(src, before, colors) ==
  /\ colors \in Maps(Ids, Vals)
  /\ DOMAIN before \subseteq DOMAIN colors
  /\ \A id \in DOMAIN colors :
       (id \in DOMAIN before /\ colors[id] = before[id]) \/ HasField(src, id, colors[id])

\* A part of a text with characters of S only.
LEMMA PartIn ==
  ASSUME NEW src \in Seq(Char), NEW S, NEW i \in Nat \ {0}, NEW j \in Nat, i <= j, j <= Len(src),
         \A x \in i..j : src[x] \in S
  PROVE  SubSeq(src, i, j) \in Seq(S) \ {<<>>} /\ Len(SubSeq(src, i, j)) = j - i + 1
<1>1. SubSeq(src, i, j) \in Seq(S) /\ Len(SubSeq(src, i, j)) = j - i + 1
  BY SubSeqProperties
<1> DEFINE u == SubSeq(src, i, j)
<1>2. Len(u) # 0
  BY <1>1
<1>. HIDE DEF u
<1>3. u # <<>>
  BY <1>2, EmptySeq
<1>. QED BY <1>1, <1>3 DEF u

LEMMA FieldTexts ==
  ASSUME NEW src \in Seq(Char), NEW i, NEW j, NEW k, IsField(src, i, j, k)
  PROVE  /\ SubSeq(src, i, j) \in Ids /\ Len(SubSeq(src, i, j)) = j - i + 1
         /\ SubSeq(src, j + 2, k) \in Vals /\ Len(SubSeq(src, j + 2, k)) = k - (j + 2) + 1
<1>1. /\ i \in Nat \ {0} /\ j \in Nat /\ k \in Nat
      /\ i <= j /\ j + 2 <= k /\ k <= Len(src)
      /\ \A x \in i..j : src[x] \in IdChars
      /\ \A x \in (j + 2)..k : src[x] \in ValChars
  BY DEF IsField
<1>2. j + 2 \in Nat \ {0} /\ j <= Len(src)
  BY <1>1
<1>3. SubSeq(src, i, j) \in Ids /\ Len(SubSeq(src, i, j)) = j - i + 1
  BY <1>1, <1>2, PartIn DEF Ids
<1>4. SubSeq(src, j + 2, k) \in Vals /\ Len(SubSeq(src, j + 2, k)) = k - (j + 2) + 1
  BY <1>1, <1>2, PartIn DEF Vals
<1>. QED BY <1>3, <1>4

\* A colon or the end after a value ends a field that is right.
LEMMA FieldEnds ==
  ASSUME NEW src \in Seq(Char), NEW st \in VarStates(Len(src)), NEW t \in 1..(Len(src) + 1),
         InField(src, t - 1, st), st.sval \notin {0, t}, t = Len(src) + 1 \/ src[t] = ":"
  PROVE  /\ IsField(src, st.sid, st.sval - 2, t - 1)
         /\ SetField(src, st, t).colors
              = colors_set_color(st.colors, SubSeq(src, st.sid, st.sval - 2), SubSeq(src, st.sval, t - 1))
<1>1. /\ Len(src) \in Nat /\ st.sid \in 1..(Len(src) + 1) /\ st.sval \in 0..(Len(src) + 1)
  BY DEF VarStates
<1>2. st.sid <= st.sval - 2 /\ st.sval <= t /\ src[st.sval - 1] = "="
  BY <1>1 DEF InField
<1>3. \A x \in st.sid..(st.sval - 2) : src[x] \in IdChars
  BY DEF InField
<1>4. \A x \in st.sval..(t - 1) : src[x] \in ValChars
  BY <1>1 DEF InField
<1>5. st.sid \in Nat \ {0} /\ st.sval - 2 \in Nat /\ t - 1 \in Nat /\ (st.sval - 2) + 2 = st.sval
      /\ (st.sval - 2) + 1 = st.sval - 1 /\ st.sval <= t - 1 /\ t - 1 <= Len(src) /\ (t - 1) + 1 = t
  BY <1>1, <1>2
<1>6. t - 1 = Len(src) \/ src[(t - 1) + 1] = ":"
  BY <1>1, <1>5
<1>7. StartsAt(src, st.sid)
  BY DEF InField
<1>. QED BY <1>2, <1>3, <1>4, <1>5, <1>6, <1>7 DEF IsField, SetField

\* A field more.
LEMMA FieldSet ==
  ASSUME NEW src \in Seq(Char), NEW before, NEW colors, FromFields(src, before, colors),
         NEW i, NEW j, NEW k, IsField(src, i, j, k)
  PROVE  FromFields(src, before, colors_set_color(colors, SubSeq(src, i, j), SubSeq(src, j + 2, k)))
<1> DEFINE id == SubSeq(src, i, j)
           val == SubSeq(src, j + 2, k)
           c == colors_set_color(colors, id, val)
<1>1. id \in Ids /\ val \in Vals
  BY FieldTexts
<1>2. i \in Nat /\ j \in Nat /\ k \in Nat
  BY DEF IsField
<1>3. colors \in Maps(Ids, Vals)
  BY DEF FromFields
<1>4. /\ c \in Maps(Ids, Vals) /\ DOMAIN c = DOMAIN colors \cup {id} /\ c[id] = val
      /\ \A x \in DOMAIN colors \ {id} : c[x] = colors[x]
  <2>. HIDE DEF c, id, val
  <2>1. c \in Maps(Ids, Vals) /\ IsSet(c, colors, id, val)
    BY <1>1, <1>3, MapSet DEF c
  <2>. QED BY <2>1 DEF IsSet
<1>5. DOMAIN before \subseteq DOMAIN c
  BY <1>4 DEF FromFields
<1>6. HasField(src, id, val)
  BY <1>2 DEF HasField
<1>. HIDE DEF c, id, val
<1>7. ASSUME NEW x \in DOMAIN c
      PROVE  (x \in DOMAIN before /\ c[x] = before[x]) \/ HasField(src, x, c[x])
  <2>1. CASE x = id
    BY <1>4, <1>6, <2>1
  <2>2. CASE x # id
    <3>1. x \in DOMAIN colors /\ c[x] = colors[x]
      BY <1>4, <1>7, <2>2
    <3>. QED BY <3>1 DEF FromFields
  <2>. QED BY <2>1, <2>2
<1>8. FromFields(src, before, c)
  BY <1>4, <1>5, <1>7 DEF FromFields
<1>. QED BY <1>8 DEF c, id, val

LEMMA BrokenStarts ==
  ASSUME NEW src, NEW t \in Nat, src[t] \notin IdChars
  PROVE  StartsAt(src, t + 1)
<1>1. (t + 1) - 1 = t
  OBVIOUS
<1>. QED BY <1>1 DEF StartsAt, Breaks

\* After a character that breaks a field the next one may begin an id.
LEMMA BreakStarts ==
  ASSUME NEW src \in Seq(Char), NEW st \in VarStates(Len(src)), NEW t \in 1..Len(src),
         InField(src, t - 1, st), IsBroken(src[t], st.sval)
  PROVE  StartsAt(src, t + 1)
<1>1. /\ Len(src) \in Nat /\ st.sid \in 1..(Len(src) + 1) /\ st.sval \in 0..(Len(src) + 1)
      /\ t \in Nat \ {0} /\ (t + 1) - 1 = t /\ (t - 1) + 1 = t
  BY DEF VarStates
<1>2. CASE st.sval = 0
  <2>1. src[t] \notin IdChars
    BY <1>2 DEF IsBroken
  <2>. QED BY <1>1, <2>1, BrokenStarts
<1>3. CASE st.sval # 0
  <2> DEFINE j == st.sval - 1
  <2>1. src[t] \notin ValChars
    BY <1>3 DEF IsBroken
  <2>2. st.sid <= st.sval - 2 /\ st.sval <= t /\ src[st.sval - 1] = "="
    BY <1>1, <1>3 DEF InField
  <2>3. \A x \in st.sval..(t - 1) : src[x] \in ValChars
    BY <1>3 DEF InField
  <2>4. j \in 1..(t - 1) /\ src[j] = "=" /\ j + 1 = st.sval
    BY <1>1, <2>2
  <2>. HIDE DEF j
  <2>5. Breaks(src, t)
    BY <2>1, <2>3, <2>4 DEF Breaks
  <2>. QED BY <1>1, <2>5 DEF StartsAt
<1>. QED BY <1>2, <1>3

LEMMA VarRound ==
  ASSUME NEW src \in Seq(Char), NEW st \in VarStates(Len(src)), NEW t \in 1..Len(src), NEW before,
         InField(src, t - 1, st), FromFields(src, before, st.colors)
  PROVE  LET v == VarStep(src, st, t)
         IN  InField(src, t, v) /\ FromFields(src, before, v.colors)
<1> DEFINE v == VarStep(src, st, t)
<1>1. /\ Len(src) \in Nat /\ st.sid \in 1..(Len(src) + 1) /\ st.sval \in 0..(Len(src) + 1) /\ t \in Nat \ {0}
      /\ st = [sid |-> st.sid, sval |-> st.sval, colors |-> st.colors]
  BY DEF VarStates
<1>2. (t - 1) + 1 = t /\ st.sid <= t /\ StartsAt(src, st.sid)
  BY <1>1 DEF InField
<1>3. CASE st.sval = 0 /\ st.sid # t /\ src[t] = "="
  <2>1. v.sid = st.sid /\ v.sval = t + 1 /\ v.colors = st.colors
    BY <1>1, <1>3 DEF VarStep
  <2>. HIDE DEF v
  <2>2. InField(src, t, v)
    <3>1. \A i \in v.sid..(v.sval - 2) : src[i] \in IdChars
      BY <1>1, <1>3, <2>1 DEF InField
    <3>. QED BY <1>1, <1>2, <1>3, <2>1, <3>1 DEF InField
  <2>. QED BY <2>1, <2>2 DEF v
<1>4. CASE st.sval \notin {0, t} /\ src[t] = ":"
  <2>1. v = SetField(src, st, t)
    BY <1>1, <1>4 DEF VarStep
  <2>2. /\ IsField(src, st.sid, st.sval - 2, t - 1)
        /\ v.colors = colors_set_color(st.colors, SubSeq(src, st.sid, st.sval - 2), SubSeq(src, st.sval, t - 1))
    <3>1. t \in 1..(Len(src) + 1)
      BY <1>1
    <3>. QED BY <1>4, <2>1, <3>1, FieldEnds
  <2>3. FromFields(src, before, v.colors)
    <3>1. (st.sval - 2) + 2 = st.sval
      BY <1>1
    <3>2. FromFields(src, before, colors_set_color(st.colors, SubSeq(src, st.sid, st.sval - 2),
                                                  SubSeq(src, (st.sval - 2) + 2, t - 1)))
      BY <2>2, FieldSet
    <3>. QED BY <2>2, <3>1, <3>2
  <2>4. v.sid = t + 1 /\ v.sval = 0
    BY <2>1 DEF SetField
  <2>. HIDE DEF v
  <2>5. StartsAt(src, t + 1)
    <3>1. src[t] \notin IdChars
      BY <1>4, StringsAssumption
    <3>. QED BY <1>1, <3>1, BrokenStarts
  <2>6. InField(src, t, v)
    BY <1>1, <2>4, <2>5 DEF InField
  <2>. QED BY <2>3, <2>6 DEF v
<1>5. CASE /\ ~(st.sval = 0 /\ st.sid # t /\ src[t] = "=") /\ ~(st.sval \notin {0, t} /\ src[t] = ":")
           /\ IsBroken(src[t], st.sval)
  <2>1. v.sid = t + 1 /\ v.sval = 0 /\ v.colors = st.colors
    BY <1>1, <1>5 DEF VarStep
  <2>. HIDE DEF v
  <2>2. StartsAt(src, t + 1)
    BY <1>5, BreakStarts
  <2>3. InField(src, t, v)
    BY <1>1, <2>1, <2>2 DEF InField
  <2>. QED BY <2>1, <2>3 DEF v
<1>6. CASE /\ ~(st.sval = 0 /\ st.sid # t /\ src[t] = "=") /\ ~(st.sval \notin {0, t} /\ src[t] = ":")
           /\ ~IsBroken(src[t], st.sval)
  <2>1. v = st
    BY <1>6 DEF VarStep
  <2>2. src[t] \in (IF st.sval = 0 THEN IdChars ELSE ValChars)
    BY <1>6 DEF IsBroken
  <2>3. CASE st.sval = 0
    <3>1. \A i \in st.sid..t : src[i] \in IdChars
      BY <1>1, <1>2, <2>2, <2>3 DEF InField
    <3>. QED BY <1>1, <1>2, <2>1, <2>3, <3>1 DEF InField
  <2>4. CASE st.sval # 0
    <3>1. \A i \in st.sval..t : src[i] \in ValChars
      BY <1>1, <1>2, <2>2, <2>4 DEF InField
    <3>. QED BY <1>1, <1>2, <2>1, <2>4, <3>1 DEF InField
  <2>. QED BY <2>3, <2>4
<1>. QED BY <1>3, <1>4, <1>5, <1>6

LEMMA MapsWiden == Maps(Ids, Vals) \subseteq Maps(Seq(Char), Seq(Char))
<1>1. Ids \subseteq Seq(Char) /\ Vals \subseteq Seq(Char)
  <2>1. IdChars \subseteq Char /\ ValChars \subseteq Char
    BY StringsAssumption
  <2>2. \A s \in Seq(IdChars) : s \in Seq(Char)
    BY <2>1, SeqMonotonic
  <2>3. \A s \in Seq(ValChars) : s \in Seq(Char)
    BY <2>1, SeqMonotonic
  <2>. QED BY <2>2, <2>3 DEF Ids, Vals
<1>. QED BY <1>1 DEF Maps

\* In each round, too, the field is right so far and the colours are of fields.
LEMMA RoundsRight ==
  ASSUME NEW src \in Seq(Char), NEW before \in Maps(Ids, Vals),
         NEW st \in [0..Len(src) -> VarStates(Len(src))], IsVarLoop(src, before, st)
  PROVE  \A t \in 0..Len(src) : InField(src, t, st[t]) /\ FromFields(src, before, st[t].colors)
<1> DEFINE n == Len(src)
           V(t) == {u \in VarStates(n) : InField(src, t, u) /\ FromFields(src, before, u.colors)}
           G == [t \in 0..n |-> V(t)]
<1>1. n \in Nat /\ 0 \in 0..n
  OBVIOUS
<1>2. st[0] \in V(0)
  <2> DEFINE u == st[0]
  <2>1. u.sid = 1 /\ u.sval = 0 /\ u.colors = before /\ u \in VarStates(n)
    <3>1. st[0] = [sid |-> 1, sval |-> 0, colors |-> before]
      BY DEF IsVarLoop
    <3>. QED BY <1>1, <3>1
  <2>. HIDE DEF u
  <2>2. InField(src, 0, u)
    BY <2>1 DEF InField, StartsAt
  <2>3. FromFields(src, before, u.colors)
    BY <2>1 DEF FromFields
  <2>. QED BY <2>1, <2>2, <2>3 DEF u
<1>3. ASSUME NEW t \in 1..n, st[t - 1] \in V(t - 1) PROVE st[t] \in V(t)
  <2> DEFINE u == st[t - 1]
  <2>1. u \in VarStates(n) /\ InField(src, t - 1, u) /\ FromFields(src, before, u.colors)
    BY <1>3
  <2>2. st[t] = VarStep(src, u, t) /\ st[t] \in VarStates(n)
    BY <1>1 DEF IsVarLoop
  <2>. HIDE DEF u
  <2>3. InField(src, t, VarStep(src, u, t)) /\ FromFields(src, before, VarStep(src, u, t).colors)
    BY <2>1, VarRound
  <2>. QED BY <2>2, <2>3
<1>4. \A t \in 0..n : st[t] \in G[t]
  <2>1. \A t \in 1..n : st[t - 1] \in G[t - 1] => st[t] \in G[t]
    <3>1. \A t \in 1..n : t - 1 \in 0..n /\ t \in 0..n
      BY <1>1
    <3>. HIDE DEF V, n
    <3>. QED BY <1>3, <3>1
  <2>2. st[0] \in G[0]
    <3>. HIDE DEF V
    <3>. QED BY <1>1, <1>2
  <2>. HIDE DEF G, n
  <2>. QED BY <1>1, <2>1, <2>2, LoopInvariant
<1>. QED BY <1>4

\* The colours that parse_var leaves.
LEMMA ParsedFields ==
  ASSUME NEW src \in Seq(Char), NEW before \in Maps(Ids, Vals)
  PROVE  FromFields(src, before, parse_var(before, src))
<1> DEFINE n == Len(src)
<1>1. n \in Nat /\ n \in 0..n /\ n + 1 \in 1..(n + 1) /\ (n + 1) - 1 = n
  OBVIOUS
<1>2. PICK st \in [0..n -> VarStates(n)] : IsVarLoop(src, before, st)
  BY MapsWiden, VarLoop
<1> DEFINE last == st[n]
<1>3. InField(src, n, last) /\ FromFields(src, before, last.colors) /\ last \in VarStates(n)
  BY <1>1, <1>2, RoundsRight
<1>4. parse_var(before, src)
        = IF last.sval \notin {0, n + 1} THEN SetField(src, last, n + 1).colors ELSE last.colors
  BY <1>2 DEF IsVarLoop
<1>. HIDE DEF last
<1>5. ASSUME last.sval \notin {0, n + 1} PROVE FromFields(src, before, SetField(src, last, n + 1).colors)
  <2>1. /\ IsField(src, last.sid, last.sval - 2, n)
        /\ SetField(src, last, n + 1).colors
             = colors_set_color(last.colors, SubSeq(src, last.sid, last.sval - 2), SubSeq(src, last.sval, n))
    BY <1>1, <1>3, <1>5, FieldEnds
  <2>2. (last.sval - 2) + 2 = last.sval
    BY <1>1, <1>3 DEF VarStates
  <2>3. FromFields(src, before, colors_set_color(last.colors, SubSeq(src, last.sid, last.sval - 2),
                                                 SubSeq(src, (last.sval - 2) + 2, n)))
    BY <1>3, <2>1, FieldSet
  <2>. QED BY <2>1, <2>2, <2>3
<1>. QED BY <1>3, <1>4, <1>5

\* The colours of the program, and those of the program and the environment.
LEMMA ColorsFrom ==
  ASSUME NEW env \in Seq(Char)
  PROVE  LET defaults == parse_var(<<>>, DefaultColors)
         IN  /\ defaults \in Maps(Ids, Vals)
             /\ FromFields(env, defaults, color_init(DefaultColors, env))
             /\ color_init(DefaultColors, env) = parse_var(defaults, env)
<1>1. DefaultColors \in Seq(Char)
  BY TextsAssumption
<1>2. parse_var(<<>>, DefaultColors) \in Maps(Ids, Vals)
  BY <1>1, MapEmpty, ParsedFields DEF FromFields
<1>. QED BY <1>2, ParsedFields DEF color_init

-----------------------------------------------------------------------------
\* A field as the property sees it.
LEMMA FieldAt ==
  ASSUME NEW src \in Seq(Char), NEW i, NEW j, NEW k, IsField(src, i, j, k)
  PROVE  /\ IsAt(src, i, SubSeq(src, i, j) \o <<"=">>)
         /\ SetsAt(src, i, SubSeq(src, i, j), SubSeq(src, j + 2, k))
<1>1. /\ i \in Nat \ {0} /\ j \in Nat /\ k \in Nat /\ i <= j /\ j + 2 <= k /\ k <= Len(src) /\ Len(src) \in Nat
      /\ src[j + 1] = "="
      /\ k = Len(src) \/ src[k + 1] = ":"
  BY DEF IsField
<1>2. /\ Len(SubSeq(src, i, j)) = j - i + 1 /\ Len(SubSeq(src, j + 2, k)) = k - (j + 2) + 1
  <2>1. j <= Len(src) /\ j + 2 \in Nat \ {0}
    BY <1>1
  <2>. QED BY <1>1, <2>1, PartOf
<1>3. SubSeq(src, i, j) \o <<"=">> = SubSeq(src, i, j + 1) /\ Len(SubSeq(src, i, j + 1)) = j + 1 - i + 1
  <2>1. i \in 1..Len(src) /\ j + 1 \in i..Len(src) /\ (j + 1) - 1 = j
    BY <1>1
  <2>2. SubSeq(src, i, j + 1) = SubSeq(src, i, (j + 1) - 1) \o <<src[j + 1]>>
    BY <2>1, SubSeqRecursiveSecond
  <2>3. Len(SubSeq(src, i, j + 1)) = j + 1 - i + 1
    BY <1>1, <2>1, PartOf
  <2>. QED BY <1>1, <2>1, <2>2, <2>3
<1>4. SubSeq(src, i, j + 1) \o SubSeq(src, j + 2, k) = SubSeq(src, i, k) /\ Len(SubSeq(src, i, k)) = k - i + 1
  <2>1. i \in 1..Len(src) + 1 /\ j + 1 \in (i - 1)..Len(src) /\ k \in (j + 1)..Len(src) /\ (j + 1) + 1 = j + 2
    BY <1>1
  <2>2. SubSeq(src, i, j + 1) \o SubSeq(src, (j + 1) + 1, k) = SubSeq(src, i, k)
    BY <2>1, ConcatAdjacentSubSeq
  <2>3. Len(SubSeq(src, i, k)) = k - i + 1
    BY <1>1, PartOf
  <2>. QED BY <2>1, <2>2, <2>3
<1>5. IsAt(src, i, SubSeq(src, i, j) \o <<"=">>)
  <2>1. i + (j + 1 - i + 1) - 1 = j + 1 /\ i + (j + 1 - i + 1) <= Len(src) + 1
    BY <1>1
  <2>. QED BY <1>3, <2>1 DEF IsAt
<1>6. IsAt(src, i, Assignment(SubSeq(src, i, j), SubSeq(src, j + 2, k)))
  <2>1. i + (k - i + 1) - 1 = k /\ i + (k - i + 1) <= Len(src) + 1
    BY <1>1
  <2>2. Assignment(SubSeq(src, i, j), SubSeq(src, j + 2, k)) = SubSeq(src, i, k)
    BY <1>3, <1>4 DEF Assignment
  <2>. QED BY <1>4, <2>1, <2>2 DEF IsAt
<1>7. i + Len(SubSeq(src, i, j)) + 1 + Len(SubSeq(src, j + 2, k)) \in {Len(src) + 1} \cup {x \in DOMAIN src : src[x] = ":"}
  <2> DEFINE a == Len(SubSeq(src, i, j))
             b == Len(SubSeq(src, j + 2, k))
  <2>1. a = j - i + 1 /\ b = k - (j + 2) + 1
    BY <1>2
  <2>. HIDE DEF a, b
  <2>2. i + a + 1 + b = k + 1
    BY <1>1, <2>1
  <2>3. k = Len(src) \/ (k + 1 \in DOMAIN src /\ src[k + 1] = ":")
    BY <1>1, LenProperties
  <2>. QED BY <2>2, <2>3 DEF a, b
<1>. QED BY <1>5, <1>6, <1>7 DEF SetsAt

\* And what the property sees is a field.
LEMMA AtField ==
  ASSUME NEW src \in Seq(Char), NEW i \in 1..Len(src), NEW j \in i..Len(src), NEW k \in (j + 2)..Len(src),
         IsId(SubSeq(src, i, j)), IsColor(SubSeq(src, j + 2, k)),
         SetsAt(src, i, SubSeq(src, i, j), SubSeq(src, j + 2, k)), BeginsField(src, i)
  PROVE  IsField(src, i, j, k)
<1> DEFINE id == SubSeq(src, i, j)
           val == SubSeq(src, j + 2, k)
           all == SubSeq(src, i, k)
<1>1. /\ Len(src) \in Nat /\ i \in Nat \ {0} /\ j \in Nat /\ k \in Nat /\ i <= j /\ j + 2 <= k /\ k <= Len(src)
      /\ j <= Len(src) /\ j + 2 \in Nat \ {0}
  OBVIOUS
<1>2. /\ id \in Seq(Char) /\ Len(id) = j - i + 1 /\ \A x \in 1..(j - i + 1) : id[x] = src[i + x - 1]
  BY <1>1, PartOf
<1>3. /\ val \in Seq(Char) /\ Len(val) = k - (j + 2) + 1
      /\ \A x \in 1..(k - (j + 2) + 1) : val[x] = src[j + 2 + x - 1]
  BY <1>1, PartOf
<1>4. \A x \in 1..(k - i + 1) : all[x] = src[i + x - 1]
  BY <1>1, PartOf
<1>5. DOMAIN id = 1..(j - i + 1) /\ DOMAIN val = 1..(k - (j + 2) + 1)
  BY <1>2, <1>3, LenProperties
<1>6. IsId(id) /\ IsColor(val) /\ SetsAt(src, i, id, val)
  OBVIOUS
<1>. HIDE DEF id, val
<1>7. \A x \in i..j : src[x] \in IdChars
  <2>. SUFFICES ASSUME NEW x \in i..j PROVE src[x] \in IdChars
    OBVIOUS
  <2>1. x - i + 1 \in 1..(j - i + 1) /\ i + (x - i + 1) - 1 = x
    BY <1>1
  <2>2. id[x - i + 1] = src[x]
    BY <1>2, <2>1
  <2>. QED BY <1>5, <1>6, <2>1, <2>2 DEF IsId, ToSet
<1>8. \A x \in (j + 2)..k : src[x] \in ValChars
  <2>. SUFFICES ASSUME NEW x \in (j + 2)..k PROVE src[x] \in ValChars
    OBVIOUS
  <2>1. x - (j + 2) + 1 \in 1..(k - (j + 2) + 1) /\ j + 2 + (x - (j + 2) + 1) - 1 = x
    BY <1>1
  <2>2. val[x - (j + 2) + 1] = src[x]
    BY <1>3, <2>1
  <2>. QED BY <1>5, <1>6, <2>1, <2>2 DEF IsColor, ToSet
<1> DEFINE eq == <<"=">>
           front == id \o eq
           whole == front \o val
<1>9. eq \in Seq(Char \cup {"="}) /\ Len(eq) = 1 /\ eq[1] = "="
  OBVIOUS
<1>10. id \in Seq(Char \cup {"="}) /\ val \in Seq(Char \cup {"="})
  BY <1>2, <1>3, SeqMonotonic
<1>. HIDE DEF eq
<1>11. front \in Seq(Char \cup {"="}) /\ Len(front) = j - i + 2 /\ front[j - i + 2] = "="
  <2>1. /\ front \in Seq(Char \cup {"="}) /\ Len(front) = Len(id) + Len(eq)
        /\ \A x \in 1..(Len(id) + Len(eq)) : front[x] = IF x <= Len(id) THEN id[x] ELSE eq[x - Len(id)]
    BY <1>9, <1>10, ConcatProperties
  <2>2. j - i + 2 \in 1..(Len(id) + Len(eq)) /\ ~(j - i + 2 <= Len(id)) /\ j - i + 2 - Len(id) = 1
    BY SMTT(30), <1>1, <1>2, <1>9
  <2>. HIDE DEF front
  <2>. QED BY <1>1, <1>2, <1>9, <2>1, <2>2
<1>. HIDE DEF front
<1>12. Len(whole) = k - i + 1 /\ whole[j - i + 2] = "="
  <2>1. /\ Len(whole) = Len(front) + Len(val)
        /\ \A x \in 1..(Len(front) + Len(val)) : whole[x] = IF x <= Len(front) THEN front[x] ELSE val[x - Len(front)]
    BY <1>10, <1>11, ConcatProperties
  <2>2. j - i + 2 \in 1..(Len(front) + Len(val)) /\ j - i + 2 <= Len(front)
    BY <1>1, <1>3, <1>11
  <2>. HIDE DEF whole
  <2>. QED BY <1>1, <1>3, <1>11, <2>1, <2>2
<1>13. IsAt(src, i, whole)
  BY <1>6 DEF SetsAt, Assignment, front, eq
<1>. HIDE DEF whole
<1>14. whole = all
  <2>1. i + (k - i + 1) - 1 = k
    BY <1>1
  <2>. QED BY <1>12, <1>13, <2>1 DEF IsAt
<1>15. src[j + 1] = "="
  <2>1. j - i + 2 \in 1..(k - i + 1) /\ i + (j - i + 2) - 1 = j + 1
    BY <1>1
  <2>2. all[j - i + 2] = src[j + 1]
    BY <1>4, <2>1
  <2>. QED BY <1>12, <1>14, <2>2
<1>16. k = Len(src) \/ src[k + 1] = ":"
  <2>1. i + Len(id) + 1 + Len(val) \in {Len(src) + 1} \cup {x \in DOMAIN src : src[x] = ":"}
    BY <1>6 DEF SetsAt
  <2>2. i + Len(id) + 1 + Len(val) = k + 1
    BY <1>1, <1>2, <1>3
  <2>. QED BY <1>1, <2>1, <2>2
<1>17. StartsAt(src, i)
  <2>1. CASE i = 1
    BY <2>1 DEF StartsAt
  <2>2. CASE src[i - 1] = ":"
    <3>1. src[i - 1] \notin IdChars
      BY <2>2, StringsAssumption
    <3>. QED BY <3>1 DEF StartsAt, Breaks
  <2>. QED BY <2>1, <2>2 DEF BeginsField
<1>. QED BY <1>1, <1>7, <1>8, <1>15, <1>16, <1>17 DEF IsField

Shows(colors, id, val) == id \in DOMAIN colors /\ colors[id] = val

\* With the field from i to k in reach: how far it has been read.
Reached(src, i, j, k, t, st) ==
  /\ t \in (i - 1)..j => st.sid = i /\ st.sval = 0
  /\ t \in (j + 1)..k => st.sid = i /\ st.sval = j + 2
  /\ t > k => /\ st.sid >= k + 2
              /\ Shows(st.colors, SubSeq(src, i, j), SubSeq(src, j + 2, k))

\* No field after k is of the id from i to j.
LastOfId(src, i, j, k) ==
  ~\E l \in k..Len(src) : IsAt(src, l, SubSeq(src, i, j) \o <<"=">>)

\* A colour that is set stays, as only other ids are set after it.
LEMMA ColorStays ==
  ASSUME NEW src \in Seq(Char), NEW st \in VarStates(Len(src)), NEW t \in 1..(Len(src) + 1),
         InField(src, t - 1, st), st.colors \in Maps(Ids, Vals),
         st.sval \notin {0, t}, t = Len(src) + 1 \/ src[t] = ":",
         NEW i, NEW j, NEW k, IsField(src, i, j, k), LastOfId(src, i, j, k), st.sid >= k + 2,
         Shows(st.colors, SubSeq(src, i, j), SubSeq(src, j + 2, k))
  PROVE  Shows(SetField(src, st, t).colors, SubSeq(src, i, j), SubSeq(src, j + 2, k))
<1> DEFINE id == SubSeq(src, i, j)
           val == SubSeq(src, j + 2, k)
           it == SubSeq(src, st.sid, st.sval - 2)
           its == SubSeq(src, st.sval, t - 1)
           before == st.colors
           c == colors_set_color(before, it, its)
<1>1. /\ IsField(src, st.sid, st.sval - 2, t - 1) /\ SetField(src, st, t).colors = c
  BY FieldEnds
<1>2. st.sid \in k..Len(src) /\ (st.sval - 2) + 2 = st.sval
  <2>1. st.sid \in Nat /\ st.sval \in Nat /\ k \in Nat /\ st.sid <= st.sval - 2 /\ st.sval <= Len(src)
    BY <1>1 DEF IsField, VarStates
  <2>. QED BY SMTT(30), <2>1
<1>3. IsAt(src, st.sid, it \o <<"=">>)
  BY <1>1, FieldAt
<1>4. it # id
  BY <1>2, <1>3 DEF LastOfId
<1>5. it \in Ids /\ its \in Vals
  <2>1. SubSeq(src, st.sid, st.sval - 2) \in Ids /\ SubSeq(src, (st.sval - 2) + 2, t - 1) \in Vals
    BY <1>1, FieldTexts
  <2>. QED BY <1>2, <2>1
<1>6. Shows(before, id, val) /\ before \in Maps(Ids, Vals)
  OBVIOUS
<1>. HIDE DEF id, val, it, its, before
<1>7. c \in Maps(Ids, Vals) /\ IsSet(c, before, it, its)
  BY <1>5, <1>6, MapSet
<1>. HIDE DEF c
<1>8. Shows(c, id, val)
  BY <1>4, <1>6, <1>7 DEF IsSet, Shows
<1>. QED BY <1>1, <1>8 DEF id, val

\* The field itself is set at its end.
LEMMA ColorComes ==
  ASSUME NEW src \in Seq(Char), NEW st \in VarStates(Len(src)), NEW t \in 1..(Len(src) + 1),
         st.colors \in Maps(Ids, Vals), NEW i, NEW j, NEW k, IsField(src, i, j, k), t = k + 1,
         st.sid = i, st.sval = j + 2
  PROVE  Shows(SetField(src, st, t).colors, SubSeq(src, i, j), SubSeq(src, j + 2, k))
<1> DEFINE id == SubSeq(src, i, j)
           val == SubSeq(src, j + 2, k)
           before == st.colors
           c == colors_set_color(before, id, val)
<1>1. (j + 2) - 2 = j /\ (k + 1) - 1 = k
  BY DEF IsField
<1>2. SetField(src, st, t).colors = c
  BY <1>1 DEF SetField
<1>3. id \in Ids /\ val \in Vals /\ before \in Maps(Ids, Vals)
  BY FieldTexts
<1>. HIDE DEF id, val, before
<1>4. c \in Maps(Ids, Vals) /\ IsSet(c, before, id, val)
  BY <1>3, MapSet
<1>. HIDE DEF c
<1>5. Shows(c, id, val)
  BY <1>4 DEF IsSet, Shows
<1>. QED BY <1>2, <1>5 DEF id, val

LEMMA ReachRound ==
  ASSUME NEW src \in Seq(Char), NEW st \in VarStates(Len(src)), NEW t \in 1..Len(src),
         InField(src, t - 1, st), st.colors \in Maps(Ids, Vals),
         NEW i, NEW j, NEW k, IsField(src, i, j, k), LastOfId(src, i, j, k), BeginsField(src, i),
         Reached(src, i, j, k, t - 1, st)
  PROVE  Reached(src, i, j, k, t, VarStep(src, st, t))
<1> DEFINE v == VarStep(src, st, t)
<1>1. /\ Len(src) \in Nat /\ i \in Nat \ {0} /\ j \in Nat /\ k \in Nat
      /\ i <= j /\ j + 2 <= k /\ k <= Len(src)
      /\ src[j + 1] = "=" /\ (k = Len(src) \/ src[k + 1] = ":")
      /\ \A x \in i..j : src[x] \in IdChars
      /\ \A x \in (j + 2)..k : src[x] \in ValChars
  BY DEF IsField
<1>2. /\ st.sid \in Nat /\ st.sval \in Nat /\ t \in Nat \ {0} /\ t - 1 \in Nat /\ t <= Len(src)
      /\ st = [sid |-> st.sid, sval |-> st.sval, colors |-> st.colors]
  BY <1>1 DEF VarStates
<1>3. "=" \notin IdChars /\ ":" \notin IdChars /\ ":" \notin ValChars
  BY StringsAssumption
<1>4. CASE t < i - 1
  BY <1>1, <1>2, <1>4 DEF Reached
<1>5. CASE t = i - 1
  <2>1. src[t] = ":"
    BY <1>1, <1>2, <1>5 DEF BeginsField
  <2>2. v.sid = t + 1 /\ v.sval = 0
    BY <1>2, <1>3, <2>1 DEF VarStep, SetField, IsBroken
  <2>. HIDE DEF v
  <2>3. Reached(src, i, j, k, t, v)
    BY SMTT(30), <1>1, <1>2, <1>5, <2>2 DEF Reached
  <2>. QED BY <2>3 DEF v
<1>6. CASE t \in i..j
  <2>1. st.sid = i /\ st.sval = 0
    BY <1>1, <1>2, <1>6 DEF Reached
  <2>2. v = st
    BY <1>1, <1>3, <1>6, <2>1 DEF VarStep, IsBroken
  <2>. HIDE DEF v
  <2>3. Reached(src, i, j, k, t, v)
    BY <1>1, <1>2, <1>6, <2>1, <2>2 DEF Reached
  <2>. QED BY <2>3 DEF v
<1>7. CASE t = j + 1
  <2>1. st.sid = i /\ st.sval = 0
    BY <1>1, <1>2, <1>7 DEF Reached
  <2>2. v.sid = i /\ v.sval = t + 1
    BY <1>1, <1>2, <1>7, <2>1 DEF VarStep
  <2>. HIDE DEF v
  <2>3. Reached(src, i, j, k, t, v)
    BY <1>1, <1>2, <1>7, <2>2 DEF Reached
  <2>. QED BY <2>3 DEF v
<1>8. CASE t \in (j + 2)..k
  <2>1. st.sid = i /\ st.sval = j + 2
    BY <1>1, <1>2, <1>8 DEF Reached
  <2>2. v = st
    BY <1>1, <1>3, <1>8, <2>1 DEF VarStep, IsBroken
  <2>. HIDE DEF v
  <2>3. Reached(src, i, j, k, t, v)
    BY <1>1, <1>2, <1>8, <2>1, <2>2 DEF Reached
  <2>. QED BY <2>3 DEF v
<1>9. CASE t = k + 1
  <2>1. st.sid = i /\ st.sval = j + 2 /\ src[t] = ":"
    BY <1>1, <1>2, <1>9 DEF Reached
  <2>2. v = SetField(src, st, t)
    BY <1>1, <1>2, <1>9, <2>1 DEF VarStep
  <2>3. Shows(SetField(src, st, t).colors, SubSeq(src, i, j), SubSeq(src, j + 2, k))
    <3>1. t \in 1..(Len(src) + 1)
      BY <1>1, <1>2
    <3>. QED BY <1>9, <2>1, <3>1, ColorComes
  <2>4. v.sid = t + 1
    BY <2>2 DEF SetField
  <2>5. Shows(v.colors, SubSeq(src, i, j), SubSeq(src, j + 2, k))
    BY <2>2, <2>3
  <2>. HIDE DEF v
  <2>6. Reached(src, i, j, k, t, v)
    BY SMTT(30), <1>1, <1>2, <1>9, <2>4, <2>5 DEF Reached
  <2>. QED BY <2>6 DEF v
<1>10. CASE t > k + 1
  <2>1. st.sid >= k + 2 /\ Shows(st.colors, SubSeq(src, i, j), SubSeq(src, j + 2, k))
    BY <1>1, <1>2, <1>10 DEF Reached
  <2>2. CASE st.sval \notin {0, t} /\ src[t] = ":"
    <3>1. v = SetField(src, st, t)
      BY <1>2, <2>2 DEF VarStep
    <3>2. Shows(SetField(src, st, t).colors, SubSeq(src, i, j), SubSeq(src, j + 2, k))
      <4>1. t \in 1..(Len(src) + 1)
        BY <1>1, <1>2
      <4>. QED BY <2>1, <2>2, <4>1, ColorStays
    <3>3. v.sid = t + 1
      BY <3>1 DEF SetField
    <3>4. Shows(v.colors, SubSeq(src, i, j), SubSeq(src, j + 2, k))
      BY <3>1, <3>2
    <3>. HIDE DEF v
    <3>5. Reached(src, i, j, k, t, v)
      BY SMTT(30), <1>1, <1>2, <1>10, <3>3, <3>4 DEF Reached
    <3>. QED BY <3>5 DEF v
  <2>3. CASE ~(st.sval \notin {0, t} /\ src[t] = ":")
    <3>1. v.colors = st.colors /\ v.sid \in {st.sid, t + 1}
      BY <1>2, <2>3 DEF VarStep
    <3>. HIDE DEF v
    <3>2. Reached(src, i, j, k, t, v)
      BY SMTT(30), <1>1, <1>2, <1>10, <2>1, <3>1 DEF Reached
    <3>. QED BY <3>2 DEF v
  <2>. QED BY <2>2, <2>3
<1>. QED BY SMTT(30), <1>1, <1>2, <1>4, <1>5, <1>6, <1>7, <1>8, <1>9, <1>10

\* A field that is right is in the colours at last, if none of its id follows.
LEMMA FieldTakesEffect ==
  ASSUME NEW src \in Seq(Char), NEW before \in Maps(Ids, Vals),
         NEW i, NEW j, NEW k, IsField(src, i, j, k), LastOfId(src, i, j, k), BeginsField(src, i)
  PROVE  Shows(parse_var(before, src), SubSeq(src, i, j), SubSeq(src, j + 2, k))
<1> DEFINE n == Len(src)
           V(t) == {u \in VarStates(n) : Reached(src, i, j, k, t, u)}
           G == [t \in 0..n |-> V(t)]
<1>1. n \in Nat /\ 0 \in 0..n /\ n \in 0..n /\ n + 1 \in 1..(n + 1) /\ (n + 1) - 1 = n
  OBVIOUS
<1>2. i \in Nat \ {0} /\ j \in Nat /\ k \in Nat /\ i <= j /\ j + 2 <= k /\ k <= n
  BY DEF IsField
<1>3. PICK st \in [0..n -> VarStates(n)] : IsVarLoop(src, before, st)
  BY MapsWiden, VarLoop
<1>4. \A t \in 0..n : /\ InField(src, t, st[t]) /\ FromFields(src, before, st[t].colors)
                      /\ st[t].colors \in Maps(Ids, Vals)
  BY <1>3, RoundsRight DEF FromFields
<1>5. st[0] \in V(0)
  <2> DEFINE u == st[0]
  <2>1. u.sid = 1 /\ u.sval = 0 /\ u \in VarStates(n)
    <3>1. st[0] = [sid |-> 1, sval |-> 0, colors |-> before]
      BY <1>3 DEF IsVarLoop
    <3>. QED BY <1>1, <3>1
  <2>. HIDE DEF u
  <2>2. Reached(src, i, j, k, 0, u)
    BY <1>2, <2>1 DEF Reached
  <2>. QED BY <2>1, <2>2 DEF u
<1>6. ASSUME NEW t \in 1..n, st[t - 1] \in V(t - 1) PROVE st[t] \in V(t)
  <2> DEFINE u == st[t - 1]
  <2>1. t - 1 \in 0..n /\ t \in 1..Len(src)
    BY <1>1
  <2>2. u \in VarStates(n) /\ InField(src, t - 1, u) /\ u.colors \in Maps(Ids, Vals)
        /\ Reached(src, i, j, k, t - 1, u)
    BY <1>4, <1>6, <2>1
  <2>3. st[t] = VarStep(src, u, t) /\ st[t] \in VarStates(n)
    BY <1>1, <1>3 DEF IsVarLoop
  <2>. HIDE DEF u
  <2>4. Reached(src, i, j, k, t, VarStep(src, u, t))
    BY <2>1, <2>2, ReachRound
  <2>. QED BY <2>3, <2>4
<1>7. \A t \in 0..n : st[t] \in G[t]
  <2>1. \A t \in 1..n : st[t - 1] \in G[t - 1] => st[t] \in G[t]
    <3>1. \A t \in 1..n : t - 1 \in 0..n /\ t \in 0..n
      BY <1>1
    <3>. HIDE DEF V, n
    <3>. QED BY <1>6, <3>1
  <2>2. st[0] \in G[0]
    <3>. HIDE DEF V
    <3>. QED BY <1>1, <1>5
  <2>. HIDE DEF G, n
  <2>. QED BY <1>1, <2>1, <2>2, LoopInvariant
<1> DEFINE last == st[n]
<1>8. /\ last \in VarStates(n) /\ Reached(src, i, j, k, n, last)
      /\ InField(src, n, last) /\ last.colors \in Maps(Ids, Vals)
  BY <1>1, <1>4, <1>7
<1>9. parse_var(before, src)
        = IF last.sval \notin {0, n + 1} THEN SetField(src, last, n + 1).colors ELSE last.colors
  BY <1>3 DEF IsVarLoop
<1>. HIDE DEF last
<1>10. CASE k = n
  <2>1. last.sid = i /\ last.sval = j + 2
    BY <1>1, <1>2, <1>8, <1>10 DEF Reached
  <2>2. Shows(SetField(src, last, n + 1).colors, SubSeq(src, i, j), SubSeq(src, j + 2, k))
    BY <1>1, <1>8, <1>10, <2>1, ColorComes
  <2>3. last.sval \notin {0, n + 1}
    BY <1>1, <1>2, <2>1
  <2>. QED BY <1>9, <2>2, <2>3
<1>11. CASE k < n
  <2>1. last.sid >= k + 2 /\ Shows(last.colors, SubSeq(src, i, j), SubSeq(src, j + 2, k))
    BY <1>1, <1>2, <1>8, <1>11 DEF Reached
  <2>2. CASE last.sval \notin {0, n + 1}
    <3>1. Shows(SetField(src, last, n + 1).colors, SubSeq(src, i, j), SubSeq(src, j + 2, k))
      BY <1>1, <1>8, <2>1, <2>2, ColorStays
    <3>. QED BY <1>9, <2>2, <3>1
  <2>3. CASE ~(last.sval \notin {0, n + 1})
    BY <1>9, <2>1, <2>3
  <2>. QED BY <2>2, <2>3
<1>12. k = n \/ k < n
  <2>. HIDE DEF V, G, n
  <2>. QED BY <1>1, <1>2
<1>. QED BY <1>10, <1>11, <1>12

\* Whatever the defaults and PQ_COLORS say, and whatever is wrong with some of
\* its fields: each field that is right takes effect unless a later one has its
\* id; and a colour that is not the default comes from the end of a field, all of
\* it or what follows a character that the field cannot have there.
THEOREM ColorsAreRead == Spec => []ColorsRead
<1>1. ASSUME Written PROVE ColorsRead
  <2> DEFINE defaults == parse_var(<<>>, DefaultColors)
             colors == color_init(DefaultColors, text)
  <2>1. text \in Seq(Char) /\ Len(text) \in Nat /\ DOMAIN text = 1..Len(text)
    BY <1>1, WrittenText, LenProperties
  <2>2. /\ defaults \in Maps(Ids, Vals) /\ FromFields(text, defaults, colors)
        /\ colors = parse_var(defaults, text)
    BY <2>1, ColorsFrom
  <2>. HIDE DEF defaults, colors
  <2>3. ASSUME NEW i \in DOMAIN text, NEW j \in i..Len(text), NEW k \in (j + 2)..Len(text),
               BeginsField(text, i), IsId(SubSeq(text, i, j)), IsColor(SubSeq(text, j + 2, k)),
               SetsAt(text, i, SubSeq(text, i, j), SubSeq(text, j + 2, k)),
               ~\E l \in k..Len(text) : IsAt(text, l, SubSeq(text, i, j) \o <<"=">>)
        PROVE  colors[SubSeq(text, i, j)] = SubSeq(text, j + 2, k)
    <3>1. IsField(text, i, j, k)
      BY <2>1, <2>3, AtField
    <3>2. Shows(colors, SubSeq(text, i, j), SubSeq(text, j + 2, k))
      BY <2>1, <2>2, <2>3, <3>1, FieldTakesEffect DEF LastOfId
    <3>. QED BY <3>2 DEF Shows
  <2>4. ASSUME NEW id \in DOMAIN colors
        PROVE  \/ id \in DOMAIN defaults /\ colors[id] = defaults[id]
               \/ \E i \in DOMAIN text : /\ SetsAt(text, i, id, colors[id])
                                         /\ i = 1 \/ Breaks(text, i - 1)
    <3>1. CASE HasField(text, id, colors[id])
      <4>1. PICK i, j, k \in Nat : /\ IsField(text, i, j, k)
                                   /\ id = SubSeq(text, i, j) /\ colors[id] = SubSeq(text, j + 2, k)
        BY <3>1 DEF HasField
      <4>2. SetsAt(text, i, id, colors[id])
        BY <2>1, <4>1, FieldAt
      <4>3. i \in DOMAIN text
        <5>1. i \in Nat \ {0} /\ i <= j /\ j + 2 <= k /\ k <= Len(text)
          BY <4>1 DEF IsField
        <5>. QED BY <2>1, <5>1
      <4>4. i = 1 \/ Breaks(text, i - 1)
        BY <4>1 DEF IsField, StartsAt
      <4>. QED BY <4>2, <4>3, <4>4
    <3>. QED BY <2>2, <3>1 DEF FromFields
  <2>5. DOMAIN defaults \subseteq DOMAIN colors
    BY <2>2 DEF FromFields
  <2>. QED BY <2>3, <2>4, <2>5 DEF ColorsRead, defaults, colors
<1>. QED BY <1>1, WrittenInductive, PTL

\* Whatever is written: distances are numbers, a format comes out as a string_t,
\* and a colour's id and value are of their characters.
THEOREM TextsTypes == Spec => []TypeOK
<1>1. ASSUME Written PROVE TypeOK
  <2>1. text \in Seq(Char) /\ other \in Seq(Char)
    BY <1>1, WrittenText
  <2>2. levenshtein_distance(text, other) \in Nat /\ longest_common_subseq(text, other) \in Nat
    BY <2>1, LevenshteinLeast, LcsMost DEF IsLeastCost, IsMostKept
  <2>3. pkg_to_str(text) \in [size : Nat, used : Nat, s : Seq(Char)]
    BY <2>1, PkgHolds DEF Holding
  <2> DEFINE colors == color_init(DefaultColors, text)
  <2>4. colors \in Maps(Ids, Vals)
    BY <2>1, ColorsFrom DEF FromFields
  <2>5. \A id \in DOMAIN colors : id \in Ids /\ colors[id] \in Vals
    <3>. HIDE DEF colors
    <3>. QED BY <2>4 DEF Maps
  <2>. QED BY <1>1, <2>2, <2>3, <2>5 DEF TypeOK, Written, Ids, Vals
<1>. QED BY <1>1, WrittenInductive, PTL

-----------------------------------------------------------------------------
(***************************************************************************)
(* Formats.  A text that is put together of a piece for each position.     *)
(***************************************************************************)
IsFlat(fl, n, E) == fl[0] = <<>> /\ \A i \in 1..n : fl[i] = fl[i - 1] \o E[i]

LEMMA FlatExists ==
  ASSUME NEW n \in Nat, NEW E \in [1..n -> Seq(Char)]
  PROVE  \E fl \in [0..n -> Seq(Char)] : IsFlat(fl, n, E) /\ FlattenSeq(E) = fl[n]
<1> DEFINE U == Seq(Char)
           b == <<>>
           F == [i \in 1..n |-> [u \in U |-> u \o E[i]]]
<1>1. b \in U
  OBVIOUS
<1>2. \A i \in 1..n : E[i] \in U
  OBVIOUS
<1>3. F \in [1..n -> [U -> U]]
  <2>1. \A i \in 1..n : \A u \in U : u \o E[i] \in U
    BY <1>2, ConcatProperties
  <2>. HIDE DEF U
  <2>. QED BY <2>1
<1>4. PICK fl \in [0..n -> U] : IsLoop(fl, n, b, F)
  <2>. HIDE DEF F, b, U
  <2>. QED BY <1>1, <1>3, LoopExists
<1>5. fl[0] = <<>> /\ \A i \in 1..n : fl[i] = fl[i - 1] \o E[i]
  <2>1. \A i \in 1..n : fl[i - 1] \in U
    <3>. HIDE DEF F, b, U
    <3>. QED OBVIOUS
  <2>. HIDE DEF U
  <2>. QED BY <1>4, <2>1 DEF IsLoop
<1>6. IsFlat(fl, n, E)
  BY <1>5 DEF IsFlat
<1>7. E \in Seq(U) /\ Len(E) = n
  <2>. HIDE DEF U
  <2>1. E = [i \in 1..n |-> E[i]]
    OBVIOUS
  <2>. QED BY <1>2, <2>1
<1>8. CASE n = 0
  <2>1. FlattenSeq(E) = E
    BY <1>7, <1>8 DEF FlattenSeq
  <2>2. E = <<>>
    <3>. HIDE DEF U
    <3>. QED BY <1>7, <1>8, EmptySeq
  <2>. QED BY <1>5, <1>6, <1>8, <2>1, <2>2
<1>9. CASE n # 0
  <2> DEFINE flatten[i \in 1..n] == IF i = 1 THEN E[i] ELSE flatten[i - 1] \o E[i]
             h == [i \in 1..n |-> fl[i]]
  <2>1. fl[1] = E[1]
    <3>1. 1 \in 1..n /\ E[1] \in Seq(Char)
      BY <1>9, <1>2
    <3>2. fl[1] = fl[1 - 1] \o E[1]
      BY <1>5, <3>1
    <3>3. <<>> \o E[1] = E[1]
      <4> DEFINE e == E[1]
      <4>1. e \in Seq(Char)
        BY <3>1
      <4>. HIDE DEF e
      <4>2. <<>> \o e = e
        BY <4>1, ConcatEmptySeq
      <4>. QED BY <4>2 DEF e
    <3>4. 1 - 1 = 0
      OBVIOUS
    <3>. QED BY <1>5, <3>2, <3>3, <3>4
  <2>2. \A i \in 1..n : h[i] = IF i = 1 THEN E[i] ELSE h[i - 1] \o E[i]
    <3>. SUFFICES ASSUME NEW i \in 1..n PROVE h[i] = IF i = 1 THEN E[i] ELSE h[i - 1] \o E[i]
      OBVIOUS
    <3>1. h[i] = fl[i] /\ (i # 1 => i - 1 \in 1..n /\ h[i - 1] = fl[i - 1])
      OBVIOUS
    <3>2. fl[i] = fl[i - 1] \o E[i]
      BY <1>5
    <3>. HIDE DEF h, flatten, U, F, b
    <3>. QED BY <2>1, <3>1, <3>2
  <2>3. h = [i \in 1..n |-> IF i = 1 THEN E[i] ELSE h[i - 1] \o E[i]]
    <3>1. h = [i \in 1..n |-> h[i]]
      OBVIOUS
    <3>. HIDE DEF h, flatten, U, F, b
    <3>. QED BY <2>2, <3>1
  <2>4. flatten = [i \in 1..n |-> IF i = 1 THEN E[i] ELSE flatten[i - 1] \o E[i]]
    <3>. HIDE DEF h, U, F, b
    <3>. QED BY <2>3
  <2>5. FlattenSeq(E) = flatten[n]
    <3>. HIDE DEF h, U, F, b
    <3>. QED BY <1>7, <1>9 DEF FlattenSeq
  <2>. HIDE DEF flatten, h, U, F, b
  <2> DEFINE S == {i \in Nat : i \in 1..n => flatten[i] = fl[i]}
  <2>6. ASSUME NEW i \in Nat, i \in S PROVE i + 1 \in S
    <3>. SUFFICES ASSUME i + 1 \in 1..n PROVE flatten[i + 1] = fl[i + 1]
      OBVIOUS
    <3>1. CASE i = 0
      BY <1>9, <2>1, <2>4, <3>1
    <3>2. CASE i # 0
      <4>1. i \in 1..n /\ (i + 1) - 1 = i /\ i + 1 # 1
        BY <3>2
      <4>2. flatten[i] = fl[i]
        BY <2>6, <4>1
      <4>3. flatten[i + 1] = flatten[i] \o E[i + 1] /\ fl[i + 1] = fl[i] \o E[i + 1]
        <5>. HIDE DEF S
        <5>. QED BY <1>5, <2>4, <4>1
      <4>. QED BY <4>2, <4>3
    <3>. QED BY <3>1, <3>2
  <2>7. 0 \in S
    OBVIOUS
  <2>8. Nat \subseteq S
    <3>. HIDE DEF S
    <3>. QED BY <2>6, <2>7, NatSetInduction
  <2>9. n \in S /\ n \in 1..n
    BY <1>9, <2>8
  <2>10. flatten[n] = fl[n]
    BY <2>9
  <2>. QED BY <1>4, <1>6, <2>5, <2>10 DEF U
<1>. QED BY <1>8, <1>9

LEMMA Regrouped ==
  ASSUME NEW x \in Seq(Char), NEW y \in Seq(Char), NEW z \in Seq(Char)
  PROVE  (x \o y) \o z = x \o (y \o z)
BY ConcatAssociative

\* Where each piece is the character itself, the text is copied.
LEMMA FlatCopies ==
  ASSUME NEW s \in Seq(Char), NEW fl \in [0..Len(s) -> Seq(Char)], NEW E, IsFlat(fl, Len(s), E),
         NEW p \in 1..(Len(s) + 1), NEW q \in (p - 1)..Len(s), \A i \in p..q : E[i] = <<s[i]>>
  PROVE  fl[q] = fl[p - 1] \o SubSeq(s, p, q)
<1> DEFINE n == Len(s)
           m == q - p + 1
           g == [k \in 0..m |-> fl[p - 1 + k]]
           G == [k \in 0..m |-> {fl[p - 1] \o SubSeq(s, p, p - 1 + k)}]
<1>1. n \in Nat /\ m \in Nat /\ p \in Nat \ {0} /\ q \in Nat /\ p - 1 \in 0..n /\ q <= n
  OBVIOUS
<1>2. g[0] \in G[0]
  <2>1. SubSeq(s, p, p - 1) = <<>>
    BY <1>1, SubSeqEmpty
  <2>2. fl[p - 1] \in Seq(Char)
    BY <1>1
  <2>3. fl[p - 1] \o <<>> = fl[p - 1]
    BY <2>2, ConcatEmptySeq
  <2>. QED BY <1>1, <2>1, <2>3
<1>3. ASSUME NEW k \in 1..m, g[k - 1] \in G[k - 1] PROVE g[k] \in G[k]
  <2> DEFINE i == p - 1 + k
             a == fl[p - 1]
             c == SubSeq(s, p, i - 1)
  <2>1. k \in 0..m /\ k - 1 \in 0..m /\ i \in p..q /\ i \in 1..n /\ p - 1 + (k - 1) = i - 1 /\ p \in 1..n
    BY <1>1
  <2>2. fl[i - 1] = a \o c
    BY <1>3, <2>1
  <2>3. fl[i] = fl[i - 1] \o E[i]
    BY <2>1 DEF IsFlat
  <2>4. SubSeq(s, p, i) = c \o <<s[i]>>
    <3>1. i \in p..Len(s)
      BY <1>1, <2>1
    <3>. QED BY <2>1, <3>1, SubSeqRecursiveSecond
  <2>5. a \in Seq(Char) /\ c \in Seq(Char) /\ <<s[i]>> \in Seq(Char)
    <3>1. c \in Seq(Char)
      BY <1>1, <2>1, PartOf
    <3>2. s[i] \in Char
      BY <2>1
    <3>3. a \in Seq(Char)
      <4>. HIDE DEF g, G, i, c
      <4>. QED BY <1>1
    <3>. HIDE DEF a, c, i, g, G
    <3>. QED BY <3>1, <3>2, <3>3
  <2>6. fl[i] = (a \o c) \o <<s[i]>>
    BY <2>1, <2>2, <2>3
  <2>7. fl[i] = a \o SubSeq(s, p, i)
    <3> DEFINE u == <<s[i]>>
    <3>. HIDE DEF a, c, i, m, n, g, G
    <3>0. a \in Seq(Char) /\ c \in Seq(Char) /\ u \in Seq(Char)
      BY <2>5
    <3>. HIDE DEF u
    <3>1. (a \o c) \o u = a \o (c \o u)
      BY <3>0, Regrouped
    <3>. QED BY <2>4, <2>6, <3>1 DEF u
  <2>. QED BY <2>1, <2>7
<1>4. \A k \in 0..m : g[k] \in G[k]
  <2>. HIDE DEF g, G, m
  <2>. QED BY <1>1, <1>2, <1>3, LoopInvariant
<1>5. m \in 0..m /\ p - 1 + m = q
  BY <1>1
<1>. QED BY <1>4, <1>5

-----------------------------------------------------------------------------
\* A sign that is the first of its pair, or would be if a character followed.
First(s, i, c) == s[i] = c /\ RunBefore(s, i, c) % 2 = 0

LEMMA RunStep ==
  ASSUME NEW s, NEW c, NEW i \in Nat \ {0}
  PROVE  /\ RunBefore(s, i, c) \in Nat
         /\ RunBefore(s, i, c) = IF i = 1 \/ s[i - 1] # c THEN 0 ELSE RunBefore(s, i - 1, c) + 1
<1> DEFINE S(x) == {n \in 1..x : n = x \/ s[x - n] # c}
<1>1. ASSUME NEW x \in Nat \ {0}
      PROVE  /\ Least(S(x)) \in S(x) /\ \A j \in S(x) : Least(S(x)) <= j
             /\ RunBefore(s, x, c) = Least(S(x)) - 1 /\ Least(S(x)) \in 1..x
  <2>1. S(x) \in SUBSET Nat /\ S(x) # {} /\ S(x) \subseteq 1..x
    OBVIOUS
  <2>2. RunBefore(s, x, c) = Least(S(x)) - 1
    BY DEF RunBefore
  <2>. HIDE DEF S
  <2>. QED BY <2>1, <2>2, LeastOf
<1>2. CASE i = 1 \/ s[i - 1] # c
  <2>1. 1 \in S(i)
    BY <1>2
  <2>. HIDE DEF S
  <2>2. Least(S(i)) = 1
    BY <1>1, <2>1
  <2>. QED BY <1>1, <1>2, <2>2
<1>3. CASE ~(i = 1 \/ s[i - 1] # c)
  <2>1. i - 1 \in Nat \ {0}
    BY <1>3
  <2>2. \A n \in Nat : n + 1 \in S(i) <=> n \in S(i - 1)
    <3>. SUFFICES ASSUME NEW n \in Nat PROVE n + 1 \in S(i) <=> n \in S(i - 1)
      OBVIOUS
    <3>1. i - (n + 1) = i - 1 - n /\ (n + 1 = i <=> n = i - 1) /\ (n + 1 \in 1..i <=> n \in 0..(i - 1))
      OBVIOUS
    <3>2. CASE n = 0
      BY <1>3, <3>1, <3>2
    <3>3. CASE n # 0
      BY <3>1, <3>3
    <3>. QED BY <3>2, <3>3
  <2>. HIDE DEF S
  <2>3. /\ Least(S(i)) \in S(i) /\ (\A j \in S(i) : Least(S(i)) <= j) /\ Least(S(i)) \in 1..i
        /\ Least(S(i - 1)) \in S(i - 1) /\ (\A j \in S(i - 1) : Least(S(i - 1)) <= j)
        /\ Least(S(i - 1)) \in 1..(i - 1)
    BY <1>1, <2>1
  <2> DEFINE a == Least(S(i))
             b == Least(S(i - 1))
  <2>4. a - 1 \in Nat /\ (a - 1) + 1 = a /\ b \in Nat /\ b + 1 \in S(i)
    BY <2>2, <2>3
  <2>5. a - 1 \in S(i - 1)
    BY <2>2, <2>3, <2>4
  <2>6. a <= b + 1 /\ b <= a - 1
    BY <2>3, <2>4, <2>5
  <2>7. a = b + 1
    BY <2>4, <2>6
  <2>8. RunBefore(s, i, c) = a - 1 /\ RunBefore(s, i - 1, c) = b - 1
    BY <1>1, <2>1
  <2>. HIDE DEF a, b
  <2>. QED BY <1>3, <2>4, <2>7, <2>8, <2>3 DEF b
<1>. QED BY <1>2, <1>3

\* Signs take turns.
LEMMA FirstStep ==
  ASSUME NEW s, NEW c, NEW i \in Nat \ {0}
  PROVE  First(s, i, c) <=> s[i] = c /\ (i = 1 \/ ~First(s, i - 1, c))
<1>1. CASE i = 1
  BY <1>1, RunStep DEF First
<1>2. CASE i # 1
  <2>1. i - 1 \in Nat \ {0}
    BY <1>2
  <2> DEFINE r == RunBefore(s, i, c)
             q == RunBefore(s, i - 1, c)
  <2>2. r \in Nat /\ q \in Nat /\ r = IF s[i - 1] # c THEN 0 ELSE q + 1
    BY <1>2, <2>1, RunStep
  <2>3. (r % 2 = 0) <=> ~(s[i - 1] = c /\ q % 2 = 0)
    <3>. HIDE DEF r, q
    <3>. QED BY <2>2
  <2>. QED BY <1>2, <2>3 DEF First
<1>. QED BY <1>1, <1>2

LEMMA Rejoined ==
  ASSUME NEW s \in Seq(Char), NEW fl \in [0..Len(s) -> Seq(Char)], NEW E, IsFlat(fl, Len(s), E),
         NEW p \in 1..(Len(s) + 1), NEW q \in (p - 1)..Len(s), \A i \in p..q : E[i] = <<s[i]>>
  PROVE  /\ fl[q] \o From(s, q + 1) = fl[p - 1] \o From(s, p)
         /\ Len(fl[q]) = Len(fl[p - 1]) + (q - p + 1)
<1> DEFINE n == Len(s)
           a == fl[p - 1]
           x == SubSeq(s, p, q)
           y == SubSeq(s, q + 1, n)
<1>1. n \in Nat /\ p \in Nat \ {0} /\ q \in Nat /\ q <= n /\ p - 1 \in 0..n /\ q \in 0..n /\ q \in p - 1..n
      /\ n \in q..n
  OBVIOUS
<1>2. a \in Seq(Char) /\ x \in Seq(Char) /\ Len(x) = q - p + 1
  <2>1. x \in Seq(Char) /\ Len(x) = IF p <= q THEN q - p + 1 ELSE 0
    BY <1>1, PartOf
  <2>2. a \in Seq(Char)
    <3>. HIDE DEF x, y
    <3>. QED BY <1>1
  <2>. HIDE DEF x, a, y
  <2>. QED BY <1>1, <2>1, <2>2
<1>3. y \in Seq(Char)
  <2>1. q + 1 \in Nat \ {0} /\ n <= Len(s)
    BY <1>1
  <2>. QED BY <1>1, <2>1, PartOf
<1>4. fl[q] = a \o x
  BY FlatCopies
<1>5. x \o y = SubSeq(s, p, n)
  BY <1>1, ConcatAdjacentSubSeq
<1>6. From(s, p) = SubSeq(s, p, n) /\ From(s, q + 1) = y
  BY DEF From
<1>. HIDE DEF a, x, y
<1>7. (a \o x) \o y = a \o (x \o y)
  BY ZenonT(30), <1>2, <1>3, Regrouped
<1>8. Len(a \o x) = Len(a) + Len(x)
  BY <1>2, ConcatProperties
<1>9. fl[q] \o From(s, q + 1) = fl[p - 1] \o From(s, p)
  BY <1>4, <1>5, <1>6, <1>7 DEF a
<1>. QED BY <1>2, <1>4, <1>8, <1>9 DEF a

\* Where nothing but characters is left, the rest is copied.
LEMMA CopiedToEnd ==
  ASSUME NEW s \in Seq(Char), NEW fl \in [0..Len(s) -> Seq(Char)], NEW E, IsFlat(fl, Len(s), E),
         NEW p \in 1..(Len(s) + 1), \A i \in p..Len(s) : E[i] = <<s[i]>>
  PROVE  fl[Len(s)] = fl[p - 1] \o From(s, p)
<1> DEFINE q == Len(s)
<1>1. q \in (p - 1)..Len(s) /\ \A i \in p..q : E[i] = <<s[i]>>
  OBVIOUS
<1>2. From(s, p) = SubSeq(s, p, q)
  BY DEF From
<1>3. fl[q] = fl[p - 1] \o SubSeq(s, p, q)
  <2>. HIDE DEF q
  <2>. QED BY <1>1, FlatCopies
<1>. QED BY <1>2, <1>3

\* Where the text has a character c, and what stands around it, behind a text x.
LEMMA BehindText ==
  ASSUME NEW s \in Seq(Char), NEW x \in Seq(Char), NEW q \in 1..Len(s)
  PROVE  LET y == x \o From(s, q)
             c == Len(x) + 1
         IN  /\ Len(y) = Len(x) + (Len(s) - q + 1) /\ y \in Seq(Char)
             /\ Upto(y, c - 1) = x
             /\ From(y, c + 2) = From(s, q + 2)
             /\ \A i \in q..Len(s) : y[c + (i - q)] = s[i]
<1> DEFINE r == From(s, q)
           y == x \o r
           c == Len(x) + 1
           n == Len(s)
<1>1. n \in Nat /\ q \in Nat \ {0} /\ q <= n /\ Len(x) \in Nat
  OBVIOUS
<1>2. /\ r \in Seq(Char) /\ Len(r) = n - q + 1
      /\ \A i \in 1..(n - q + 1) : r[i] = s[q + i - 1]
  BY <1>1, PartOf DEF From
<1>3. /\ y \in Seq(Char) /\ Len(y) = Len(x) + Len(r)
      /\ \A i \in 1..Len(x) + Len(r) : y[i] = IF i <= Len(x) THEN x[i] ELSE r[i - Len(x)]
  <2>. HIDE DEF r
  <2>. QED BY <1>2, ConcatProperties
<1>. HIDE DEF y, r
<1>4. Len(y) = Len(x) + (n - q + 1)
  BY <1>2, <1>3
<1>5. ASSUME NEW i \in q..n PROVE y[c + (i - q)] = s[i]
  <2> DEFINE k == c + (i - q)
             j == i - q + 1
  <2>1. k \in 1..Len(x) + Len(r) /\ ~(k <= Len(x)) /\ k - Len(x) = j /\ j \in 1..(n - q + 1)
        /\ q + j - 1 = i
    BY <1>1, <1>2
  <2>2. y[k] = r[j]
    BY <1>3, <2>1
  <2>3. r[j] = s[i]
    BY <1>2, <2>1
  <2>. QED BY <2>2, <2>3
<1>6. Upto(y, c - 1) = x
  <2> DEFINE u == Upto(y, c - 1)
  <2>1. Len(x) <= Len(y) /\ c - 1 = Len(x)
    BY <1>1, <1>4
  <2>2. /\ u \in Seq(Char) /\ Len(u) = Len(x)
        /\ \A i \in 1..Len(x) : u[i] = y[i]
    <3>1. /\ SubSeq(y, 1, Len(x)) \in Seq(Char)
          /\ Len(SubSeq(y, 1, Len(x))) = IF 1 <= Len(x) THEN Len(x) - 1 + 1 ELSE 0
          /\ \A i \in 1..(Len(x) - 1 + 1) : SubSeq(y, 1, Len(x))[i] = y[1 + i - 1]
      BY <1>1, <1>3, <2>1, PartOf
    <3>2. u = SubSeq(y, 1, Len(x))
      BY <2>1 DEF Upto
    <3>. HIDE DEF u, c
    <3>. QED BY <1>1, <3>1, <3>2
  <2>. HIDE DEF u, c
  <2>3. ASSUME NEW i \in 1..Len(u) PROVE u[i] = x[i]
    <3>1. i \in 1..Len(x) /\ i <= Len(x) /\ i \in 1..Len(x) + Len(r)
      BY <1>1, <1>2, <2>2
    <3>2. y[i] = x[i]
      BY <1>3, <3>1
    <3>. QED BY <2>2, <3>1, <3>2
  <2>4. u = x
    BY <2>2, <2>3, SeqEqual
  <2>. QED BY <2>4 DEF u
<1>7. From(y, c + 2) = From(s, q + 2)
  <2> DEFINE m == Len(y)
             u == SubSeq(y, c + 2, m)
             v == SubSeq(s, q + 2, n)
  <2>1. c + 2 \in Nat \ {0} /\ q + 2 \in Nat \ {0} /\ m \in Nat /\ m <= Len(y)
        /\ m - (c + 2) + 1 = n - (q + 2) + 1 /\ (c + 2 <= m <=> q + 2 <= n)
    BY <1>1, <1>3, <1>4
  <2>2. /\ u \in Seq(Char) /\ Len(u) = (IF c + 2 <= m THEN m - (c + 2) + 1 ELSE 0)
        /\ \A i \in 1..(m - (c + 2) + 1) : u[i] = y[c + 2 + i - 1]
    <3>. HIDE DEF c, m
    <3>. QED BY <1>3, <2>1, PartOf
  <2>3. /\ v \in Seq(Char) /\ Len(v) = (IF q + 2 <= n THEN n - (q + 2) + 1 ELSE 0)
        /\ \A i \in 1..(n - (q + 2) + 1) : v[i] = s[q + 2 + i - 1]
    <3>. HIDE DEF c, m
    <3>. QED BY <1>1, <2>1, PartOf
  <2>. HIDE DEF u, v
  <2>4. Len(u) = Len(v)
    <3>. HIDE DEF c, m
    <3>. QED BY <2>1, <2>2, <2>3
  <2>5. ASSUME NEW i \in 1..Len(u) PROVE u[i] = v[i]
    <3> DEFINE j == q + 2 + i - 1
    <3>1. i \in 1..(m - (c + 2) + 1) /\ i \in 1..(n - (q + 2) + 1) /\ j \in q..n
          /\ c + (j - q) = c + 2 + i - 1
      BY <1>1, <2>1, <2>2
    <3>2. u[i] = y[c + (j - q)] /\ v[i] = s[j]
      <4>. HIDE DEF c, m
      <4>. QED BY <2>2, <2>3, <3>1
    <3>3. y[c + (j - q)] = s[j]
      BY <1>5, <3>1
    <3>. QED BY <3>2, <3>3
  <2>6. u = v
    BY <2>2, <2>3, <2>4, <2>5, SeqEqual
  <2>. QED BY <2>6 DEF From, u, v
<1>. QED BY <1>3, <1>4, <1>5, <1>6, <1>7 DEF y, r

-----------------------------------------------------------------------------
\* The i-th piece: where no escape is, where one stands for nothing, and where
\* one is.
LEMMA EscapeAt ==
  ASSUME NEW s \in Seq(Char), NEW i \in 1..Len(s)
  PROVE  /\ EscapePiece(s, i) \in Seq(Char)
         /\ s[i] # "\\" /\ (i = 1 \/ ~First(s, i - 1, "\\") \/ s[i] \notin DOMAIN Translation)
            => EscapePiece(s, i) = <<s[i]>>
         /\ First(s, i, "\\") /\ ~(i < Len(s) /\ s[i + 1] \in DOMAIN Translation)
            => EscapePiece(s, i) = <<s[i]>>
         /\ First(s, i, "\\") /\ i < Len(s) /\ s[i + 1] \in DOMAIN Translation
            => EscapePiece(s, i) = <<>> /\ EscapePiece(s, i + 1) = <<Translation[s[i + 1]]>>
<1> DEFINE bs == "\\"
           D == DOMAIN Translation
<1>1. i \in Nat \ {0} /\ s[i] \in Char /\ \A t \in D : Translation[t] \in Char
  BY StringsAssumption
<1>2. Begins(s, i, bs) <=> i < Len(s) /\ First(s, i, bs)
  BY DEF Begins, First
<1>3. Ends(s, i, bs) <=> i > 1 /\ First(s, i - 1, bs)
  <2>1. i > 1 => i - 1 < Len(s)
    OBVIOUS
  <2>. QED BY <2>1 DEF Ends, Begins, First
<1>4. First(s, i, bs) <=> s[i] = bs /\ (i = 1 \/ ~First(s, i - 1, bs))
  BY <1>1, FirstStep
<1>5. EscapePiece(s, i) = IF Begins(s, i, bs) /\ s[i + 1] \in D THEN <<>>
                          ELSE IF Ends(s, i, bs) /\ s[i] \in D THEN <<Translation[s[i]]>>
                          ELSE <<s[i]>>
  BY DEF EscapePiece
<1>6. ASSUME First(s, i, bs), i < Len(s), s[i + 1] \in D
      PROVE  EscapePiece(s, i + 1) = <<Translation[s[i + 1]]>>
  <2>1. i + 1 \in Nat \ {0} /\ i + 1 > 1 /\ (i + 1) - 1 = i /\ i + 1 # 1
    BY <1>1
  <2>2. ~First(s, i + 1, bs)
    BY <1>6, <2>1, FirstStep
  <2>3. ~Begins(s, i + 1, bs)
    BY <2>2 DEF Begins, First
  <2>4. Ends(s, i + 1, bs)
    BY <1>2, <1>6, <2>1 DEF Ends
  <2>. QED BY <1>6, <2>3, <2>4 DEF EscapePiece
<1>7. EscapePiece(s, i) \in Seq(Char)
  <2>1. <<>> \in Seq(Char) /\ <<s[i]>> \in Seq(Char)
        /\ (s[i] \in D => <<Translation[s[i]]>> \in Seq(Char))
    BY <1>1
  <2>. QED BY <1>5, <2>1
<1>8. s[i] # bs /\ (i = 1 \/ ~First(s, i - 1, bs) \/ s[i] \notin D) => EscapePiece(s, i) = <<s[i]>>
  <2>1. i = 1 => ~Ends(s, i, bs)
    BY <1>3
  <2>. QED BY <1>2, <1>3, <1>4, <1>5, <2>1
<1>9. First(s, i, bs) /\ ~(i < Len(s) /\ s[i + 1] \in D) => EscapePiece(s, i) = <<s[i]>>
  <2>1. i = 1 => ~Ends(s, i, bs)
    BY <1>3
  <2>. QED BY <1>2, <1>3, <1>4, <1>5, <2>1
<1>10. First(s, i, bs) /\ i < Len(s) /\ s[i + 1] \in D => EscapePiece(s, i) = <<>>
  BY <1>2, <1>5
<1>. QED BY <1>6, <1>7, <1>8, <1>9, <1>10

\* The first sign after the p-th position begins a pair, when no pair goes on there.
LEMMA FirstFound ==
  ASSUME NEW s, NEW c, NEW p \in Nat \ {0}, p = 1 \/ ~First(s, p - 1, c),
         NEW q \in Nat, q >= p, s[q] = c, \A i \in p..(q - 1) : s[i] # c
  PROVE  First(s, q, c)
<1>1. q \in Nat \ {0}
  OBVIOUS
<1>2. CASE q = p
  BY <1>1, <1>2, FirstStep
<1>3. CASE q # p
  <2>1. q - 1 \in p..(q - 1)
    BY <1>3
  <2>2. ~First(s, q - 1, c)
    BY <2>1 DEF First
  <2>. QED BY <1>1, <2>2, FirstStep
<1>. QED BY <1>2, <1>3

\* format_str before the p-th character: the pieces up to there, then the text.
FreshEscape(s, p) ==
  \/ p = 1 \/ ~First(s, p - 1, "\\")
  \/ p > Len(s) \/ s[p] \notin DOMAIN Translation

FormatAt(s, fl, st, p) ==
  /\ st.s = fl[p - 1] \o From(s, p) /\ st.c = Len(fl[p - 1]) + 1
  /\ FreshEscape(s, p)

EscapePieces(s) == [i \in 1..Len(s) |-> EscapePiece(s, i)]

\* From there to the next backslash, or to the end, the text is copied.
LEMMA EscapeCopied ==
  ASSUME NEW s \in Seq(Char), NEW p \in 1..(Len(s) + 1), FreshEscape(s, p),
         NEW q \in (p - 1)..Len(s), \A i \in p..q : s[i] # "\\"
  PROVE  \A i \in p..q : EscapePieces(s)[i] = <<s[i]>>
<1>. SUFFICES ASSUME NEW i \in p..q PROVE EscapePieces(s)[i] = <<s[i]>>
  OBVIOUS
<1>1. i \in 1..Len(s) /\ s[i] # "\\" /\ EscapePieces(s)[i] = EscapePiece(s, i)
  BY DEF EscapePieces
<1>2. i = 1 \/ ~First(s, i - 1, "\\") \/ s[i] \notin DOMAIN Translation
  <2>1. CASE i = p
    BY <1>1, <2>1 DEF FreshEscape
  <2>2. CASE i # p
    <3>1. i - 1 \in p..q
      BY <2>2
    <3>. QED BY <3>1 DEF First
  <2>. QED BY <2>1, <2>2
<1>. QED BY <1>1, <1>2, EscapeAt

\* One round goes on by an escape, or a character, or to the end.
LEMMA FormatMoves ==
  ASSUME NEW s \in Seq(Char), NEW fl \in [0..Len(s) -> Seq(Char)],
         IsFlat(fl, Len(s), EscapePieces(s)),
         NEW st \in FormatStates, NEW p \in 1..(Len(s) + 1), FormatAt(s, fl, st, p)
  PROVE  \E r \in 1..(Len(s) + 1) : /\ FormatAt(s, fl, FormatStep(st), r)
                                    /\ r > p \/ r = Len(s) + 1
<1> DEFINE n == Len(s)
           D == DOMAIN Translation
           E == EscapePieces(s)
           x == fl[p - 1]
           y == x \o From(s, p)
           c == strstr(st.s, st.c, <<"\\">>)
<1>0. n \in Nat /\ p \in Nat \ {0} /\ p - 1 \in 0..n /\ Len(x) \in Nat /\ x \in Seq(Char)
  <2>1. x \in Seq(Char)
    <3>1. p - 1 \in 0..n
      OBVIOUS
    <3>. HIDE DEF y, c
    <3>. QED BY <3>1
  <2>. HIDE DEF x, y, c
  <2>. QED BY <2>1
<1>1. st.s = y /\ st.c = Len(x) + 1 /\ FreshEscape(s, p)
  BY DEF FormatAt
<1>2. y \in Seq(Char) /\ Len(y) = Len(x) + (n - p + 1)
  <2>1. From(s, p) \in Seq(Char) /\ Len(From(s, p)) = n - p + 1
    <3>1. /\ SubSeq(s, p, n) \in Seq(Char)
          /\ Len(SubSeq(s, p, n)) = IF p <= n THEN n - p + 1 ELSE 0
      BY <1>0, PartOf
    <3>2. From(s, p) = SubSeq(s, p, n)
      BY DEF From
    <3>3. p <= n \/ p = n + 1
      BY <1>0
    <3>. HIDE DEF x, y, c
    <3>. QED BY <1>0, <3>1, <3>2, <3>3
  <2>2. /\ x \o From(s, p) \in Seq(Char)
        /\ Len(x \o From(s, p)) = Len(x) + Len(From(s, p))
    <3>. HIDE DEF x, y, c, n, D, E
    <3>. QED BY <1>0, <2>1, ConcatProperties
  <2>3. y = x \o From(s, p)
    OBVIOUS
  <2>4. Len(y) = Len(x) + Len(From(s, p))
    <3>. HIDE DEF x, y, c
    <3>. QED BY <2>2, <2>3
  <2>5. Len(y) = Len(x) + (n - p + 1)
    <3>. HIDE DEF x, y, c
    <3>. QED BY <2>1, <2>4
  <2>. HIDE DEF x, y, c
  <2>. QED BY <2>2, <2>3, <2>5
<1>3. ASSUME NEW i \in p..n PROVE y[Len(x) + 1 + (i - p)] = s[i]
  <2>1. p \in 1..Len(s)
    BY <1>0
  <2>. HIDE DEF x, c
  <2>. QED BY <1>0, <2>1, BehindText
<1>4. c = strstr(y, Len(x) + 1, <<"\\">>)
  BY <1>1
<1>5. \/ c = 0 /\ \A k \in Len(x) + 1..Len(y) : y[k] # "\\"
      \/ /\ c \in Len(x) + 1..Len(y) /\ y[c] = "\\"
         /\ \A k \in Len(x) + 1..(c - 1) : y[k] # "\\"
  <2>1. Len(x) + 1 \in Nat \ {0}
    BY <1>0
  <2>. HIDE DEF c, x, y
  <2>. QED BY <1>2, <1>4, <2>1, FirstOf
<1>6. CASE c = 0
  <2>1. \A i \in p..n : s[i] # "\\"
    <3>. SUFFICES ASSUME NEW i \in p..n PROVE s[i] # "\\"
      OBVIOUS
    <3>1. Len(x) + 1 + (i - p) \in Len(x) + 1..Len(y)
      <4>. HIDE DEF c, x, y
      <4>. QED BY <1>0, <1>2
    <3>2. y[Len(x) + 1 + (i - p)] = s[i]
      BY <1>3
    <3>3. \A k \in Len(x) + 1..Len(y) : y[k] # "\\"
      <4>. HIDE DEF c, x, y
      <4>. QED BY <1>0, <1>5, <1>6
    <3>. HIDE DEF c, x, y
    <3>. QED BY <3>1, <3>2, <3>3
  <2>2. n \in (p - 1)..Len(s)
    BY <1>0
  <2>3. \A i \in p..n : E[i] = <<s[i]>>
    <3>. HIDE DEF c, x, y
    <3>. QED BY <1>1, <2>1, <2>2, EscapeCopied
  <2>4. fl[n] \o From(s, n + 1) = y
    <3>. HIDE DEF c
    <3>. QED BY <2>2, <2>3, Rejoined
  <2>5. From(s, n + 1) = <<>>
    BY <1>0, SubSeqEmpty DEF From
  <2>6. fl[n] = y
    <3>1. fl[n] \in Seq(Char)
      <4>1. n \in 0..Len(s)
        BY <1>0
      <4>. HIDE DEF c, x, y
      <4>. QED BY <4>1
    <3>2. fl[n] \o <<>> = fl[n]
      BY <3>1, ConcatEmptySeq
    <3>. QED BY <2>4, <2>5, <3>2
  <2>7. FormatStep(st).s = y /\ FormatStep(st).c = Len(y) + 1
    <3>1. FormatStep(st) = [st EXCEPT !.c = Len(st.s) + 1]
      BY <1>6 DEF FormatStep
    <3>. HIDE DEF c, x, y
    <3>. QED BY <1>1, <3>1 DEF FormatStates
  <2>8. FormatAt(s, fl, FormatStep(st), n + 1)
    <3>1. (n + 1) - 1 = n /\ n + 1 > Len(s)
      BY <1>0
    <3>2. FreshEscape(s, n + 1)
      BY <3>1 DEF FreshEscape
    <3>3. FormatStep(st).s = fl[(n + 1) - 1] \o From(s, n + 1)
      BY <2>4, <2>7, <3>1
    <3>4. FormatStep(st).c = Len(fl[(n + 1) - 1]) + 1
      BY <2>6, <2>7, <3>1
    <3>. QED BY <3>2, <3>3, <3>4 DEF FormatAt
  <2>. QED BY <1>0, <2>8
<1>7. CASE c # 0
  <2> DEFINE q == p + (c - Len(x) - 1)
             a == fl[q - 1]
             replaced == c < Len(st.s) /\ st.s[c + 1] \in DOMAIN Translation
  <2>1. /\ c \in Nat /\ c >= Len(x) + 1 /\ c <= Len(y)
        /\ q \in p..n /\ q \in Nat \ {0} /\ q \in 1..n /\ q - 1 \in (p - 1)..n /\ c = Len(x) + 1 + (q - p)
        /\ (q - 1) + 1 = q /\ (q - 1) - p + 1 = q - p /\ q - 1 \in 0..n /\ q + 1 # 1
        /\ q + 1 \in Nat \ {0}
    <3>1. c \in Len(x) + 1..Len(y) /\ p <= n + 1
      <4>. HIDE DEF x, y, c
      <4>. QED BY <1>0, <1>5, <1>7
    <3>2. Len(y) = Len(x) + (n - p + 1) /\ Len(x) \in Nat /\ n \in Nat /\ p \in Nat \ {0}
          /\ q = p + (c - Len(x) - 1)
      BY <1>0, <1>2
    <3> DEFINE l == Len(x)
               m == Len(y)
    <3>3. c \in l + 1..m /\ m = l + (n - p + 1) /\ l \in Nat /\ q = p + (c - l - 1) /\ p <= n + 1
      BY <3>1, <3>2
    <3>. HIDE DEF x, y, c, n, q, a, D, E, l, m, replaced
    <3>4. n \in Nat /\ p \in Nat \ {0}
      BY <3>2
    <3>5. /\ c \in Nat /\ c >= l + 1 /\ c <= m
          /\ q \in p..n /\ q \in Nat \ {0} /\ q \in 1..n /\ q - 1 \in (p - 1)..n /\ c = l + 1 + (q - p)
          /\ (q - 1) + 1 = q /\ (q - 1) - p + 1 = q - p /\ q - 1 \in 0..n /\ q + 1 # 1
          /\ q + 1 \in Nat \ {0}
      BY <3>3, <3>4
    <3>. QED BY <3>5 DEF l, m
  <2>2. s[q] = "\\"
    <3>. HIDE DEF x, y, c, q
    <3>. QED BY <1>3, <1>5, <1>7, <2>1
  <2>3. \A i \in p..(q - 1) : s[i] # "\\"
    <3>. SUFFICES ASSUME NEW i \in p..(q - 1) PROVE s[i] # "\\"
      OBVIOUS
    <3>1. i \in p..n /\ Len(x) + 1 + (i - p) \in Len(x) + 1..(c - 1)
      <4>. HIDE DEF c, x, y, q
      <4>. QED BY <1>0, <2>1
    <3>. HIDE DEF c, x, y, q
    <3>. QED BY <1>3, <1>5, <1>7, <3>1
  <2>4. \A i \in p..(q - 1) : E[i] = <<s[i]>>
    <3>. HIDE DEF c, x, y, q
    <3>. QED BY <1>1, <2>1, <2>3, EscapeCopied
  <2>5. a \o From(s, q) = y /\ Len(a) = Len(x) + (q - p)
    <3> DEFINE r == q - 1
    <3>1. r \in (p - 1)..Len(s) /\ r + 1 = q /\ r - p + 1 = q - p
      BY <2>1
    <3>2. \A i \in p..r : E[i] = <<s[i]>>
      BY <2>4
    <3>. HIDE DEF c, q, r
    <3>3. fl[r] \o From(s, r + 1) = y /\ Len(fl[r]) = Len(x) + (r - p + 1)
      BY <3>1, <3>2, Rejoined
    <3>. QED BY <3>1, <3>3 DEF r
  <2>6. a \in Seq(Char) /\ Len(a) \in Nat /\ c = Len(a) + 1
    <3>1. a \in Seq(Char)
      <4>. HIDE DEF c, x, y, q
      <4>. QED BY <2>1
    <3>. HIDE DEF c, x, y, q, a
    <3>. QED BY <1>0, <2>1, <2>5, <3>1
  <2>7. /\ Len(y) = Len(a) + (n - q + 1) /\ Upto(y, c - 1) = a /\ From(y, c + 2) = From(s, q + 2)
        /\ \A i \in q..n : y[c + (i - q)] = s[i]
    <3>1. /\ Len(a \o From(s, q)) = Len(a) + (Len(s) - q + 1)
          /\ Upto(a \o From(s, q), (Len(a) + 1) - 1) = a
          /\ From(a \o From(s, q), (Len(a) + 1) + 2) = From(s, q + 2)
          /\ \A i \in q..Len(s) : (a \o From(s, q))[(Len(a) + 1) + (i - q)] = s[i]
      <4>. HIDE DEF c, x, y, q, a
      <4>. QED BY <2>1, <2>6, BehindText
    <3>. HIDE DEF c, x, y, q, a
    <3>. QED BY <2>5, <2>6, <3>1
  <2>8. replaced <=> q < n /\ s[q + 1] \in D
    <3>1. c < Len(y) <=> q < n
      <4>1. Len(y) = Len(a) + (n - q + 1) /\ q \in Nat
        BY <2>1, <2>7
      <4>. HIDE DEF c, x, y, q, a
      <4>. QED BY <1>0, <2>6, <4>1
    <3>2. ASSUME q < n PROVE y[c + 1] = s[q + 1]
      <4>1. q + 1 \in q..n /\ c + ((q + 1) - q) = c + 1
        <5>. HIDE DEF c, x, y, q, a
        <5>. QED BY <1>0, <2>1, <3>2
      <4>. HIDE DEF c, x, y, q, a
      <4>. QED BY <2>7, <4>1
    <3>. HIDE DEF c, x, y, q, a
    <3>. QED BY <1>1, <3>1, <3>2
  <2>9. First(s, q, "\\")
    <3>1. p = 1 \/ ~First(s, p - 1, "\\") \/ q # p
      <4>1. q = p => s[p] \in D /\ ~(p > n)
        <5>1. "\\" \in D
          BY StringsAssumption
        <5>2. q = p => ~(p > n)
          <6>. HIDE DEF c, x, y, q, a
          <6>. QED BY <1>0, <2>1
        <5>. HIDE DEF c, x, y, q, a, D
        <5>. QED BY <2>2, <5>1, <5>2
      <4>. HIDE DEF c, x, y, q, a
      <4>. QED BY <1>1, <4>1 DEF FreshEscape
    <3>2. CASE q = p
      <4>1. p = 1 \/ ~First(s, p - 1, "\\")
        BY <3>1, <3>2
      <4>. HIDE DEF c, x, y, q, a
      <4>. QED BY <1>0, <2>2, <3>2, <4>1, FirstStep
    <3>3. CASE q # p
      <4>. HIDE DEF c, x, y, q, a
      <4>1. q - 1 \in p..(q - 1) /\ q # 1
        BY <1>0, <2>1, <3>3
      <4>2. ~First(s, q - 1, "\\")
        BY <2>3, <4>1 DEF First
      <4>. QED BY <2>1, <2>2, <4>2, FirstStep
    <3>. QED BY <3>2, <3>3
  <2>10. FormatStep(st) = [s |-> IF replaced THEN Upto(y, c - 1) \o <<Translation[y[c + 1]]>> \o From(y, c + 2)
                                 ELSE y,
                           c |-> c + 1]
    <3>. HIDE DEF x, y
    <3>. QED BY <1>1, <1>7 DEF FormatStep, NextFrom
  <2>11. E[q] = EscapePiece(s, q) /\ fl[q] = a \o E[q]
    <3>. HIDE DEF c, x, y, q
    <3>. QED BY <2>1 DEF EscapePieces, IsFlat
  <2>12. CASE replaced
    <3>1. q < n /\ s[q + 1] \in D /\ q + 1 \in 1..n /\ q + 2 \in 1..(n + 1) /\ (q + 2) - 1 = q + 1
          /\ (q + 1) - 1 = q /\ q + 2 > p
      <4>. HIDE DEF c, x, y, a
      <4>. QED BY SMTT(30), <1>0, <2>1, <2>8, <2>12
    <3> DEFINE t == <<Translation[s[q + 1]]>>
    <3>2. E[q] = <<>> /\ E[q + 1] = t /\ fl[q + 1] = fl[q] \o E[q + 1]
      <4>1. E[q + 1] = EscapePiece(s, q + 1)
        <5>. HIDE DEF c, x, y, q
        <5>. QED BY <3>1 DEF EscapePieces
      <4>2. fl[q + 1] = fl[q] \o E[q + 1]
        <5>. HIDE DEF c, x, y, q
        <5>. QED BY <3>1 DEF IsFlat
      <4>3. EscapePiece(s, q) = <<>> /\ EscapePiece(s, q + 1) = t
        <5>. HIDE DEF c, x, y, q
        <5>. QED BY <2>1, <2>9, <3>1, EscapeAt
      <4>. QED BY <2>11, <4>1, <4>2, <4>3
    <3>3. y[c + 1] = s[q + 1]
      <4>1. q + 1 \in q..n /\ c + ((q + 1) - q) = c + 1
        <5>1. q < n /\ q \in Nat /\ c \in Nat
          BY <2>1, <3>1
        <5>. HIDE DEF c, x, y, q, a, t, D, E, replaced
        <5>. QED BY <1>0, <5>1
      <4>. HIDE DEF c, x, y, q, a
      <4>. QED BY <2>7, <4>1
    <3>4. t \in Seq(Char) /\ Len(t) = 1
      <4>1. Translation[s[q + 1]] \in Char
        BY <3>1, StringsAssumption
      <4>. QED BY <4>1
    <3>5. fl[q] = a
      <4>1. a \o <<>> = a
        <5>. HIDE DEF a
        <5>. QED BY <2>6, ConcatEmptySeq
      <4>. QED BY <2>11, <3>2, <4>1
    <3>6. fl[q + 1] = a \o t
      BY <3>2, <3>5
    <3>7. Len(a \o t) = Len(a) + 1
      <4>1. a \in Seq(Char)
        BY <2>6
      <4>. HIDE DEF a, t, c, x, y, q, E, D
      <4>2. Len(a \o t) = Len(a) + Len(t)
        BY <3>4, <4>1, ConcatProperties
      <4>. QED BY <3>4, <4>2
    <3>8. FormatStep(st).s = (a \o t) \o From(s, q + 2) /\ FormatStep(st).c = c + 1
      <4>1. <<Translation[y[c + 1]]>> = t
        BY <3>3
      <4>2. FormatStep(st).s = Upto(y, c - 1) \o <<Translation[y[c + 1]]>> \o From(y, c + 2)
            /\ FormatStep(st).c = c + 1
        <5>. HIDE DEF c, x, y
        <5>. QED BY SMTT(30), <2>10, <2>12
      <4>. QED BY <2>7, <4>1, <4>2
    <3>9. FreshEscape(s, q + 2)
      <4>1. q + 1 \in Nat \ {0} /\ q + 1 # 1
        <5>. HIDE DEF c, x, y, q, a
        <5>. QED BY <2>1
      <4>2. ~First(s, q + 1, "\\")
        <5>. HIDE DEF c, x, y, q, a
        <5>. QED BY <2>9, <3>1, <4>1, FirstStep
      <4>. HIDE DEF c, x, y, q, a
      <4>. QED BY <3>1, <4>2 DEF FreshEscape
    <3>10. FormatAt(s, fl, FormatStep(st), q + 2)
      <4>1. FormatStep(st).s = fl[(q + 2) - 1] \o From(s, q + 2)
        BY <3>1, <3>6, <3>8
      <4>2. FormatStep(st).c = Len(fl[(q + 2) - 1]) + 1
        <5>. HIDE DEF c, x, y, q, a, t
        <5>. QED BY <2>6, <3>1, <3>6, <3>7, <3>8
      <4>. QED BY <3>9, <4>1, <4>2 DEF FormatAt
    <3>. QED BY <3>1, <3>10
  <2>13. CASE ~replaced
    <3>1. ~(q < n /\ s[q + 1] \in D) /\ q + 1 \in 1..(n + 1) /\ (q + 1) - 1 = q /\ q + 1 > p /\ q \in (q - 1)..n
          /\ q - q + 1 = 1 /\ q \in 1..(n + 1)
      <4>. HIDE DEF c, x, y, a
      <4>. QED BY <1>0, <2>1, <2>8, <2>13
    <3>2. E[q] = <<s[q]>>
      <4>. HIDE DEF c, x, y, q
      <4>. QED BY <2>1, <2>9, <2>11, <3>1, EscapeAt
    <3>3. fl[q] \o From(s, q + 1) = a \o From(s, q) /\ Len(fl[q]) = Len(a) + 1
      <4>1. \A i \in q..q : E[i] = <<s[i]>>
        <5>1. \A i \in q..q : i = q
          <6>. HIDE DEF c, x, y, q, a, E
          <6>. QED BY <2>1
        <5>. HIDE DEF c, x, y, q, a, E
        <5>. QED BY <3>2, <5>1
      <4>. HIDE DEF c, x, y, q
      <4>. QED BY <3>1, <4>1, Rejoined
    <3>4. FormatStep(st).s = y /\ FormatStep(st).c = c + 1
      <4>. HIDE DEF c, x, y
      <4>. QED BY <2>10, <2>13
    <3>5. FreshEscape(s, q + 1)
      <4>. HIDE DEF c, x, y, q, a
      <4>. QED BY <1>0, <2>1, <3>1 DEF FreshEscape
    <3>6. FormatAt(s, fl, FormatStep(st), q + 1)
      <4>1. FormatStep(st).s = fl[(q + 1) - 1] \o From(s, q + 1)
        BY <2>5, <3>1, <3>3, <3>4
      <4>2. FormatStep(st).c = Len(fl[(q + 1) - 1]) + 1
        <5>. HIDE DEF c, x, y, q, a
        <5>. QED BY <2>6, <3>1, <3>3, <3>4
      <4>. QED BY <3>5, <4>1, <4>2 DEF FormatAt
    <3>. QED BY <3>1, <3>6
  <2>. QED BY <2>12, <2>13
<1>. QED BY <1>6, <1>7

\* A text as a function on its positions, a piece for each.
LEMMA PiecesOf ==
  ASSUME NEW s \in Seq(Char)
  PROVE  DOMAIN s = 1..Len(s)
OBVIOUS

\* What format_str makes of a text: each escape is read, once.
LEMMA EscapesRead ==
  ASSUME NEW s \in Seq(Char)
  PROVE  format_str(s) = Escapes(s)
<1> DEFINE n == Len(s)
           E == EscapePieces(s)
<1>1. n \in Nat
  OBVIOUS
<1>2. E \in [1..n -> Seq(Char)]
  <2>1. \A i \in 1..n : EscapePiece(s, i) \in Seq(Char)
    BY EscapeAt
  <2>. QED BY <2>1 DEF EscapePieces
<1>3. Escapes(s) = FlattenSeq(E)
  BY PiecesOf DEF Escapes, EscapePieces
<1>4. PICK fl \in [0..n -> Seq(Char)] : IsFlat(fl, n, E) /\ FlattenSeq(E) = fl[n]
  <2>. HIDE DEF E, n
  <2>. QED BY <1>1, <1>2, FlatExists
<1>5. PICK st \in [0..n -> FormatStates] :
        /\ st[0] = [s |-> s, c |-> 1]
        /\ \A k \in 1..n : st[k] = FormatStep(st[k - 1])
        /\ format_str(s) = st[n].s
  BY FormatLoop
<1> DEFINE G == [k \in 0..n |-> {u \in FormatStates : \E p \in 1..(n + 1) :
                                   FormatAt(s, fl, u, p) /\ (p > k \/ p = n + 1)}]
<1>6. st[0] \in G[0]
  <2>1. st[0] \in FormatStates /\ 0 \in 0..n /\ 1 \in 1..(n + 1)
    BY <1>1
  <2>2. FormatAt(s, fl, st[0], 1)
    <3>1. fl[0] = <<>>
      BY <1>4 DEF IsFlat
    <3>2. SubSeq(s, 1, Len(s)) = s
      BY SubSeqFull
    <3>3. <<>> \o s = s
      BY ConcatEmptySeq
    <3>4. Len(<<>>) = 0 /\ 1 - 1 = 0
      OBVIOUS
    <3>5. st[0].s = s /\ st[0].c = 1
      BY <1>5
    <3>6. fl[1 - 1] \o From(s, 1) = s /\ Len(fl[1 - 1]) + 1 = 1
      <4>1. fl[1 - 1] = <<>> /\ From(s, 1) = s
        BY <3>1, <3>2, <3>4 DEF From
      <4>. HIDE DEF G, E, n
      <4>. QED BY <3>3, <3>4, <4>1
    <3>7. FreshEscape(s, 1)
      BY DEF FreshEscape
    <3>. QED BY <3>5, <3>6, <3>7 DEF FormatAt
  <2>3. \E p \in 1..(n + 1) : FormatAt(s, fl, st[0], p) /\ (p > 0 \/ p = n + 1)
    <3>. HIDE DEF n
    <3>. QED BY <2>1, <2>2
  <2>. HIDE DEF n
  <2>. QED BY <2>1, <2>3
<1>7. ASSUME NEW k \in 1..n, st[k - 1] \in G[k - 1] PROVE st[k] \in G[k]
  <2>1. k - 1 \in 0..n /\ k \in 0..n
    BY <1>1
  <2> DEFINE u == st[k - 1]
  <2>2. u \in FormatStates
    BY <1>7, <2>1
  <2>3. PICK p \in 1..(n + 1) : FormatAt(s, fl, u, p) /\ (p > k - 1 \/ p = n + 1)
    BY <1>7, <2>1
  <2>4. PICK r \in 1..(n + 1) : FormatAt(s, fl, FormatStep(u), r) /\ (r > p \/ r = n + 1)
    <3>. HIDE DEF u, G
    <3>. QED BY <1>4, <2>2, <2>3, FormatMoves
  <2>5. st[k] = FormatStep(u) /\ st[k] \in FormatStates
    <3>. HIDE DEF G
    <3>. QED BY <1>5, <2>1
  <2>6. r > k \/ r = n + 1
    <3>. HIDE DEF G, u, E
    <3>. QED BY <1>1, <2>1, <2>3, <2>4
  <2>7. \E i \in 1..(n + 1) : FormatAt(s, fl, st[k], i) /\ (i > k \/ i = n + 1)
    BY <2>4, <2>5, <2>6
  <2>. QED BY <2>1, <2>5, <2>7
<1>8. \A k \in 0..n : st[k] \in G[k]
  <2>. HIDE DEF G, n, E
  <2>. QED BY <1>1, <1>6, <1>7, LoopInvariant
<1>9. PICK p \in 1..(n + 1) : FormatAt(s, fl, st[n], p) /\ (p > n \/ p = n + 1)
  <2>1. n \in 0..n
    BY <1>1
  <2>. QED BY <1>8, <2>1
<1>10. p = n + 1 /\ p - 1 = n
  <2>. HIDE DEF G, n, E
  <2>. QED BY <1>1, <1>9
<1>11. st[n].s = fl[n] \o From(s, n + 1)
  BY <1>9, <1>10 DEF FormatAt
<1>12. From(s, n + 1) = <<>>
  BY <1>1, SubSeqEmpty DEF From
<1>13. fl[n] \o <<>> = fl[n]
  <2>1. fl[n] \in Seq(Char)
    BY <1>1
  <2>. QED BY <2>1, ConcatEmptySeq
<1>. QED BY <1>3, <1>4, <1>5, <1>11, <1>12, <1>13

-----------------------------------------------------------------------------
\* What a letter, or a second percent sign, stands for.
Meant(c) == IF c = "%" THEN <<"%", "%">> ELSE Info(c)

LEMMA LetterAt ==
  ASSUME NEW s \in Seq(Char), NEW i \in 1..Len(s)
  PROVE  /\ LetterPiece(s, i) \in Seq(Char)
         /\ s[i] # "%" /\ (i = 1 \/ ~First(s, i - 1, "%")) => LetterPiece(s, i) = <<s[i]>>
         /\ First(s, i, "%") /\ ~(i < Len(s)) => LetterPiece(s, i) = <<s[i]>>
         /\ First(s, i, "%") /\ i < Len(s)
            => LetterPiece(s, i) = <<>> /\ LetterPiece(s, i + 1) = Meant(s[i + 1])
<1> DEFINE pc == "%"
<1>1. i \in Nat \ {0} /\ s[i] \in Char
  OBVIOUS
<1>2. Begins(s, i, pc) <=> i < Len(s) /\ First(s, i, pc)
  BY DEF Begins, First
<1>3. Ends(s, i, pc) <=> i > 1 /\ First(s, i - 1, pc)
  <2>1. i > 1 => i - 1 < Len(s)
    OBVIOUS
  <2>. QED BY <2>1 DEF Ends, Begins, First
<1>4. First(s, i, pc) <=> s[i] = pc /\ (i = 1 \/ ~First(s, i - 1, pc))
  BY <1>1, FirstStep
<1>5. LetterPiece(s, i) = IF Begins(s, i, pc) THEN <<>>
                          ELSE IF Ends(s, i, pc) THEN Meant(s[i]) ELSE <<s[i]>>
  BY DEF LetterPiece, Meant
<1>6. ASSUME First(s, i, pc), i < Len(s) PROVE LetterPiece(s, i + 1) = Meant(s[i + 1])
  <2>1. i + 1 \in Nat \ {0} /\ i + 1 > 1 /\ (i + 1) - 1 = i /\ i + 1 # 1
    BY <1>1
  <2>2. ~First(s, i + 1, pc)
    BY <1>6, <2>1, FirstStep
  <2>3. ~Begins(s, i + 1, pc)
    BY <2>2 DEF Begins, First
  <2>4. Ends(s, i + 1, pc)
    BY <1>2, <1>6, <2>1 DEF Ends
  <2>. QED BY <2>3, <2>4 DEF LetterPiece, Meant
<1>7. LetterPiece(s, i) \in Seq(Char)
  <2>1. <<>> \in Seq(Char) /\ <<s[i]>> \in Seq(Char) /\ <<"%", "%">> \in Seq(Char)
    BY <1>1, StringsAssumption
  <2>2. Meant(s[i]) \in Seq(Char)
    BY <2>1, InfoText DEF Meant
  <2>. QED BY <1>5, <2>1, <2>2
<1>8. s[i] # pc /\ (i = 1 \/ ~First(s, i - 1, pc)) => LetterPiece(s, i) = <<s[i]>>
  <2>1. i = 1 => ~Ends(s, i, pc)
    BY <1>3
  <2>. QED BY <1>2, <1>3, <1>4, <1>5, <2>1
<1>9. First(s, i, pc) /\ ~(i < Len(s)) => LetterPiece(s, i) = <<s[i]>>
  <2>1. i = 1 => ~Ends(s, i, pc)
    BY <1>3
  <2>. QED BY <1>2, <1>3, <1>4, <1>5, <2>1
<1>10. First(s, i, pc) /\ i < Len(s) => LetterPiece(s, i) = <<>>
  BY <1>2, <1>5
<1>. QED BY <1>6, <1>7, <1>8, <1>9, <1>10

\* pkg_to_str before the p-th character: the pieces up to there.
FreshLetter(s, p) == p = 1 \/ ~First(s, p - 1, "%")

PkgAt(s, fl, st) ==
  /\ st.ptr \in 1..(Len(s) + 1) /\ st.ret.s = fl[st.ptr - 1]
  /\ FreshLetter(s, st.ptr)

\* From the p-th character on, no percent sign has a letter.
NoLetter(s, p) == \A i \in p..(Len(s) - 1) : s[i] # "%"

LetterPieces(s) == [i \in 1..Len(s) |-> LetterPiece(s, i)]

\* From there to the next percent sign the text is copied, and so is a last one.
LEMMA LetterCopied ==
  ASSUME NEW s \in Seq(Char), NEW p \in 1..(Len(s) + 1), FreshLetter(s, p),
         NEW q \in (p - 1)..Len(s), \A i \in p..q : s[i] = "%" => i = Len(s)
  PROVE  \A i \in p..q : LetterPieces(s)[i] = <<s[i]>>
<1>. SUFFICES ASSUME NEW i \in p..q PROVE LetterPieces(s)[i] = <<s[i]>>
  OBVIOUS
<1>1. i \in 1..Len(s) /\ (s[i] = "%" => i = Len(s)) /\ LetterPieces(s)[i] = LetterPiece(s, i)
  BY DEF LetterPieces
<1>2. \A j \in p..(i - 1) : s[j] # "%"
  <2>. SUFFICES ASSUME NEW j \in p..(i - 1) PROVE s[j] # "%"
    OBVIOUS
  <2>1. j \in p..q /\ j # Len(s)
    OBVIOUS
  <2>. QED BY <2>1
<1>3. i = 1 \/ ~First(s, i - 1, "%")
  <2>1. CASE i = p
    BY <1>1, <2>1 DEF FreshLetter
  <2>2. CASE i # p
    <3>1. i - 1 \in p..(i - 1)
      BY <2>2
    <3>. QED BY <1>2, <3>1 DEF First
  <2>. QED BY <2>1, <2>2
<1>4. CASE s[i] # "%"
  BY <1>1, <1>3, <1>4, LetterAt
<1>5. CASE s[i] = "%"
  <2>1. i \in Nat \ {0} /\ ~(i < Len(s))
    BY <1>1, <1>5
  <2>2. First(s, i, "%")
    BY <1>3, <1>5, <2>1, FirstStep
  <2>. QED BY <1>1, <2>1, <2>2, LetterAt
<1>. QED BY <1>4, <1>5

\* One round goes on by a letter, or none is left.
LEMMA PkgMoves ==
  ASSUME NEW s \in Seq(Char), NEW fl \in [0..Len(s) -> Seq(Char)],
         IsFlat(fl, Len(s), LetterPieces(s)),
         NEW st \in PkgStates, PkgAt(s, fl, st)
  PROVE  /\ PkgAt(s, fl, PkgStep(s, st))
         /\ \/ PkgStep(s, st).ptr > st.ptr
            \/ PkgStep(s, st) = st /\ NoLetter(s, st.ptr)
<1> DEFINE n == Len(s)
           E == LetterPieces(s)
           p == st.ptr
           x == fl[p - 1]
           c == strstr(s, p, <<"%">>)
<1>1. n \in Nat /\ p \in 1..(n + 1) /\ p \in Nat \ {0} /\ p - 1 \in 0..n /\ st.ret.s = x /\ FreshLetter(s, p)
  <2>1. p \in 1..(n + 1) /\ n \in Nat
    BY DEF PkgAt
  <2>. HIDE DEF p, n, c
  <2>2. p \in Nat \ {0} /\ p - 1 \in 0..n
    BY <2>1
  <2>. QED BY <2>1, <2>2 DEF PkgAt, p, n
<1>2. \/ c = 0 /\ \A k \in p..n : s[k] # "%"
      \/ /\ c \in p..n /\ s[c] = "%"
         /\ \A k \in p..(c - 1) : s[k] # "%"
  <2>. HIDE DEF p
  <2>. QED BY <1>1, FirstOf
<1>3. CASE c = 0 \/ c = n
  <2>1. PkgStep(s, st) = st
    BY <1>3 DEF PkgStep
  <2>2. NoLetter(s, p)
    <3>. SUFFICES ASSUME NEW i \in p..(n - 1) PROVE s[i] # "%"
      BY DEF NoLetter
    <3>1. i \in p..n /\ (c = n => i \in p..(c - 1))
      <4>. HIDE DEF p, c
      <4>. QED BY <1>1
    <3>2. c = n /\ ~(c \in p..n) => n = 0
      <4>. HIDE DEF p, c
      <4>. QED BY <1>1, <1>2, <1>3
    <3>. HIDE DEF p, c
    <3>. QED BY <1>1, <1>2, <1>3, <3>1, <3>2
  <2>. QED BY <2>1, <2>2
<1>4. CASE ~(c = 0 \/ c = n)
  <2> DEFINE before == SubSeq(s, p, c - 1)
             what == Meant(s[c + 1])
             a == fl[c - 1]
             ret == string_cat(string_cat(st.ret, before), what)
  <2>1. /\ c \in p..n /\ s[c] = "%" /\ \A k \in p..(c - 1) : s[k] # "%"
    <3>. HIDE DEF p, c
    <3>. QED BY <1>2, <1>4
  <2>2. /\ c \in Nat \ {0} /\ c \in 1..n /\ c < n /\ c + 1 \in 1..n /\ c - 1 \in (p - 1)..n /\ c - 1 \in 0..n
        /\ c + 2 \in 1..(n + 1) /\ (c + 2) - 1 = c + 1 /\ (c + 1) - 1 = c /\ c + 2 > p /\ c >= p /\ c \in Nat
        /\ c + 1 \in Nat \ {0} /\ c + 1 # 1
    <3>. HIDE DEF p, c, n, E, x
    <3>. QED BY <1>1, <1>4, <2>1
  <2>3. PkgStep(s, st) = [ptr |-> c + 2, ret |-> ret]
    <3>1. c # 0 /\ c # Len(s)
      BY <1>4
    <3>. QED BY <3>1 DEF PkgStep, Skipped, Meant
  <2>4. \A i \in p..(c - 1) : E[i] = <<s[i]>>
    <3> DEFINE q == c - 1
    <3>1. q \in (p - 1)..Len(s) /\ \A i \in p..q : s[i] = "%" => i = Len(s)
      BY <2>1, <2>2
    <3>. HIDE DEF p, c, q
    <3>2. \A i \in p..q : E[i] = <<s[i]>>
      BY <1>1, <3>1, LetterCopied
    <3>. QED BY <3>2 DEF q
  <2>5. a = x \o before
    <3> DEFINE q == c - 1
    <3>1. q \in (p - 1)..Len(s) /\ (\A i \in p..q : E[i] = <<s[i]>>) /\ IsFlat(fl, Len(s), E)
          /\ p \in 1..(Len(s) + 1)
      BY <1>1, <2>2, <2>4
    <3>. HIDE DEF p, c, q, E
    <3>2. fl[q] = fl[p - 1] \o SubSeq(s, p, q)
      BY <3>1, FlatCopies
    <3>. QED BY <3>2 DEF q
  <2>6. First(s, c, "%")
    <3>1. p = 1 \/ ~First(s, p - 1, "%")
      <4>. HIDE DEF p, c
      <4>. QED BY <1>1 DEF FreshLetter
    <3>. HIDE DEF p, c
    <3>. QED BY <1>1, <2>1, <2>2, <3>1, FirstFound
  <2>7. LetterPiece(s, c) = <<>> /\ LetterPiece(s, c + 1) = what
    <3>. HIDE DEF p, c
    <3>. QED BY <2>2, <2>6, LetterAt
  <2>8. fl[c] = a \o <<>> /\ fl[c + 1] = fl[c] \o what
    <3>1. E[c] = <<>> /\ E[c + 1] = what
      <4>. HIDE DEF p, c, x
      <4>. QED BY <2>2, <2>7 DEF LetterPieces
    <3>2. fl[c] = fl[c - 1] \o E[c] /\ fl[c + 1] = fl[(c + 1) - 1] \o E[c + 1]
      <4>. HIDE DEF p, c, x, E
      <4>. QED BY SMTT(30), <2>2 DEF IsFlat
    <3>. HIDE DEF p, c, x, E, what
    <3>. QED BY <2>2, <3>1, <3>2
  <2>9. fl[c + 1] = a \o what
    <3>1. a \in Seq(Char)
      <4>. HIDE DEF p, c, x, E
      <4>. QED BY <2>2
    <3>. HIDE DEF a
    <3>2. a \o <<>> = a
      BY <3>1, ConcatEmptySeq
    <3>. QED BY <2>8, <3>2
  <2>10. ret.s = fl[c + 1]
    <3>1. ret.s = (st.ret.s \o before) \o what
      BY DEF string_cat
    <3>. QED BY <1>1, <2>5, <2>9, <3>1
  <2>11. FreshLetter(s, c + 2)
    <3>1. ~First(s, c + 1, "%")
      <4>. HIDE DEF p, c
      <4>. QED BY <2>2, <2>6, FirstStep
    <3>. QED BY <2>2, <3>1 DEF FreshLetter
  <2>12. PkgStep(s, st).ptr = c + 2 /\ PkgStep(s, st).ret.s = fl[(c + 2) - 1]
    <3>. HIDE DEF ret, c
    <3>. QED BY <2>2, <2>3, <2>10
  <2>13. PkgAt(s, fl, PkgStep(s, st))
    <3>. HIDE DEF ret, c
    <3>. QED BY <2>2, <2>11, <2>12 DEF PkgAt
  <2>. QED BY <2>2, <2>12, <2>13
<1>. QED BY <1>3, <1>4

\* What pkg_to_str makes of a format: each letter is read, once.
LEMMA LettersRead ==
  ASSUME NEW s \in Seq(Char)
  PROVE  pkg_to_str(s).s = Letters(s)
<1> DEFINE n == Len(s)
           E == LetterPieces(s)
<1>1. n \in Nat
  OBVIOUS
<1>2. E \in [1..n -> Seq(Char)]
  <2>1. \A i \in 1..n : LetterPiece(s, i) \in Seq(Char)
    BY LetterAt
  <2>. QED BY <2>1 DEF LetterPieces
<1>3. Letters(s) = FlattenSeq(E)
  BY PiecesOf DEF Letters, LetterPieces
<1>4. PICK fl \in [0..n -> Seq(Char)] : IsFlat(fl, n, E) /\ FlattenSeq(E) = fl[n]
  <2>. HIDE DEF E, n
  <2>. QED BY <1>1, <1>2, FlatExists
<1>5. PICK st \in [0..n -> PkgStates] :
        /\ st[0] = [ptr |-> 1, ret |-> string_new]
        /\ \A k \in 1..n : st[k] = PkgStep(s, st[k - 1])
        /\ pkg_to_str(s) = string_cat(st[n].ret, From(s, st[n].ptr))
  BY PkgLoop
<1> DEFINE G == [k \in 0..n |-> {u \in PkgStates : PkgAt(s, fl, u) /\ (u.ptr > k \/ NoLetter(s, u.ptr))}]
<1>6. st[0] \in G[0]
  <2>1. st[0] \in PkgStates /\ 0 \in 0..n /\ st[0].ptr = 1 /\ st[0].ret.s = <<>> /\ 1 > 0 /\ 1 - 1 = 0
    BY <1>1, <1>5, NewHolds
  <2>2. fl[0] = <<>>
    BY <1>4 DEF IsFlat
  <2>3. PkgAt(s, fl, st[0])
    <3>1. 1 \in 1..(Len(s) + 1) /\ FreshLetter(s, 1)
      BY DEF FreshLetter
    <3>. HIDE DEF n, E, G
    <3>. QED BY <2>1, <2>2, <3>1 DEF PkgAt
  <2>. QED BY <2>1, <2>3
<1>7. ASSUME NEW k \in 1..n, st[k - 1] \in G[k - 1] PROVE st[k] \in G[k]
  <2>1. k - 1 \in 0..n /\ k \in 0..n
    BY <1>1
  <2> DEFINE u == st[k - 1]
  <2>2. u \in PkgStates /\ PkgAt(s, fl, u) /\ (u.ptr > k - 1 \/ NoLetter(s, u.ptr))
    BY <1>7, <2>1
  <2>3. st[k] = PkgStep(s, u) /\ st[k] \in PkgStates
    <3>. HIDE DEF G
    <3>. QED BY <1>5, <2>1
  <2>4. /\ PkgAt(s, fl, st[k])
        /\ \/ st[k].ptr > u.ptr
           \/ st[k] = u /\ NoLetter(s, u.ptr)
    <3>. HIDE DEF u, G
    <3>. QED BY <1>4, <2>2, <2>3, PkgMoves
  <2>5. u.ptr \in Nat /\ st[k].ptr \in Nat
    <3>. HIDE DEF G, E, n, u
    <3>. QED BY <2>2, <2>3 DEF PkgStates
  <2>6. st[k].ptr > k \/ NoLetter(s, st[k].ptr)
    <3>1. CASE NoLetter(s, u.ptr) /\ st[k] = u
      BY <3>1
    <3>2. CASE NoLetter(s, u.ptr) /\ st[k].ptr > u.ptr
      <4> DEFINE v == st[k].ptr
                 w == u.ptr
      <4>1. v \in Nat /\ w \in Nat /\ v > w
        BY <2>5, <3>2
      <4>. HIDE DEF v, w, G, E, n, u
      <4>2. \A i \in v..(Len(s) - 1) : i \in w..(Len(s) - 1)
        BY <4>1
      <4>3. NoLetter(s, v)
        BY <3>2, <4>2 DEF NoLetter, w
      <4>. QED BY <4>3 DEF v
    <3>3. CASE u.ptr > k - 1 /\ st[k].ptr > u.ptr
      <4>. HIDE DEF G, E, n, u
      <4>. QED BY <1>1, <2>1, <2>5, <3>3
    <3>. HIDE DEF G, E, n, u
    <3>. QED BY <2>2, <2>4, <3>1, <3>2, <3>3
  <2>. QED BY <2>1, <2>3, <2>4, <2>6
<1>8. \A k \in 0..n : st[k] \in G[k]
  <2>. HIDE DEF G, n, E
  <2>. QED BY <1>1, <1>6, <1>7, LoopInvariant
<1> DEFINE p == st[n].ptr
           x == fl[p - 1]
<1>9. st[n] \in PkgStates /\ PkgAt(s, fl, st[n]) /\ (p > n \/ NoLetter(s, p))
  <2>1. n \in 0..n
    BY <1>1
  <2>. QED BY <1>8, <2>1
<1>. HIDE DEF G
<1>10. p \in 1..(n + 1) /\ st[n].ret.s = x /\ FreshLetter(s, p)
  BY <1>9 DEF PkgAt
<1>11. \A i \in p..n : s[i] = "%" => i = n
  <2>. SUFFICES ASSUME NEW i \in p..n, s[i] = "%", i # n PROVE FALSE
    OBVIOUS
  <2>1. i \in p..(Len(s) - 1) /\ ~(p > n)
    <3>. HIDE DEF p, E, x
    <3>. QED BY <1>1, <1>10
  <2>. QED BY <1>9, <2>1 DEF NoLetter
<1>12. n \in (p - 1)..Len(s)
  <2>. HIDE DEF p, E, x
  <2>. QED BY <1>1, <1>10
<1>13. \A i \in p..n : E[i] = <<s[i]>>
  <2>. HIDE DEF p, x
  <2>. QED BY <1>10, <1>11, <1>12, LetterCopied
<1>14. fl[n] = fl[p - 1] \o From(s, p)
  <2>1. fl \in [0..Len(s) -> Seq(Char)] /\ IsFlat(fl, Len(s), E) /\ p \in 1..(Len(s) + 1)
    BY <1>4, <1>10
  <2>2. \A i \in p..Len(s) : E[i] = <<s[i]>>
    BY <1>13
  <2>. HIDE DEF p, E
  <2>. QED BY <2>1, <2>2, CopiedToEnd
<1>15. pkg_to_str(s).s = x \o From(s, p)
  <2>1. string_cat(st[n].ret, From(s, p)).s = st[n].ret.s \o From(s, p)
    BY DEF string_cat
  <2>. QED BY <1>5, <1>10, <2>1
<1>. QED BY <1>3, <1>4, <1>14, <1>15

-----------------------------------------------------------------------------
\* A variable x of two characters, and where it is.
IsVariable(x) == Len(x) = 2 /\ x = <<x[1], x[2]>> /\ x[1] # x[2]

LEMMA PairAt ==
  ASSUME NEW s \in Seq(Char), NEW x, IsVariable(x), NEW i \in Nat \ {0}
  PROVE  IsAt(s, i, x) <=> i < Len(s) /\ s[i] = x[1] /\ s[i + 1] = x[2]
<1>1. IsAt(s, i, x) <=> i + 2 <= Len(s) + 1 /\ SubSeq(s, i, i + 2 - 1) = x
  BY DEF IsAt, IsVariable
<1>2. CASE i < Len(s)
  <2> DEFINE u == SubSeq(s, i, i + 1)
  <2>1. /\ u \in Seq(Char) /\ Len(u) = IF i <= i + 1 THEN i + 1 - i + 1 ELSE 0
        /\ \A j \in 1..(i + 1 - i + 1) : u[j] = s[i + j - 1]
    <3>1. i + 1 \in Nat /\ i + 1 <= Len(s)
      BY <1>2
    <3>. QED BY <3>1, PartOf
  <2>2. Len(u) = 2 /\ u[1] = s[i] /\ u[2] = s[i + 1] /\ i + 2 - 1 = i + 1
    <3>1. 1 \in 1..(i + 1 - i + 1) /\ 2 \in 1..(i + 1 - i + 1) /\ i + 1 - 1 = i /\ i + 2 - 1 = i + 1
      OBVIOUS
    <3>. HIDE DEF u
    <3>. QED BY <2>1, <3>1
  <2>3. u = <<u[1], u[2]>>
    <3>. HIDE DEF u
    <3>. QED BY <2>1, <2>2
  <2>4. u = x <=> u[1] = x[1] /\ u[2] = x[2]
    <3>. HIDE DEF u
    <3>. QED BY <2>3 DEF IsVariable
  <2>. QED BY <1>1, <1>2, <2>2, <2>4
<1>3. CASE ~(i < Len(s))
  BY <1>1, <1>3
<1>. QED BY <1>2, <1>3

LEMMA FirstPair ==
  ASSUME NEW s, NEW i \in Nat \ {0}, NEW x, Len(s) \in Nat
  PROVE  LET j == strstr(s, i, x)
         IN  \/ j = 0 /\ \A k \in i..Len(s) : ~IsAt(s, k, x)
             \/ /\ j \in i..Len(s) /\ IsAt(s, j, x)
                /\ \A k \in i..(j - 1) : ~IsAt(s, k, x)
<1> DEFINE S == {k \in i..Len(s) : IsAt(s, k, x)}
<1>1. strstr(s, i, x) = Least(S) /\ S \in SUBSET Nat
  BY DEF strstr
<1>2. CASE S = {}
  BY <1>1, <1>2 DEF Least
<1>3. CASE S # {}
  <2>1. Least(S) \in S /\ \A k \in S : Least(S) <= k
    <3>. HIDE DEF S
    <3>. QED BY <1>1, <1>3, LeastOf
  <2>. QED BY <1>1, <2>1
<1>. QED BY <1>2, <1>3

\* The i-th piece: where no variable is, and where one is and ends.
LEMMA ValueAt ==
  ASSUME NEW s \in Seq(Char), NEW x, IsVariable(x), NEW v \in Seq(Char), NEW i \in 1..Len(s)
  PROVE  /\ ValuePiece(s, x, v, i) \in Seq(Char)
         /\ ~IsAt(s, i, x) /\ (i = 1 \/ ~IsAt(s, i - 1, x)) => ValuePiece(s, x, v, i) = <<s[i]>>
         /\ IsAt(s, i, x) => /\ i < Len(s) /\ ~IsAt(s, i + 1, x)
                             /\ ValuePiece(s, x, v, i) = v /\ ValuePiece(s, x, v, i + 1) = <<>>
<1>1. ValuePiece(s, x, v, i)
        = IF IsAt(s, i, x) THEN v ELSE IF i > 1 /\ IsAt(s, i - 1, x) THEN <<>> ELSE <<s[i]>>
  BY DEF ValuePiece
<1>2. ValuePiece(s, x, v, i) \in Seq(Char)
  <2>1. <<s[i]>> \in Seq(Char) /\ <<>> \in Seq(Char)
    OBVIOUS
  <2>. QED BY <1>1, <2>1
<1>3. ASSUME IsAt(s, i, x)
      PROVE  /\ i < Len(s) /\ ~IsAt(s, i + 1, x)
             /\ ValuePiece(s, x, v, i) = v /\ ValuePiece(s, x, v, i + 1) = <<>>
  <2>1. i < Len(s) /\ s[i + 1] = x[2]
    BY <1>3, PairAt
  <2>2. i + 1 \in Nat \ {0} /\ i + 1 > 1 /\ (i + 1) - 1 = i
    OBVIOUS
  <2>3. ~IsAt(s, i + 1, x)
    BY <2>1, <2>2, PairAt DEF IsVariable
  <2>. QED BY <1>1, <1>3, <2>1, <2>2, <2>3 DEF ValuePiece
<1>4. ~IsAt(s, i, x) /\ (i = 1 \/ ~IsAt(s, i - 1, x)) => ValuePiece(s, x, v, i) = <<s[i]>>
  <2>1. i = 1 => ~(i > 1)
    OBVIOUS
  <2>. QED BY <1>1, <2>1
<1>. QED BY <1>2, <1>3, <1>4

\* strreplace before the p-th character: the pieces up to there.
FreshValue(s, x, p) == p = 1 \/ ~IsAt(s, p - 1, x)

ValuesAt(s, x, fl, st) ==
  /\ st.p \in 1..(Len(s) + 1) /\ st.new = fl[st.p - 1]
  /\ FreshValue(s, x, st.p)

\* From the p-th character on there is no variable.
NoVariable(s, x, p) == \A i \in p..Len(s) : ~IsAt(s, i, x)

ValuePieces(s, x, v) == [i \in 1..Len(s) |-> ValuePiece(s, x, v, i)]

ReplaceStates == [p : Nat \ {0}, new : Seq(Char)]

\* From there to the next variable, or to the end, the text is copied.
LEMMA ValueCopied ==
  ASSUME NEW s \in Seq(Char), NEW x, IsVariable(x), NEW v \in Seq(Char),
         NEW p \in 1..(Len(s) + 1), FreshValue(s, x, p),
         NEW q \in (p - 1)..Len(s), \A i \in p..q : ~IsAt(s, i, x)
  PROVE  \A i \in p..q : ValuePieces(s, x, v)[i] = <<s[i]>>
<1>. SUFFICES ASSUME NEW i \in p..q PROVE ValuePieces(s, x, v)[i] = <<s[i]>>
  OBVIOUS
<1>1. i \in 1..Len(s) /\ ~IsAt(s, i, x) /\ ValuePieces(s, x, v)[i] = ValuePiece(s, x, v, i)
  BY DEF ValuePieces
<1>2. i = 1 \/ ~IsAt(s, i - 1, x)
  <2>1. CASE i = p
    BY <1>1, <2>1 DEF FreshValue
  <2>2. CASE i # p
    <3>1. i - 1 \in p..q
      BY <2>2
    <3>. QED BY <3>1
  <2>. QED BY <2>1, <2>2
<1>. QED BY <1>1, <1>2, ValueAt

LEMMA ReplaceRound ==
  ASSUME NEW s \in Seq(Char), NEW x, Len(x) \in Nat, NEW v \in Seq(Char), NEW st \in ReplaceStates
  PROVE  ReplaceStep(s, x, v, st) \in ReplaceStates
<1> DEFINE q == strstr(s, st.p, x)
           before == SubSeq(s, st.p, q - 1)
<1>1. st.p \in Nat \ {0} /\ st.new \in Seq(Char) /\ Len(s) \in Nat
  BY DEF ReplaceStates
<1>2. q = 0 \/ q \in st.p..Len(s)
  BY <1>1, FirstPair
<1>3. CASE q = 0
  BY <1>3 DEF ReplaceStep
<1>4. CASE q # 0
  <2>1. q \in Nat \ {0} /\ q <= Len(s)
    BY <1>1, <1>2, <1>4
  <2>2. before \in Seq(Char)
    <3>1. q - 1 \in Nat /\ q - 1 <= Len(s)
      BY <1>1, <2>1
    <3>. HIDE DEF q
    <3>. QED BY <1>1, <3>1, PartOf
  <2>3. ReplaceStep(s, x, v, st) = [p |-> q + Len(x), new |-> st.new \o before \o v]
    BY <1>4 DEF ReplaceStep
  <2>4. q + Len(x) \in Nat \ {0}
    BY <2>1
  <2>5. st.new \o before \o v \in Seq(Char)
    <3>. HIDE DEF before, q
    <3>. QED BY <1>1, <2>2, ConcatProperties
  <2>. HIDE DEF before, q
  <2>. QED BY <2>3, <2>4, <2>5 DEF ReplaceStates
<1>. QED BY <1>3, <1>4

\* strreplace is the last of its rounds and what is left of the text then.
LEMMA ReplaceLoop ==
  ASSUME NEW s \in Seq(Char), NEW x, Len(x) \in Nat, NEW v \in Seq(Char)
  PROVE  \E st \in [0..Len(s) -> ReplaceStates] :
           /\ st[0] = [p |-> 1, new |-> <<>>]
           /\ \A k \in 1..Len(s) : st[k] = ReplaceStep(s, x, v, st[k - 1])
           /\ strreplace(s, x, v) = st[Len(s)].new \o From(s, st[Len(s)].p)
<1> DEFINE n == Len(s)
           b == [p |-> 1, new |-> <<>>]
           F == [k \in 1..n |-> [u \in ReplaceStates |-> ReplaceStep(s, x, v, u)]]
           st[k \in 0..n] == IF k = 0 THEN b ELSE ReplaceStep(s, x, v, st[k - 1])
<1>1. n \in Nat /\ b \in ReplaceStates
  BY DEF ReplaceStates
<1>2. F \in [1..n -> [ReplaceStates -> ReplaceStates]]
  BY ReplaceRound
<1>3. PICK g \in [0..n -> ReplaceStates] : IsLoop(g, n, b, F)
  <2>. HIDE DEF F, n, b
  <2>. QED BY <1>1, <1>2, LoopExists
<1>4. g = [k \in 0..n |-> IF k = 0 THEN b ELSE ReplaceStep(s, x, v, g[k - 1])]
  <2>1. \A k \in 0..n \ {0} : k \in 1..n /\ g[k - 1] \in ReplaceStates
    BY SMTT(30), <1>1
  <2>. HIDE DEF b
  <2>. QED BY <1>3, <2>1 DEF IsLoop
<1>5. st = [k \in 0..n |-> IF k = 0 THEN b ELSE ReplaceStep(s, x, v, st[k - 1])]
  BY <1>4
<1>6. strreplace(s, x, v) = st[n].new \o From(s, st[n].p)
  BY DEF strreplace
<1>. HIDE DEF st
<1>7. st[0] = b /\ \A k \in 1..n : st[k] = ReplaceStep(s, x, v, st[k - 1])
  <2>. HIDE DEF b
  <2>. QED BY SMTT(30), <1>1, <1>5
<1>8. st \in [0..n -> ReplaceStates]
  <2>1. \A k \in 1..n : st[k - 1] \in ReplaceStates => st[k] \in ReplaceStates
    BY <1>7, ReplaceRound
  <2>2. st = [k \in 0..n |-> st[k]]
    BY <1>5
  <2>. HIDE DEF F, n, b
  <2>. QED BY <1>1, <1>7, <2>1, <2>2, LoopType
<1>. QED BY <1>6, <1>7, <1>8

\* One round goes on by a variable, or none is left.
LEMMA ReplaceMoves ==
  ASSUME NEW s \in Seq(Char), NEW x, IsVariable(x), NEW v \in Seq(Char),
         NEW fl \in [0..Len(s) -> Seq(Char)], IsFlat(fl, Len(s), ValuePieces(s, x, v)),
         NEW st \in ReplaceStates, ValuesAt(s, x, fl, st)
  PROVE  /\ ValuesAt(s, x, fl, ReplaceStep(s, x, v, st))
         /\ \/ ReplaceStep(s, x, v, st).p > st.p
            \/ ReplaceStep(s, x, v, st) = st /\ NoVariable(s, x, st.p)
<1> DEFINE n == Len(s)
           E == ValuePieces(s, x, v)
           p == st.p
           new == fl[p - 1]
           c == strstr(s, p, x)
<1>1. n \in Nat /\ p \in 1..(n + 1) /\ p \in Nat \ {0} /\ p - 1 \in 0..n /\ st.new = new /\ FreshValue(s, x, p)
  <2>1. p \in 1..(n + 1) /\ n \in Nat
    BY DEF ValuesAt
  <2>. HIDE DEF p, n, c
  <2>2. p \in Nat \ {0} /\ p - 1 \in 0..n
    BY <2>1
  <2>. QED BY <2>1, <2>2 DEF ValuesAt, p, n
<1>2. \/ c = 0 /\ \A k \in p..n : ~IsAt(s, k, x)
      \/ /\ c \in p..n /\ IsAt(s, c, x)
         /\ \A k \in p..(c - 1) : ~IsAt(s, k, x)
  <2>. HIDE DEF p
  <2>. QED BY <1>1, FirstPair
<1>3. CASE c = 0
  <2>1. ReplaceStep(s, x, v, st) = st
    BY <1>3 DEF ReplaceStep
  <2>2. ~(c \in p..n)
    <3>. HIDE DEF p, c
    <3>. QED BY <1>1, <1>3
  <2>3. NoVariable(s, x, p)
    <3>. HIDE DEF p, c
    <3>. QED BY <1>2, <2>2 DEF NoVariable
  <2>. QED BY <2>1, <2>3
<1>4. CASE c # 0
  <2> DEFINE before == SubSeq(s, p, c - 1)
             a == fl[c - 1]
  <2>1. /\ c \in p..n /\ IsAt(s, c, x) /\ \A k \in p..(c - 1) : ~IsAt(s, k, x)
    <3>. HIDE DEF p, c
    <3>. QED BY <1>2, <1>4
  <2>2. c \in Nat \ {0} /\ c \in 1..n
    <3>. HIDE DEF p, c, n, E, new
    <3>. QED BY <1>1, <2>1
  <2>3. /\ c < n /\ ~IsAt(s, c + 1, x)
        /\ ValuePiece(s, x, v, c) = v /\ ValuePiece(s, x, v, c + 1) = <<>>
    <3>. HIDE DEF p, c
    <3>. QED BY <2>1, <2>2, ValueAt
  <2>4. /\ c + 1 \in 1..n /\ c - 1 \in (p - 1)..n /\ c - 1 \in 0..n
        /\ c + 2 \in 1..(n + 1) /\ (c + 2) - 1 = c + 1 /\ (c + 1) - 1 = c /\ c + 2 > p
    <3>. HIDE DEF p, c, n, E, new
    <3>. QED BY <1>1, <2>1, <2>2, <2>3
  <2>5. ReplaceStep(s, x, v, st) = [p |-> c + 2, new |-> st.new \o before \o v]
    <3>1. c + Len(x) = c + 2
      BY DEF IsVariable
    <3>. QED BY <1>4, <3>1 DEF ReplaceStep
  <2>6. a = new \o before
    <3> DEFINE q == c - 1
    <3>1. q \in (p - 1)..Len(s) /\ (\A i \in p..q : ~IsAt(s, i, x)) /\ IsFlat(fl, Len(s), E)
          /\ p \in 1..(Len(s) + 1)
      BY <1>1, <2>1, <2>4
    <3>2. \A i \in p..q : E[i] = <<s[i]>>
      <4>. HIDE DEF p, c, q
      <4>. QED BY SMTT(30), <1>1, <3>1, ValueCopied
    <3>. HIDE DEF p, c, q, E
    <3>3. fl[q] = fl[p - 1] \o SubSeq(s, p, q)
      BY ZenonT(30), <3>1, <3>2, FlatCopies
    <3>. QED BY <3>3 DEF q
  <2>7. fl[c] = a \o v /\ fl[c + 1] = fl[c] \o <<>>
    <3>1. E[c] = v /\ E[c + 1] = <<>>
      <4>. HIDE DEF p, c, new
      <4>. QED BY <2>2, <2>3, <2>4 DEF ValuePieces
    <3>2. fl[c] = fl[c - 1] \o E[c] /\ fl[c + 1] = fl[(c + 1) - 1] \o E[c + 1]
      <4>1. \A i \in 1..n : fl[i] = fl[i - 1] \o E[i]
        BY DEF IsFlat
      <4>. HIDE DEF p, c, new, E, n
      <4>. QED BY <2>2, <2>4, <4>1
    <3>. HIDE DEF p, c, new, E
    <3>. QED BY <2>4, <3>1, <3>2
  <2>8. fl[c + 1] = a \o v
    <3> DEFINE e == fl[c]
    <3>1. e \in Seq(Char)
      <4>. HIDE DEF p, c, new, E
      <4>. QED BY <2>2
    <3>. HIDE DEF e
    <3>2. e \o <<>> = e
      BY <3>1, ConcatEmptySeq
    <3>. QED BY <2>7, <3>2 DEF e
  <2>9. st.new \o before \o v = fl[c + 1]
    BY <1>1, <2>6, <2>8
  <2>10. FreshValue(s, x, c + 2)
    BY <2>3, <2>4 DEF FreshValue
  <2>11. ReplaceStep(s, x, v, st).p = c + 2 /\ ReplaceStep(s, x, v, st).new = fl[(c + 2) - 1]
    <3>. HIDE DEF before, c
    <3>. QED BY <2>4, <2>5, <2>9
  <2>12. ValuesAt(s, x, fl, ReplaceStep(s, x, v, st))
    <3>. HIDE DEF before, c
    <3>. QED BY <2>4, <2>10, <2>11 DEF ValuesAt
  <2>. QED BY <2>4, <2>11, <2>12
<1>. QED BY <1>3, <1>4

\* What strreplace makes of a text: each variable has its value, once.
LEMMA ValuesRead ==
  ASSUME NEW s \in Seq(Char), NEW x, IsVariable(x), NEW v \in Seq(Char)
  PROVE  strreplace(s, x, v) = WithValue(s, x, v) /\ WithValue(s, x, v) \in Seq(Char)
<1> DEFINE n == Len(s)
           E == ValuePieces(s, x, v)
<1>1. n \in Nat /\ Len(x) \in Nat
  BY DEF IsVariable
<1>2. E \in [1..n -> Seq(Char)]
  <2>1. \A i \in 1..n : ValuePiece(s, x, v, i) \in Seq(Char)
    BY ValueAt
  <2>. QED BY <2>1 DEF ValuePieces
<1>3. WithValue(s, x, v) = FlattenSeq(E)
  BY PiecesOf DEF WithValue, ValuePieces
<1>4. PICK fl \in [0..n -> Seq(Char)] : IsFlat(fl, n, E) /\ FlattenSeq(E) = fl[n]
  <2>. HIDE DEF E, n
  <2>. QED BY <1>1, <1>2, FlatExists
<1>5. PICK st \in [0..n -> ReplaceStates] :
        /\ st[0] = [p |-> 1, new |-> <<>>]
        /\ \A k \in 1..n : st[k] = ReplaceStep(s, x, v, st[k - 1])
        /\ strreplace(s, x, v) = st[n].new \o From(s, st[n].p)
  BY ZenonT(30), <1>1, ReplaceLoop
<1> DEFINE G == [k \in 0..n |-> {u \in ReplaceStates :
                                   ValuesAt(s, x, fl, u) /\ (u.p > k \/ NoVariable(s, x, u.p))}]
<1>6. st[0] \in G[0]
  <2>1. st[0] \in ReplaceStates /\ 0 \in 0..n /\ st[0].p = 1 /\ st[0].new = <<>> /\ 1 > 0 /\ 1 - 1 = 0
    <3>1. 0 \in 0..n /\ st[0] \in ReplaceStates
      BY SMTT(30), <1>1
    <3>2. st[0] = [p |-> 1, new |-> <<>>]
      BY <1>5
    <3>. HIDE DEF n, E, G
    <3>. QED BY <3>1, <3>2
  <2>2. fl[0] = <<>>
    BY <1>4 DEF IsFlat
  <2>3. ValuesAt(s, x, fl, st[0])
    <3>1. 1 \in 1..(Len(s) + 1) /\ FreshValue(s, x, 1)
      BY <1>1 DEF FreshValue
    <3>. HIDE DEF n, E, G
    <3>. QED BY <2>1, <2>2, <3>1 DEF ValuesAt
  <2>. QED BY <2>1, <2>3
<1>7. ASSUME NEW k \in 1..n, st[k - 1] \in G[k - 1] PROVE st[k] \in G[k]
  <2>1. k - 1 \in 0..n /\ k \in 0..n
    BY <1>1
  <2> DEFINE u == st[k - 1]
  <2>2. u \in ReplaceStates /\ ValuesAt(s, x, fl, u) /\ (u.p > k - 1 \/ NoVariable(s, x, u.p))
    BY <1>7, <2>1
  <2>3. st[k] = ReplaceStep(s, x, v, u) /\ st[k] \in ReplaceStates
    <3>. HIDE DEF G
    <3>. QED BY <1>5, <2>1
  <2>4. /\ ValuesAt(s, x, fl, st[k])
        /\ \/ st[k].p > u.p
           \/ st[k] = u /\ NoVariable(s, x, u.p)
    <3>. HIDE DEF u, G
    <3>. QED BY <1>4, <2>2, <2>3, ReplaceMoves
  <2>5. u.p \in Nat /\ st[k].p \in Nat
    <3>. HIDE DEF G, E, n, u
    <3>. QED BY <2>2, <2>3 DEF ReplaceStates
  <2>6. st[k].p > k \/ NoVariable(s, x, st[k].p)
    <3>1. CASE NoVariable(s, x, u.p) /\ st[k] = u
      BY <3>1
    <3>2. CASE NoVariable(s, x, u.p) /\ st[k].p > u.p
      <4> DEFINE y == st[k].p
                 w == u.p
      <4>1. y \in Nat /\ w \in Nat /\ y > w
        BY <2>5, <3>2
      <4>. HIDE DEF y, w, G, E, n, u
      <4>2. \A i \in y..Len(s) : i \in w..Len(s)
        BY <4>1
      <4>3. NoVariable(s, x, y)
        BY <3>2, <4>2 DEF NoVariable, w
      <4>. QED BY <4>3 DEF y
    <3>3. CASE u.p > k - 1 /\ st[k].p > u.p
      <4>. HIDE DEF G, E, n, u
      <4>. QED BY <1>1, <2>1, <2>5, <3>3
    <3>. HIDE DEF G, E, n, u
    <3>. QED BY <2>2, <2>4, <3>1, <3>2, <3>3
  <2>. QED BY <2>1, <2>3, <2>4, <2>6
<1>8. \A k \in 0..n : st[k] \in G[k]
  <2>. HIDE DEF G, n, E
  <2>. QED BY <1>1, <1>6, <1>7, LoopInvariant
<1> DEFINE p == st[n].p
           new == fl[p - 1]
<1>9. st[n] \in ReplaceStates /\ ValuesAt(s, x, fl, st[n]) /\ (p > n \/ NoVariable(s, x, p))
  <2>1. n \in 0..n
    BY <1>1
  <2>. QED BY <1>8, <2>1
<1>. HIDE DEF G
<1>10. p \in 1..(n + 1) /\ st[n].new = new /\ FreshValue(s, x, p)
  BY <1>9 DEF ValuesAt
<1>11. \A i \in p..n : ~IsAt(s, i, x)
  <2>. SUFFICES ASSUME NEW i \in p..n PROVE ~IsAt(s, i, x)
    OBVIOUS
  <2>1. i \in p..Len(s) /\ ~(p > n)
    <3>. HIDE DEF p, E, new
    <3>. QED BY <1>1, <1>10
  <2>. QED BY <1>9, <2>1 DEF NoVariable
<1>12. n \in (p - 1)..Len(s)
  <2>. HIDE DEF p, E, new
  <2>. QED BY <1>1, <1>10
<1>13. \A i \in p..n : E[i] = <<s[i]>>
  <2>. HIDE DEF p, new
  <2>. QED BY <1>10, <1>11, <1>12, ValueCopied
<1>14. fl[n] = fl[p - 1] \o From(s, p)
  <2>1. fl \in [0..Len(s) -> Seq(Char)] /\ IsFlat(fl, Len(s), E) /\ p \in 1..(Len(s) + 1)
    BY <1>4, <1>10
  <2>2. \A i \in p..Len(s) : E[i] = <<s[i]>>
    BY <1>13
  <2>. HIDE DEF p, E
  <2>. QED BY <2>1, <2>2, CopiedToEnd
<1>15. fl[n] \in Seq(Char)
  BY <1>1
<1>. QED BY <1>3, <1>4, <1>5, <1>10, <1>14, <1>15

\* A text without the blanks around it.
LEMMA TrimText ==
  ASSUME NEW str \in Seq(Char)
  PROVE  strtrim(str) \in Seq(Char)
<1> DEFINE n == Len(str)
           ink == {i \in DOMAIN str : ~isspace(str[i])}
           last == CHOOSE i \in ink : \A j \in ink : j <= i
<1>1. n \in Nat /\ ink \subseteq 1..n
  OBVIOUS
<1>2. strtrim(str) = IF ink = {} THEN <<>> ELSE SubSeq(str, Least(ink), last)
  BY DEF strtrim
<1>. HIDE DEF ink
<1>3. CASE ink # {}
  <2> DEFINE back == {i \in Nat : n - i \in ink}
  <2>1. back \in SUBSET Nat /\ back # {}
    <3>1. PICK i \in ink : TRUE
      BY <1>3
    <3>2. n - i \in Nat /\ n - (n - i) = i
      BY <1>1
    <3>. QED BY <3>2
  <2> DEFINE l == Least(back)
  <2>2. l \in back /\ \A i \in back : l <= i
    <3>. HIDE DEF back
    <3>. QED BY <2>1, LeastOf
  <2>3. n - l \in ink /\ l \in Nat
    <3>. HIDE DEF l
    <3>. QED BY <2>2
  <2>4. \A j \in ink : j <= n - l
    <3>. SUFFICES ASSUME NEW j \in ink PROVE j <= n - l
      OBVIOUS
    <3>1. n - j \in Nat /\ n - (n - j) = j /\ j \in Nat
      BY <1>1
    <3>2. n - j \in back
      BY <3>1
    <3>3. l <= n - j
      <4>. HIDE DEF l, back
      <4>. QED BY <2>2, <3>2
    <3>. HIDE DEF l
    <3>. QED BY <1>1, <2>3, <3>1, <3>3
  <2>5. last \in ink
    <3>. HIDE DEF l
    <3>. QED BY <2>3, <2>4
  <2>6. Least(ink) \in ink
    <3>1. ink \in SUBSET Nat
      BY <1>1
    <3>. QED BY <1>3, <3>1, LeastOf
  <2>. HIDE DEF last
  <2> DEFINE a == Least(ink)
  <2>7. a \in Nat \ {0} /\ last \in Nat /\ last <= Len(str)
    <3>1. a \in 1..n /\ last \in 1..n
      BY <1>1, <2>5, <2>6
    <3>. HIDE DEF a, l, back
    <3>. QED BY <1>1, <3>1
  <2>. HIDE DEF a
  <2>8. SubSeq(str, a, last) \in Seq(Char)
    BY <2>7, PartOf
  <2>. QED BY <1>2, <1>3, <2>8 DEF a
<1>4. CASE ink = {}
  BY <1>2, <1>4
<1>. QED BY <1>3, <1>4

\* Whatever the format and the Server, and whatever the values are: what
\* format_str and pkg_to_str make of a format is what its signs mean, read from
\* the left, and strreplace gives each variable its value and keeps the rest.
THEOREM TextsAreExpanded == Spec => []TextsExpanded
<1>1. Written => TextsExpanded
  <2>. SUFFICES ASSUME Written PROVE TextsExpanded
    OBVIOUS
  <2>1. text \in Seq(Char)
    BY WrittenText
  <2>2. FormatExpanded
    <3> DEFINE f == format_str(text)
    <3>1. f = Escapes(text) /\ f \in Seq(Char)
      BY <2>1, EscapesRead, FormatText
    <3>2. pkg_to_str(f).s = Letters(f)
      <4>. HIDE DEF f
      <4>. QED BY <3>1, LettersRead
    <3>. QED BY <3>1, <3>2 DEF FormatExpanded
  <2>3. ServerExpanded
    <3> DEFINE t == strtrim(text)
               x == Variables.repo
               y == Variables.arch
               r == strreplace(t, x, Repo)
    <3>1. t \in Seq(Char) /\ Repo \in Seq(Char) /\ Arch \in Seq(Char)
      BY <2>1, TrimText, TextsAssumption
    <3>2. IsVariable(x) /\ IsVariable(y)
      BY DEF IsVariable, Variables
    <3>. HIDE DEF t, x, y
    <3>3. r = WithValue(t, x, Repo) /\ r \in Seq(Char)
      BY <3>1, <3>2, ValuesRead
    <3>4. strreplace(r, y, Arch) = WithValue(r, y, Arch)
      <4>. HIDE DEF r
      <4>. QED BY <3>1, <3>2, <3>3, ValuesRead
    <3>. QED BY <3>3, <3>4 DEF ServerExpanded, t, x, y
  <2>. QED BY <2>2, <2>3 DEF TextsExpanded
<1>. QED BY <1>1, WrittenInductive, PTL

-----------------------------------------------------------------------------
(***************************************************************************)
(* Targets.                                                                *)
(***************************************************************************)
LEMMA PlaceOf ==
  ASSUME NEW s \in Seq(Char), NEW X, NEW x \in Seq(X), NEW i \in Nat \ {0}
  PROVE  IsAt(s, i, x) <=> i + Len(x) <= Len(s) + 1 /\ \A j \in 1..Len(x) : s[i + j - 1] = x[j]
<1> DEFINE m == Len(x)
           e == i + m - 1
           u == SubSeq(s, i, e)
           T == Char \cup X
<1>1. m \in Nat /\ IsAt(s, i, x) <=> i + m <= Len(s) + 1 /\ u = x
  BY DEF IsAt
<1>2. CASE i + m <= Len(s) + 1
  <2>1. e \in Nat /\ e <= Len(s) /\ e - i + 1 = m /\ (i <= e \/ m = 0) /\ m \in Nat
    BY <1>2
  <2>2. /\ u \in Seq(Char) /\ Len(u) = IF i <= e THEN e - i + 1 ELSE 0
        /\ \A j \in 1..(e - i + 1) : u[j] = s[i + j - 1]
    <3>. HIDE DEF e, m
    <3>. QED BY <2>1, PartOf
  <2>3. Len(u) = m /\ \A j \in 1..m : u[j] = s[i + j - 1]
    <3>. HIDE DEF u, e, m
    <3>. QED BY <2>1, <2>2
  <2>4. u \in Seq(T) /\ x \in Seq(T)
    <3>. HIDE DEF u
    <3>. QED BY <2>2, SeqMonotonic
  <2>5. u = x <=> \A j \in 1..m : s[i + j - 1] = x[j]
    <3>1. ASSUME \A j \in 1..m : s[i + j - 1] = x[j] PROVE u = x
      <4>1. Len(u) = Len(x) /\ \A j \in 1..Len(u) : u[j] = x[j]
        <5>. HIDE DEF u
        <5>. QED BY <2>3, <3>1
      <4>. HIDE DEF u, T
      <4>. QED BY <2>4, <4>1, SeqEqual
    <3>2. ASSUME u = x PROVE \A j \in 1..m : s[i + j - 1] = x[j]
      <4>. HIDE DEF u
      <4>. QED BY <2>3, <3>2
    <3>. QED BY <3>1, <3>2
  <2>. QED BY <1>1, <1>2, <2>5
<1>3. CASE ~(i + m <= Len(s) + 1)
  BY <1>1, <1>3
<1>. QED BY <1>2, <1>3

\* The operators of two signs come first.
LEMMA OperatorSigns ==
  ASSUME NEW k \in 1..5
  PROVE  /\ Operators[k] \in Seq(Signs)
         /\ Len(Operators[k]) = IF k <= 2 THEN 2 ELSE 1
<1>1. k = 1 \/ k = 2 \/ k = 3 \/ k = 4 \/ k = 5
  OBVIOUS
<1>2. /\ <<"<", "=">> \in Seq(Signs) /\ <<">", "=">> \in Seq(Signs)
      /\ <<"<">> \in Seq(Signs) /\ <<">">> \in Seq(Signs) /\ <<"=">> \in Seq(Signs)
  BY DEF Signs
<1>3. /\ Len(<<"<", "=">>) = 2 /\ Len(<<">", "=">>) = 2
      /\ Len(<<"<">>) = 1 /\ Len(<<">">>) = 1 /\ Len(<<"=">>) = 1
  OBVIOUS
<1>4. /\ Operators[1] = <<"<", "=">> /\ Operators[2] = <<">", "=">>
      /\ Operators[3] = <<"<">> /\ Operators[4] = <<">">> /\ Operators[5] = <<"=">>
  BY DEF Operators
<1>5. CASE k <= 2
  <2>1. k = 1 \/ k = 2
    BY <1>5
  <2>. QED BY <1>2, <1>3, <1>4, <1>5, <2>1
<1>6. CASE ~(k <= 2)
  <2>1. k = 3 \/ k = 4 \/ k = 5
    BY <1>6
  <2>. QED BY <1>2, <1>3, <1>4, <1>6, <2>1
<1>. QED BY <1>5, <1>6

\* A text is what stands before its c-th character, m characters, and the rest.
LEMMA CutAt ==
  ASSUME NEW s \in Seq(Char), NEW c \in 1..Len(s), NEW m \in Nat, c + m <= Len(s) + 1
  PROVE  /\ Upto(s, c - 1) \in Seq(Char) /\ SubSeq(s, c, c + m - 1) \in Seq(Char)
         /\ From(s, c + m) \in Seq(Char)
         /\ s = (Upto(s, c - 1) \o SubSeq(s, c, c + m - 1)) \o From(s, c + m)
<1> DEFINE n == Len(s)
           b == c - 1
           e == c + m - 1
<1>1. n \in Nat /\ b \in Nat /\ e \in Nat /\ b + 1 = c /\ e + 1 = c + m /\ b <= n /\ e <= n
      /\ 1 \in 1..(n + 1) /\ b \in (1 - 1)..n /\ e \in b..n /\ e \in (1 - 1)..n /\ n \in e..n
      /\ c \in Nat \ {0} /\ c + m \in Nat \ {0} /\ 1 \in Nat \ {0}
  OBVIOUS
<1>2. SubSeq(s, 1, b) \in Seq(Char) /\ SubSeq(s, c, e) \in Seq(Char) /\ SubSeq(s, c + m, n) \in Seq(Char)
  <2>1. n <= Len(s)
    OBVIOUS
  <2>. HIDE DEF n, b, e
  <2>. QED BY <1>1, <2>1, PartOf
<1>3. SubSeq(s, 1, b) \o SubSeq(s, b + 1, e) = SubSeq(s, 1, e)
  <2>. HIDE DEF b, e
  <2>. QED BY <1>1, ConcatAdjacentSubSeq
<1>4. SubSeq(s, 1, e) \o SubSeq(s, e + 1, n) = SubSeq(s, 1, n)
  <2>. HIDE DEF b, e
  <2>. QED BY <1>1, ConcatAdjacentSubSeq
<1>5. SubSeq(s, 1, n) = s
  BY SubSeqFull
<1>. QED BY <1>1, <1>2, <1>3, <1>4, <1>5 DEF Upto, From

\* What target_parse finds behind the slash: the first operator of those that
\* are there, what stands before it and what stands behind it.
LEMMA OperatorFound ==
  ASSUME NEW s \in Seq(Char)
  PROVE  LET k == Least({i \in DOMAIN Operators : strstr(s, 1, Operators[i]) # 0})
             mod == Operators[k]
             c == strstr(s, 1, mod)
         IN  \/ k = 0 /\ \A i \in 1..5 : \A j \in 1..Len(s) : ~IsAt(s, j, Operators[i])
             \/ /\ k \in 1..5 /\ c \in 1..Len(s) /\ IsAt(s, c, mod)
                /\ \A i \in 1..(k - 1) : \A j \in 1..Len(s) : ~IsAt(s, j, Operators[i])
                /\ s = (Upto(s, c - 1) \o mod) \o From(s, c + Len(mod))
                /\ Upto(s, c - 1) \in Seq(Char) /\ mod \in Seq(Char)
                /\ From(s, c + Len(mod)) \in Seq(Char)
<1> DEFINE S == {i \in DOMAIN Operators : strstr(s, 1, Operators[i]) # 0}
           k == Least(S)
           mod == Operators[k]
           c == strstr(s, 1, mod)
<1>1. DOMAIN Operators = 1..5
  BY DEF Operators
<1>2. S \in SUBSET Nat /\ S \subseteq 1..5
  BY <1>1
<1>3. ASSUME NEW i \in 1..5, i \notin S PROVE \A j \in 1..Len(s) : ~IsAt(s, j, Operators[i])
  <2>1. strstr(s, 1, Operators[i]) = 0
    BY <1>1, <1>3
  <2>2. Len(s) \in Nat /\ 1 \in Nat \ {0}
    OBVIOUS
  <2>. HIDE DEF S
  <2>. QED BY <2>1, <2>2, FirstPair
<1>4. CASE S = {}
  <2>1. k = 0
    BY <1>4 DEF Least
  <2>. QED BY <1>3, <1>4, <2>1
<1>5. CASE S # {}
  <2>1. k \in S /\ \A i \in S : k <= i
    <3>. HIDE DEF S
    <3>. QED BY <1>2, <1>5, LeastOf
  <2>2. k \in 1..5 /\ c # 0
    BY <1>1, <2>1
  <2>3. c \in 1..Len(s) /\ IsAt(s, c, mod)
    <3>1. Len(s) \in Nat /\ 1 \in Nat \ {0}
      OBVIOUS
    <3>. HIDE DEF mod, S
    <3>. QED BY <2>2, <3>1, FirstPair
  <2>4. \A i \in 1..(k - 1) : \A j \in 1..Len(s) : ~IsAt(s, j, Operators[i])
    <3>. SUFFICES ASSUME NEW i \in 1..(k - 1) PROVE \A j \in 1..Len(s) : ~IsAt(s, j, Operators[i])
      OBVIOUS
    <3>1. i \in 1..5 /\ i \notin S
      <4>. HIDE DEF S, k
      <4>. QED BY <2>1, <2>2
    <3>. QED BY <1>3, <3>1
  <2>5. Len(mod) \in Nat
    <3>. HIDE DEF k
    <3>. QED BY <2>2, OperatorSigns
  <2>6. mod = SubSeq(s, c, c + Len(mod) - 1) /\ c + Len(mod) <= Len(s) + 1
    <3>. HIDE DEF mod, c
    <3>. QED BY <2>3 DEF IsAt
  <2>7. /\ Upto(s, c - 1) \in Seq(Char) /\ SubSeq(s, c, c + Len(mod) - 1) \in Seq(Char)
        /\ From(s, c + Len(mod)) \in Seq(Char)
        /\ s = (Upto(s, c - 1) \o SubSeq(s, c, c + Len(mod) - 1)) \o From(s, c + Len(mod))
    <3> DEFINE m == Len(mod)
    <3>1. m \in Nat /\ c + m <= Len(s) + 1
      BY <2>5, <2>6
    <3>. HIDE DEF c, m
    <3>2. /\ Upto(s, c - 1) \in Seq(Char) /\ SubSeq(s, c, c + m - 1) \in Seq(Char)
          /\ From(s, c + m) \in Seq(Char)
          /\ s = (Upto(s, c - 1) \o SubSeq(s, c, c + m - 1)) \o From(s, c + m)
      BY <2>3, <3>1, CutAt
    <3>. QED BY <3>2 DEF m
  <2>8. /\ s = (Upto(s, c - 1) \o mod) \o From(s, c + Len(mod)) /\ mod \in Seq(Char)
    <3>. HIDE DEF mod, c
    <3>. QED BY <2>6, <2>7
  <2>. QED BY <2>2, <2>3, <2>4, <2>7, <2>8
<1>. QED BY <1>4, <1>5

\* The signs of s are those of the k-th operator, which is at f.
OneOperator(s, f, k) ==
  /\ f \in 1..Len(s) /\ k \in 1..5 /\ IsAt(s, f, Operators[k])
  /\ \A i \in 1..Len(s) : s[i] \in Signs <=> i \in f..(f + Len(Operators[k]) - 1)

\* With one operator in s, it is the one that is found.
LEMMA OneIsFound ==
  ASSUME NEW s \in Seq(Char), NEW f, NEW k, OneOperator(s, f, k),
         NEW l \in 1..5, NEW c \in 1..Len(s), IsAt(s, c, Operators[l]),
         \A i \in 1..(l - 1) : \A j \in 1..Len(s) : ~IsAt(s, j, Operators[i])
  PROVE  c = f /\ Len(Operators[l]) = Len(Operators[k])
<1> DEFINE m == Len(Operators[l])
           h == Len(Operators[k])
<1>1. /\ f \in 1..Len(s) /\ k \in 1..5 /\ IsAt(s, f, Operators[k])
      /\ \A i \in 1..Len(s) : s[i] \in Signs <=> i \in f..(f + h - 1)
  BY DEF OneOperator
<1>2. /\ Operators[l] \in Seq(Signs) /\ m = IF l <= 2 THEN 2 ELSE 1
      /\ Operators[k] \in Seq(Signs) /\ h = IF k <= 2 THEN 2 ELSE 1
  BY <1>1, OperatorSigns
<1>3. l <= k
  <2>. SUFFICES ASSUME ~(l <= k) PROVE FALSE
    OBVIOUS
  <2>1. k \in 1..(l - 1)
    BY <1>1
  <2>. QED BY <1>1, <2>1
<1>4. c + m <= Len(s) + 1 /\ \A j \in 1..m : s[c + j - 1] \in Signs
  <2> DEFINE x == Operators[l]
  <2>1. x \in Seq(Signs) /\ IsAt(s, c, x) /\ c \in Nat \ {0} /\ \A j \in 1..Len(x) : x[j] \in Signs
    BY <1>2
  <2>2. c + Len(x) <= Len(s) + 1 /\ \A j \in 1..Len(x) : s[c + j - 1] = x[j]
    <3>. HIDE DEF x
    <3>. QED BY <2>1, PlaceOf
  <2>. QED BY <2>1, <2>2
<1>. HIDE DEF m, h
<1>5. \A j \in 1..m : c + j - 1 \in f..(f + h - 1)
  <2>. SUFFICES ASSUME NEW j \in 1..m PROVE c + j - 1 \in f..(f + h - 1)
    OBVIOUS
  <2>1. c + j - 1 \in 1..Len(s)
    BY <1>2, <1>4
  <2>2. s[c + j - 1] \in Signs
    BY <1>4
  <2>. QED BY <1>1, <2>1, <2>2
<1>6. m \in {1, 2} /\ h \in {1, 2} /\ (h = 2 => m = 2)
  BY <1>1, <1>2, <1>3
<1>7. c \in f..(f + h - 1) /\ (m = 2 => c + 1 \in f..(f + h - 1))
  <2>1. 1 \in 1..m /\ c + 1 - 1 = c
    BY <1>6
  <2>2. c \in f..(f + h - 1)
    BY <1>5, <2>1
  <2>3. ASSUME m = 2 PROVE c + 1 \in f..(f + h - 1)
    <3>1. 2 \in 1..m /\ c + 2 - 1 = c + 1
      BY <2>3
    <3>. QED BY <1>5, <3>1
  <2>. QED BY <2>2, <2>3
<1>8. f \in Nat /\ c \in Nat
  BY <1>1
<1>9. c = f /\ m = h
  BY <1>6, <1>7, <1>8
<1>. QED BY <1>9 DEF m, h

\* The parts of a target are all of it, and one operator is in neither part.
IsParted(str, slash, s, t) ==
  /\ t.has_db <=> slash # 0
  /\ t.db = Upto(str, slash - 1)
  /\ s = (t.name \o t.mod) \o t.ver
  /\ t.name \in Seq(Char) /\ t.mod \in Seq(Char) /\ t.ver \in Seq(Char)
  /\ \A f, k : OneOperator(s, f, k)
       => (ToSet(t.name) \cup ToSet(t.ver)) \cap Signs = {}

LEMMA TargetParts ==
  ASSUME NEW str \in Seq(Char), NEW slash, slash = strstr(str, 1, <<"/">>),
         NEW s \in Seq(Char), s = From(str, slash + 1), NEW t, t = target_parse(str)
  PROVE  IsParted(str, slash, s, t)
<1> DEFINE k == Least({i \in DOMAIN Operators : strstr(s, 1, Operators[i]) # 0})
           mod == IF k = 0 THEN <<>> ELSE Operators[k]
           c == strstr(s, 1, mod)
           op == Operators[k]
           d == strstr(s, 1, op)
<1>1. t = [has_db |-> slash # 0, db |-> Upto(str, slash - 1), mod |-> mod,
           name |-> IF k = 0 THEN s ELSE Upto(s, c - 1),
           ver  |-> IF k = 0 THEN <<>> ELSE From(s, c + Len(mod))]
  BY DEF target_parse
<1>2. \/ k = 0 /\ \A i \in 1..5 : \A j \in 1..Len(s) : ~IsAt(s, j, Operators[i])
      \/ /\ k \in 1..5 /\ d \in 1..Len(s) /\ IsAt(s, d, op)
         /\ \A i \in 1..(k - 1) : \A j \in 1..Len(s) : ~IsAt(s, j, Operators[i])
         /\ s = (Upto(s, d - 1) \o op) \o From(s, d + Len(op))
         /\ Upto(s, d - 1) \in Seq(Char) /\ op \in Seq(Char)
         /\ From(s, d + Len(op)) \in Seq(Char)
  BY OperatorFound
<1>3. k # 0 => mod = op /\ c = d
  OBVIOUS
<1>. HIDE DEF k, d, op, mod, c
<1>4. (t.has_db <=> slash # 0) /\ t.db = Upto(str, slash - 1)
  <2> DEFINE has == slash # 0
             u == Upto(str, slash - 1)
             name == IF k = 0 THEN s ELSE Upto(s, c - 1)
             ver == IF k = 0 THEN <<>> ELSE From(s, c + Len(mod))
  <2>1. t = [has_db |-> has, db |-> u, mod |-> mod, name |-> name, ver |-> ver]
    BY <1>1
  <2>. HIDE DEF has, u, name, ver
  <2>2. t.has_db = has /\ t.db = u
    BY <2>1
  <2>. QED BY <2>2 DEF has, u
<1>5. CASE k = 0
  <2>1. t.mod = <<>> /\ t.name = s /\ t.ver = <<>>
    BY <1>1, <1>5 DEF mod
  <2>2. (s \o <<>>) \o <<>> = s /\ <<>> \in Seq(Char)
    <3>1. s \o <<>> = s
      BY ConcatEmptySeq
    <3>. QED BY <3>1
  <2>3. ASSUME NEW f, NEW i, OneOperator(s, f, i) PROVE FALSE
    <3>1. f \in 1..Len(s) /\ i \in 1..5 /\ IsAt(s, f, Operators[i])
      BY <2>3 DEF OneOperator
    <3>. QED BY <1>2, <1>5, <3>1
  <2>. QED BY <1>4, <2>1, <2>2, <2>3 DEF IsParted
<1>6. CASE k # 0
  <2> DEFINE before == Upto(s, d - 1)
             m == Len(op)
             after == From(s, d + m)
  <2>1. /\ k \in 1..5 /\ d \in 1..Len(s) /\ IsAt(s, d, op)
        /\ \A i \in 1..(k - 1) : \A j \in 1..Len(s) : ~IsAt(s, j, Operators[i])
        /\ s = (before \o op) \o after
        /\ before \in Seq(Char) /\ op \in Seq(Char) /\ after \in Seq(Char)
    BY <1>2, <1>6
  <2>2. t.mod = op /\ t.name = before /\ t.ver = after
    <3>. HIDE DEF before, after
    <3>1. t.mod = mod /\ t.name = Upto(s, c - 1) /\ t.ver = From(s, c + Len(mod))
      BY <1>1, <1>6
    <3>. QED BY <1>3, <1>6, <3>1 DEF before, after
  <2>3. ASSUME NEW f, NEW i, OneOperator(s, f, i)
        PROVE  (ToSet(before) \cup ToSet(after)) \cap Signs = {}
    <3>1. d = f /\ m = Len(Operators[i])
      <4>1. k \in 1..5 /\ d \in 1..Len(s) /\ IsAt(s, d, Operators[k])
            /\ \A i_1 \in 1..(k - 1) : \A j \in 1..Len(s) : ~IsAt(s, j, Operators[i_1])
        BY <2>1 DEF op
      <4>. HIDE DEF before, after, m
      <4>2. d = f /\ Len(Operators[k]) = Len(Operators[i])
        BY <2>3, <4>1, OneIsFound
      <4>. QED BY <4>2 DEF op, m
    <3>2. \A j \in 1..Len(s) : s[j] \in Signs <=> j \in d..(d + m - 1)
      BY <2>3, <3>1 DEF OneOperator
    <3>3. m \in Nat \ {0} /\ d + m <= Len(s) + 1
      <4>1. m \in Nat \ {0}
        <5>1. k \in 1..5
          BY <2>1
        <5>2. Len(Operators[k]) \in Nat \ {0}
          <6>. HIDE DEF before, after, m
          <6>1. Len(Operators[k]) = IF k <= 2 THEN 2 ELSE 1
            BY <5>1, OperatorSigns
          <6>. QED BY <6>1
        <5>. QED BY <5>2 DEF op
      <4>. HIDE DEF before, after
      <4>. QED BY <2>1, <4>1 DEF IsAt
    <3>4. ASSUME NEW j \in 1..Len(before) PROVE before[j] \notin Signs
      <4> DEFINE e == d - 1
      <4>1. e \in Nat /\ e <= Len(s) /\ e - 1 + 1 = e /\ 1 \in Nat \ {0}
        BY <2>1
      <4>2. /\ Len(SubSeq(s, 1, e)) = IF 1 <= e THEN e - 1 + 1 ELSE 0
            /\ \A i_1 \in 1..(e - 1 + 1) : SubSeq(s, 1, e)[i_1] = s[1 + i_1 - 1]
        <5>. HIDE DEF e
        <5>. QED BY <4>1, PartOf
      <4>3. before = SubSeq(s, 1, e)
        BY DEF Upto
      <4>. HIDE DEF before, after, m
      <4>4. j \in 1..e /\ before[j] = s[1 + j - 1]
        <5>. HIDE DEF e
        <5>. QED BY <4>1, <4>2, <4>3
      <4>5. 1 + j - 1 = j /\ j \in 1..Len(s) /\ ~(j \in d..(d + m - 1))
        BY <2>1, <3>3, <4>4
      <4>. QED BY <3>2, <4>4, <4>5
    <3>5. ASSUME NEW j \in 1..Len(after) PROVE after[j] \notin Signs
      <4> DEFINE b == d + m
                 n == Len(s)
      <4>1. b \in Nat \ {0} /\ n \in Nat /\ n <= Len(s)
        <5>. HIDE DEF before, after, m
        <5>. QED BY <2>1, <3>3
      <4>2. /\ Len(SubSeq(s, b, n)) = IF b <= n THEN n - b + 1 ELSE 0
            /\ \A i_1 \in 1..(n - b + 1) : SubSeq(s, b, n)[i_1] = s[b + i_1 - 1]
        <5>. HIDE DEF b, n
        <5>. QED BY <4>1, PartOf
      <4>3. after = SubSeq(s, b, n)
        BY DEF From
      <4>. HIDE DEF before, after, m
      <4>4. j \in 1..(n - b + 1) /\ after[j] = s[b + j - 1]
        <5>. HIDE DEF b, n
        <5>. QED BY <4>1, <4>2, <4>3
      <4>5. b + j - 1 \in 1..Len(s) /\ ~(b + j - 1 \in d..(d + m - 1))
        <5>1. d \in Nat \ {0} /\ j \in Nat \ {0} /\ j <= n - b + 1 /\ n \in Nat
          BY SMTT(30), <2>1, <4>1, <4>4
        <5>. QED BY <3>3, <5>1
      <4>. QED BY <3>2, <4>4, <4>5
    <3>6. DOMAIN before = 1..Len(before) /\ DOMAIN after = 1..Len(after)
      <4>. HIDE DEF before, after
      <4>. QED BY <2>1
    <3>. HIDE DEF before, after
    <3>. QED BY <3>4, <3>5, <3>6 DEF ToSet
  <2>. HIDE DEF before, after
  <2>. QED BY <1>4, <2>1, <2>2, <2>3 DEF IsParted
<1>. QED BY <1>5, <1>6

\* Behind the slash, or from the start when there is none.
LEMMA Behind ==
  ASSUME NEW str \in Seq(Char), NEW slash \in 0..Len(str)
  PROVE  /\ From(str, slash + 1) \in Seq(Char)
         /\ Len(From(str, slash + 1)) = Len(str) - slash
         /\ \A j \in 1..(Len(str) - slash) : From(str, slash + 1)[j] = str[slash + j]
<1> DEFINE n == Len(str)
           b == slash + 1
           u == SubSeq(str, b, n)
<1>0. slash \in Nat /\ n \in Nat
  OBVIOUS
<1>1. b \in Nat \ {0} /\ n \in Nat /\ n <= Len(str) /\ n - b + 1 = n - slash
      /\ (b <= n \/ n - slash = 0)
  OBVIOUS
<1>2. /\ u \in Seq(Char) /\ Len(u) = IF b <= n THEN n - b + 1 ELSE 0
      /\ \A j \in 1..(n - b + 1) : u[j] = str[b + j - 1]
  <2>. HIDE DEF b, n
  <2>. QED BY <1>1, PartOf
<1>3. From(str, slash + 1) = u
  BY DEF From
<1>. HIDE DEF u
<1>4. Len(u) = n - slash
  <2>. HIDE DEF b, n
  <2>. QED BY <1>1, <1>2
<1>5. ASSUME NEW j \in 1..(n - slash) PROVE u[j] = str[slash + j]
  <2>1. j \in 1..(n - b + 1) /\ b + j - 1 = slash + j
    <3>1. slash \in Nat /\ j \in Nat /\ j >= 1 /\ j <= n - slash
      <4>. HIDE DEF n, b
      <4>. QED BY <1>0
    <3>. HIDE DEF n
    <3>. QED BY <1>1, <3>1
  <2>. QED BY <1>2, <2>1
<1>. QED BY <1>2, <1>3, <1>4, <1>5

\* One operator in the text and no slash behind it is one operator behind the slash.
LEMMA OneBehind ==
  ASSUME NEW str \in Seq(Char), NEW slash \in 0..Len(str), slash # 0 => str[slash] = "/",
         NEW at, at = {i \in DOMAIN str : str[i] \in Signs}, at # {},
         NEW k \in 1..5, IsAt(str, Least(at), Operators[k]), Cardinality(at) = Len(Operators[k]),
         "/" \notin ToSet(From(str, Least(at)))
  PROVE  OneOperator(From(str, slash + 1), Least(at) - slash, k)
<1> DEFINE n == Len(str)
           first == Least(at)
           op == Operators[k]
           l == Len(op)
           I == first..(first + l - 1)
           s == From(str, slash + 1)
           f == first - slash
<1>1. n \in Nat /\ at \in SUBSET (1..n) /\ at \in SUBSET Nat
  OBVIOUS
<1>2. first \in at /\ first \in 1..n /\ first \in Nat \ {0}
  <2>1. first \in at
    BY <1>1, LeastOf
  <2>. HIDE DEF first
  <2>. QED BY <1>1, <2>1
<1>3. op \in Seq(Signs) /\ l \in Nat \ {0}
  <2>1. op \in Seq(Signs) /\ l = IF k <= 2 THEN 2 ELSE 1
    BY OperatorSigns
  <2>. HIDE DEF op, l
  <2>. QED BY <2>1
<1>. HIDE DEF first, op
<1>4. first + l <= n + 1 /\ \A j \in 1..l : str[first + j - 1] = op[j]
  <2>1. IsAt(str, first, op)
    BY DEF first, op
  <2>. QED BY <1>2, <1>3, <2>1, PlaceOf
<1>5. at = I
  <2>1. I \subseteq at
    <3>. SUFFICES ASSUME NEW i \in I PROVE i \in at
      OBVIOUS
    <3> DEFINE j == i - first + 1
    <3>1. j \in 1..l /\ first + j - 1 = i /\ i \in 1..n
      <4>. HIDE DEF l, n
      <4>. QED BY <1>1, <1>2, <1>3, <1>4
    <3>2. str[i] = op[j] /\ op[j] \in Signs
      <4>. HIDE DEF j
      <4>. QED BY <1>3, <1>4, <3>1
    <3>. QED BY <3>1, <3>2
  <2>2. IsFiniteSet(at)
    <3>1. IsFiniteSet(1..n)
      BY <1>1, FS_Interval
    <3>. QED BY <1>1, <3>1, FS_Subset
  <2>3. Cardinality(I) = l
    <3> DEFINE e == first + l - 1
    <3>1. first \in Int /\ e \in Int /\ ~(first > e) /\ e - first + 1 = l
      <4>. HIDE DEF l
      <4>. QED BY <1>2, <1>3
    <3>. HIDE DEF e
    <3>2. Cardinality(first..e) = l
      BY <3>1, FS_Interval
    <3>. QED BY <3>2 DEF e
  <2>4. Cardinality(at) = l
    BY DEF op
  <2>. HIDE DEF I, l
  <2>. QED BY <2>1, <2>2, <2>3, <2>4, FS_Subset
<1>6. slash < first
  <2>. SUFFICES ASSUME ~(slash < first) PROVE FALSE
    OBVIOUS
  <2> DEFINE b == first - 1
             j == slash - b
  <2>1. b \in 0..n /\ slash # 0 /\ j \in 1..(n - b) /\ b + j = slash /\ b + 1 = first
    <3>1. slash \in Nat /\ slash <= n
      BY <1>1
    <3>. HIDE DEF n
    <3>. QED BY <1>1, <1>2, <3>1
  <2> DEFINE u == From(str, b + 1)
  <2>2. u \in Seq(Char) /\ Len(u) = n - b /\ \A i \in 1..(n - b) : u[i] = str[b + i]
    <3>. HIDE DEF b
    <3>. QED BY <2>1, Behind
  <2>3. u[j] = "/"
    <3>. HIDE DEF u, b, j
    <3>. QED BY <2>1, <2>2
  <2>4. j \in DOMAIN u
    <3>. HIDE DEF u, b, j
    <3>. QED BY <2>1, <2>2
  <2>5. "/" \in ToSet(u)
    <3>. HIDE DEF u, b, j
    <3>. QED BY <2>3, <2>4 DEF ToSet
  <2>6. u = From(str, first)
    BY <2>1
  <2>. HIDE DEF u, b, j
  <2>. QED BY <2>5, <2>6 DEF first
<1>7. s \in Seq(Char) /\ Len(s) = n - slash /\ \A j \in 1..(n - slash) : s[j] = str[slash + j]
  BY Behind
<1>. HIDE DEF s
<1>8. f \in 1..Len(s) /\ f \in Nat \ {0} /\ slash \in Nat /\ f + slash = first
  <2>. HIDE DEF n
  <2>. QED BY <1>1, <1>2, <1>6, <1>7
<1>. HIDE DEF f
<1>9. IsAt(s, f, op)
  <2>1. f + l <= Len(s) + 1
    <3>. HIDE DEF l
    <3>. QED BY <1>1, <1>3, <1>4, <1>7, <1>8
  <2>2. ASSUME NEW j \in 1..l PROVE s[f + j - 1] = op[j]
    <3>1. f + j - 1 \in 1..(n - slash) /\ slash + (f + j - 1) = first + j - 1
      <4>. HIDE DEF l, n
      <4>. QED BY <1>1, <1>3, <1>7, <1>8, <2>1
    <3>2. s[f + j - 1] = str[slash + (f + j - 1)]
      BY <1>7, <3>1
    <3>3. str[first + j - 1] = op[j]
      BY <1>4
    <3>. QED BY <3>1, <3>2, <3>3
  <2>. QED BY <1>3, <1>7, <1>8, <2>1, <2>2, PlaceOf
<1>10. ASSUME NEW i \in 1..Len(s) PROVE s[i] \in Signs <=> i \in f..(f + l - 1)
  <2>1. i \in 1..(n - slash) /\ slash + i \in 1..n
    <3>. HIDE DEF n
    <3>. QED BY <1>1, <1>7, <1>8
  <2>2. s[i] = str[slash + i]
    BY <1>7, <2>1
  <2>3. str[slash + i] \in Signs <=> slash + i \in at
    BY <2>1
  <2>4. slash + i \in I <=> i \in f..(f + l - 1)
    <3>. HIDE DEF l, n
    <3>. QED BY <1>2, <1>3, <1>8, <2>1
  <2>. QED BY <1>5, <2>2, <2>3, <2>4
<1>. QED BY <1>8, <1>9, <1>10 DEF OneOperator, op, s, f, first

LEMMA TargetMeant ==
  ASSUME text \in Seq(Char)
  PROVE  TargetRead
<1> DEFINE n == Len(text)
           t == target_parse(text)
           at == {i \in DOMAIN text : text[i] \in Signs}
           slash == strstr(text, 1, <<"/">>)
           s == From(text, slash + 1)
           D == IF t.has_db THEN t.db \o <<"/">> ELSE <<>>
<1>1. n \in Nat
  OBVIOUS
<1>2. \/ slash = 0 /\ \A k \in 1..n : text[k] # "/"
      \/ /\ slash \in 1..n /\ text[slash] = "/"
         /\ \A k \in 1..(slash - 1) : text[k] # "/"
  BY FirstOf
<1>3. slash \in 0..n /\ (slash # 0 => text[slash] = "/")
  <2>. HIDE DEF slash, n
  <2>. QED BY <1>1, <1>2
<1>4. s \in Seq(Char)
  <2>. HIDE DEF slash
  <2>. QED BY <1>3, Behind
<1>5. /\ t.has_db <=> slash # 0
      /\ t.db = Upto(text, slash - 1)
      /\ s = (t.name \o t.mod) \o t.ver
      /\ t.name \in Seq(Char) /\ t.mod \in Seq(Char) /\ t.ver \in Seq(Char)
      /\ \A f, k : OneOperator(s, f, k)
           => (ToSet(t.name) \cup ToSet(t.ver)) \cap Signs = {}
  <2> DEFINE sl == slash
             u == s
             v == t
  <2>1. sl = strstr(text, 1, <<"/">>) /\ u = From(text, sl + 1) /\ v = target_parse(text) /\ u \in Seq(Char)
    BY <1>4
  <2>. HIDE DEF sl, u, v
  <2>2. IsParted(text, sl, u, v)
    BY <2>1, TargetParts
  <2>. QED BY <2>2 DEF IsParted, sl, u, v
<1>6. D \in Seq(Char) /\ text = D \o s
  <2>1. CASE slash = 0
    <3>1. s = text /\ D = <<>>
      <4>1. s = SubSeq(text, 1, Len(text))
        BY <2>1 DEF From
      <4>2. D = <<>>
        BY <1>5, <2>1
      <4>. HIDE DEF D, s
      <4>. QED BY <4>1, <4>2, SubSeqFull
    <3>2. <<>> \o text = text /\ <<>> \in Seq(Char)
      BY ConcatEmptySeq
    <3>. QED BY <3>1, <3>2
  <2>2. CASE slash # 0
    <3> DEFINE u == Upto(text, slash - 1)
               w == SubSeq(text, slash, slash + 1 - 1)
    <3>1. slash \in 1..n /\ slash + 1 <= n + 1 /\ slash + 1 - 1 = slash /\ slash \in Nat \ {0} /\ slash \in Nat /\ slash <= n
      <4>. HIDE DEF slash, n
      <4>. QED BY <1>1, <1>3, <2>2
    <3>2. u \in Seq(Char) /\ w \in Seq(Char) /\ text = (u \o w) \o s
      <4>1. 1 \in Nat
        OBVIOUS
      <4>. HIDE DEF slash
      <4>. QED BY <3>1, <4>1, CutAt
    <3>3. w = <<"/">>
      <4> DEFINE x == SubSeq(text, slash, slash)
      <4>1. /\ x \in Seq(Char) /\ Len(x) = IF slash <= slash THEN slash - slash + 1 ELSE 0
            /\ \A i \in 1..(slash - slash + 1) : x[i] = text[slash + i - 1]
        <5>. HIDE DEF slash
        <5>. QED BY <3>1, PartOf
      <4>2. Len(x) = 1 /\ x[1] = text[slash]
        <5>1. 1 \in 1..(slash - slash + 1) /\ slash + 1 - 1 = slash /\ slash - slash + 1 = 1 /\ slash <= slash
          <6>. HIDE DEF slash
          <6>. QED BY <3>1
        <5>. HIDE DEF x, slash
        <5>. QED BY <4>1, <5>1
      <4>3. x = <<x[1]>>
        <5>. HIDE DEF x
        <5>. QED BY <4>1, <4>2, SingleOf
      <4>4. w = x
        BY <3>1
      <4>. HIDE DEF x, w
      <4>. QED BY <1>3, <2>2, <4>2, <4>3, <4>4
    <3>4. D = u \o <<"/">>
      BY <1>5, <2>2
    <3>5. u \o w \in Seq(Char)
      <4>. HIDE DEF u, w
      <4>. QED BY <3>2, ConcatProperties
    <3>. HIDE DEF u, w, D, s
    <3>. QED BY <3>2, <3>3, <3>4, <3>5
  <2>. QED BY <2>1, <2>2
<1>7. text = D \o t.name \o t.mod \o t.ver
  <2> DEFINE a == t.name
             b == t.mod
             c == t.ver
             ab == a \o b
  <2>1. /\ a \in Seq(Char) /\ b \in Seq(Char) /\ c \in Seq(Char) /\ D \in Seq(Char)
        /\ text = D \o s /\ s = ab \o c
    BY <1>5, <1>6
  <2>. HIDE DEF a, b, c, D, s
  <2>0. a \in Seq(Char) /\ b \in Seq(Char) /\ c \in Seq(Char) /\ D \in Seq(Char)
    BY <2>1
  <2>2. (D \o a) \o b = D \o ab
    BY ZenonT(30), <2>0, Regrouped
  <2>3. ab \in Seq(Char)
    BY <2>0, ConcatProperties
  <2>. HIDE DEF ab
  <2>4. (D \o ab) \o c = D \o (ab \o c)
    BY ZenonT(30), <2>0, <2>3, Regrouped
  <2>5. text = ((D \o a) \o b) \o c
    BY <2>1, <2>2, <2>4
  <2>. QED BY <2>5 DEF a, b, c
<1>8. "/" \notin ToSet(t.db)
  <2> DEFINE e == slash - 1
             u == SubSeq(text, 1, e)
  <2>1. t.db = u
    BY <1>5 DEF Upto
  <2>2. CASE slash = 0
    <3>1. u = <<>>
      <4>1. e \in Int /\ e < 1
        BY <2>2
      <4>. HIDE DEF e
      <4>. QED BY <4>1, SubSeqEmpty
    <3>2. ToSet(<<>>) = {}
      BY DEF ToSet
    <3>. HIDE DEF u
    <3>. QED BY <2>1, <3>1, <3>2
  <2>3. CASE slash # 0
    <3>1. e \in Nat /\ e <= Len(text) /\ 1 \in Nat \ {0} /\ e - 1 + 1 = e
      <4>. HIDE DEF slash
      <4>. QED BY <1>1, <1>3, <2>3
    <3>2. /\ u \in Seq(Char) /\ Len(u) = IF 1 <= e THEN e - 1 + 1 ELSE 0
          /\ \A i \in 1..(e - 1 + 1) : u[i] = text[1 + i - 1]
      <4>. HIDE DEF e
      <4>. QED BY <3>1, PartOf
    <3>3. ASSUME NEW i \in DOMAIN u PROVE u[i] # "/"
      <4>1. i \in 1..Len(u)
        <5>. HIDE DEF u
        <5>. QED BY <3>2
      <4>2. i \in 1..e /\ u[i] = text[1 + i - 1]
        <5>. HIDE DEF u, e
        <5>. QED BY <3>1, <3>2, <4>1
      <4>3. i \in 1..(slash - 1) /\ 1 + i - 1 = i
        BY <4>2
      <4>. HIDE DEF u, e, slash
      <4>. QED BY <1>2, <2>3, <4>2, <4>3
    <3>. HIDE DEF u
    <3>. QED BY <2>1, <3>3 DEF ToSet
  <2>. QED BY <2>2, <2>3
<1>9. t.has_db <=> "/" \in ToSet(text)
  <2>1. ToSet(text) = {text[i] : i \in 1..n}
    BY DEF ToSet
  <2>2. slash # 0 <=> "/" \in ToSet(text)
    <3>. HIDE DEF slash, n
    <3>. QED BY <1>1, <1>2, <2>1
  <2>. HIDE DEF slash, t
  <2>. QED BY <1>5, <2>2
<1>10. ASSUME at # {}, NEW k \in DOMAIN Operators, IsAt(text, Least(at), Operators[k]),
              Cardinality(at) = Len(Operators[k]), "/" \notin ToSet(From(text, Least(at)))
       PROVE  (ToSet(t.name) \cup ToSet(t.ver)) \cap Signs = {}
  <2>1. k \in 1..5
    BY DEF Operators
  <2> DEFINE sl == slash
             A == at
  <2>2. sl \in 0..Len(text) /\ (sl # 0 => text[sl] = "/") /\ A = {i \in DOMAIN text : text[i] \in Signs}
        /\ A # {} /\ IsAt(text, Least(A), Operators[k]) /\ Cardinality(A) = Len(Operators[k])
        /\ "/" \notin ToSet(From(text, Least(A)))
    BY <1>3, <1>10
  <2>. HIDE DEF sl, A
  <2>3. OneOperator(From(text, sl + 1), Least(A) - sl, k)
    BY <2>1, <2>2, OneBehind
  <2>4. OneOperator(s, Least(A) - sl, k)
    BY <2>3 DEF sl
  <2>. HIDE DEF s, t
  <2>. QED BY <1>5, <2>4
<1>. HIDE DEF D, t, at
<1>11. text = D \o t.name \o t.mod \o t.ver
  BY <1>7
<1>. QED BY <1>7, <1>8, <1>9, <1>10 DEF TargetRead, D, t, at

-----------------------------------------------------------------------------
(***************************************************************************)
(* Lists in a PKGBUILD.                                                    *)
(***************************************************************************)
\* What stands where in c, which is a and b together.
IsJoined(c, a, b) ==
  /\ c \in Seq(Char) /\ Len(c) = Len(a) + Len(b)
  /\ \A j \in 1..Len(a) : c[j] = a[j]
  /\ \A j \in 1..Len(b) : c[Len(a) + j] = b[j]

LEMMA JoinedAt == ASSUME NEW a \in Seq(Char), NEW b \in Seq(Char) PROVE IsJoined(a \o b, a, b)
<1>1. /\ a \o b \in Seq(Char) /\ Len(a \o b) = Len(a) + Len(b)
      /\ \A j \in 1..Len(a) + Len(b) : (a \o b)[j] = IF j <= Len(a) THEN a[j] ELSE b[j - Len(a)]
  BY ConcatProperties
<1>2. Len(a) \in Nat /\ Len(b) \in Nat
  OBVIOUS
<1>4. ASSUME NEW j \in 1..Len(a) PROVE (a \o b)[j] = a[j]
  <2>1. j \in 1..Len(a) + Len(b) /\ j <= Len(a)
    BY <1>2
  <2>. QED BY <1>1, <2>1
<1>5. ASSUME NEW j \in 1..Len(b) PROVE (a \o b)[Len(a) + j] = b[j]
  <2>1. Len(a) + j \in 1..Len(a) + Len(b) /\ ~(Len(a) + j <= Len(a)) /\ Len(a) + j - Len(a) = j
    BY <1>2
  <2>. QED BY <1>1, <2>1
<1>. QED BY <1>1, <1>4, <1>5 DEF IsJoined

\* Each piece stands where the pieces before it end.
LEMMA FlatPlaces ==
  ASSUME NEW n \in Nat, NEW E \in [1..n -> Seq(Char)], NEW fl \in [0..n -> Seq(Char)],
         IsFlat(fl, n, E)
  PROVE  \A i \in 1..n : /\ Len(fl[i]) = Len(fl[i - 1]) + Len(E[i])
                         /\ Len(fl[i]) <= Len(fl[n])
                         /\ \A j \in 1..Len(E[i]) : fl[n][Len(fl[i - 1]) + j] = E[i][j]
<1> DEFINE G == [k \in 0..n |-> {x \in Seq(Char) : \A i \in 1..k :
                  /\ Len(fl[i]) <= Len(x)
                  /\ \A j \in 1..Len(E[i]) : x[Len(fl[i - 1]) + j] = E[i][j]}]
<1>1. \A i \in 1..n : /\ fl[i] = fl[i - 1] \o E[i] /\ fl[i - 1] \in Seq(Char) /\ E[i] \in Seq(Char)
                      /\ fl[i] \in Seq(Char)
  <2>. HIDE DEF G
  <2>1. \A i \in 1..n : i \in 0..n /\ i - 1 \in 0..n
    OBVIOUS
  <2>2. \A i \in 1..n : fl[i - 1] \in Seq(Char) /\ E[i] \in Seq(Char) /\ fl[i] \in Seq(Char)
    BY <2>1
  <2>3. \A i \in 1..n : fl[i] = fl[i - 1] \o E[i]
    BY DEF IsFlat
  <2>. QED BY <2>2, <2>3
<1>2. ASSUME NEW i \in 1..n
      PROVE  /\ Len(fl[i]) = Len(fl[i - 1]) + Len(E[i])
             /\ \A j \in 1..Len(fl[i - 1]) : fl[i][j] = fl[i - 1][j]
             /\ \A j \in 1..Len(E[i]) : fl[i][Len(fl[i - 1]) + j] = E[i][j]
             /\ Len(fl[i - 1]) \in Nat /\ Len(E[i]) \in Nat /\ Len(fl[i]) \in Nat
  <2> DEFINE a == fl[i - 1]
             b == E[i]
             c == fl[i]
  <2>1. c = a \o b /\ a \in Seq(Char) /\ b \in Seq(Char)
    BY <1>1
  <2>. HIDE DEF a, b, c
  <2>2. /\ Len(c) = Len(a) + Len(b) /\ Len(a) \in Nat /\ Len(b) \in Nat /\ Len(c) \in Nat
        /\ \A j \in 1..Len(a) : c[j] = a[j]
        /\ \A j \in 1..Len(b) : c[Len(a) + j] = b[j]
    BY <2>1, JoinedAt DEF IsJoined
  <2>. QED BY <2>2 DEF a, b, c
<1>3. fl[0] \in G[0]
  <2>1. 0 \in 0..n /\ fl[0] \in Seq(Char) /\ 1..0 = {}
    OBVIOUS
  <2>. QED BY <2>1
<1>4. ASSUME NEW k \in 1..n, fl[k - 1] \in G[k - 1] PROVE fl[k] \in G[k]
  <2>1. k - 1 \in 0..n /\ k \in 0..n
    OBVIOUS
  <2> DEFINE x == fl[k - 1]
             y == fl[k]
  <2>2. /\ x \in Seq(Char) /\ y \in Seq(Char)
        /\ \A i \in 1..(k - 1) : /\ Len(fl[i]) <= Len(x)
                                 /\ \A j \in 1..Len(E[i]) : x[Len(fl[i - 1]) + j] = E[i][j]
    BY <1>4, <2>1
  <2>3. /\ Len(y) = Len(x) + Len(E[k]) /\ \A j \in 1..Len(x) : y[j] = x[j]
        /\ \A j \in 1..Len(E[k]) : y[Len(x) + j] = E[k][j]
        /\ Len(x) \in Nat /\ Len(E[k]) \in Nat /\ Len(y) \in Nat
    BY <1>2
  <2>. HIDE DEF G, x, y
  <2>4. ASSUME NEW i \in 1..k
        PROVE  Len(fl[i]) <= Len(y) /\ \A j \in 1..Len(E[i]) : y[Len(fl[i - 1]) + j] = E[i][j]
    <3>1. CASE i = k
      BY <2>3, <3>1 DEF x, y
    <3>2. CASE i # k
      <4>1. i \in 1..(k - 1) /\ i \in 1..n
        BY <3>2
      <4>2. /\ Len(fl[i]) <= Len(x) /\ \A j \in 1..Len(E[i]) : x[Len(fl[i - 1]) + j] = E[i][j]
        BY <2>2, <4>1
      <4>3. /\ Len(fl[i]) = Len(fl[i - 1]) + Len(E[i])
            /\ Len(fl[i - 1]) \in Nat /\ Len(E[i]) \in Nat /\ Len(fl[i]) \in Nat
        BY <1>2, <4>1
      <4> DEFINE a == Len(fl[i - 1])
                 b == Len(E[i])
                 c == Len(fl[i])
                 d == Len(x)
                 e == Len(y)
                 f == Len(E[k])
      <4>6. c = a + b /\ a \in Nat /\ b \in Nat /\ c \in Nat /\ c <= d /\ d \in Nat /\ f \in Nat /\ e = d + f
        BY <2>3, <4>2, <4>3
      <4>7. (\A j \in 1..b : x[a + j] = E[i][j]) /\ \A j \in 1..d : y[j] = x[j]
        BY <2>3, <4>2
      <4>. HIDE DEF a, b, c, d, e, f
      <4>4. ASSUME NEW j \in 1..b PROVE y[a + j] = E[i][j]
        <5>1. a + j \in 1..d
          BY <4>6
        <5>. QED BY <4>7, <5>1
      <4>5. c <= e
        BY <4>6
      <4>. QED BY <4>4, <4>5 DEF a, b, c, e
    <3>. QED BY <3>1, <3>2
  <2>. QED BY <2>1, <2>2, <2>4 DEF G, y
<1>5. \A k \in 0..n : fl[k] \in G[k]
  <2>. HIDE DEF G
  <2>. QED BY <1>3, <1>4, LoopInvariant
<1>6. fl[n] \in G[n] /\ n \in 0..n
  BY <1>5
<1>. QED BY <1>2, <1>6

\* Where the entries of a list are in a text: the i-th ends before e[i].
IsLaidOut(s, ws, e) ==
  /\ e \in [0..Len(ws) -> Int] /\ e[0] = -2
  /\ \A i \in 1..Len(ws) :
       /\ e[i] = e[i - 1] + 3 + Len(ws[i]) /\ e[i] <= e[Len(ws)] /\ e[i] \in Nat \ {0}
       /\ s[e[i]] = "'"
       /\ \A j \in 1..Len(ws[i]) : s[e[i - 1] + 2 + j] = ws[i][j]
  /\ \A i \in 1..(Len(ws) - 1) : s[e[i] + 1] = " " /\ s[e[i] + 2] = "'"
  /\ e[Len(ws)] + 1 <= Len(s) /\ s[e[Len(ws)] + 1] = ")"

\* A piece is the entry w behind p characters, blank and quote unless it is the
\* first, and a quote.
IsPiece(E, w, p) ==
  /\ E \in Seq(Char) /\ Len(E) = p + Len(w) + 1 /\ E[p + Len(w) + 1] = "'"
  /\ \A j \in 1..Len(w) : E[p + j] = w[j]
  /\ p = 2 => E[1] = " " /\ E[2] = "'"

\* An entry is a text that is not empty.
LEMMA EntryOf == ASSUME NEW w \in Entries PROVE w \in Seq(Char) /\ Len(w) \in Nat \ {0}
<1>1. w \in Seq(Char) /\ w # <<>>
  BY TextsAssumption
<1>. QED BY <1>1, EmptySeq

\* What is before an entry, in p characters, and after it.
IsBefore(a, p) == Len(a) = p /\ (p = 2 => a[1] = " " /\ a[2] = "'")
IsQuote(q) == Len(q) = 1 /\ q[1] = "'"
IsLong(w, l) == Len(w) = l

\* Texts of one and of two characters.
LEMMA CharOf == ASSUME NEW c \in Char PROVE <<c>> \in Seq(Char) /\ Len(<<c>>) = 1 /\ <<c>>[1] = c
OBVIOUS

\* A piece is what is before it, the entry and the quote.
LEMMA PieceOf ==
  ASSUME NEW w, NEW a, NEW q, NEW u, NEW E, NEW l \in Nat, NEW p \in Nat,
         IsJoined(u, a, w), IsJoined(E, u, q), IsLong(w, l), IsBefore(a, p), IsQuote(q)
  PROVE  IsPiece(E, w, p)
<1> DEFINE m == Len(u)
<1>1. m = p + l
  BY DEF IsJoined, IsLong, IsBefore
<1>2. (\A j \in 1..p : u[j] = a[j]) /\ \A j \in 1..l : u[p + j] = w[j]
  BY DEF IsJoined, IsLong, IsBefore
<1>3. E \in Seq(Char) /\ Len(E) = m + 1
  BY DEF IsJoined, IsQuote
<1>4. (\A j \in 1..m : E[j] = u[j]) /\ \A j \in 1..1 : E[m + j] = q[j]
  BY DEF IsJoined, IsQuote
<1>. HIDE DEF m
<1>5. m + 1 = p + l + 1 /\ m \in Nat
  BY <1>1
<1>6. Len(E) = p + l + 1
  BY <1>3, <1>5
<1>7. E[p + l + 1] = "'"
  <2>1. 1 \in 1..1
    OBVIOUS
  <2>2. E[m + 1] = "'"
    BY <1>4, <2>1 DEF IsQuote
  <2>. QED BY <1>5, <2>2
<1>8. ASSUME NEW j \in 1..l PROVE E[p + j] = w[j]
  <2>1. p + j \in 1..m
    BY <1>1
  <2>. QED BY <1>2, <1>4, <2>1
<1>9. ASSUME p = 2 PROVE E[1] = " " /\ E[2] = "'"
  <2>1. 1 \in 1..m /\ 1 \in 1..p /\ 2 \in 1..m /\ 2 \in 1..p
    BY <1>1, <1>9
  <2>. QED BY <1>2, <1>4, <1>9, <2>1 DEF IsBefore
<1>. QED BY <1>3, <1>6, <1>7, <1>8, <1>9 DEF IsPiece, IsLong

LEMMA PairOf ==
  ASSUME NEW x \in Char, NEW y \in Char
  PROVE  <<x, y>> \in Seq(Char) /\ Len(<<x, y>>) = 2 /\ <<x, y>>[1] = x /\ <<x, y>>[2] = y
OBVIOUS

\* What stands where in a piece.
LEMMA EntryPieceAt ==
  ASSUME NEW ws \in Seq(Entries), NEW i \in 1..Len(ws)
  PROVE  IsPiece(EntryPiece(ws, i), ws[i], IF i = 1 THEN 0 ELSE 2)
<1>1. ws[i] \in Seq(Char)
  <2>1. ws[i] \in Entries
    OBVIOUS
  <2>. QED BY <2>1, EntryOf
<1>2. " " \in Char /\ "'" \in Char
  BY TextsAssumption
<1>3. ASSUME NEW w \in Seq(Char), NEW a \in Seq(Char), NEW q \in Seq(Char), NEW p \in Nat,
             IsBefore(a, p), IsQuote(q)
      PROVE  IsPiece((a \o w) \o q, w, p)
  <2> DEFINE u == a \o w
             E == u \o q
             l == Len(w)
  <2>1. IsJoined(u, a, w)
    BY JoinedAt
  <2>2. u \in Seq(Char)
    BY <2>1 DEF IsJoined
  <2>3. l \in Nat /\ IsLong(w, l)
    BY DEF IsLong
  <2>. HIDE DEF u, l
  <2>4. IsJoined(E, u, q)
    BY <2>2, JoinedAt
  <2>. HIDE DEF E
  <2>5. IsPiece(E, w, p)
    BY <1>3, <2>1, <2>3, <2>4, PieceOf
  <2>. QED BY <2>5 DEF E, u
<1> DEFINE q == <<"'">>
<1>4. q \in Seq(Char) /\ IsQuote(q)
  BY <1>2, CharOf DEF IsQuote
<1>5. CASE i = 1
  <2> DEFINE a == <<>>
  <2>1. a \in Seq(Char) /\ IsBefore(a, 0)
    BY DEF IsBefore
  <2>2. EntryPiece(ws, i) = (a \o ws[i]) \o q
    BY <1>5 DEF EntryPiece
  <2>. HIDE DEF a, q
  <2>3. IsPiece((a \o ws[i]) \o q, ws[i], 0)
    BY <1>1, <1>3, <1>4, <2>1
  <2>. QED BY <1>5, <2>2, <2>3
<1>6. CASE i # 1
  <2> DEFINE a == <<" ", "'">>
  <2>1. a \in Seq(Char) /\ IsBefore(a, 2)
    BY <1>2, PairOf DEF IsBefore
  <2>2. EntryPiece(ws, i) = (a \o ws[i]) \o q
    BY <1>6 DEF EntryPiece
  <2>. HIDE DEF a, q
  <2>3. IsPiece((a \o ws[i]) \o q, ws[i], 2)
    BY <1>1, <1>3, <1>4, <2>1
  <2>. QED BY <1>6, <2>2, <2>3
<1>. QED BY <1>5, <1>6

\* What stands where in a text that begins with t.
LEMMA PrefixAt ==
  ASSUME NEW t \in Seq(Char), NEW s \in Seq(Char), IsPrefix(t, s)
  PROVE  Len(t) <= Len(s) /\ \A j \in 1..Len(t) : s[j] = t[j]
<1> DEFINE n == Len(t)
           x == SubSeq(t, 1, n)
           y == SubSeq(s, 1, n)
<1>1. n \in Nat /\ n <= Len(t) /\ n <= Len(s) /\ x = y /\ n - 1 + 1 = n /\ 1 \in Nat \ {0}
  BY DEF IsPrefix
<1>2. (\A j \in 1..(n - 1 + 1) : x[j] = t[1 + j - 1]) /\ \A j \in 1..(n - 1 + 1) : y[j] = s[1 + j - 1]
  <2>. HIDE DEF n, x, y
  <2>. QED BY <1>1, PartOf DEF x, y
<1>. HIDE DEF n, x, y
<1>3. ASSUME NEW j \in 1..n PROVE s[j] = t[j]
  <2>1. 1 + j - 1 = j /\ j \in 1..(n - 1 + 1)
    BY <1>1
  <2>. QED BY <1>1, <1>2, <2>1
<1>. QED BY <1>1, <1>3 DEF n

\* The places of the entries, from those of the pieces: the i-th piece ends
\* after len[i] characters.
IsPlaced(x, m, len, E) ==
  /\ len \in [0..m -> Nat] /\ len[0] = 0
  /\ \A i \in 1..m : /\ len[i] = len[i - 1] + Len(E[i]) /\ len[i] <= len[m]
                     /\ \A j \in 1..Len(E[i]) : x[len[i - 1] + j] = E[i][j]

\* A list is its pieces and the bracket.
LEMMA PlacedPieces ==
  ASSUME NEW ws \in Seq(Entries)
  PROVE  \E len, E : /\ IsPlaced(Listed(ws), Len(ws), len, E)
                     /\ \A i \in 1..Len(ws) : IsPiece(E[i], ws[i], IF i = 1 THEN 0 ELSE 2)
                     /\ Listed(ws) \in Seq(Char) /\ Len(Listed(ws)) = len[Len(ws)] + 1
                     /\ Listed(ws)[len[Len(ws)] + 1] = ")"
<1> DEFINE m == Len(ws)
           E == [i \in DOMAIN ws |-> EntryPiece(ws, i)]
           q == <<")">>
<1>1. m \in Nat /\ DOMAIN ws = 1..m
  OBVIOUS
<1>2. \A i \in 1..m : IsPiece(EntryPiece(ws, i), ws[i], IF i = 1 THEN 0 ELSE 2)
  BY EntryPieceAt
<1>3. E \in [1..m -> Seq(Char)] /\ \A i \in 1..m : IsPiece(E[i], ws[i], IF i = 1 THEN 0 ELSE 2)
  <2>1. \A i \in 1..m : EntryPiece(ws, i) \in Seq(Char)
    BY <1>2 DEF IsPiece
  <2>2. \A i \in 1..m : E[i] = EntryPiece(ws, i)
    BY <1>1
  <2>. HIDE DEF m
  <2>3. E \in [1..m -> Seq(Char)]
    BY <1>1, <2>1
  <2>. HIDE DEF E
  <2>. QED BY <1>2, <2>2, <2>3
<1>4. Listed(ws) = FlattenSeq(E) \o q
  BY DEF Listed
<1>5. ")" \in Char
  BY TextsAssumption
<1>6. q \in Seq(Char) /\ Len(q) = 1 /\ q[1] = ")"
  <2>. HIDE DEF E, m
  <2>. QED BY <1>5, CharOf
<1>. HIDE DEF E, q, m
<1>7. PICK fl \in [0..m -> Seq(Char)] : IsFlat(fl, m, E) /\ FlattenSeq(E) = fl[m]
  BY <1>1, <1>3, FlatExists
<1>8. \A i \in 1..m : /\ Len(fl[i]) = Len(fl[i - 1]) + Len(E[i])
                      /\ Len(fl[i]) <= Len(fl[m])
                      /\ \A j \in 1..Len(E[i]) : fl[m][Len(fl[i - 1]) + j] = E[i][j]
  BY <1>1, <1>3, <1>7, FlatPlaces
<1> DEFINE len == [i \in 0..m |-> Len(fl[i])]
           x == fl[m]
           L == x \o q
<1>9. len \in [0..m -> Nat] /\ len[0] = 0 /\ len[m] = Len(x) /\ x \in Seq(Char)
  <2>1. \A i \in 0..m : Len(fl[i]) \in Nat
    OBVIOUS
  <2>2. fl[0] = <<>> /\ 0 \in 0..m /\ m \in 0..m
    BY <1>1, <1>7 DEF IsFlat
  <2>3. Len(fl[0]) = 0
    BY <2>2
  <2>. QED BY <2>1, <2>2, <2>3
<1>10. \A i \in 1..m : /\ len[i] = len[i - 1] + Len(E[i]) /\ len[i] <= len[m]
                       /\ \A j \in 1..Len(E[i]) : x[len[i - 1] + j] = E[i][j]
  <2>1. \A i \in 1..m : i \in 0..m /\ i - 1 \in 0..m /\ m \in 0..m
    BY <1>1
  <2>2. \A i \in 1..m : len[i] = Len(fl[i]) /\ len[i - 1] = Len(fl[i - 1]) /\ len[m] = Len(fl[m])
    BY <2>1
  <2>. HIDE DEF len
  <2>. QED BY ZenonT(30), <1>8, <2>2
<1>11. IsJoined(L, x, q)
  <2>. HIDE DEF len, x
  <2>. QED BY <1>6, <1>9, JoinedAt
<1>12. Listed(ws) = L
  BY <1>4, <1>7
<1>. HIDE DEF len, x, L
<1> DEFINE k == len[m]
<1>13. /\ L \in Seq(Char) /\ Len(L) = k + 1 /\ (\A j \in 1..k : L[j] = x[j]) /\ L[k + 1] = ")"
  <2>1. 1 \in 1..1
    OBVIOUS
  <2>. HIDE DEF k
  <2>2. k = Len(x)
    BY <1>9 DEF k
  <2>. QED BY <1>6, <1>11, <2>1, <2>2 DEF IsJoined
<1>14. k \in Nat
  BY <1>1, <1>9
<1>15. ASSUME NEW i \in 1..m, NEW j \in 1..Len(E[i]) PROVE L[len[i - 1] + j] = E[i][j]
  <2> DEFINE a == len[i - 1]
             b == Len(E[i])
             c == len[i]
  <2>1. c = a + b /\ c <= k /\ x[a + j] = E[i][j]
    BY <1>10
  <2>2. a \in Nat /\ b \in Nat
    <3>1. i - 1 \in 0..m /\ E[i] \in Seq(Char)
      BY <1>1, <1>3
    <3>2. a \in Nat
      BY <1>9, <3>1
    <3>. QED BY <3>1, <3>2
  <2>. HIDE DEF a, b, c, k
  <2>3. j \in 1..b
    BY DEF b
  <2>4. a + j \in 1..k
    BY <1>14, <2>1, <2>2, <2>3
  <2>. QED BY <1>13, <2>1, <2>4 DEF a
<1>16. IsPlaced(L, m, len, E)
  BY <1>9, <1>10, <1>15 DEF IsPlaced
<1>. QED BY <1>3, <1>12, <1>13, <1>16 DEF m, k

\* The entries of a list at the beginning of a text.
LEMMA LaidOut ==
  ASSUME NEW ws \in Seq(Entries), ws # <<>>, NEW s \in Seq(Char), IsPrefix(Listed(ws), s)
  PROVE  \E e : IsLaidOut(s, ws, e)
<1> DEFINE m == Len(ws)
           L == Listed(ws)
<1>1. m \in Nat \ {0}
  BY EmptySeq
<1>2. PICK len, E : /\ IsPlaced(L, m, len, E)
                    /\ \A i \in 1..m : IsPiece(E[i], ws[i], IF i = 1 THEN 0 ELSE 2)
                    /\ L \in Seq(Char) /\ Len(L) = len[m] + 1 /\ L[len[m] + 1] = ")"
  <2>. HIDE DEF L
  <2>. QED BY PlacedPieces DEF L
<1>3. \A i \in 1..m : Len(ws[i]) \in Nat
  <2>1. \A i \in 1..m : ws[i] \in Entries
    OBVIOUS
  <2>. HIDE DEF m
  <2>. QED BY <2>1, EntryOf
<1>. HIDE DEF m, L
<1>4. Len(L) <= Len(s) /\ \A j \in 1..Len(L) : s[j] = L[j]
  BY <1>2, PrefixAt DEF L
<1> DEFINE k == len[m]
           p == [i \in 1..m |-> IF i = 1 THEN 0 ELSE 2]
           e == [i \in 0..m |-> IF i = 0 THEN -2 ELSE len[i]]
<1>5. k \in Nat
  BY <1>1, <1>2 DEF IsPlaced
<1>6. /\ \A j \in 1..k : s[j] = L[j]
      /\ k + 1 <= Len(s) /\ s[k + 1] = ")"
  <2>. HIDE DEF k
  <2>1. Len(L) = k + 1 /\ L[k + 1] = ")"
    BY <1>2 DEF k
  <2>2. k + 1 \in 1..k + 1 /\ \A j \in 1..k : j \in 1..k + 1
    BY <1>5
  <2>. QED BY <1>4, <2>1, <2>2
<1>7. ASSUME NEW i \in 1..m
      PROVE  /\ len[i] \in Nat /\ len[i - 1] \in Nat /\ len[i] <= k
             /\ len[i] = len[i - 1] + (p[i] + Len(ws[i]) + 1)
             /\ s[len[i]] = "'"
             /\ \A j \in 1..Len(ws[i]) : s[len[i - 1] + (p[i] + j)] = ws[i][j]
             /\ i # 1 => s[len[i - 1] + 1] = " " /\ s[len[i - 1] + 2] = "'"
             /\ p[i] \in Nat
  <2> DEFINE a == len[i - 1]
             c == len[i]
             l == Len(ws[i])
             u == E[i]
             r == p[i]
  <2>1. a \in Nat /\ c \in Nat /\ i - 1 \in 0..m /\ l \in Nat
    <3>1. i - 1 \in 0..m /\ i \in 0..m
      BY <1>1
    <3>2. len \in [0..m -> Nat]
      BY <1>2 DEF IsPlaced
    <3>3. len[i - 1] \in Nat /\ len[i] \in Nat
      BY <3>1, <3>2
    <3>. QED BY <1>3, <3>1, <3>3
  <2>2. c = a + Len(u) /\ c <= k /\ \A j \in 1..Len(u) : L[a + j] = u[j]
    BY <1>2 DEF IsPlaced
  <2>3. IsPiece(u, ws[i], r)
    BY <1>2
  <2>4. r \in {0, 2} /\ (i # 1 => r = 2) /\ r \in Nat
    OBVIOUS
  <2>. HIDE DEF a, c, u, r, k
  <2>5. /\ Len(u) = r + l + 1 /\ u[r + l + 1] = "'"
        /\ \A j \in 1..l : u[r + j] = ws[i][j]
        /\ r = 2 => u[1] = " " /\ u[2] = "'"
    BY <2>3 DEF IsPiece
  <2> DEFINE n == Len(u)
  <2>12. n = r + l + 1 /\ c = a + n /\ l \in Nat /\ r \in Nat
    BY <2>1, <2>2, <2>4, <2>5
  <2>. HIDE DEF l, n, e, p
  <2>6. n \in Nat /\ n = r + l + 1 /\ c = a + n
    BY <2>12
  <2>7. ASSUME NEW j \in 1..n PROVE s[a + j] = u[j]
    <3>1. a + j \in 1..k
      BY <1>5, <2>1, <2>2, <2>6
    <3>. QED BY <1>6, <2>2, <3>1 DEF n
  <2>8. s[c] = "'"
    <3>1. n \in 1..n /\ a + n = c
      BY <2>1, <2>4, <2>6
    <3>. QED BY <2>5, <2>6, <2>7, <3>1
  <2>9. ASSUME NEW j \in 1..l PROVE s[a + (r + j)] = ws[i][j]
    <3>1. r + j \in 1..n
      BY <2>1, <2>4, <2>6
    <3>. QED BY <2>5, <2>7, <3>1
  <2>10. ASSUME i # 1 PROVE s[a + 1] = " " /\ s[a + 2] = "'"
    <3>1. r = 2
      BY <2>4, <2>10
    <3>2. 1 \in 1..n /\ 2 \in 1..n
      BY <2>1, <2>6, <3>1
    <3>. QED BY <2>5, <2>7, <3>1, <3>2
  <2>11. c = a + (r + l + 1)
    BY <2>6
  <2>. QED BY <2>1, <2>2, <2>4, <2>8, <2>9, <2>10, <2>11 DEF a, c, l, r
<1>8. /\ e \in [0..m -> Int] /\ e[0] = -2
      /\ \A i \in 1..m : e[i] = len[i]
  <2>1. \A i \in 1..m : len[i] \in Int
    <3>. HIDE DEF e, p, k
    <3>1. \A i \in 1..m : len[i] \in Nat
      BY <1>7
    <3>. QED BY <3>1
  <2>2. 0 \in 0..m /\ \A i \in 1..m : i \in 0..m /\ i # 0
    BY <1>1
  <2>. QED BY <2>1, <2>2
<1>9. len[0] = 0 /\ \A i \in 1..m : (i = 1 => p[i] = 0) /\ (i # 1 => p[i] = 2)
  BY <1>2 DEF IsPlaced
<1>. HIDE DEF e, p
<1>10. ASSUME NEW i \in 1..m PROVE e[i - 1] + 2 = len[i - 1] + p[i] /\ (i # 1 => e[i - 1] = len[i - 1])
  <2>1. CASE i = 1
    BY <1>8, <1>9, <2>1
  <2>2. CASE i # 1
    <3>1. i - 1 \in 1..m
      BY <1>1, <2>2
    <3>. QED BY <1>8, <1>9, <2>2, <3>1
  <2>. QED BY <2>1, <2>2
<1>11. e[m] = k
  BY <1>1, <1>8
<1>. HIDE DEF k
<1>12. ASSUME NEW i \in 1..m
       PROVE  /\ e[i] = e[i - 1] + 3 + Len(ws[i]) /\ e[i] <= e[m] /\ e[i] \in Nat \ {0}
              /\ s[e[i]] = "'"
              /\ \A j \in 1..Len(ws[i]) : s[e[i - 1] + 2 + j] = ws[i][j]
  <2> DEFINE a == len[i - 1]
             c == len[i]
             d == e[i - 1]
             l == Len(ws[i])
             r == p[i]
  <2>1. a \in Nat /\ c \in Nat /\ r \in Nat /\ c = a + (r + l + 1) /\ c <= k /\ s[c] = "'"
        /\ \A j \in 1..l : s[a + (r + j)] = ws[i][j]
    BY <1>7
  <2>2. d + 2 = a + r /\ l \in Nat /\ e[i] = c
    BY <1>3, <1>8, <1>10
  <2>3. d \in Int
    <3>1. i - 1 \in 0..m
      BY <1>1
    <3>. QED BY <1>8, <3>1
  <2>. HIDE DEF a, c, d, l, r
  <2>4. c = d + 3 + l /\ c \in Nat \ {0}
    BY <2>1, <2>2, <2>3
  <2>5. ASSUME NEW j \in 1..l PROVE s[d + 2 + j] = ws[i][j]
    <3>1. d + 2 + j = a + (r + j)
      BY <2>1, <2>2, <2>3
    <3>. QED BY <2>1, <3>1
  <2>. QED BY <1>11, <2>1, <2>2, <2>4, <2>5 DEF d, l
<1>13. ASSUME NEW i \in 1..(m - 1) PROVE s[e[i] + 1] = " " /\ s[e[i] + 2] = "'"
  <2>1. i + 1 \in 1..m /\ i + 1 # 1 /\ i + 1 - 1 = i /\ i \in 1..m
    BY <1>1
  <2>2. \A j \in 1..m : j # 1 => s[len[j - 1] + 1] = " " /\ s[len[j - 1] + 2] = "'"
    BY <1>7
  <2> DEFINE j == i + 1
  <2>3. j \in 1..m /\ j # 1 /\ j - 1 = i
    BY <2>1
  <2>. HIDE DEF j
  <2>4. s[len[i] + 1] = " " /\ s[len[i] + 2] = "'"
    BY <2>2, <2>3
  <2>. QED BY <1>8, <2>1, <2>4
<1>14. e[m] + 1 <= Len(s) /\ s[e[m] + 1] = ")"
  BY <1>6, <1>11
<1>. QED BY <1>8, <1>12, <1>13, <1>14 DEF IsLaidOut, m

\* The i-th entry begins at a and ends before b.
IsEntryAt(e, i, a, b) == a = e[i - 1] + 3 /\ b = e[i]

\* From a to b there is the entry w and, but for the last character, no quote.
IsEntry(s, w, a, b) ==
  /\ a \in Nat \ {0} /\ b \in Nat /\ a < b /\ b < Len(s) /\ s[b] = "'"
  /\ \A k \in a..(b - 1) : s[k] # "'"
  /\ s[a] # ")"
  /\ SubSeq(s, a, b - 1) = w /\ w \notin {<<>>, <<" ">>}

LEMMA EntryThere ==
  ASSUME NEW ws \in Seq(Entries), NEW s \in Seq(Char), NEW e, IsLaidOut(s, ws, e),
         NEW i \in 1..Len(ws), NEW a, NEW b, IsEntryAt(e, i, a, b)
  PROVE  IsEntry(s, ws[i], a, b)
<1> DEFINE w == ws[i]
           l == Len(w)
           d == e[i - 1]
           m == Len(ws)
           z == e[m]
<1>1. w \in Entries /\ m \in Nat
  OBVIOUS
<1>2. w \in Seq(Char) /\ l \in Nat \ {0}
  <2>. HIDE DEF w, m
  <2>. QED BY <1>1, EntryOf
<1>3. w \notin {<<>>, <<" ">>} /\ "'" \notin ToSet(w) /\ w[1] # ")"
  <2>. HIDE DEF w
  <2>. QED BY <1>1, TextsAssumption
<1>4. \A j \in 1..l : w[j] # "'"
  <2>. HIDE DEF w, d, m, z
  <2>1. DOMAIN w = 1..l
    BY <1>2
  <2>. HIDE DEF l
  <2>. QED BY <1>3, <2>1 DEF ToSet
<1>5. /\ b = d + 3 + l /\ b <= z /\ b \in Nat \ {0} /\ s[b] = "'"
      /\ \A j \in 1..l : s[d + 2 + j] = w[j]
      /\ z + 1 <= Len(s)
  <2>1. i \in 1..m
    OBVIOUS
  <2>. HIDE DEF m
  <2>. QED BY <2>1 DEF IsLaidOut, IsEntryAt, m
<1>6. d \in Int /\ z \in Int
  <2>1. i - 1 \in 0..m /\ m \in 0..m
    BY <1>1
  <2>2. e \in [0..m -> Int]
    BY DEF IsLaidOut
  <2>. HIDE DEF m
  <2>. QED BY <2>1, <2>2
<1>7. (i = 1 => d = -2) /\ (i # 1 => d \in Nat \ {0})
  <2>1. CASE i = 1
    <3>. HIDE DEF w, l, m, z
    <3>1. e[0] = -2
      BY DEF IsLaidOut
    <3>2. i - 1 = 0
      BY <2>1
    <3>. QED BY <2>1, <3>1, <3>2
  <2>2. CASE i # 1
    <3>1. i - 1 \in 1..m
      BY <1>1, <2>2
    <3>. HIDE DEF m, w, l, z
    <3>2. e[i - 1] \in Nat \ {0}
      BY <3>1 DEF IsLaidOut, m
    <3>. QED BY <2>2, <3>2
  <2>. QED BY <2>1, <2>2
<1> DEFINE n == Len(s)
<1>8. n \in Nat /\ z + 1 <= n /\ a = d + 3
  BY <1>5 DEF IsEntryAt
<1>. HIDE DEF w, l, d, m, z, n
<1>9. a \in Nat \ {0} /\ b \in Nat /\ a < b /\ b < n /\ a - 1 = d + 2 /\ b - a = l
  BY <1>2, <1>5, <1>6, <1>7, <1>8
<1>10. ASSUME NEW k \in a..(b - 1) PROVE s[k] = w[k - a + 1] /\ s[k] # "'"
  <2> DEFINE j == k - a + 1
  <2>1. j \in 1..l /\ d + 2 + j = k
    BY <1>2, <1>6, <1>8, <1>9
  <2>. HIDE DEF j
  <2>2. s[k] = w[j]
    BY <1>5, <2>1
  <2>. QED BY <1>4, <2>1, <2>2 DEF j
<1>11. s[a] # ")"
  <2>1. a \in a..(b - 1) /\ a - a + 1 = 1
    BY <1>9
  <2>. QED BY <1>3, <1>10, <2>1
<1> DEFINE u == SubSeq(s, a, b - 1)
<1>12. /\ u \in Seq(Char) /\ Len(u) = l
       /\ \A j \in 1..l : u[j] = s[a + j - 1]
  <2>1. b - 1 \in Nat /\ a <= b - 1 /\ b - 1 - a + 1 = l /\ b - 1 <= Len(s)
    BY <1>2, <1>9 DEF n
  <2>2. /\ u \in Seq(Char) /\ Len(u) = IF a <= b - 1 THEN b - 1 - a + 1 ELSE 0
        /\ \A j \in 1..(b - 1 - a + 1) : u[j] = s[a + j - 1]
    BY <1>9, <2>1, PartOf
  <2>. HIDE DEF u
  <2>. QED BY <2>1, <2>2
<1>. HIDE DEF u
<1>13. ASSUME NEW j \in 1..l PROVE u[j] = w[j]
  <2>1. d + 2 + j = a + j - 1
    BY <1>2, <1>6, <1>8, <1>9
  <2>. QED BY <1>5, <1>12, <2>1
<1>14. u = w
  BY <1>2, <1>12, <1>13, SeqEqual DEF l
<1>. QED BY <1>3, <1>5, <1>9, <1>10, <1>11, <1>14 DEF IsEntry, u, w, n

\* A closing bracket behind a quote is that of the list, and not before it.
LEMMA ListEnd ==
  ASSUME NEW ws \in Seq(Entries), ws # <<>>, NEW s \in Seq(Char), NEW e, IsLaidOut(s, ws, e)
  PROVE  strstr(s, 1, <<"'", ")">>) = e[Len(ws)]
<1> DEFINE m == Len(ws)
           z == e[m]
           x == <<"'", ")">>
           G == [i \in 0..m |-> {u \in {s} : \A k \in 1..(e[i] - 1) : ~(u[k] = "'" /\ u[k + 1] = ")")}]
           g == [i \in 0..m |-> s]
<1>1. m \in Nat /\ m # 0 /\ m \in 0..m /\ m \in 1..m
  <2>1. m \in Nat /\ m # 0
    BY EmptySeq
  <2>. QED BY <2>1
<1>2. IsVariable(x) /\ x[1] = "'" /\ x[2] = ")"
  BY DEF IsVariable
<1>3. e[0] = -2 /\ s[z] = "'" /\ s[z + 1] = ")" /\ z \in Nat \ {0} /\ z < Len(s)
  <2>1. e[0] = -2 /\ s[z] = "'" /\ s[z + 1] = ")" /\ z \in Nat \ {0} /\ z + 1 <= Len(s)
    <3>. HIDE DEF m, x
    <3>. QED BY <1>1 DEF IsLaidOut, m
  <2>2. Len(s) \in Nat
    OBVIOUS
  <2>. HIDE DEF z, m
  <2>. QED BY <2>1, <2>2
<1>4. ASSUME NEW i \in 1..m, \A k \in 1..(e[i - 1] - 1) : ~(s[k] = "'" /\ s[k + 1] = ")")
      PROVE  \A k \in 1..(e[i] - 1) : ~(s[k] = "'" /\ s[k + 1] = ")")
  <2> DEFINE a == e[i - 1] + 3
             b == e[i]
             d == e[i - 1]
  <2>1. /\ a \in Nat \ {0} /\ b \in Nat /\ a < b
        /\ \A k \in a..(b - 1) : s[k] # "'"
        /\ s[a] # ")"
    <3>. HIDE DEF G, g, x, z
    <3>1. IsEntryAt(e, i, a, b) /\ i \in 1..Len(ws)
      BY DEF IsEntryAt
    <3>. HIDE DEF a, b, d, m
    <3>2. IsEntry(s, ws[i], a, b)
      BY <3>1, EntryThere
    <3>. QED BY <3>2 DEF IsEntry
  <2>2. /\ i = 1 => d = -2
        /\ i # 1 => d \in Nat \ {0} /\ s[d + 1] = " " /\ s[d + 2] = "'"
    <3>1. CASE i = 1
      BY <1>3, <3>1
    <3>2. CASE i # 1
      <4>1. i - 1 \in 1..(m - 1) /\ i - 1 \in 1..m
        BY <1>1, <3>2
      <4>. HIDE DEF m, G, g, x, z
      <4>2. s[e[i - 1] + 1] = " " /\ s[e[i - 1] + 2] = "'" /\ e[i - 1] \in Nat \ {0}
        BY <4>1 DEF IsLaidOut, m
      <4>. QED BY <3>2, <4>2
    <3>. QED BY <3>1, <3>2
  <2>3. a = d + 3
    OBVIOUS
  <2>4. \A k \in 1..(d - 1) : ~(s[k] = "'" /\ s[k + 1] = ")")
    BY <1>4
  <2>. HIDE DEF a, b, d, m, G, g, x, z
  <2>6. a \in Nat \ {0} /\ b \in Nat /\ a < b /\ a = d + 3
    BY <2>1, <2>3
  <2>5. ASSUME NEW k \in 1..(b - 1) PROVE ~(s[k] = "'" /\ s[k + 1] = ")")
    <3>1. CASE k \in a..(b - 1)
      BY <2>1, <3>1
    <3>2. CASE k \notin a..(b - 1)
      <4>1. i # 1
        <5>1. CASE d = -2
          BY <2>6, <3>2, <5>1
        <5>2. CASE d # -2
          BY <2>2, <5>2
        <5>. QED BY <5>1, <5>2
      <4>2. d \in Nat \ {0} /\ s[d + 1] = " " /\ s[d + 2] = "'"
        BY <2>2, <4>1
      <4>3. k \in 1..(d - 1) \/ k = d \/ k = d + 1 \/ (k = d + 2 /\ k + 1 = a)
        <5>1. d \in Nat
          BY <4>2
        <5>. QED BY <2>6, <3>2, <5>1
      <4>. QED BY <2>1, <2>4, <4>2, <4>3
    <3>. QED BY <3>1, <3>2
  <2>. QED BY <2>5 DEF b
<1>5. g[0] \in G[0]
  <2>1. 0 \in 0..m
    BY <1>1
  <2>2. \A k \in 1..(-2 - 1) : FALSE
    OBVIOUS
  <2>3. \A k \in 1..(e[0] - 1) : ~(s[k] = "'" /\ s[k + 1] = ")")
    BY <1>3, <2>2
  <2>. QED BY <2>1, <2>3
<1>6. \A i \in 1..m : g[i - 1] \in G[i - 1] => g[i] \in G[i]
  <2>. SUFFICES ASSUME NEW i \in 1..m, g[i - 1] \in G[i - 1] PROVE g[i] \in G[i]
    OBVIOUS
  <2>1. i \in 0..m /\ i - 1 \in 0..m
    BY <1>1
  <2>2. \A k \in 1..(e[i - 1] - 1) : ~(s[k] = "'" /\ s[k + 1] = ")")
    BY <2>1
  <2>3. \A k \in 1..(e[i] - 1) : ~(s[k] = "'" /\ s[k + 1] = ")")
    BY <1>4, <2>2
  <2>. QED BY <2>1, <2>3
<1>7. \A k \in 1..(z - 1) : ~(s[k] = "'" /\ s[k + 1] = ")")
  <2>1. \A i \in 0..m : g[i] \in G[i]
    <3>. HIDE DEF G, g, m, x, z
    <3>. QED BY <1>1, <1>5, <1>6, LoopInvariant
  <2>2. g[m] \in G[m]
    <3>. HIDE DEF G, g, m, x, z
    <3>. QED BY <1>1, <2>1
  <2>. QED BY <1>1, <2>2
<1>. HIDE DEF G, g
<1> DEFINE n == Len(s)
           j == strstr(s, 1, x)
<1>8. n \in Nat
  OBVIOUS
<1>9. \A k \in Nat \ {0} : IsAt(s, k, x) <=> k < n /\ s[k] = "'" /\ s[k + 1] = ")"
  <2>. HIDE DEF x, z, m
  <2>. QED BY <1>2, PairAt
<1>10. \/ j = 0 /\ \A k \in 1..n : ~IsAt(s, k, x)
       \/ j \in 1..n /\ IsAt(s, j, x) /\ \A k \in 1..(j - 1) : ~IsAt(s, k, x)
  <2>1. 1 \in Nat \ {0} /\ Len(s) \in Nat
    OBVIOUS
  <2>. HIDE DEF x, z, m
  <2>. QED BY <2>1, FirstPair
<1>11. z < n
  BY <1>3
<1>. HIDE DEF x, z, m, n, j
<1>12. IsAt(s, z, x)
  BY <1>3, <1>9, <1>11
<1>13. j \in 1..n /\ IsAt(s, j, x) /\ \A k \in 1..(j - 1) : ~IsAt(s, k, x)
  <2>1. z \in 1..n
    BY <1>3, <1>8, <1>11
  <2>. QED BY <1>10, <1>12, <2>1
<1>14. ~(z < j)
  <2>. SUFFICES ASSUME z < j PROVE FALSE
    OBVIOUS
  <2>1. z \in 1..(j - 1)
    BY <1>3, <1>8, <1>13
  <2>. QED BY <1>12, <1>13, <2>1
<1>15. ~(j < z)
  <2>. SUFFICES ASSUME j < z PROVE FALSE
    OBVIOUS
  <2>1. j \in 1..(z - 1) /\ j \in Nat \ {0}
    BY <1>3, <1>8, <1>13
  <2>. QED BY <1>7, <1>9, <1>13, <2>1
<1>16. j = z
  BY <1>3, <1>8, <1>13, <1>14, <1>15
<1>. QED BY <1>16 DEF j, x, z, m

\* The loop of read_pkgbuild_field.
EntryStates == [from : Nat \ {0}, list : Seq(Seq(Char))]

LEMMA EntryRound ==
  ASSUME NEW s \in Seq(Char), NEW st \in EntryStates
  PROVE  FieldStep(s, st) \in EntryStates
<1> DEFINE z == strstr(s, 1, <<"'", ")">>)
           b == strstr(s, st.from, <<"'">>)
           w == SubSeq(s, st.from, b - 1)
           list == IF w \in {<<>>, <<" ">>} THEN st.list ELSE Append(st.list, w)
<1>1. st.from \in Nat \ {0} /\ st.list \in Seq(Seq(Char))
  BY DEF EntryStates
<1>2. b = 0 \/ b \in st.from..Len(s)
  <2>. HIDE DEF z, list
  <2>. QED BY <1>1, FirstOf
<1>3. CASE b = 0 \/ b > z
  BY <1>3 DEF FieldStep, IsPast
<1>4. CASE ~(b = 0 \/ b > z)
  <2>1. FieldStep(s, st) = [from |-> b + 1, list |-> list]
    BY <1>4 DEF FieldStep, IsPast
  <2>2. b \in st.from..Len(s)
    <3>. HIDE DEF b, z, w, list
    <3>. QED BY <1>2, <1>4
  <2>3. b - 1 \in Nat /\ b - 1 <= Len(s) /\ b + 1 \in Nat \ {0}
    <3>1. Len(s) \in Nat
      OBVIOUS
    <3>. HIDE DEF b, z, w, list
    <3>. QED BY <1>1, <2>2, <3>1
  <2>4. w \in Seq(Char)
    <3>. HIDE DEF b, z, list
    <3>. QED BY <1>1, <2>3, PartOf
  <2>5. list \in Seq(Seq(Char))
    <3>. HIDE DEF b, z, w
    <3>1. Append(st.list, w) \in Seq(Seq(Char))
      BY <1>1, <2>4
    <3>. QED BY <1>1, <3>1
  <2>. HIDE DEF b, z, w, list
  <2>. QED BY <2>1, <2>3, <2>5 DEF EntryStates
<1>. QED BY <1>3, <1>4

\* read_pkgbuild_field is the last of its rounds.
LEMMA EntryLoop ==
  ASSUME NEW s \in Seq(Char)
  PROVE  \E st \in [0..Len(s) -> EntryStates] :
           /\ st[0] = [from |-> 1, list |-> <<>>]
           /\ \A k \in 1..Len(s) : st[k] = FieldStep(s, st[k - 1])
           /\ read_pkgbuild_field(s) = st[Len(s)].list
<1> DEFINE n == Len(s)
           b == [from |-> 1, list |-> <<>>]
           F == [k \in 1..n |-> [u \in EntryStates |-> FieldStep(s, u)]]
           st[k \in 0..n] == IF k = 0 THEN b ELSE FieldStep(s, st[k - 1])
<1>1. n \in Nat /\ b \in EntryStates
  BY DEF EntryStates
<1>2. F \in [1..n -> [EntryStates -> EntryStates]]
  BY EntryRound
<1>3. PICK g \in [0..n -> EntryStates] : IsLoop(g, n, b, F)
  <2>. HIDE DEF F, n, b
  <2>. QED BY <1>1, <1>2, LoopExists
<1>4. g = [k \in 0..n |-> IF k = 0 THEN b ELSE FieldStep(s, g[k - 1])]
  <2>1. \A k \in 0..n \ {0} : k \in 1..n /\ g[k - 1] \in EntryStates
    BY <1>1
  <2>. HIDE DEF b
  <2>. QED BY <1>3, <2>1 DEF IsLoop
<1>5. st = [k \in 0..n |-> IF k = 0 THEN b ELSE FieldStep(s, st[k - 1])]
  BY <1>4
<1>6. read_pkgbuild_field(s) = st[n].list
  BY DEF read_pkgbuild_field
<1>. HIDE DEF st
<1>7. st[0] = b /\ \A k \in 1..n : st[k] = FieldStep(s, st[k - 1])
  <2>. HIDE DEF b
  <2>. QED BY <1>1, <1>5
<1>8. st \in [0..n -> EntryStates]
  <2>1. \A k \in 1..n : st[k - 1] \in EntryStates => st[k] \in EntryStates
    BY <1>7, EntryRound
  <2>2. st = [k \in 0..n |-> st[k]]
    BY <1>5
  <2>. HIDE DEF F, n, b
  <2>. QED BY <1>1, <1>7, <2>1, <2>2, LoopType
<1>. QED BY <1>6, <1>7, <1>8

\* Before an entry and behind it: what is read then, and where it goes on.
BeforeEntry(ws, e, st, i) == st.from = e[i - 1] + 3 /\ st.list = SubSeq(ws, 1, i - 1)
BehindEntry(ws, e, st, i) == st.from = e[i] + 1 /\ st.list = SubSeq(ws, 1, i)

\* One round reads an entry,
LEMMA EntryRead ==
  ASSUME NEW ws \in Seq(Entries), ws # <<>>, NEW s \in Seq(Char), NEW e, IsLaidOut(s, ws, e),
         NEW st \in EntryStates, NEW i \in 1..Len(ws), BeforeEntry(ws, e, st, i)
  PROVE  BehindEntry(ws, e, FieldStep(s, st), i)
<1> DEFINE a == st.from
           b == e[i]
           z == strstr(s, 1, <<"'", ")">>)
           c == strstr(s, st.from, <<"'">>)
           w == ws[i]
           l == st.list
           t == FieldStep(s, st)
           x == SubSeq(s, a, c - 1)
<1>1. IsEntry(s, w, a, b)
  <2>1. IsEntryAt(e, i, a, b)
    BY DEF IsEntryAt, BeforeEntry
  <2>. HIDE DEF a, b, w
  <2>2. IsEntry(s, ws[i], a, b)
    BY <2>1, EntryThere
  <2>. QED BY <2>2 DEF w
<1>2. z = e[Len(ws)]
  <2>. HIDE DEF z
  <2>. QED BY ListEnd DEF z
<1>3. b <= z
  <2>. HIDE DEF z
  <2>. QED BY <1>2 DEF IsLaidOut
<1>4. a \in Nat \ {0} /\ b \in Nat \ {0} /\ a < b /\ b < Len(s) /\ s[b] = "'"
      /\ \A k \in a..(b - 1) : s[k] # "'"
  <2>. HIDE DEF a, b, w, z, c, l, t, x
  <2>1. a \in Nat \ {0} /\ b \in Nat /\ a < b
    BY <1>1 DEF IsEntry
  <2>2. b \in Nat \ {0}
    BY <2>1
  <2>. QED BY <1>1, <2>1, <2>2 DEF IsEntry
<1>5. c = b
  <2>1. \/ c = 0 /\ \A k \in a..Len(s) : s[k] # "'"
        \/ /\ c \in a..Len(s) /\ s[c] = "'"
           /\ \A k \in a..(c - 1) : s[k] # "'"
    <3>. HIDE DEF z
    <3>1. a \in Nat \ {0}
      BY <1>4
    <3>. QED BY <3>1, FirstOf
  <2> DEFINE n == Len(s)
  <2>2. n \in Nat
    OBVIOUS
  <2>. HIDE DEF a, b, c, z, w, n
  <2>3. b \in a..n
    BY <1>4, <2>2 DEF n
  <2>4. c \in a..n /\ s[c] = "'" /\ \A k \in a..(c - 1) : s[k] # "'"
    BY <1>4, <2>1, <2>3 DEF n
  <2>5. c \in Nat
    BY <1>4, <2>4
  <2>6. ~(b < c)
    <3>. SUFFICES ASSUME b < c PROVE FALSE
      OBVIOUS
    <3>1. b \in a..(c - 1)
      BY <1>4, <2>5
    <3>. QED BY <1>4, <2>4, <3>1
  <2>7. ~(c < b)
    <3>. SUFFICES ASSUME c < b PROVE FALSE
      OBVIOUS
    <3>1. c \in a..(b - 1)
      BY <1>4, <2>4, <2>5
    <3>. QED BY <1>4, <2>4, <3>1
  <2>. QED BY <1>4, <2>5, <2>6, <2>7
<1>6. x = w /\ w \notin {<<>>, <<" ">>}
  <2>. HIDE DEF a, b, c, w
  <2>. QED BY <1>1, <1>5 DEF IsEntry
<1>7. ~(c = 0 \/ c > z)
  <2>1. z \in Int
    <3>. HIDE DEF z
    <3>1. Len(ws) \in 0..Len(ws)
      OBVIOUS
    <3>. QED BY <1>2, <3>1 DEF IsLaidOut
  <2>. HIDE DEF a, b, c, z, w, x
  <2>. QED BY <1>3, <1>4, <1>5, <2>1
<1>8. t = [from |-> c + 1, list |-> IF x \in {<<>>, <<" ">>} THEN l ELSE Append(l, x)]
  BY <1>7 DEF FieldStep, IsPast
<1>. HIDE DEF z, c, x, a
<1>9. t.from = b + 1 /\ t.list = Append(l, w)
  <2>. HIDE DEF b, w, l, t
  <2>. QED BY <1>5, <1>6, <1>8
<1>10. Append(l, w) = SubSeq(ws, 1, i)
  <2>1. l = SubSeq(ws, 1, i - 1)
    BY DEF BeforeEntry
  <2>2. 1 \in 1..Len(ws) /\ i \in 1..Len(ws) /\ i - 1 \in Nat /\ i - 1 <= Len(ws)
    OBVIOUS
  <2>. HIDE DEF t, l, b
  <2>3. SubSeq(ws, 1, i) = SubSeq(ws, 1, i - 1) \o <<w>>
    BY <2>2, SubSeqRecursiveSecond
  <2>4. w \in Entries
    BY <2>2
  <2>5. l \in Seq(Entries)
    <3>1. \A j \in 1..(i - 1) : ws[j] \in Entries
      BY <2>2
    <3>. QED BY <2>1, <2>2, <3>1, SubSeqProperties
  <2>. HIDE DEF w
  <2>6. Append(l, w) = l \o <<w>>
    BY <2>4, <2>5, AppendIsConcat
  <2>. QED BY <2>1, <2>3, <2>6
<1>. QED BY <1>9, <1>10 DEF BehindEntry, b, t

\* The i-th entry is not the last.
IsFollowed(ws, i) == i \in 1..(Len(ws) - 1)

\* the next the blank between it and the one behind it,
LEMMA BlankRead ==
  ASSUME NEW ws \in Seq(Entries), ws # <<>>, NEW s \in Seq(Char), NEW e, IsLaidOut(s, ws, e),
         NEW st \in EntryStates, NEW i, IsFollowed(ws, i), BehindEntry(ws, e, st, i)
  PROVE  BeforeEntry(ws, e, FieldStep(s, st), i + 1)
<1> DEFINE a == st.from
           b == e[i]
           z == strstr(s, 1, <<"'", ")">>)
           c == strstr(s, st.from, <<"'">>)
           l == st.list
           t == FieldStep(s, st)
           x == SubSeq(s, a, c - 1)
           y == e[i + 1]
           n == Len(s)
           m == Len(ws)
<1>1. z = e[m]
  <2>. HIDE DEF z
  <2>. QED BY ListEnd DEF z
<1>2. a = b + 1 /\ l = SubSeq(ws, 1, i)
  BY DEF BehindEntry
<1>3. i \in 1..(m - 1) /\ i \in 1..m /\ i + 1 \in 1..m /\ i + 1 - 1 = i /\ m \in 0..m
  <2>1. m \in Nat
    OBVIOUS
  <2>2. i \in 1..(m - 1)
    BY DEF IsFollowed
  <2>. HIDE DEF m
  <2>. QED BY <2>1, <2>2
<1>. HIDE DEF m
<1>4. s[b + 1] = " " /\ s[b + 2] = "'" /\ b \in Nat \ {0}
  BY <1>3 DEF IsLaidOut, m
<1>12. b \in Nat \ {0}
  BY <1>4
<1>5. y \in Nat /\ z \in Nat /\ z < n /\ n \in Nat /\ b + 2 < y /\ y <= z
  <2> DEFINE k == i + 1
             a2 == b + 3
  <2>1. IsEntryAt(e, k, a2, y)
    BY <1>3 DEF IsEntryAt
  <2>2. k \in 1..Len(ws)
    BY <1>3 DEF m
  <2>. HIDE DEF k, a2, b, y, z, c, x, t, l, n
  <2>3. IsEntry(s, ws[k], a2, y)
    BY <2>1, <2>2, EntryThere
  <2>4. a2 < y /\ y \in Nat
    BY <2>3 DEF IsEntry
  <2>5. y <= z /\ z + 1 <= n /\ z \in Nat
    <3>1. m \in 1..m
      BY <1>3
    <3>. QED BY <1>1, <2>2, <3>1 DEF IsLaidOut, m, n, y, k
  <2>6. n \in Nat
    BY DEF n
  <2>. HIDE DEF m
  <2>7. a2 = b + 3
    BY DEF a2
  <2>. HIDE DEF a, a2
  <2>. QED BY <1>12, <2>4, <2>5, <2>6, <2>7
<1>6. c = b + 2
  <2>1. \/ c = 0 /\ \A k \in a..n : s[k] # "'"
        \/ /\ c \in a..n /\ s[c] = "'"
           /\ \A k \in a..(c - 1) : s[k] # "'"
    <3>. HIDE DEF z, y, b
    <3>1. a \in Nat \ {0}
      BY DEF EntryStates
    <3>. QED BY <3>1, FirstOf
  <2>. HIDE DEF a, b, c, z, y, n, l, t, x
  <2>3. b + 2 \in a..n /\ b + 2 \in Nat
    BY <1>2, <1>5, <1>12
  <2>4. c \in a..n /\ s[c] = "'" /\ \A k \in a..(c - 1) : s[k] # "'"
    BY <1>4, <2>1, <2>3
  <2>5. c \in Nat /\ b + 1 <= c
    <3>1. c \in a..n
      BY <2>4
    <3>. QED BY <1>2, <1>5, <1>12, <3>1
  <2>6. ~(b + 2 < c)
    <3>. SUFFICES ASSUME b + 2 < c PROVE FALSE
      OBVIOUS
    <3>1. b + 2 \in a..(c - 1)
      BY <1>2, <1>12, <2>5
    <3>. QED BY <1>4, <2>4, <3>1
  <2>7. c # b + 1
    BY <1>4, <2>4
  <2>. QED BY <1>12, <2>5, <2>6, <2>7
<1>7. x = <<" ">>
  <2>. HIDE DEF b, c, z, l, t, y
  <2>1. a \in Nat \ {0} /\ c - 1 = a /\ a <= n
    <3>. HIDE DEF a, n, x
    <3>. QED BY <1>2, <1>5, <1>6, <1>12
  <2>2. /\ SubSeq(s, a, a) \in Seq(Char) /\ Len(SubSeq(s, a, a)) = 1
        /\ SubSeq(s, a, a)[1] = s[a]
    <3>. HIDE DEF a
    <3>1. /\ SubSeq(s, a, a) \in Seq(Char) /\ Len(SubSeq(s, a, a)) = IF a <= a THEN a - a + 1 ELSE 0
          /\ \A j \in 1..(a - a + 1) : SubSeq(s, a, a)[j] = s[a + j - 1]
      BY <2>1, PartOf DEF n
    <3>2. a <= a /\ a - a + 1 = 1 /\ 1 \in 1..1 /\ a + 1 - 1 = a
      BY <2>1
    <3>. QED BY <3>1, <3>2
  <2>3. x = SubSeq(s, a, a)
    BY <2>1
  <2>. HIDE DEF x
  <2>4. x = <<x[1]>> /\ x[1] = s[a]
    <3>. HIDE DEF a
    <3>1. x \in Seq(Char) /\ Len(x) = 1 /\ x[1] = s[a]
      BY <2>2, <2>3
    <3>. QED BY <3>1, SingleOf
  <2>5. s[a] = " "
    BY <1>2, <1>4
  <2>. QED BY <2>4, <2>5
<1>8. ~(c = 0 \/ c > z)
  <2>. HIDE DEF a, b, c, z, l, t, x, y, n
  <2>. QED BY <1>5, <1>6, <1>12
<1>9. t = [from |-> c + 1, list |-> IF x \in {<<>>, <<" ">>} THEN l ELSE Append(l, x)]
  BY <1>8 DEF FieldStep, IsPast
<1>. HIDE DEF z, c, x, a
<1>10. t.from = c + 1 /\ t.list = l
  <2>. HIDE DEF b, l, t
  <2>. QED BY <1>7, <1>9
<1>11. c + 1 = b + 3
  <2>. HIDE DEF b, l, t, n, y
  <2>. QED BY <1>6, <1>12
<1>. QED BY <1>2, <1>3, <1>10, <1>11 DEF BeforeEntry, b, t

\* and none reads on behind the last.
LEMMA NothingRead ==
  ASSUME NEW ws \in Seq(Entries), ws # <<>>, NEW s \in Seq(Char), NEW e, IsLaidOut(s, ws, e),
         NEW st \in EntryStates, BehindEntry(ws, e, st, Len(ws))
  PROVE  FieldStep(s, st) = st
<1> DEFINE z == strstr(s, 1, <<"'", ")">>)
           c == strstr(s, st.from, <<"'">>)
           m == Len(ws)
<1>1. z = e[m]
  <2>. HIDE DEF z
  <2>. QED BY ListEnd DEF z
<1>2. m \in 0..m
  OBVIOUS
<1>3. st.from = z + 1 /\ z \in Int /\ st.from \in Nat \ {0}
  <2>. HIDE DEF z, m, c
  <2>. QED BY <1>1, <1>2 DEF BehindEntry, EntryStates, IsLaidOut, m
<1>4. c = 0 \/ c \in st.from..Len(s)
  <2>. HIDE DEF z, m
  <2>. QED BY <1>3, FirstOf
<1>5. c = 0 \/ c > z
  <2>1. Len(s) \in Nat
    OBVIOUS
  <2>. HIDE DEF z, m, c
  <2>. QED BY <1>3, <1>4, <2>1
<1>. QED BY <1>5 DEF FieldStep, IsPast

\* After k rounds more than k characters are read, or the whole list.
EntryReached(ws, e, st, k) ==
  \/ \E i \in 1..Len(ws) : BeforeEntry(ws, e, st, i) /\ k < st.from
  \/ \E i \in 1..Len(ws) : BehindEntry(ws, e, st, i) /\ (i = Len(ws) \/ k < st.from)

\* Each round of it keeps that up.
LEMMA EntryMoves ==
  ASSUME NEW ws \in Seq(Entries), ws # <<>>, NEW s \in Seq(Char), NEW e, IsLaidOut(s, ws, e),
         NEW st \in EntryStates, NEW k \in Nat, EntryReached(ws, e, st, k)
  PROVE  EntryReached(ws, e, FieldStep(s, st), k + 1)
<1> DEFINE t == FieldStep(s, st)
           a == st.from
           m == Len(ws)
<1>1. a \in Nat \ {0} /\ m \in Nat
  BY DEF EntryStates
<1>2. ASSUME NEW i \in 1..m, BeforeEntry(ws, e, st, i), k < a
      PROVE  EntryReached(ws, e, t, k + 1)
  <2> DEFINE b == e[i]
  <2>1. BehindEntry(ws, e, t, i)
    <3>. HIDE DEF t, a
    <3>. QED BY <1>2, EntryRead DEF t
  <2>2. a < b /\ b \in Nat
    <3>1. IsEntryAt(e, i, a, b)
      BY <1>2 DEF BeforeEntry, IsEntryAt
    <3>. HIDE DEF t, a, b
    <3>2. IsEntry(s, ws[i], a, b)
      BY <3>1, EntryThere
    <3>. QED BY <3>2 DEF IsEntry
  <2>3. t.from = b + 1
    <3>. HIDE DEF t
    <3>. QED BY <2>1 DEF BehindEntry
  <2>. HIDE DEF t, a, b, m
  <2>4. k + 1 < b + 1
    BY <1>1, <1>2, <2>2
  <2>5. i \in 1..Len(ws) /\ k + 1 < t.from
    BY <2>3, <2>4 DEF m
  <2>. QED BY <2>1, <2>5 DEF EntryReached
<1>3. ASSUME NEW i \in 1..m, BehindEntry(ws, e, st, i), i # m, k < a
      PROVE  EntryReached(ws, e, t, k + 1)
  <2> DEFINE b == e[i]
             j == i + 1
  <2>1. i \in 1..(m - 1) /\ j \in 1..m /\ j - 1 = i
    <3>. HIDE DEF t, a, m
    <3>. QED BY <1>1, <1>3
  <2>2. IsFollowed(ws, i)
    BY <2>1 DEF IsFollowed
  <2>3. BeforeEntry(ws, e, t, j)
    <3>. HIDE DEF t, a, m
    <3>. QED BY <1>3, <2>2, BlankRead DEF t
  <2>. HIDE DEF t, j
  <2>4. a = b + 1 /\ t.from = b + 3 /\ b \in Nat
    <3>. HIDE DEF m
    <3>. QED BY <1>3, <2>1, <2>3 DEF BeforeEntry, BehindEntry, IsLaidOut, m
  <2>. HIDE DEF a, b, m
  <2>5. k + 1 < b + 3
    BY <1>1, <1>3, <2>4
  <2>6. j \in 1..Len(ws) /\ k + 1 < t.from
    BY <2>1, <2>4, <2>5 DEF m
  <2>. QED BY <2>3, <2>6 DEF EntryReached
<1>4. ASSUME BehindEntry(ws, e, st, m) PROVE EntryReached(ws, e, t, k + 1)
  <2>1. t = st
    <3>. HIDE DEF t, a
    <3>. QED BY <1>4, NothingRead DEF t
  <2>2. m \in 1..Len(ws)
    BY EmptySeq
  <2>. HIDE DEF t, a
  <2>. QED BY <1>4, <2>1, <2>2 DEF EntryReached
<1>5. \/ \E i \in 1..m : BeforeEntry(ws, e, st, i) /\ k < a
      \/ \E i \in 1..m : BehindEntry(ws, e, st, i) /\ (i = m \/ k < a)
  BY DEF EntryReached
<1>. HIDE DEF t, a, m
<1>6. EntryReached(ws, e, t, k + 1)
  BY <1>2, <1>3, <1>4, <1>5
<1>. QED BY <1>6 DEF t

\* Every entry of a list is read, and nothing else.
LEMMA EntriesRead ==
  ASSUME NEW ws \in Seq(Entries), ws # <<>>, NEW s \in Seq(Char), IsPrefix(Listed(ws), s)
  PROVE  read_pkgbuild_field(s) = ws
<1> DEFINE n == Len(s)
           m == Len(ws)
<1>1. PICK e : IsLaidOut(s, ws, e)
  BY LaidOut
<1>14. e[0] = -2
  BY <1>1 DEF IsLaidOut
<1>2. PICK st \in [0..n -> EntryStates] :
        /\ st[0] = [from |-> 1, list |-> <<>>]
        /\ \A k \in 1..n : st[k] = FieldStep(s, st[k - 1])
        /\ read_pkgbuild_field(s) = st[n].list
  BY EntryLoop
<1>3. n \in Nat /\ m \in Nat \ {0} /\ 1 \in 1..m /\ 0 \in 0..n /\ n \in 0..n
  <2>1. m \in Nat \ {0} /\ n \in Nat
    BY EmptySeq
  <2>. HIDE DEF m, n
  <2>. QED BY <2>1
<1> DEFINE G == [k \in 0..n |-> {u \in EntryStates : EntryReached(ws, e, u, k)}]
<1>4. st[0] \in G[0]
  <2>1. e[1 - 1] + 3 = 1
    <3>. HIDE DEF G, n, m
    <3>1. 1 - 1 = 0 /\ -2 + 3 = 1
      OBVIOUS
    <3>. QED BY <1>14, <3>1
  <2>2. SubSeq(ws, 1, 1 - 1) = <<>>
    BY SubSeqEmpty
  <2>3. st[0].from = 1 /\ st[0].list = <<>>
    BY <1>2
  <2>. HIDE DEF n, m
  <2>4. BeforeEntry(ws, e, st[0], 1)
    BY <2>1, <2>2, <2>3 DEF BeforeEntry
  <2>5. EntryReached(ws, e, st[0], 0)
    BY <1>3, <2>3, <2>4 DEF EntryReached, m
  <2>. QED BY <1>3, <2>5
<1>5. \A k \in 1..n : st[k - 1] \in G[k - 1] => st[k] \in G[k]
  <2>. SUFFICES ASSUME NEW k \in 1..n, st[k - 1] \in G[k - 1] PROVE st[k] \in G[k]
    OBVIOUS
  <2>1. k - 1 \in 0..n /\ k \in 0..n /\ k - 1 \in Nat /\ k - 1 + 1 = k
    BY <1>3
  <2> DEFINE u == st[k - 1]
             v == st[k]
  <2>2. u \in EntryStates /\ EntryReached(ws, e, u, k - 1)
    BY <2>1
  <2>3. v = FieldStep(s, u) /\ v \in EntryStates
    BY <1>2, <2>1
  <2>. HIDE DEF u, v, G, n, m
  <2>4. EntryReached(ws, e, FieldStep(s, u), k - 1 + 1)
    BY <1>1, <2>1, <2>2, EntryMoves
  <2>5. v \in EntryStates /\ EntryReached(ws, e, v, k)
    BY <2>1, <2>3, <2>4
  <2>. QED BY <2>1, <2>5 DEF G, v
<1>6. \A k \in 0..n : st[k] \in G[k]
  <2>. HIDE DEF G, n, m
  <2>. QED BY <1>3, <1>4, <1>5, LoopInvariant
<1> DEFINE u == st[n]
<1>7. u \in EntryStates /\ EntryReached(ws, e, u, n) /\ read_pkgbuild_field(s) = u.list
  <2>1. u \in G[n]
    <3>. HIDE DEF G, n, m
    <3>. QED BY <1>3, <1>6
  <2>2. n \in 0..n
    BY <1>3
  <2>3. u \in EntryStates /\ EntryReached(ws, e, u, n)
    <3>. HIDE DEF n, m, u
    <3>. QED BY <2>1, <2>2
  <2>. QED BY <1>2, <2>3
<1>. HIDE DEF G, u, n, m
<1>8. ASSUME NEW i \in 1..m PROVE e[i] < n /\ e[i] \in Nat
  <2>1. m \in 1..m
    BY <1>3
  <2>2. /\ e[i] <= e[m] /\ e[i] \in Nat \ {0}
        /\ e[m] \in Nat \ {0} /\ e[m] + 1 <= n
    BY <1>1, <2>1 DEF IsLaidOut, m, n
  <2>. QED BY <1>3, <2>2
<1>9. \A i \in 1..m : ~(BeforeEntry(ws, e, u, i) /\ n < u.from)
  <2>. SUFFICES ASSUME NEW i \in 1..m, BeforeEntry(ws, e, u, i), n < u.from PROVE FALSE
    OBVIOUS
  <2> DEFINE a == u.from
             b == e[i]
  <2>1. IsEntryAt(e, i, a, b) /\ i \in 1..Len(ws)
    BY DEF BeforeEntry, IsEntryAt, m
  <2>. HIDE DEF a, b
  <2>2. IsEntry(s, ws[i], a, b)
    BY <1>1, <2>1, EntryThere
  <2>3. a < b /\ a \in Nat /\ b < n /\ b \in Nat
    BY <2>2 DEF IsEntry, n
  <2>. QED BY <1>3, <2>3 DEF a
<1>10. \A i \in 1..m : ~(BehindEntry(ws, e, u, i) /\ n < u.from /\ i # m)
  <2>. SUFFICES ASSUME NEW i \in 1..m, BehindEntry(ws, e, u, i), n < u.from PROVE FALSE
    OBVIOUS
  <2>1. u.from = e[i] + 1
    BY DEF BehindEntry
  <2>. QED BY <1>3, <1>8, <2>1
<1>11. BehindEntry(ws, e, u, m)
  <2>1. \/ \E i \in 1..m : BeforeEntry(ws, e, u, i) /\ n < u.from
        \/ \E i \in 1..m : BehindEntry(ws, e, u, i) /\ (i = m \/ n < u.from)
    BY <1>7 DEF EntryReached, m
  <2>. QED BY <1>9, <1>10, <2>1
<1>12. u.list = SubSeq(ws, 1, Len(ws))
  BY <1>11 DEF BehindEntry, m
<1>13. SubSeq(ws, 1, Len(ws)) = ws
  BY SubSeqFull
<1>. QED BY <1>7, <1>12, <1>13

\* A target and a list in a PKGBUILD are read as they are written, whatever they
\* are: PartsRead is an invariant.
THEOREM PartsAreRead == Spec => []PartsRead
<1>1. Written => PartsRead
  <2>. SUFFICES ASSUME Written PROVE PartsRead
    OBVIOUS
  <2>1. text \in Seq(Char)
    BY WrittenText
  <2>2. TargetRead
    BY <2>1, TargetMeant
  <2>3. ArchRead
    <3>. SUFFICES ASSUME NEW ws \in BoundedSeq(Entries, MaxEntries) \ {<<>>},
                         IsPrefix(Listed(ws), text)
                  PROVE  read_pkgbuild_field(text) = ws
      BY DEF ArchRead
    <3>1. PICK n \in 0..MaxEntries : ws \in [1..n -> Entries]
      BY DEF BoundedSeq, SeqOf
    <3>2. n \in Nat
      <4>1. MaxEntries \in Nat
        BY TextsAssumption
      <4>. QED BY <4>1
    <3>3. ws \in Seq(Entries) /\ ws # <<>>
      BY <3>1, <3>2
    <3>. QED BY <2>1, <3>3, EntriesRead
  <2>. QED BY <2>2, <2>3 DEF PartsRead
<1>. QED BY <1>1, WrittenInductive, PTL
=============================================================================
