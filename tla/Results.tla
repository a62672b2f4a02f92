------------------------------- MODULE Results -------------------------------
(***************************************************************************)
(* print_or_add_result(), calculate_results_relevance(), show_results():   *)
(* without --sort a package found is printed at once, with it the packages *)
(* are kept, and sorted and printed when the searches are over.            *)
(*                                                                         *)
(* The votes are unsigned int and the comparison of two of them is an int, *)
(* of the same width.  Popularity, sizes and dates are numbers that do not *)
(* overflow.  alpm_list_msort is external: a stable merge sort.            *)
(***************************************************************************)
EXTENDS Integers, Sequences, FiniteSets

CONSTANTS
  Packages,    \* what the searches may find
  Words,       \* the targets that are left when the searches are over
  Distance,    \* word -> name -> how far apart they are (Levenshtein over LCS)
  LocalDate,   \* name -> when the package of that name was installed, 0 if it is not
  INT_MAX,     \* the largest int
  MaxResults   \* bound on what the searches find

SortKeys == {"none", "S_NAME", "S_VOTE", "S_POP", "S_IDATE", "S_ISIZE", "S_REL", "unknown"}

UINT_MAX == 2 * INT_MAX + 1
Dbl_Max == 1000  \* more than any popularity and any distance
Names == {p.name : p \in Packages}

ASSUME ResultsAssumption ==
  /\ INT_MAX \in Nat /\ MaxResults \in Nat
  /\ \A p \in Packages :
       /\ p.name \in Nat /\ p.type \in {"R_ALPM_PKG", "R_AUR_PKG"}
       /\ p.votes \in 0..UINT_MAX /\ p.popularity \in 0..(Dbl_Max - 1) /\ p.isize \in Nat
  /\ LocalDate \in [Names -> Nat]
  /\ \A w \in Words : Distance[w] \in [Names -> 0..(Dbl_Max - 1)]

VARIABLES
  sort, rsort,  \* fields of the global config
  results,      \* the global list of results_t: [ele, rel, mem]
  reply,        \* the packages of the AUR reply: "none", "held" or "freed"
  pc,           \* "search", "show" or "exit"
  \* history
  found,        \* what was given to print_or_add_result, in order
  printed,      \* what was printed, in order
  read_freed    \* a package was printed whose memory had been freed

vars == <<sort, rsort, results, reply, pc, found, printed, read_freed>>

Init ==
  /\ sort \in SortKeys /\ rsort \in BOOLEAN
  /\ results = <<>> /\ reply = "none" /\ pc = "search"
  /\ found = <<>> /\ printed = <<>> /\ read_freed = FALSE

-----------------------------------------------------------------------------
\* Mutant: the element itself, which the AUR request frees when it returns.
results_new_shared(p) ==
  [ele |-> p, rel |-> Dbl_Max, mem |-> IF p.type = "R_AUR_PKG" THEN "reply" ELSE "alpm"]

\* results_new: a package of the AUR is copied.
results_new(p) ==
  [ele |-> p, rel |-> Dbl_Max, mem |-> IF p.type = "R_AUR_PKG" THEN "copy" ELSE "alpm"]

print_or_add_result(p) ==
  /\ pc = "search" /\ Len(found) < MaxResults
  /\ found' = Append(found, p)
  /\ IF sort = "none"
     THEN printed' = Append(printed, p) /\ UNCHANGED results
     ELSE results' = Append(results, results_new(p)) /\ UNCHANGED printed
  /\ UNCHANGED <<sort, rsort, reply, pc, read_freed>>

\* search_pkg, alpm_search_local, list_db
FindAlpm(p) == p.type = "R_ALPM_PKG" /\ reply # "held" /\ print_or_add_result(p)

\* aur_request_search: a reply is read, walked and freed.
Reply ==
  /\ pc = "search" /\ reply = "none" /\ reply' = "held"
  /\ UNCHANGED <<sort, rsort, results, pc, found, printed, read_freed>>

FindAur(p) == p.type = "R_AUR_PKG" /\ reply = "held" /\ print_or_add_result(p)

FreeReply ==
  /\ reply = "held" /\ reply' = "freed"
  /\ UNCHANGED <<sort, rsort, results, pc, found, printed, read_freed>>

-----------------------------------------------------------------------------
\* Mutant: the distances add up.
BestSum(r) ==
  IF Words = {} THEN r.rel ELSE r.rel + Distance[CHOOSE w \in Words : TRUE][r.ele.name]

\* The smallest of the distances to the words.
Best(r) ==
  CHOOSE d \in {r.rel} \cup {Distance[w][r.ele.name] : w \in Words} :
    \A w \in Words : d <= r.rel /\ d <= Distance[w][r.ele.name]

calculate_results_relevance ==
  /\ pc = "search" /\ reply # "held"
  /\ pc' = "show"
  /\ results' = IF sort = "S_REL"
                THEN [i \in DOMAIN results |-> [results[i] EXCEPT !.rel = Best(results[i])]]
                ELSE results
  /\ UNCHANGED <<sort, rsort, reply, found, printed, read_freed>>

\* An unsigned int read as an int.
AsInt(n) ==
  LET u == n % (UINT_MAX + 1) IN IF u <= INT_MAX THEN u ELSE u - (UINT_MAX + 1)

\* Mutant: the largest int and not the largest unsigned int, and one more.
results_votes_signed(r) == IF r.ele.type # "R_AUR_PKG" THEN INT_MAX + 1 ELSE r.ele.votes

results_votes(r) == IF r.ele.type # "R_AUR_PKG" THEN UINT_MAX ELSE r.ele.votes

results_popularity(r) == IF r.ele.type # "R_AUR_PKG" THEN Dbl_Max ELSE r.ele.popularity
results_installdate(r) == IF r.ele.type = "R_AUR_PKG" THEN 0 ELSE LocalDate[r.ele.name]
results_isize(r) == IF r.ele.type = "R_AUR_PKG" THEN 0 ELSE r.ele.isize

Sign(a, b) == IF a > b THEN 1 ELSE IF a < b THEN -1 ELSE 0

\* Mutant: the most popular last.
Compare_pop(r, s) == Sign(results_popularity(r), results_popularity(s))

results_popularity_cmp(r, s) == Sign(results_popularity(s), results_popularity(r))

\* The function that show_results chooses; none for a letter it does not know.
Compare(r, s) ==
  CASE sort = "S_NAME"  -> Sign(r.ele.name, s.ele.name)
    [] sort = "S_VOTE"  -> AsInt(results_votes(s) - results_votes(r))
    [] sort = "S_POP"   -> results_popularity_cmp(r, s)
    [] sort = "S_IDATE" -> Sign(results_installdate(r), results_installdate(s))
    [] sort = "S_ISIZE" -> Sign(results_isize(r), results_isize(s))
    [] sort = "S_REL"   -> Sign(r.rel, s.rel)
    [] OTHER            -> 0

\* Where alpm_list_msort puts the i-th element.
Place(i) ==
  Cardinality({j \in DOMAIN results :
                 LET c == Compare(results[j], results[i]) IN c < 0 \/ (c = 0 /\ j <= i)})

Sorted == [n \in DOMAIN results |-> results[CHOOSE i \in DOMAIN results : Place(i) = n]]

\* Mutant: backwards the walk stops before the head of the list.
ShownButFirst(s) == IF rsort THEN [n \in 1..(Len(s) - 1) |-> s[Len(s) + 1 - n]] ELSE s

\* From the first to the last, or with --rsort from the last to the first.
Shown(s) == IF rsort THEN [n \in DOMAIN s |-> s[Len(s) + 1 - n]] ELSE s

show_results ==
  /\ pc = "show" /\ pc' = "exit"
  /\ LET shown == Shown(Sorted)
     IN /\ printed' = printed \o [n \in DOMAIN shown |-> shown[n].ele]
        /\ read_freed' = (reply = "freed" /\ \E n \in DOMAIN shown : shown[n].mem = "reply")
  /\ results' = <<>>
  /\ UNCHANGED <<sort, rsort, reply, found>>

Next ==
  \/ \E p \in Packages : FindAlpm(p) \/ FindAur(p)
  \/ Reply \/ FreeReply
  \/ calculate_results_relevance
  \/ show_results

Spec == Init /\ [][Next]_vars

-----------------------------------------------------------------------------
(***************************************************************************)
(* Properties.                                                             *)
(***************************************************************************)
Memory == {"alpm", "copy", "reply"}

TypeOK ==
  /\ sort \in SortKeys /\ rsort \in BOOLEAN
  /\ results \in Seq([ele : Packages, rel : 0..Dbl_Max, mem : Memory])
  /\ reply \in {"none", "held", "freed"} /\ pc \in {"search", "show", "exit"}
  /\ found \in Seq(Packages) /\ printed \in Seq(Packages)
  /\ read_freed \in BOOLEAN

\* Whatever is searched and however it is sorted, what is printed in the end is
\* what was found: nothing is lost and nothing is printed twice.
PrintedIsFound ==
  pc = "exit" =>
    /\ Len(printed) = Len(found)
    /\ \A p \in Packages : Cardinality({i \in DOMAIN printed : printed[i] = p}) =
                           Cardinality({i \in DOMAIN found : found[i] = p})

\* The comparison orders the results, as a merge sort needs it to, also when the
\* difference of two votes is no unsigned int.
CompareIsOrder ==
  pc = "show" =>
    \A i, j, k \in DOMAIN results :
      LET c(a, b) == Compare(results[a], results[b])
      IN /\ c(i, j) < 0 <=> c(j, i) > 0
         /\ c(i, j) <= 0 /\ c(j, k) <= 0 => c(i, k) <= 0

\* What the manual page says of --sort, for p before q: by name, by votes and
\* popularity (most first, of packages of the AUR), by distance to a target
\* (closest first), by date and by size.  Popularity has libalpm's packages on top.
Near(p) == {d \in 0..Dbl_Max : \E w \in Words : Distance[w][p.name] = d}
InOrder(p, q) ==
  CASE sort = "S_NAME" -> p.name <= q.name
    [] sort = "S_VOTE" -> p.type = "R_AUR_PKG" /\ q.type = "R_AUR_PKG" => p.votes >= q.votes
    [] sort = "S_POP"  -> p.type = "R_AUR_PKG" => q.type = "R_AUR_PKG" /\ p.popularity >= q.popularity
    [] sort = "S_REL"  -> \A d \in Near(q) : \E e \in Near(p) : e <= d
    [] sort = "S_IDATE" -> p.type = "R_ALPM_PKG" /\ q.type = "R_ALPM_PKG" =>
                             LocalDate[p.name] <= LocalDate[q.name]
    [] sort = "S_ISIZE" -> p.type = "R_ALPM_PKG" /\ q.type = "R_ALPM_PKG" => p.isize <= q.isize
    [] OTHER -> TRUE

\* The packages are printed in the order asked for, or with --rsort in reverse.
PrintedInOrder ==
  pc = "exit" =>
    \A i, j \in DOMAIN printed :
      i < j => IF rsort THEN InOrder(printed[j], printed[i]) ELSE InOrder(printed[i], printed[j])

\* Nothing is printed after its memory was freed, although the packages of the
\* AUR are freed before the results are shown.
PrintedAlive == ~read_freed

\* util.c, results_votes: "put ALPM packages on top".
AlpmOnTop ==
  pc = "exit" /\ sort = "S_VOTE" /\ ~rsort =>
    \A i, j \in DOMAIN printed :
      printed[i].type = "R_ALPM_PKG" /\ printed[j].type = "R_AUR_PKG" => i < j
=============================================================================
