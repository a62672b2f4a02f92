------------------------------ MODULE Strings ------------------------------
(***************************************************************************)
(* The functions on strings and lists that the rest of the program calls,  *)
(* each with the loop of the source: a string is a sequence of characters, *)
(* an index is one higher than in C, 0 is the NULL of strchr and strstr.   *)
(* A loop is a function from the number of its rounds to its variables.    *)
(***************************************************************************)
EXTENDS Integers, FiniteSets, Sequences, TLC

CONSTANTS
  Char,        \* what texts are of: characters, the entries of lists, files
  PathMax,     \* PATH_MAX, the first size of a string_t
  Value,       \* format letter -> what the package has for it
  Translation, \* the letter after a backslash -> what format_str makes of both
  IdChars,     \* COL_ID
  ValChars,    \* COL_VAL
  Stat         \* the files there are -> [regular, ino, size] of lstat

ASSUME StringsAssumption ==
  /\ PathMax \in Nat \ {0}
  /\ {"%", "-"} \subseteq Char
  /\ Value \in [DOMAIN Value -> Seq(Char)]
  /\ Translation \in [DOMAIN Translation -> Char] /\ "\\" \in DOMAIN Translation
  /\ IdChars \cup ValChars \subseteq Char
  /\ {"=", ":"} \cap IdChars = {} /\ ":" \notin ValChars

\* The files are of one file system, where an inode has one size.
ASSUME StatAssumption ==
  /\ \A f \in DOMAIN Stat : Stat[f].regular \in BOOLEAN /\ Stat[f].size \in Nat
  /\ \A f, g \in DOMAIN Stat : Stat[f].ino = Stat[g].ino => Stat[f].size = Stat[g].size

IsAt(s, i, x) == i + Len(x) <= Len(s) + 1 /\ SubSeq(s, i, i + Len(x) - 1) = x
From(s, i) == SubSeq(s, i, Len(s))
Upto(s, i) == SubSeq(s, 1, i)
Least(S) == IF S = {} THEN 0 ELSE CHOOSE i \in S : \A j \in S : i <= j
\* the first occurrence of x in s from the i-th character on
strstr(s, i, x) == Least({j \in i..Len(s) : IsAt(s, j, x)})

-----------------------------------------------------------------------------
(***************************************************************************)
(* Distances.                                                              *)
(***************************************************************************)
\* One round of the inner loop, in place: lastdiag is what column[y - 1] was
\* before this row.  Mutant: it is what column[y - 1] is now.
CellNew(column, lastdiag, y, same) ==
  Least({column[y] + 1, column[y - 1] + 1, column[y - 1] + (IF same THEN 0 ELSE 1)})

Cell(column, lastdiag, y, same) ==
  Least({column[y] + 1, column[y - 1] + 1, lastdiag + (IF same THEN 0 ELSE 1)})

\* The inner loop: the row of c, the x-th character of s2.
RowStep(s1, c, st, y) ==
  [lastdiag |-> st.column[y],
   column |-> [st.column EXCEPT ![y] = Cell(st.column, st.lastdiag, y, s1[y] = c)]]

Row(s1, c, column, x) ==
  LET st[y \in 0..Len(s1)] ==
        IF y = 0 THEN [lastdiag |-> x - 1, column |-> [column EXCEPT ![0] = x]]
        ELSE RowStep(s1, c, st[y - 1], y)
  IN st[Len(s1)].column

levenshtein_distance(s1, s2) ==
  LET column[x \in 0..Len(s2)] ==
        IF x = 0 THEN [y \in 0..Len(s1) |-> y] ELSE Row(s1, s2[x], column[x - 1], x)
  IN IF s1 = <<>> THEN Len(s2) ELSE IF s2 = <<>> THEN Len(s1)
     ELSE column[Len(s2)][Len(s1)]

\* Mutant: a match does not leave both characters behind.
LcsCellSameRow(diag, up, left, same) ==
  IF same THEN left + 1 ELSE IF up < left THEN left ELSE up

LcsCell(diag, up, left, same) ==
  IF same THEN diag + 1 ELSE IF up < left THEN left ELSE up

\* A row of the table, with that above it: c is the i-th character of s1.
LcsRow(s2, c, above) ==
  LET row[j \in 0..Len(s2)] ==
        IF j = 0 THEN 0 ELSE LcsCell(above[j - 1], above[j], row[j - 1], c = s2[j])
  IN row

longest_common_subseq(s1, s2) ==
  LET L[i \in 0..Len(s1)] ==
        IF i = 0 THEN [j \in 0..Len(s2) |-> 0] ELSE LcsRow(s2, s1[i], L[i - 1])
  IN L[Len(s1)][Len(s2)]

-----------------------------------------------------------------------------
(***************************************************************************)
(* Targets.                                                                *)
(***************************************************************************)
\* Mutant: "<" is looked for before "<=".
OperatorsLtFirst == << <<"<">>, <<">", "=">>, <<"<", "=">>, <<">">>, <<"=">> >>

\* In the order in which target_parse looks for them.
Operators == << <<"<", "=">>, <<">", "=">>, <<"<">>, <<">">>, <<"=">> >>

\* A target without db, or without version, has none of them ("ANY" is no operator).
target_parse(str) ==
  LET slash == strstr(str, 1, <<"/">>)
      s     == From(str, slash + 1)
      k     == Least({i \in DOMAIN Operators : strstr(s, 1, Operators[i]) # 0})
      mod   == IF k = 0 THEN <<>> ELSE Operators[k]
      c     == strstr(s, 1, mod)
  IN [has_db |-> slash # 0, db |-> Upto(str, slash - 1), mod |-> mod,
      name |-> IF k = 0 THEN s ELSE Upto(s, c - 1),
      ver  |-> IF k = 0 THEN <<>> ELSE From(s, c + Len(mod))]

-----------------------------------------------------------------------------
(***************************************************************************)
(* string_t: the memory it has, what it counts as used, and its text.      *)
(***************************************************************************)
string_new == [size |-> PathMax, used |-> 0, s |-> <<>>]

\* The size is doubled until it is larger than n.  Mutant: it may be n.
DoubledTight(size, n) == IF size < n THEN 2 * size ELSE size

Doubled(size, n) == IF size <= n THEN 2 * size ELSE size

Grown(size, n) ==
  LET st[k \in 0..n] == IF k = 0 THEN size ELSE Doubled(st[k - 1], n) IN st[n]

string_cat(dest, src) ==
  [size |-> Grown(dest.size, dest.used + Len(src)),
   used |-> dest.used + Len(src), s |-> dest.s \o src]

-----------------------------------------------------------------------------
(***************************************************************************)
(* Formats: format_str when --format is read, pkg_to_str for each package. *)
(***************************************************************************)
\* Mutant: the character that came out of an escape is looked at again.
NextFromAgain(c, replaced) == IF replaced THEN c ELSE c + 1

NextFrom(c, replaced) == c + 1

\* In place: what follows an escape moves up by one.
FormatStep(st) ==
  LET c == strstr(st.s, st.c, <<"\\">>)
      replaced == c < Len(st.s) /\ st.s[c + 1] \in DOMAIN Translation
  IN IF c = 0 THEN [st EXCEPT !.c = Len(st.s) + 1]
     ELSE [s |-> IF replaced
                 THEN Upto(st.s, c - 1) \o <<Translation[st.s[c + 1]]>> \o From(st.s, c + 2)
                 ELSE st.s,
           c |-> NextFrom(c, replaced)]

format_str(str) ==
  LET st[k \in 0..Len(str)] == IF k = 0 THEN [s |-> str, c |-> 1] ELSE FormatStep(st[k - 1])
  IN st[Len(str)].s

\* The letters of FORMAT_LOCAL_PKG, "t" and the others differ in who is asked.
Info(letter) == IF letter \in DOMAIN Value THEN Value[letter] ELSE <<"-">>

\* Mutant: the second of two percent signs may begin a letter.
SkippedOne(c) == c + 1

Skipped(c) == c + 2

\* Two percent signs stay two.
PkgStep(format, st) ==
  LET c == strstr(format, st.ptr, <<"%">>)
  IN IF c = 0 \/ c = Len(format) THEN st
     ELSE [ptr |-> Skipped(c),
           ret |-> string_cat(string_cat(st.ret, SubSeq(format, st.ptr, c - 1)),
                              IF format[c + 1] = "%" THEN <<"%", "%">> ELSE Info(format[c + 1]))]

pkg_to_str(format) ==
  LET st[k \in 0..Len(format)] ==
        IF k = 0 THEN [ptr |-> 1, ret |-> string_new] ELSE PkgStep(format, st[k - 1])
      last == st[Len(format)]
  IN string_cat(last.ret, From(format, last.ptr))

-----------------------------------------------------------------------------
(***************************************************************************)
(* strreplace, strtrim and the lists that become one string.               *)
(***************************************************************************)
\* The NULL that it returns for nothing is an empty string here.
ReplaceStep(str, needle, replace, st) ==
  LET q == strstr(str, st.p, needle)
  IN IF q = 0 THEN st
     ELSE [p |-> q + Len(needle), new |-> st.new \o SubSeq(str, st.p, q - 1) \o replace]

strreplace(str, needle, replace) ==
  LET st[k \in 0..Len(str)] ==
        IF k = 0 THEN [p |-> 1, new |-> <<>>] ELSE ReplaceStep(str, needle, replace, st[k - 1])
      last == st[Len(str)]
  IN last.new \o From(str, last.p)

isspace(c) == c = " "

strtrim(str) ==
  LET ink == {i \in DOMAIN str : ~isspace(str[i])}
  IN IF ink = {} THEN <<>>
     ELSE SubSeq(str, Least(ink), CHOOSE i \in ink : \A j \in ink : j <= i)

\* Mutant: the first entry has no delimiter, wherever it is.
SeparatorsLessOne(entries, n) == n * Cardinality({i \in DOMAIN entries : entries[i] # "null"}) - n

\* The first loop of concat_str_list and concat_file_list: every entry but the
\* first has a delimiter before it, unless it is NULL.
Separators(entries, n) == n * Cardinality({i \in DOMAIN entries : i # 1 /\ entries[i] # "null"})

EntryText(entry) == IF entry \in {"null", "empty"} THEN <<>> ELSE <<entry>>

\* The memory they ask for, and what the second loop writes into it; no memory
\* when there is no text.
concat_list(entries, delimiter) ==
  LET len == Separators(entries, Len(delimiter))
             + Cardinality({i \in DOMAIN entries : EntryText(entries[i]) # <<>>})
      ret[i \in 0..Len(entries)] ==
        IF i = 0 THEN <<>> ELSE IF entries[i] = "null" THEN ret[i - 1]
        ELSE ret[i - 1] \o (IF i = 1 THEN <<>> ELSE delimiter) \o EntryText(entries[i])
  IN IF len = 0 THEN [size |-> 0, s |-> <<>>]
     ELSE [size |-> len + 1, s |-> ret[Len(entries)]]

\* Mutant: the quote at total_end does not end an entry.
IsPastOrAt(end, total_end) == end = 0 \/ end >= total_end

IsPast(end, total_end) == end = 0 \/ end > total_end

\* The entries of a list in a PKGBUILD: the text after "arch=('" up to "')".
FieldStep(start, st) ==
  LET total_end == strstr(start, 1, <<"'", ")">>)
      end   == strstr(start, st.from, <<"'">>)
      entry == SubSeq(start, st.from, end - 1)
  IN IF IsPast(end, total_end) THEN st
     ELSE [from |-> end + 1,
           list |-> IF entry \in {<<>>, <<" ">>} THEN st.list ELSE Append(st.list, entry)]

read_pkgbuild_field(start) ==
  LET st[k \in 0..Len(start)] ==
        IF k = 0 THEN [from |-> 1, list |-> <<>>] ELSE FieldStep(start, st[k - 1])
  IN st[Len(start)].list

-----------------------------------------------------------------------------
(***************************************************************************)
(* Colours.                                                                *)
(***************************************************************************)
colors_set_color(colors, id, color) ==
  [i \in DOMAIN colors \cup {id} |-> IF i = id THEN color ELSE colors[i]]

\* Mutant: any character may stand in an id.
IsBrokenValOnly(c, sval) == sval # 0 /\ c \notin ValChars

\* Mutant: a character that is not of an id or a value leaves the value open.
IsBrokenIdOnly(c, sval) == sval = 0 /\ c \notin IdChars

IsBroken(c, sval) == c \notin (IF sval = 0 THEN IdChars ELSE ValChars)

\* sid and sval are where the id and the value begin; sval is 0 before the "=".
SetField(src, st, t) ==
  [sid |-> t + 1, sval |-> 0,
   colors |-> colors_set_color(st.colors, SubSeq(src, st.sid, st.sval - 2),
                               SubSeq(src, st.sval, t - 1))]

VarStep(src, st, t) ==
  IF st.sval = 0 /\ st.sid # t /\ src[t] = "=" THEN [st EXCEPT !.sval = t + 1]
  ELSE IF st.sval \notin {0, t} /\ src[t] = ":" THEN SetField(src, st, t)
  ELSE IF IsBroken(src[t], st.sval) THEN [st EXCEPT !.sid = t + 1, !.sval = 0]
  ELSE st

parse_var(colors, src) ==
  LET st[t \in 0..Len(src)] ==
        IF t = 0 THEN [sid |-> 1, sval |-> 0, colors |-> colors] ELSE VarStep(src, st[t - 1], t)
      end  == Len(src) + 1
      last == st[Len(src)]
  IN IF last.sval \notin {0, end} THEN SetField(src, last, end).colors ELSE last.colors

\* The colours of the program, then those of the environment.
color_init(defaults, env) == parse_var(parse_var(<<>>, defaults), env)

-----------------------------------------------------------------------------
(***************************************************************************)
(* %3: the size of a package's files.                                      *)
(***************************************************************************)
\* Mutant: only the file before is remembered.
IsSeenLast(inodes, ino) == inodes # <<>> /\ inodes[Len(inodes)] = ino

IsSeen(inodes, ino) == \E i \in 1..Len(inodes) : inodes[i] = ino

FileStep(st, f) ==
  IF f \notin DOMAIN Stat \/ ~Stat[f].regular \/ IsSeen(st.inodes, Stat[f].ino) THEN st
  ELSE [inodes |-> Append(st.inodes, Stat[f].ino), size |-> st.size + Stat[f].size]

\* A root directory that cannot be entered, for which the code returns 0 at once, is
\* one in which none of the files is there.
alpm_pkg_get_realsize(files) ==
  LET st[i \in 0..Len(files)] ==
        IF i = 0 THEN [inodes |-> <<>>, size |-> 0] ELSE FileStep(st[i - 1], files[i])
  IN st[Len(files)].size
=============================================================================
