------------------------------- MODULE Texts -------------------------------
(***************************************************************************)
(* What the functions of Strings make of every text up to a length: a text *)
(* is written character by character, each kind with the characters that   *)
(* its function tells apart.  The properties say what the text means, by   *)
(* looking at its positions and not at what the loops do.                  *)
(***************************************************************************)
EXTENDS Strings, SequencesExt

CONSTANTS
  Alphabet,  \* kind -> its characters (of a list: its entries)
  MaxText,   \* kind -> the length of the text
  MaxOther,  \* kind -> the length of the second text, of those that have one
  Repo,      \* the name of a repository
  Arch,      \* the architecture
  DefaultColors,
  Entries,   \* the entries of a list in a PKGBUILD
  MaxEntries \* how many of them a list has

Kinds == {"names", "target", "colors", "format", "server", "list", "pkgbuild", "files"}

ASSUME TextsAssumption ==
  /\ Alphabet \in [Kinds -> SUBSET Char]
  /\ {Repo, Arch, DefaultColors} \subseteq Seq(Char)
  /\ {"'", " ", ")"} \subseteq Char
  /\ Entries \subseteq Seq(Char) \ {<<>>, <<" ">>} /\ MaxEntries \in Nat
  /\ \A w \in Entries : "'" \notin ToSet(w) /\ w[1] # ")"

VARIABLES
  kind,
  text,
  other      \* the name of a package, the delimiter of a list

vars == <<kind, text, other>>

Init == kind \in Kinds /\ text = <<>> /\ other = <<>>

Write(c) == /\ Len(text) < MaxText[kind] /\ text' = Append(text, c)
            /\ UNCHANGED <<kind, other>>

WriteOther(c) == /\ Len(other) < MaxOther[kind] /\ other' = Append(other, c)
                 /\ UNCHANGED <<kind, text>>

Next == \E c \in Alphabet[kind] : Write(c) \/ WriteOther(c)

Spec == Init /\ [][Next]_vars

-----------------------------------------------------------------------------
(***************************************************************************)
(* Properties.                                                             *)
(***************************************************************************)
TypeOK ==
  /\ kind \in Kinds
  /\ text \in Seq(Alphabet[kind]) /\ other \in Seq(Alphabet[kind])
  /\ CASE kind = "names"  -> {levenshtein_distance(text, other),
                              longest_common_subseq(text, other)} \subseteq Nat
       [] kind = "format" -> pkg_to_str(text) \in [size : Nat, used : Nat, s : Seq(Char)]
       [] kind = "colors" -> LET colors == color_init(DefaultColors, text)
                             IN \A id \in DOMAIN colors :
                                  /\ id \in Seq(IdChars) \ {<<>>}
                                  /\ colors[id] \in Seq(ValChars) \ {<<>>}
       [] OTHER -> TRUE

\* The ways to pair positions of two texts of m and n characters, in their order.
Pairings(m, n) ==
  {p \in UNION {[D -> 1..n] : D \in SUBSET (1..m)} :
     \A i, j \in DOMAIN p : i < j => p[i] < p[j]}

\* The pairs of different characters.
Replaced(s, t, p) == {i \in DOMAIN p : s[i] # t[p[i]]}

\* The characters that are deleted, inserted or replaced to make t of s, if those
\* that are paired stay where they are.
Cost(s, t, p) ==
  (Len(s) - Cardinality(DOMAIN p)) + (Len(t) - Cardinality(DOMAIN p))
  + Cardinality(Replaced(s, t, p))

\* levenshtein_distance is the least number of insertions, deletions and
\* replacements, although it keeps one column only, and longest_common_subseq
\* the length of the longest text that can be left of both: at both ends of the
\* rows and for empty names, too.
DistancesExact ==
  kind = "names" =>
    LET P == Pairings(Len(text), Len(other))
        lev == levenshtein_distance(text, other)
        lcs == longest_common_subseq(text, other)
    IN /\ \E p \in P : Cost(text, other, p) = lev
       /\ \A p \in P : lev <= Cost(text, other, p)
       /\ \E p \in P : Replaced(text, other, p) = {} /\ Cardinality(DOMAIN p) = lcs
       /\ \A p \in P : Replaced(text, other, p) = {} => Cardinality(DOMAIN p) <= lcs

-----------------------------------------------------------------------------
Signs == {"<", ">", "="}

\* The parts of a target are all of it.  With one operator there is none of its
\* signs in the name or the version, so that "<=" is not "<" with a version "=...".
TargetRead ==
  kind = "target" =>
    LET t == target_parse(text)
        at == {i \in DOMAIN text : text[i] \in Signs}
        first == Least(at)
    IN /\ text = (IF t.has_db THEN t.db \o <<"/">> ELSE <<>>) \o t.name \o t.mod \o t.ver
       /\ "/" \notin ToSet(t.db) /\ (t.has_db <=> "/" \in ToSet(text))
       /\ (/\ at # {}
           /\ \E k \in DOMAIN Operators : /\ IsAt(text, first, Operators[k])
                                          /\ Cardinality(at) = Len(Operators[k])
           /\ "/" \notin ToSet(From(text, first)))
          => (ToSet(t.name) \cup ToSet(t.ver)) \cap Signs = {}

\* A list of entries as a PKGBUILD has it, behind the quote of the first.
EntryPiece(ws, i) == (IF i = 1 THEN <<>> ELSE <<" ", "'">>) \o ws[i] \o <<"'">>

Listed(ws) == FlattenSeq([i \in DOMAIN ws |-> EntryPiece(ws, i)]) \o <<")">>

\* The quoted entries of a PKGBUILD's arch=(...), with a blank between them, are
\* what is read, and nothing after the closing bracket is.
ArchRead ==
  kind = "pkgbuild" =>
    \A ws \in BoundedSeq(Entries, MaxEntries) \ {<<>>} :
      IsPrefix(Listed(ws), text) => read_pkgbuild_field(text) = ws

\* A target and a list in a PKGBUILD are read as they are written.
PartsRead == TargetRead /\ ArchRead

-----------------------------------------------------------------------------
Assignment(id, color) == id \o <<"=">> \o color
IsId(s)    == s # <<>> /\ ToSet(s) \subseteq IdChars
IsColor(s) == s # <<>> /\ ToSet(s) \subseteq ValChars

\* In s, from the i-th character to a colon or the end, there is id=color.
SetsAt(s, i, id, color) ==
  /\ IsAt(s, i, Assignment(id, color))
  /\ i + Len(id) + 1 + Len(color) \in {Len(s) + 1} \cup {k \in DOMAIN s : s[k] = ":"}
BeginsField(s, i) == i = 1 \/ s[i - 1] = ":"

\* The k-th character is not of an id, or not of the value that it follows.
Breaks(s, k) ==
  \/ s[k] \notin IdChars
  \/ /\ s[k] \notin ValChars
     /\ \E j \in 1..(k - 1) : s[j] = "=" /\ \A x \in (j + 1)..(k - 1) : s[x] \in ValChars

\* Every field id=color of PQ_COLORS takes effect, whatever is wrong with the
\* fields before it, the last one of an id for good.  A colour that is not the
\* default is one that a field ends with: all of the field, or what is left of a
\* malformed one behind a character that it cannot have there, as parse_var
\* begins anew after each such character and not at the next colon.  So the
\* "[repo name]=" of doc/package-query.8:372 is a field only for names of IdChars:
\* multilib-testing=1 is malformed, and what is left of it sets testing.
ColorsRead ==
  kind = "colors" =>
    LET colors == color_init(DefaultColors, text)
        defaults == parse_var(<<>>, DefaultColors)
    IN /\ \A i \in DOMAIN text : \A j \in i..Len(text) : \A k \in (j + 2)..Len(text) :
            LET id == SubSeq(text, i, j)
                color == SubSeq(text, j + 2, k)
            IN /\ BeginsField(text, i) /\ IsId(id) /\ IsColor(color)
               /\ SetsAt(text, i, id, color)
               /\ ~\E l \in k..Len(text) : IsAt(text, l, id \o <<"=">>)
               => colors[id] = color
       /\ \A id \in DOMAIN colors :
            \/ id \in DOMAIN defaults /\ colors[id] = defaults[id]
            \/ \E i \in DOMAIN text : /\ SetsAt(text, i, id, colors[id])
                                      /\ i = 1 \/ Breaks(text, i - 1)
       /\ DOMAIN defaults \subseteq DOMAIN colors

-----------------------------------------------------------------------------
\* How many characters c stand right before the i-th one.
RunBefore(s, i, c) ==
  Least({n \in 1..i : n = i \/ s[i - n] # c}) - 1

\* Read from the left, the i-th character is a sign c that begins a pair, or the
\* second of a pair.
Begins(s, i, c) == i < Len(s) /\ s[i] = c /\ RunBefore(s, i, c) % 2 = 0
Ends(s, i, c)   == i > 1 /\ Begins(s, i - 1, c)

EscapePiece(s, i) ==
  IF Begins(s, i, "\\") /\ s[i + 1] \in DOMAIN Translation THEN <<>>
  ELSE IF Ends(s, i, "\\") /\ s[i] \in DOMAIN Translation THEN <<Translation[s[i]]>>
  ELSE <<s[i]>>

LetterPiece(s, i) ==
  IF Begins(s, i, "%") THEN <<>>
  ELSE IF Ends(s, i, "%") THEN (IF s[i] = "%" THEN <<"%", "%">> ELSE Info(s[i]))
  ELSE <<s[i]>>

Escapes(s) == FlattenSeq([i \in DOMAIN s |-> EscapePiece(s, i)])
Letters(s) == FlattenSeq([i \in DOMAIN s |-> LetterPiece(s, i)])

\* In a format, escapes and letters are read from the left, one after the other:
\* the second of two backslashes begins no escape and the second of two percent
\* signs no letter; what a letter stands for, and everything else, is kept.
FormatExpanded ==
  kind = "format" => pkg_to_str(format_str(text)).s = Letters(Escapes(text))

Variables == [repo |-> <<"$", "r">>, arch |-> <<"$", "a">>]

\* s with the value v for each x, a variable of two characters.
ValuePiece(s, x, v, i) ==
  IF IsAt(s, i, x) THEN v ELSE IF i > 1 /\ IsAt(s, i - 1, x) THEN <<>> ELSE <<s[i]>>

WithValue(s, x, v) == FlattenSeq([i \in DOMAIN s |-> ValuePiece(s, x, v, i)])

\* In a Server without the blanks around it each $repo is replaced and, in what
\* comes out, each $arch, and the rest is kept.
ServerExpanded ==
  kind = "server" =>
    strreplace(strreplace(strtrim(text), Variables.repo, Repo), Variables.arch, Arch)
      = LET repo == WithValue(strtrim(text), Variables.repo, Repo)
        IN WithValue(repo, Variables.arch, Arch)

\* What is written with variables comes out with their values.
TextsExpanded == FormatExpanded /\ ServerExpanded

\* The memory of a string always holds it and its terminator: a string_t, which
\* grows, and a list, whose length is added up before it is written.
BuffersSuffice ==
  /\ kind = "format" => LET str == pkg_to_str(format_str(text))
                        IN str.used = Len(str.s) /\ str.used < str.size
  /\ kind = "list" => LET list == concat_list(text, other)
                      IN list.s = <<>> \/ list.size = Len(list.s) + 1

\* The real size of a package has each byte of each inode once, whichever of its
\* links come first and whatever stands between them, and only files that are there.
FilesCountedOnce ==
  kind = "files" =>
    LET present == {f \in ToSet(text) \cap DOMAIN Stat : Stat[f].regular}
        bytes == UNION {{Stat[f].ino} \X (1..Stat[f].size) : f \in present}
    IN alpm_pkg_get_realsize(text) = Cardinality(bytes)

\* The numbers that are computed of texts and of files are those meant.
NumbersExact == DistancesExact /\ FilesCountedOnce
=============================================================================
