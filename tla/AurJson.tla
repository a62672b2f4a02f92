------------------------------- MODULE AurJson -------------------------------
(***************************************************************************)
(* aur_json_parse(): the reply of the AUR goes through yajl, which calls   *)
(* back for each token; the callbacks build the list of packages in a      *)
(* jsonpkg_t.  yajl is external: it accepts any JSON object, reports each  *)
(* of its tokens in order and may fail at any of them.                     *)
(*                                                                         *)
(* Of a package four fields are kept: its name, its maintainer, the list   *)
(* of its dependencies and its votes.  Of a string what matters is the key *)
(* under which it stands in the document, and of a name its text as well.  *)
(***************************************************************************)
EXTENDS Integers, Sequences, FiniteSets

CONSTANTS
  OtherKeys,   \* keys of the document that aur_key_types_names does not have
  Texts,       \* the texts of names; their order is that of strcmp
  MaxMaps,     \* bound on the maps of a reply
  MaxOpen,     \* bound on the containers of a reply that are open at a time
  MaxKeys      \* bound on the keys of a reply

ASSUME AurJsonAssumption ==
  /\ Texts \subseteq Nat \ {0}
  /\ MaxMaps \in Nat /\ MaxOpen \in Nat /\ MaxKeys \in Nat
  /\ OtherKeys \cap {"empty", "Name", "Maintainer", "Depends", "NumVotes", "results", "type", "none"} = {}

\* aur_key_types_names; the first of them is the empty string.
KnownKeys == {"empty", "Name", "Maintainer", "Depends", "NumVotes", "results", "type"}
DocKeys == KnownKeys \cup OtherKeys
Nothing == [key |-> "none", text |-> 0]
Strings == [key : DocKeys, text : Texts]
Pkg == [Name : Strings \cup {Nothing}, Maintainer : DocKeys \cup {"none"},
        Depends : SUBSET DocKeys, votes : 0..1]
NoPkg == [Name |-> Nothing, Maintainer |-> "none", Depends |-> {}, votes |-> 2]
NewPkg == [NoPkg EXCEPT !.votes = 0]

VARIABLES
  sort_votes,   \* config.sort = S_VOTE, never changed
  \* yajl
  open,         \* the open containers, innermost last: "map" or "array", and the
                \* key whose value is being read there
  due,          \* a key has been read and its value is due
  status,       \* "start", "parsing", "ok" or "failed"
  \* jsonpkg_t
  level, pkg, current_key, error, error_msg, pkgs,
  \* history
  objects,      \* how many maps directly inside the outermost one were closed
  maps, keys,   \* how many maps were opened, how many keys were read
  plain         \* no package held a map so far, and every key was known

yajl == <<open, due, status>>
ctx  == <<level, pkg, current_key, error, error_msg, pkgs>>
history == <<objects, maps, keys, plain>>
vars == <<sort_votes, yajl, ctx, history>>

Init ==
  /\ sort_votes \in BOOLEAN
  /\ open = <<>> /\ due = FALSE /\ status = "start"
  /\ level = 0 /\ pkg = NoPkg /\ current_key = "empty"
  /\ error = FALSE /\ error_msg = FALSE /\ pkgs = <<>>
  /\ objects = 0 /\ maps = 0 /\ keys = 0 /\ plain = TRUE

-----------------------------------------------------------------------------
(***************************************************************************)
(* yajl's grammar: where a token may stand.                                *)
(***************************************************************************)
Maps == Cardinality({i \in 1..Len(open) : open[i].kind = "map"})  \* that are open
Innermost == open[Len(open)]
InMap == open # <<>> /\ Innermost.kind = "map"
InArray == open # <<>> /\ Innermost.kind = "array"
Under == IF open = <<>> THEN "none" ELSE Innermost.key

\* Where a value may stand: after its key, or in an array.
ValueMay == status = "parsing" /\ open # <<>> /\ (InMap => due)

\* Where a key, or the end of a map, may stand.
KeyMay == status = "parsing" /\ InMap /\ ~due

Value == due' = FALSE /\ UNCHANGED <<open, status>>
ReadKey(k) == /\ open' = [open EXCEPT ![Len(open)].key = k] /\ due' = TRUE
              /\ keys < MaxKeys /\ keys' = keys + 1
              /\ plain' = (plain /\ k \in KnownKeys)
              /\ UNCHANGED <<status, objects, maps>>
Enter(c) == open' = Append(open, [kind |-> c, key |-> Under]) /\ due' = FALSE
Leave == /\ open' = SubSeq(open, 1, Len(open) - 1) /\ due' = FALSE
         /\ UNCHANGED status

OpenMap == /\ maps < MaxMaps /\ maps' = maps + 1
           /\ Enter("map") /\ status' = "parsing"
           /\ plain' = (plain /\ Maps < 2) /\ UNCHANGED <<objects, keys>>
CloseMap == /\ Leave
            /\ objects' = IF Maps = 2 THEN objects + 1 ELSE objects
            /\ UNCHANGED <<maps, keys, plain>>

-----------------------------------------------------------------------------
(***************************************************************************)
(* The callbacks.                                                          *)
(***************************************************************************)
\* Mutant: a package for the outermost map too.
json_start_map_top ==
  /\ status = "start" \/ ValueMay
  /\ OpenMap
  /\ level' = level + 1
  /\ pkg' = NewPkg
  /\ UNCHANGED <<sort_votes, current_key, error, error_msg, pkgs>>

\* A map inside a package takes the place of the package.
json_start_map ==
  /\ status = "start" \/ ValueMay
  /\ OpenMap
  /\ level' = level + 1
  /\ pkg' = IF level' > 1 THEN NewPkg ELSE pkg
  /\ UNCHANGED <<sort_votes, current_key, error, error_msg, pkgs>>

\* aur_pkg_cmp and aur_pkg_votes_cmp; a package without a name equals any other.
After(p, q) ==
  IF sort_votes THEN p.votes > q.votes
  ELSE p.Name # Nothing /\ q.Name # Nothing /\ p.Name.text > q.Name.text

\* alpm_list_add_sorted: before the first that it does not come after.
AddSorted(s, p) ==
  LET places == {i \in 1..Len(s) : ~After(p, s[i])}
      place  == IF places = {} THEN Len(s) + 1
                ELSE CHOOSE i \in places : \A j \in places : i <= j
  IN SubSeq(s, 1, place - 1) \o <<p>> \o SubSeq(s, place, Len(s))

\* Mutants: every map that is closed is a package; the outermost one is, too; the
\* packages stay in the order of the reply.
json_end_map_any ==
  /\ KeyMay /\ CloseMap
  /\ level' = level - 1
  /\ IF pkg # NoPkg
     THEN pkgs' = AddSorted(pkgs, pkg) /\ pkg' = NoPkg
     ELSE UNCHANGED <<pkgs, pkg>>
  /\ UNCHANGED <<sort_votes, current_key, error, error_msg>>

json_end_map_top ==
  /\ KeyMay /\ CloseMap
  /\ level' = level - 1
  /\ IF level' <= 1
     THEN pkgs' = AddSorted(pkgs, pkg) /\ pkg' = NoPkg
     ELSE UNCHANGED <<pkgs, pkg>>
  /\ UNCHANGED <<sort_votes, current_key, error, error_msg>>

json_end_map_append ==
  /\ KeyMay /\ CloseMap
  /\ level' = level - 1
  /\ IF level' = 1 /\ pkg # NoPkg
     THEN pkgs' = Append(pkgs, pkg) /\ pkg' = NoPkg
     ELSE UNCHANGED <<pkgs, pkg>>
  /\ UNCHANGED <<sort_votes, current_key, error, error_msg>>

json_end_map ==
  /\ KeyMay /\ CloseMap
  /\ level' = level - 1
  /\ IF level' = 1 /\ pkg # NoPkg
     THEN pkgs' = AddSorted(pkgs, pkg) /\ pkg' = NoPkg
     ELSE UNCHANGED <<pkgs, pkg>>
  /\ UNCHANGED <<sort_votes, current_key, error, error_msg>>

\* Mutant: one name is missing from the table.
json_key_lost(k) ==
  /\ KeyMay
  /\ ReadKey(k)
  /\ current_key' = IF k \in KnownKeys \ {"Maintainer"} THEN k ELSE current_key
  /\ UNCHANGED <<sort_votes, level, pkg, error, error_msg, pkgs>>

\* A key that is not in the table leaves current_key as it was.
json_key(k) ==
  /\ KeyMay
  /\ ReadKey(k)
  /\ current_key' = IF k \in KnownKeys THEN k ELSE current_key
  /\ UNCHANGED <<sort_votes, level, pkg, error, error_msg, pkgs>>

json_integer(n) ==
  /\ ValueMay /\ Value
  /\ pkg' = IF pkg # NoPkg /\ level >= 2 /\ current_key = "NumVotes"
            THEN [pkg EXCEPT !.votes = n] ELSE pkg
  /\ UNCHANGED <<sort_votes, level, current_key, error, error_msg, pkgs, history>>

\* Outside of a package only the type of the reply and, after it, the message
\* of an error are of interest.
TopString(is_error) ==
  /\ error' = (error \/ (current_key = "type" /\ is_error))
  /\ error_msg' = IF error' /\ current_key = "results" THEN TRUE ELSE error_msg
  /\ UNCHANGED pkg

\* A field that is a string is replaced, one that is a list grows.
PkgString(s) ==
  /\ pkg' = IF pkg = NoPkg THEN pkg
            ELSE [pkg EXCEPT !.Name = IF current_key = "Name" THEN s ELSE @,
                             !.Maintainer = IF current_key = "Maintainer" THEN s.key ELSE @,
                             !.Depends = IF current_key = "Depends" THEN @ \cup {s.key} ELSE @]
  /\ UNCHANGED <<error, error_msg>>

json_string(text, is_error) ==
  /\ ValueMay /\ Value
  /\ LET s == [key |-> Under, text |-> text]
     IN IF level < 2 THEN TopString(is_error) ELSE PkgString(s)
  /\ UNCHANGED <<sort_votes, level, current_key, pkgs, history>>

\* json_double sets the popularity, which is not kept; null, true, false and the
\* brackets of arrays have no callback.
OtherValue ==
  /\ ValueMay /\ Value
  /\ UNCHANGED <<sort_votes, ctx, history>>

StartArray ==
  /\ ValueMay /\ Len(open) < MaxOpen /\ Enter("array") /\ UNCHANGED status
  /\ UNCHANGED <<sort_votes, ctx, history>>

EndArray ==
  /\ status = "parsing" /\ InArray /\ Leave
  /\ UNCHANGED <<sort_votes, ctx, history>>

\* Mutant: the packages read before the failure are returned.
FailKeep ==
  /\ status \in {"start", "parsing"} /\ status' = "failed"
  /\ UNCHANGED <<sort_votes, open, due, ctx, history>>

\* The document is malformed or cut off: what was built is thrown away, the
\* package under construction is not.
Fail ==
  /\ status \in {"start", "parsing"} /\ status' = "failed"
  /\ pkgs' = <<>>
  /\ UNCHANGED <<sort_votes, open, due, level, pkg, current_key, error, error_msg, history>>

\* yajl_complete_parse
Complete ==
  /\ status = "parsing" /\ open = <<>> /\ status' = "ok"
  /\ UNCHANGED <<sort_votes, open, due, ctx, history>>

Next ==
  \/ json_start_map
  \/ json_end_map
  \/ \E k \in DocKeys : json_key(k)
  \/ \E n \in 0..1 : json_integer(n)
  \/ \E text \in Texts, is_error \in BOOLEAN : json_string(text, is_error)
  \/ OtherValue \/ StartArray \/ EndArray
  \/ Fail \/ Complete

Spec == Init /\ [][Next]_vars

-----------------------------------------------------------------------------
(***************************************************************************)
(* Properties.                                                             *)
(***************************************************************************)
TypeOK ==
  /\ sort_votes \in BOOLEAN
  /\ open \in Seq([kind : {"map", "array"}, key : {"none"} \cup DocKeys])
  /\ due \in BOOLEAN
  /\ status \in {"start", "parsing", "ok", "failed"}
  /\ level \in 0..MaxMaps
  /\ pkg \in Pkg \cup {NoPkg} /\ pkgs \in Seq(Pkg)
  /\ current_key \in KnownKeys
  /\ error \in BOOLEAN /\ error_msg \in BOOLEAN
  /\ maps \in 0..MaxMaps /\ keys \in 0..MaxKeys /\ plain \in BOOLEAN

\* aur_json_parse returns one package for each object of the reply if all of it
\* could be read, and none otherwise: what aur_request_info and
\* aur_request_search (module PackageQuery) take it to do.  A package is under
\* construction exactly inside a map of the outermost map, at whatever depth and
\* between whatever arrays.
AllOrNothing ==
  /\ status = "parsing" => level = Maps /\ (pkg # NoPkg <=> Maps >= 2)
  /\ status = "ok" => Len(pkgs) = objects /\ pkg = NoPkg
  /\ status = "failed" => pkgs = <<>>

\* The packages come out sorted by votes, or by name if all of them have one.
SortedWhenNamed ==
  \A i, j \in 1..Len(pkgs) : i < j =>
    IF sort_votes THEN pkgs[i].votes <= pkgs[j].votes
    ELSE (\A k \in 1..Len(pkgs) : pkgs[k].Name # Nothing) =>
           pkgs[i].Name.text <= pkgs[j].Name.text

\* The string fields and the lists of a package hold what stood under their own
\* keys, however the keys are mixed with arrays, packages and values without a
\* callback, provided that no package holds a map and every key is known.
OwnFields(p) == /\ p.Name.key \in {"Name", "none"}
                /\ p.Maintainer \in {"Maintainer", "none"}
                /\ p.Depends \subseteq {"Depends"}
FieldUnderItsKey ==
  plain => OwnFields(pkg) /\ \A i \in 1..Len(pkgs) : OwnFields(pkgs[i])

\* The manual page: "%m: maintainer or packager" of a package, for any reply.
MaintainerShown ==
  \A i \in 1..Len(pkgs) : pkgs[i].Maintainer \in {"Maintainer", "none"}
=============================================================================
