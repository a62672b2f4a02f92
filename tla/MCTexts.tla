------------------------------ MODULE MCTexts ------------------------------
(* Texts of up to four to seven characters.                                *)
EXTENDS Texts

MCAlphabet ==
  [names |-> {"a", "b"}, target |-> {"x", "/"} \cup Signs, colors |-> {"a", "-", "1", "=", ":"},
   format |-> {"%", "\\", "n", "x"}, server |-> {"$", "r", "a", " "},
   list |-> {"null", "empty", "a"}, pkgbuild |-> {"'", " ", ")", "x"},
   files |-> {"file", "link", "big", "dir", "gone"}]
MCChar == UNION {MCAlphabet[k] : k \in Kinds} \cup {"%", "-", "v", "y", "newline"}
MCMaxText ==
  [names |-> 4, target |-> 5, colors |-> 7, format |-> 6, server |-> 6, list |-> 4,
   pkgbuild |-> 7, files |-> 4]
MCMaxOther == [k \in Kinds |-> IF k = "names" THEN 4 ELSE IF k = "list" THEN 2 ELSE 0]

MCValue       == [n |-> <<"v", "%">>]
MCTranslation == [n |-> "newline"] @@ ("\\" :> "\\")
MCStat ==
  LET File(ino, size) == [regular |-> TRUE, ino |-> ino, size |-> size]
  IN [file |-> File(1, 1), link |-> File(1, 1), big |-> File(2, 2),
      dir |-> [regular |-> FALSE, ino |-> 3, size |-> 4]]
MCEntries == {<<"x">>, <<"x", "x">>, <<"x", ")">>}
MCRepo == <<"a">>
MCArch == <<"y", "y">>
MCDefaultColors == <<"a", "=", "1", "1">>
=============================================================================
