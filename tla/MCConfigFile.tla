---------------------------- MODULE MCConfigFile ----------------------------
(* A configuration file of up to four lines and one that it may include.   *)
EXTENDS ConfigFile

L(what, value) == [what |-> what, value |-> value, comment |-> "none"]
Apart(l) == [l EXCEPT !.comment = "apart"]

Opt  == L("section", "options")
Core == L("section", "core")
Url  == L("Server", "url")
Auto == L("Architecture", "auto")
X86  == L("Architecture", "x86")
Path == L("DBPath", "/db")
Inc  == L("Include", "*.conf")

Upto(S, n) == UNION {[1..k -> S] : k \in 0..n}

World(main, inc) == [f \in {"pacman.conf", "inc.conf"} |-> IF f = "pacman.conf" THEN main ELSE inc]

\* without an Include: the order of sections and settings, headers with a comment
FlatWorlds ==
  {World(m, <<>>) : m \in Upto({Opt, Core, Apart(Core), Url, X86, Path}, 4)}

\* with: sections begun in one file and ended in the other
IncludeWorlds ==
  {World(m, i) : m \in {n \in Upto({Opt, Core, Url, X86, Path, Inc}, 3) : \E k \in DOMAIN n : n[k] = Inc},
                 i \in Upto({Opt, Core, L("section", "extra"), Url, Auto, Path}, 2)}

\* a file that includes itself, one that is missing, a value that is a comment
OddWorlds ==
  {World(m, i) :
     m \in {<<Inc>>, <<Core, Inc, Url>>, <<Opt, Inc, Core>>},
     i \in Upto({Inc, L("Include", "missing"), Apart(L("Include", "")), Apart(L("DBPath", "")),
                 L("section", "local"), L("section", ""), L("other", "Color"), L("blank", ""),
                 L("DBPath", "")}, 2)}

MCFileSystems == FlatWorlds \cup IncludeWorlds \cup OddWorlds

MCText == STRING \ {"none"}

MCGlobs == [p \in {"*.conf"} |-> <<"inc.conf">>]
=============================================================================
