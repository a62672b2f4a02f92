--------------------------- MODULE MCPackageQuery ---------------------------
(***************************************************************************)
(* A small world for TLC: two sync databases that both have foo, one       *)
(* package installed from them and outdated, two foreign ones, an AUR that *)
(* has a package of a name and of a base that differ; and the command      *)
(* lines of each run.                                                      *)
(***************************************************************************)
EXTENDS PackageQuery

Dep(n, mod, v) == [db |-> "", name |-> n, mod |-> mod, ver |-> v]
Plain(n) == Dep(n, "ANY", 0)
In(d, n) == [Plain(n) EXCEPT !.db = d]

NoRel == [q \in QueryType \ {"OP_Q_ALL"} |-> <<>>]
Rel(q, deps) == [NoRel EXCEPT ![q] = deps]

MCPkg(d, n, v, rel) ==
  [db |-> d, name |-> n, ver |-> v, explicit |-> TRUE, optional |-> FALSE,
   groups |-> {}, rel |-> rel, words |-> {n}, namewords |-> {n}]

MCSyncDbs == <<"core", "extra">>

MCCache ==
  [core  |-> <<[MCPkg("core", "foo", 2,
                   [NoRel EXCEPT !["OP_Q_PROVIDES"] = <<Dep("svc", "EQ", 1), Plain("bar")>>,
                                 !["OP_Q_DEPENDS"] = <<Dep("bar", "GE", 1)>>])
                EXCEPT !.groups = {"grp"}, !.words = {"foo", "svc"}]>>,
   extra |-> <<MCPkg("extra", "foo", 3, Rel("OP_Q_PROVIDES", <<Dep("svc", "EQ", 2)>>)),
               [MCPkg("extra", "bar", 1,
                   [NoRel EXCEPT !["OP_Q_REQUIRES"] = <<Plain("foo")>>,
                                 !["OP_Q_CONFLICTS"] = <<Dep("svc", "LT", 2)>>,
                                 !["OP_Q_REPLACES"] = <<Plain("loc")>>])
                EXCEPT !.groups = {"grp", "tools"}, !.words = {"bar", "svc"}]>>,
   local |-> <<[MCPkg("local", "foo", 1, Rel("OP_Q_DEPENDS", <<Plain("loc"), Dep("bar", "GE", 1)>>))
                EXCEPT !.groups = {"grp"}],
               [MCPkg("local", "loc", 1,
                   [NoRel EXCEPT !["OP_Q_REQUIRES"] = <<Plain("foo")>>,
                                 !["OP_Q_PROVIDES"] = <<Plain("svc")>>])
                EXCEPT !.explicit = FALSE, !.optional = TRUE],
               [MCPkg("local", "old", 1, NoRel)
                EXCEPT !.explicit = FALSE, !.optional = TRUE]>>]

MCAurPkg(n, v, b, m, w) ==
  [db |-> "aur", name |-> n, ver |-> v, base |-> b, maintainer |-> m,
   words |-> {n} \cup w, namewords |-> {n}]

MCAurPkgs ==
  {MCAurPkg("loc", 2, "loc", "ann", {"svc"}), MCAurPkg("old", 1, "old", "", {}),
   MCAurPkg("foo", 4, "foo", "ann", {"svc", "loc"}), MCAurPkg("svc", 1, "base", "ann", {})}

-----------------------------------------------------------------------------
\* The sources asked for, in order.
SourceOrders == {<<s>> : s \in Source} \cup
                {<<s, t>> : s, t \in Source} \cup {<<s, t, u>> : s, t, u \in Source}
Orders == {o \in SourceOrders : \A i, j \in 1..Len(o) : o[i] = o[j] => i = j}

Rank(o, s) == IF \E i \in 1..Len(o) : o[i] = s THEN CHOOSE i \in 1..Len(o) : o[i] = s ELSE 0

Line(op, o, targets, just_one, flags) ==
  [config |-> [InitConfig EXCEPT !.op = op, !.just_one = just_one, !.filter = flags,
                 !.aur = Rank(o, "aur"), !.db_local = Rank(o, "db_local"),
                 !.db_sync = Rank(o, "db_sync")],
   targets |-> targets]

Distinct(s) == \A i, j \in 1..Len(s) : s[i] = s[j] => i = j
Lists(T, max) == UNION {[1..n -> T] : n \in 1..max}
Sound(lines) == {l \in lines : l.config.just_one => Distinct(l.targets)}

\* -i, -ii, with and without -1, any sources in any order
NameTargets == {Plain("foo"), Plain("svc"), Plain("loc"), In("extra", "foo"), In("aur", "svc"),
                Dep("foo", "GE", 3)}
InfoLines ==
  Sound({Line(op, o, ts, one, flags) :
           op \in {"OP_INFO", "OP_INFO_P"}, o \in Orders, ts \in Lists(NameTargets, 2),
           one \in BOOLEAN, flags \in {{}, {"F_EXPLICIT"}}})
  \cup {[l EXCEPT !.config.pkgbase = TRUE] :
          l \in Sound({Line("OP_INFO", o, ts, one, {}) :
                         o \in {p \in Orders : Len(p) = 2}, ts \in Lists({Plain("svc"), Plain("loc")}, 2),
                         one \in BOOLEAN})}

\* three names and a request that takes two: the batches
BatchLines ==
  Sound({Line("OP_INFO", o, ts, one, {}) :
           o \in {<<"aur">>, <<"aur", "db_local">>, <<"db_sync", "aur">>},
           ts \in [1..3 -> NameTargets], one \in BOOLEAN})

\* the --q options, up to three targets
QueryTargets == {Plain("svc"), Plain("bar"), Plain("loc"), Plain("foo"), Dep("svc", "EQ", 2),
                 In("extra", "svc")}
QueryLines ==
  {[l EXCEPT !.config.query = q] :
     l \in Sound({Line("OP_QUERY", o, ts, one, flags) :
                    o \in {<<"db_local">>, <<"db_sync">>, <<"db_local", "db_sync">>,
                           <<"db_sync", "db_local">>, <<"aur", "db_sync">>},
                    ts \in Lists(QueryTargets, 2) \cup
                           [1..3 -> {Plain("svc"), Plain("bar"), Plain("loc")}],
                    one \in BOOLEAN, flags \in {{}, {"F_EXPLICIT"}}}),
     q \in QueryType \ {"OP_Q_ALL"}}

\* -s, -l, -g and what is done without a target
Flags == {{}, {"F_FOREIGN"}, {"F_NATIVE"}, {"F_UPGRADES"}, {"F_FOREIGN", "F_UPGRADES"},
          {"F_DEPS", "F_UPGRADES"}, {"F_FOREIGN", "F_UNREQUIRED"},
          {"F_FOREIGN", "F_UNREQUIRED", "F_UNREQUIRED_2"}}
WordTargets == {Plain("foo"), Plain("svc"), Plain("core"), Plain("grp")}
ListingLines ==
  {Line(op, o, ts, FALSE, {}) : op \in {"OP_LIST_REPO", "OP_SEARCH"}, o \in Orders,
                                ts \in Lists(WordTargets, 2)}
  \cup {Line(op, o, <<>>, FALSE, {}) : op \in {"OP_LIST_REPO", "OP_LIST_REPO_S"}, o \in Orders}
  \cup {Line("OP_LIST_GROUP", o, ts, FALSE, {"F_GROUP"}) :
          o \in Orders \cup {<<>>}, ts \in {<<>>, <<Plain("grp")>>, <<Plain("tools"), Plain("foo")>>}}
  \cup {[Line("OP_SEARCH", o, ts, FALSE, {}) EXCEPT !.config.name_only = n,
                                                    !.config.aur_maintainer = m] :
          o \in Orders, ts \in {<<>>, <<Plain("ann")>>, <<Plain("foo"), Plain("loc")>>},
          n \in BOOLEAN, m \in {TRUE}}
  \cup {[Line("OP_SEARCH", <<"aur", "db_sync">>, ts, FALSE, {}) EXCEPT !.config.name_only = TRUE] :
          ts \in Lists(WordTargets, 2)}
NoTargetLines ==
  {Line("OP_NONE", o, <<>>, one, flags) : o \in Orders \cup {<<>>}, one \in BOOLEAN,
                                           flags \in Flags}
FileLines ==
  {[Line(op, o, ts, FALSE, {}) EXCEPT !.config.is_file = TRUE] :
     op \in {"OP_INFO"}, o \in {<<"db_local">>}, ts \in Lists({Plain("foo"), Plain("loc")}, 2)}
LookupLines == InfoLines \cup BatchLines \cup QueryLines
AllLines == LookupLines \cup ListingLines \cup NoTargetLines \cup FileLines

\* for the runs that exhibit one behaviour
SearchLines == {Line("OP_SEARCH", <<"aur">>, <<Plain("none"), Plain("grp")>>, FALSE, {})}
ProvidesLines == {Line("OP_INFO_P", <<"db_sync">>, ts, FALSE, {}) :
                    ts \in Lists({Plain("foo"), Plain("svc"), Plain("bar")}, 2)}
JustOneLines == {l \in InfoLines : /\ l.config.just_one /\ l.config.filter = {}
                                   /\ \A i \in 1..Len(l.targets) : l.targets[i].db = ""}
=============================================================================
