-------------------------------- MODULE Alpm --------------------------------
(***************************************************************************)
(* The package databases, as package-query sees them through libalpm and   *)
(* the AUR's RPC interface, and the tests the program applies to a package *)
(* and a target: target_check_version, target_compatible, filter, ...      *)
(*                                                                         *)
(* A version is a number (alpm_pkg_vercmp is libalpm's total order) and a  *)
(* search word is matched when it is a member of a package's words.        *)
(***************************************************************************)
EXTENDS Config, FiniteSets

CONSTANTS
  SyncDbs,   \* the names of the sync databases, in the order of the config file
  Cache,     \* database name -> its packages, in the order of its package cache
  AurPkgs    \* the packages of the AUR

SyncNames == {SyncDbs[i] : i \in 1..Len(SyncDbs)}
DbNames == SyncNames \cup {"local"}

\* The packages of database db, and the one with a given name.
PkgsOf(db) == {Cache[db][i] : i \in 1..Len(Cache[db])}
DbGetPkg(db, name) == {p \in PkgsOf(db) : p.name = name}

\* A target is what target_parse makes of an argument or of a dependency:
\* [db, name, mod, ver] with db = "" when none was given.
Target == [db : STRING, name : STRING, mod : {"ANY", "EQ", "GE", "LE", "GT", "LT"}, ver : Nat]

\* What libalpm and the AUR guarantee: a package knows its database, its
\* dependencies of each kind are a list of targets, a name occurs once in a
\* database, and no database is called "local" or "aur".
ASSUME DatabasesAssumption ==
  /\ SyncDbs \in Seq(STRING) /\ {"local", "aur"} \cap SyncNames = {}
  /\ \A i, j \in 1..Len(SyncDbs) : SyncDbs[i] = SyncDbs[j] => i = j
  /\ \A db \in DbNames :
       /\ Cache[db] \in Seq(PkgsOf(db))
       /\ \A i, j \in 1..Len(Cache[db]) : Cache[db][i] = Cache[db][j] => i = j
       /\ \A p, q \in PkgsOf(db) : p.db = db /\ (p.name = q.name => p = q)
       /\ \A p \in PkgsOf(db) : p.rel \in [QueryType \ {"OP_Q_ALL"} -> Seq(Target)]
  /\ \A p, q \in AurPkgs : p.db = "aur" /\ (p.name = q.name => p = q)

-----------------------------------------------------------------------------
TargetCheckVersion(t, ver) ==
  \/ t.mod = "ANY"
  \/ t.mod = "LE" /\ ver <= t.ver
  \/ t.mod = "GE" /\ ver >= t.ver
  \/ t.mod = "LT" /\ ver < t.ver
  \/ t.mod = "GT" /\ ver > t.ver
  \/ t.mod = "EQ" /\ ver = t.ver

\* May dependency t1 of a package stand for target t2?
TargetCompatible(t1, t2) ==
  /\ t2.mod \in {"EQ", "ANY"}
  /\ t1.name = t2.name
  /\ t1.mod = "ANY" \/ t2.mod = "ANY" \/ TargetCheckVersion(t1, t2.ver)

\* A target may name the database it is to be found in.
TargetNamesDb(t, db) == t.db = "" \/ t.db = db

-----------------------------------------------------------------------------
\* get_sync_pkg_by_name: the package of that name in the first database that has one.
GetSyncPkgByName(name) ==
  {p \in UNION {PkgsOf(db) : db \in SyncNames} :
     /\ p.name = name
     /\ \A i, j \in 1..Len(SyncDbs) :
          i < j /\ SyncDbs[j] = p.db => DbGetPkg(SyncDbs[i], name) = {}}

\* get_sync_pkg: a package of a sync database stands for itself.
GetSyncPkg(p) == IF p.db = "local" THEN GetSyncPkgByName(p.name) ELSE {p}

\* alpm_sync_get_new_version
HasNewVersion(p) == \E q \in GetSyncPkgByName(p.name) : q.ver > p.ver

Filter(p, flags) ==
  /\ "F_FOREIGN"    \in flags => GetSyncPkg(p) = {}
  /\ "F_NATIVE"     \in flags => GetSyncPkg(p) # {}
  /\ "F_EXPLICIT"   \in flags => p.explicit
  /\ "F_DEPS"       \in flags => ~p.explicit
  /\ "F_UNREQUIRED" \in flags => /\ p.rel["OP_Q_REQUIRES"] = <<>>
                                 /\ "F_UNREQUIRED_2" \in flags \/ ~p.optional
  /\ "F_UPGRADES"   \in flags => HasNewVersion(p)
  /\ "F_GROUP"      \in flags => p.groups # {}

-----------------------------------------------------------------------------
\* alpm_db_search: every word matches; no word, no result.
DbSearch(db, words) == {p \in PkgsOf(db) : words # {} /\ words \subseteq p.words}

\* does_name_contain_targets, for a search
NameContainsTargets(p, words) == words # {} /\ words \subseteq p.namewords

\* aur_request_search asks for one word (by name, by maintainer or in general);
\* the empty word is sent when there is no target, and stands for "no maintainer".
SearchReply(c, word) ==
  {p \in AurPkgs : IF c.name_only THEN word \in p.namewords
                   ELSE IF c.aur_maintainer THEN p.maintainer = word
                   ELSE word \in p.words}

\* aur_request_info asks for a set of names.
InfoReply(names) == {p \in AurPkgs : p.name \in names}
=============================================================================
