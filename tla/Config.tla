------------------------------- MODULE Config -------------------------------
(***************************************************************************)
(* The configuration that main() builds from the command line and that the *)
(* rest of package-query reads (struct aq_config, src/src/util.h), reduced *)
(* to the fields that decide what is searched and where.                   *)
(*                                                                         *)
(* WellFormed is the contract between the two halves of the program: the   *)
(* option parser (module Options) establishes it, the dispatch loop        *)
(* (module PackageQuery) starts from it.                                   *)
(***************************************************************************)
EXTENDS Integers, Sequences

\* optype_t, with "OP_NONE" for the value 0 left by memset.
OpType == {"OP_NONE", "OP_LIST_GROUP", "OP_INFO", "OP_INFO_P", "OP_LIST_REPO",
           "OP_LIST_REPO_S", "OP_SEARCH", "OP_QUERY"}

\* qtype_t.
QueryType == {"OP_Q_ALL", "OP_Q_DEPENDS", "OP_Q_CONFLICTS", "OP_Q_PROVIDES",
              "OP_Q_REPLACES", "OP_Q_REQUIRES"}

\* The bits of config.filter.
FilterFlag == {"F_FOREIGN", "F_EXPLICIT", "F_DEPS", "F_UNREQUIRED",
               "F_UPGRADES", "F_GROUP", "F_NATIVE", "F_UNREQUIRED_2"}

\* The three places a package can come from; config has one rank field each.
Source == {"aur", "db_local", "db_sync"}

\* A field holding a Source's rank is 0 when the source was not asked for.
ConfigType ==
  [op : OpType, query : QueryType, filter : SUBSET FilterFlag,
   aur : 0..3, db_local : 0..3, db_sync : 0..3,
   just_one : BOOLEAN, is_file : BOOLEAN, list : BOOLEAN,
   aur_maintainer : BOOLEAN, name_only : BOOLEAN, pkgbase : BOOLEAN]

\* init_config(): everything zero but the query kind, which is zero by name.
InitConfig ==
  [op |-> "OP_NONE", query |-> "OP_Q_ALL", filter |-> {},
   aur |-> 0, db_local |-> 0, db_sync |-> 0,
   just_one |-> FALSE, is_file |-> FALSE, list |-> FALSE,
   aur_maintainer |-> FALSE, name_only |-> FALSE, pkgbase |-> FALSE]

\* The operations for which main() walks the databases even without a target.
CycleOps == {"OP_LIST_GROUP", "OP_LIST_REPO", "OP_LIST_REPO_S", "OP_SEARCH"}

(***************************************************************************)
(* What holds when option parsing hands over to the dispatch loop.         *)
(***************************************************************************)

\* The ranks of the sources asked for are exactly 1..db_order, each used once.
RanksDense(c, db_order) ==
  /\ \A r \in 1..db_order : \E s \in Source : c[s] = r
  /\ \A s \in Source : c[s] <= db_order
  /\ \A s, t \in Source : c[s] = c[t] /\ c[s] # 0 => s = t

\* An operation that looks something up has a target and a place to look.
LookupHasTarget(c, targets) ==
  /\ c.op \in {"OP_INFO", "OP_INFO_P", "OP_QUERY"} => targets # <<>>
  /\ c.op = "OP_SEARCH" => targets # <<>> \/ c.aur_maintainer
  /\ c.op = "OP_LIST_REPO_S" => targets = <<>>

OpHasSource(c, db_order) ==
  c.op \notin {"OP_NONE", "OP_LIST_GROUP"} => db_order > 0

\* With a source and a target there is always something to do.
TargetHasOp(c, db_order, targets) ==
  targets # <<>> /\ db_order > 0 => c.op # "OP_NONE"

QueryMatchesOp(c) == c.op = "OP_QUERY" <=> c.query # "OP_Q_ALL"

GroupMatchesOp(c) == "F_GROUP" \in c.filter <=> c.op = "OP_LIST_GROUP"

\* --just-one removes repeated targets, whatever the order of the options.
TargetsDistinct(c, targets) ==
  c.just_one => \A i, j \in 1..Len(targets) : targets[i] = targets[j] => i = j

WellFormed(c, db_order, cycle_db, targets) ==
  /\ RanksDense(c, db_order)
  /\ LookupHasTarget(c, targets)
  /\ OpHasSource(c, db_order)
  /\ TargetHasOp(c, db_order, targets)
  /\ QueryMatchesOp(c)
  /\ GroupMatchesOp(c)
  /\ TargetsDistinct(c, targets)
  /\ cycle_db <=> c.op \in CycleOps
=============================================================================
