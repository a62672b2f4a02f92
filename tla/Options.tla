------------------------------ MODULE Options ------------------------------
(***************************************************************************)
(* The first half of main(): getopt_long hands over one option at a time,  *)
(* then the operands become the targets, then the combination is accepted  *)
(* or refused.  Options that only change paths, colours or the layout of   *)
(* the output are all "other".                                             *)
(*                                                                         *)
(* argv and operands are history variables: what was on the command line.  *)
(* The properties compare the result with them.                            *)
(***************************************************************************)
EXTENDS Config, FiniteSets

CONSTANTS
  OptionSet,      \* the options that may appear on the command line
  Operands,       \* the arguments that are not options
  MaxOptions,     \* bound on the number of options on one command line
  MaxOperands     \* bound on the number of operands

SourceOf == [A |-> "aur", Q |-> "db_local", S |-> "db_sync"]
FilterOf == [d |-> "F_DEPS", e |-> "F_EXPLICIT", m |-> "F_FOREIGN", n |-> "F_NATIVE",
             u |-> "F_UPGRADES"]
QueryOf  == [qdepends |-> "OP_Q_DEPENDS", qconflicts |-> "OP_Q_CONFLICTS",
             qprovides |-> "OP_Q_PROVIDES", qreplaces |-> "OP_Q_REPLACES",
             qrequires |-> "OP_Q_REQUIRES"]

AllOptions == DOMAIN SourceOf \cup DOMAIN FilterOf \cup DOMAIN QueryOf \cup
              {"1", "g", "h", "i", "L", "l", "p", "s", "t", "v", "pkgbase",
               "nameonly", "maintainer", "other", "unknown"}

ASSUME OptionsAssumption ==
  OptionSet \subseteq AllOptions /\ MaxOptions \in Nat /\ MaxOperands \in Nat

VARIABLES
  config,       \* the global aq_config
  need, given,  \* what the operation needs and what was given: N_DB, N_TARGET
  db_order,     \* how many sources were asked for; the last rank handed out
  cycle_db,     \* walk the databases even without a target
  targets,      \* the global list of targets
  pc,           \* "options", "operands", "run" (hand over) or "exit"
  status,       \* argument of exit(), once pc = "exit"
  argv, operands

vars == <<config, need, given, db_order, cycle_db, targets, pc, status, argv, operands>>

TypeOK ==
  /\ config \in ConfigType
  /\ need \in SUBSET {"N_DB", "N_TARGET"} /\ given \in SUBSET {"N_DB", "N_TARGET"}
  /\ db_order \in 0..3
  /\ cycle_db \in BOOLEAN
  /\ targets \in Seq(Operands)
  /\ pc \in {"options", "operands", "run", "exit"}
  /\ status \in 0..1

Init ==
  /\ config = InitConfig
  /\ need = {} /\ given = {}
  /\ db_order = 0
  /\ cycle_db = FALSE
  /\ targets = <<>>
  /\ pc = "options" /\ status = 0
  /\ argv = <<>> /\ operands = <<>>

-----------------------------------------------------------------------------
\* getopt_long returns option o.
Read(o) ==
  /\ pc = "options" /\ o \in OptionSet /\ Len(argv) < MaxOptions
  /\ argv' = Append(argv, o)
  /\ UNCHANGED <<targets, operands>>

Continue == UNCHANGED <<pc, status>>
Exit(n) == pc' = "exit" /\ status' = n

\* Mutant: a source given again takes another rank.
OptSourceAgain(o) ==
  /\ Read(o) /\ Continue
  /\ db_order' = db_order + 1
  /\ config' = [config EXCEPT ![SourceOf[o]] = db_order + 1]
  /\ given' = given \cup {"N_DB"}
  /\ UNCHANGED <<need, cycle_db>>

\* Mutant: the rank is counted up once for config and once for given.
OptSourceTwice(o) ==
  /\ Read(o) /\ Continue
  /\ IF config[SourceOf[o]] # 0
     THEN UNCHANGED <<config, given, db_order>>
     ELSE /\ db_order' = db_order + 2
          /\ config' = [config EXCEPT ![SourceOf[o]] = db_order + 1]
          /\ given' = given \cup {"N_DB"}
  /\ UNCHANGED <<need, cycle_db>>

\* -A, -Q, -S: the first occurrence of each takes the next rank.
OptSource(o) ==
  /\ Read(o) /\ Continue
  /\ IF config[SourceOf[o]] # 0
     THEN UNCHANGED <<config, given, db_order>>
     ELSE /\ db_order' = db_order + 1
          /\ config' = [config EXCEPT ![SourceOf[o]] = db_order + 1]
          /\ given' = given \cup {"N_DB"}
  /\ UNCHANGED <<need, cycle_db>>

\* Mutants: the last one counts; an ignored one still has its needs.
ChooseOpLast(chosen, needs, cycle) ==
  /\ config' = chosen /\ need' = need \cup needs /\ cycle_db' = (cycle_db \/ cycle)
  /\ UNCHANGED <<given, db_order>>

ChooseOpNeeds(chosen, needs, cycle) ==
  /\ config' = IF config.op # "OP_NONE" THEN config ELSE chosen
  /\ need' = need \cup needs
  /\ cycle_db' = (cycle_db \/ (config.op = "OP_NONE" /\ cycle))
  /\ UNCHANGED <<given, db_order>>

\* The options that choose an operation: only the first one counts.
ChooseOp(chosen, needs, cycle) ==
  /\ IF config.op # "OP_NONE"
     THEN UNCHANGED <<config, need, cycle_db>>
     ELSE /\ config' = chosen
          /\ need' = need \cup needs
          /\ cycle_db' = (cycle_db \/ cycle)
  /\ UNCHANGED <<given, db_order>>

OptGroups ==
  /\ Read("g") /\ Continue
  /\ ChooseOp([config EXCEPT !.op = "OP_LIST_GROUP", !.filter = @ \cup {"F_GROUP"}], {}, TRUE)

OptList ==
  /\ Read("l") /\ Continue
  /\ ChooseOp([config EXCEPT !.op = "OP_LIST_REPO"], {"N_DB"}, TRUE)

OptSearch ==
  /\ Read("s") /\ Continue
  /\ ChooseOp([config EXCEPT !.op = "OP_SEARCH"], {"N_DB"}, TRUE)

OptQuery(o) ==
  /\ Read(o) /\ Continue
  /\ ChooseOp([config EXCEPT !.op = "OP_QUERY", !.query = QueryOf[o]],
              {"N_DB", "N_TARGET"}, FALSE)

\* Mutant: -i after any other operation replaces it.
OptInfoAnyOp ==
  /\ Read("i") /\ Continue
  /\ config' = [config EXCEPT !.op = IF @ = "OP_NONE" THEN "OP_INFO" ELSE "OP_INFO_P"]
  /\ need' = need \cup {"N_DB", "N_TARGET"}
  /\ UNCHANGED <<cycle_db, given, db_order>>

\* -i: given again after -i, it also asks for packages that provide the target.
OptInfo ==
  /\ Read("i") /\ Continue
  /\ IF config.op = "OP_INFO"
     THEN /\ config' = [config EXCEPT !.op = "OP_INFO_P"]
          /\ UNCHANGED <<need, cycle_db, given, db_order>>
     ELSE ChooseOp([config EXCEPT !.op = "OP_INFO"], {"N_DB", "N_TARGET"}, FALSE)

\* -d, -e, -m, -n, -u and -t set a bit of the filter; -t again sets another one.
OptFilter(o) ==
  /\ Read(o) /\ Continue
  /\ config' = [config EXCEPT !.filter = @ \cup {FilterOf[o]}]
  /\ UNCHANGED <<need, given, db_order, cycle_db>>

OptUnrequired ==
  /\ Read("t") /\ Continue
  /\ config' = [config EXCEPT !.filter = @ \cup
                  {IF "F_UNREQUIRED" \in @ THEN "F_UNREQUIRED_2" ELSE "F_UNREQUIRED"}]
  /\ UNCHANGED <<need, given, db_order, cycle_db>>

\* -1, -L, --pkgbase, --nameonly, --maintainer only set a field.
OptFlag(o, set) ==
  /\ Read(o) /\ Continue
  /\ config' = set
  /\ UNCHANGED <<need, given, db_order, cycle_db>>

OptJustOne    == OptFlag("1", [config EXCEPT !.just_one = TRUE])
OptListRepo   == OptFlag("L", [config EXCEPT !.list = TRUE])
OptPkgbase    == OptFlag("pkgbase", [config EXCEPT !.pkgbase = TRUE])
OptNameOnly   == OptFlag("nameonly", [config EXCEPT !.name_only = TRUE])
OptMaintainer == OptFlag("maintainer", [config EXCEPT !.aur_maintainer = TRUE])
OptOther      == OptFlag("other", config)

OptFile ==
  /\ Read("p") /\ Continue
  /\ config' = [config EXCEPT !.is_file = TRUE]
  /\ need' = need \cup {"N_TARGET"}
  /\ UNCHANGED <<given, db_order, cycle_db>>

\* -h, -v and an option getopt does not know end the program on the spot.
OptLeave(o) ==
  /\ Read(o)
  /\ Exit(IF o = "unknown" THEN 1 ELSE 0)
  /\ UNCHANGED <<config, need, given, db_order, cycle_db>>

-----------------------------------------------------------------------------
\* After the loop: -L lists the repositories and leaves; an operation that
\* needs a database must have been given one.
EndOptions ==
  /\ pc = "options"
  /\ \/ config.list /\ Exit(0)
     \/ ~config.list /\ "N_DB" \in need \ given /\ Exit(1)
     \/ ~config.list /\ "N_DB" \notin need \ given /\ pc' = "operands" /\ UNCHANGED status
  /\ UNCHANGED <<config, need, given, db_order, cycle_db, targets, argv, operands>>

\* Mutant: of equal targets the last one is kept.
TakeOperandLast(x) ==
  /\ pc = "operands" /\ Len(operands) < MaxOperands
  /\ operands' = Append(operands, x)
  /\ targets' = IF config.just_one
                THEN Append(SelectSeq(targets, LAMBDA t : t # x), x) ELSE Append(targets, x)
  /\ UNCHANGED <<config, need, given, db_order, cycle_db, pc, status, argv>>

TakeOperand(x) ==
  /\ pc = "operands" /\ Len(operands) < MaxOperands
  /\ operands' = Append(operands, x)
  /\ targets' = IF config.just_one /\ \E i \in 1..Len(targets) : targets[i] = x
                THEN targets ELSE Append(targets, x)
  /\ UNCHANGED <<config, need, given, db_order, cycle_db, pc, status, argv>>

\* Mutant: a search for nothing stays one.
DefaultOpSearch(c, g) ==
  IF targets # <<>> /\ c.op = "OP_NONE" /\ "N_DB" \in g THEN "OP_INFO" ELSE c.op

\* A search for nothing lists the repositories; looking up is the default.
DefaultOp(c, g) ==
  IF targets = <<>>
  THEN IF c.op = "OP_SEARCH" /\ ~c.aur_maintainer THEN "OP_LIST_REPO_S" ELSE c.op
  ELSE IF c.op = "OP_NONE" /\ "N_DB" \in g THEN "OP_INFO" ELSE c.op

EndOperands ==
  /\ pc = "operands"
  /\ given' = IF operands = <<>> THEN given ELSE given \cup {"N_TARGET"}
  /\ IF "N_TARGET" \in need \ given'
     THEN Exit(1) /\ UNCHANGED config
     ELSE /\ pc' = "run" /\ UNCHANGED status
          /\ config' = [config EXCEPT !.op = DefaultOp(config, given')]
  /\ UNCHANGED <<need, db_order, cycle_db, targets, argv, operands>>

Next ==
  \/ \E o \in DOMAIN SourceOf : OptSource(o)
  \/ \E o \in DOMAIN FilterOf : OptFilter(o)
  \/ \E o \in DOMAIN QueryOf : OptQuery(o)
  \/ \E o \in {"h", "v", "unknown"} : OptLeave(o)
  \/ OptGroups \/ OptInfo \/ OptList \/ OptSearch
  \/ OptUnrequired \/ OptFile
  \/ OptJustOne \/ OptListRepo \/ OptPkgbase \/ OptNameOnly \/ OptMaintainer \/ OptOther
  \/ EndOptions
  \/ \E x \in Operands : TakeOperand(x)
  \/ EndOperands

Spec == Init /\ [][Next]_vars

-----------------------------------------------------------------------------
(***************************************************************************)
(* Properties.                                                             *)
(***************************************************************************)

Given(o) == \E i \in 1..Len(argv) : argv[i] = o

\* o occurs on the command line, no later than any p
GivenBefore(o, p) ==
  \E i \in 1..Len(argv) : argv[i] = o /\ \A j \in 1..(i - 1) : argv[j] # p

\* Whatever was typed before, after and in between, the dispatch loop starts
\* from a configuration it can work with: dense ranks, a target and a source
\* for every operation that needs them, a query kind exactly when querying.
HandoverWellFormed ==
  pc = "run" => WellFormed(config, db_order, cycle_db, targets)

\* The sources are searched in the order in which they were first asked for:
\* the rank of a source is its place among the first occurrences.
RanksFollowOrder ==
  \A o \in DOMAIN SourceOf :
    config[SourceOf[o]] =
      IF Given(o) THEN Cardinality({p \in DOMAIN SourceOf : GivenBefore(p, o)}) ELSE 0

OpOf(o) ==
  CASE o = "g" -> "OP_LIST_GROUP" [] o = "l" -> "OP_LIST_REPO" [] o = "s" -> "OP_SEARCH"
    [] o = "i" -> IF \E j, k \in 1..Len(argv) : j < k /\ argv[j] = "i" /\ argv[k] = "i"
                  THEN "OP_INFO_P" ELSE "OP_INFO"
    [] OTHER   -> "OP_QUERY"

OpOptions == {"g", "i", "l", "s"} \cup DOMAIN QueryOf

\* While options are read the operation is the one of the first option that
\* names an operation; later ones change nothing, except a second -i after -i.
OpIsFirstGiven ==
  pc \in {"options", "operands"} =>
    \/ config.op = "OP_NONE" /\ \A o \in OpOptions : ~Given(o)
    \/ \E o \in OpOptions :
         /\ \A p \in OpOptions \ {o} : GivenBefore(o, p)
         /\ config.op = OpOf(o)
         /\ config.op = "OP_QUERY" => config.query = QueryOf[o]

\* An option that was ignored imposes nothing: what is needed is what the
\* chosen operation needs, and a target for -p.
NeedsOfChosenOp ==
  pc \in {"options", "operands"} =>
    need = (IF config.op \in {"OP_INFO", "OP_INFO_P", "OP_QUERY"} THEN {"N_DB", "N_TARGET"}
            ELSE IF config.op \in {"OP_LIST_REPO", "OP_SEARCH"} THEN {"N_DB"} ELSE {})
           \cup (IF Given("p") THEN {"N_TARGET"} ELSE {})

\* What becomes of the k-th operand: under --just-one, wherever it stood, the
\* first of equal ones is a target, otherwise all are.
IsKept(k) == config.just_one => \A j \in 1..(k - 1) : operands[j] # operands[k]

\* The targets are the operands that are kept, each once and in the order in
\* which they were typed; f tells which operand a target is.
OperandsKept ==
  \E f \in [1..Len(targets) -> 1..Len(operands)] :
    /\ \A i, j \in 1..Len(targets) : i < j => f[i] < f[j]
    /\ \A i \in 1..Len(targets) : targets[i] = operands[f[i]]
    /\ \A k \in 1..Len(operands) : (\E i \in 1..Len(targets) : f[i] = k) <=> IsKept(k)

\* Once an operation is chosen no step replaces it: it can only be refined,
\* -i to -ii, or a search without words to a listing at the hand-over.
OpLatched ==
  [][\/ config.op = "OP_NONE"
     \/ config'.op = config.op
     \/ config.op = "OP_INFO" /\ config'.op = "OP_INFO_P"
     \/ config.op = "OP_SEARCH" /\ config'.op = "OP_LIST_REPO_S" /\ pc' = "run"]_vars
=============================================================================
