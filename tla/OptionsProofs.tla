--------------------------- MODULE OptionsProofs ---------------------------
(***************************************************************************)
(* For every set of options and operands and every length of the command   *)
(* line: the parser hands over a well-formed configuration.                *)
(***************************************************************************)
EXTENDS Options, Counting

\* The parts of the inductive invariant: what holds of the sources, ...
SourcesInv ==
  /\ RanksDense(config, db_order)
  /\ "N_DB" \in given <=> db_order > 0
  /\ given \subseteq {"N_DB"}

\* ... of the operation while options and operands are read, ...
OpInv ==
  /\ config.op \in {"OP_INFO", "OP_INFO_P", "OP_QUERY"} => {"N_DB", "N_TARGET"} \subseteq need
  /\ config.op \in {"OP_LIST_REPO", "OP_SEARCH"} => "N_DB" \in need
  /\ config.op # "OP_LIST_REPO_S"
  /\ QueryMatchesOp(config)
  /\ GroupMatchesOp(config)
  /\ cycle_db <=> config.op \in CycleOps

\* ... and of the targets.
TargetsInv ==
  /\ operands \in Seq(Operands)
  /\ targets = <<>> <=> operands = <<>>
  /\ TargetsDistinct(config, targets)
  /\ pc = "options" => targets = <<>>
  /\ pc = "operands" => "N_DB" \notin need \ given

ParserInv ==
  /\ TypeOK
  /\ pc \in {"options", "operands"} => SourcesInv /\ OpInv /\ TargetsInv
  /\ HandoverWellFormed

-----------------------------------------------------------------------------
LEMMA OptionTables ==
  /\ DOMAIN SourceOf = {"A", "Q", "S"}
  /\ \A o \in DOMAIN SourceOf : SourceOf[o] \in Source
  /\ \A o \in DOMAIN FilterOf : FilterOf[o] \in FilterFlag \ {"F_GROUP"}
  /\ \A o \in DOMAIN QueryOf : QueryOf[o] \in QueryType \ {"OP_Q_ALL"}
BY DEF SourceOf, FilterOf, QueryOf, Source, FilterFlag, QueryType

\* Giving the next rank to a source that has none keeps the ranks dense.
LEMMA NextRank ==
  ASSUME NEW c \in ConfigType, NEW n \in 0..3, RanksDense(c, n),
         NEW s \in Source, c[s] = 0, NEW d \in ConfigType,
         d = [c EXCEPT ![s] = n + 1]
  PROVE  RanksDense(d, n + 1) /\ n + 1 \in 0..3
<1>1. /\ d[s] = n + 1
      /\ \A t \in Source \ {s} : d[t] = c[t]
      /\ \A t \in Source : c[t] \in 0..3
  BY DEF ConfigType, Source
<1>2. RanksDense(d, n + 1)
  BY <1>1 DEF RanksDense
<1>3. n + 1 \in 0..3
  BY DEF RanksDense, Source
<1>. QED BY <1>2, <1>3
-----------------------------------------------------------------------------
LEMMA InitParserInv == Init => ParserInv
<1>. SUFFICES ASSUME Init PROVE ParserInv
  OBVIOUS
<1>1. config \in ConfigType
  BY DEF Init, InitConfig, ConfigType, OpType, QueryType
<1>2. TypeOK
  <2>1. need \in SUBSET {"N_DB", "N_TARGET"} /\ given \in SUBSET {"N_DB", "N_TARGET"}
    BY DEF Init
  <2>2. targets \in Seq(Operands)
    BY DEF Init
  <2>3. cycle_db \in BOOLEAN
    BY DEF Init
  <2>. QED BY <1>1, <2>1, <2>2, <2>3 DEF Init, TypeOK
<1>3. SourcesInv
  BY DEF Init, SourcesInv, RanksDense, InitConfig, Source
<1>4. OpInv
  BY DEF Init, OpInv, QueryMatchesOp, GroupMatchesOp, InitConfig, CycleOps
<1>5. TargetsInv
  BY DEF Init, TargetsInv, TargetsDistinct, InitConfig
<1>. QED
  BY <1>2, <1>3, <1>4, <1>5 DEF ParserInv, HandoverWellFormed, Init

\* An option read by getopt leaves the targets and the control state alone, so
\* an action that reads one has to keep the sources and the operation in order.
LEMMA OptionStep ==
  ASSUME ParserInv, NEW o, Read(o), UNCHANGED <<pc, status>>,
         config' \in ConfigType, config'.just_one \in BOOLEAN,
         need' \in SUBSET {"N_DB", "N_TARGET"}, given' \in SUBSET {"N_DB", "N_TARGET"},
         cycle_db' \in BOOLEAN, db_order' \in 0..3,
         SourcesInv', OpInv'
  PROVE  ParserInv'
<1>1. TypeOK'
  BY DEF ParserInv, TypeOK, Read
<1>2. TargetsInv'
  BY DEF ParserInv, TypeOK, TargetsInv, TargetsDistinct, Read
<1>. QED
  BY <1>1, <1>2 DEF ParserInv, HandoverWellFormed, Read

\* Options that touch neither the sources nor the operation.
LEMMA FieldStep ==
  ASSUME ParserInv, NEW o, Read(o), UNCHANGED <<pc, status, given, db_order, cycle_db>>,
         config' \in ConfigType,
         config'.op = config.op, config'.query = config.query,
         \A s \in Source : config'[s] = config[s],
         "F_GROUP" \in config'.filter <=> "F_GROUP" \in config.filter,
         need' \in SUBSET {"N_DB", "N_TARGET"}, need \subseteq need'
  PROVE  ParserInv'
<1>1. SourcesInv'
  BY DEF ParserInv, SourcesInv, RanksDense, Read
<1>2. OpInv'
  BY DEF ParserInv, OpInv, QueryMatchesOp, GroupMatchesOp, Read
<1>. QED
  BY <1>1, <1>2, OptionStep DEF ParserInv, TypeOK, ConfigType

\* Options that choose the operation.
LEMMA ChooseOpStep ==
  ASSUME ParserInv, NEW o, Read(o), Continue,
         NEW chosen \in ConfigType, NEW needs \in SUBSET {"N_DB", "N_TARGET"},
         NEW cycle \in BOOLEAN, ChooseOp(chosen, needs, cycle),
         \A s \in Source : chosen[s] = config[s],
         chosen.op \in OpType \ {"OP_NONE", "OP_LIST_REPO_S"},
         chosen.op \in {"OP_INFO", "OP_INFO_P", "OP_QUERY"} => {"N_DB", "N_TARGET"} \subseteq needs,
         chosen.op \in {"OP_LIST_REPO", "OP_SEARCH"} => "N_DB" \in needs,
         config.op = "OP_NONE" => QueryMatchesOp(chosen) /\ GroupMatchesOp(chosen),
         cycle <=> chosen.op \in CycleOps
  PROVE  ParserInv'
<1>0. ParserInv /\ pc = "options" /\ TypeOK /\ SourcesInv /\ OpInv
  BY DEF ParserInv, Read
<1>1. CASE config.op # "OP_NONE"
  BY <1>0, <1>1, FieldStep DEF ChooseOp, Continue, TypeOK
<1>2. CASE config.op = "OP_NONE"
  <2>1. config' = chosen /\ need' = need \cup needs /\ cycle_db' = (cycle_db \/ cycle)
        /\ UNCHANGED <<given, db_order, pc, status>>
    BY <1>2 DEF ChooseOp, Continue
  <2>2. SourcesInv'
    BY <1>0, <2>1 DEF SourcesInv, RanksDense
  <2>3. OpInv'
    BY <1>0, <1>2, <2>1 DEF OpInv, QueryMatchesOp, GroupMatchesOp, CycleOps
  <2>. QED
    BY <1>0, <2>1, <2>2, <2>3, OptionStep DEF TypeOK, ConfigType
<1>. QED BY <1>1, <1>2
LEMMA OptionActions ==
  ASSUME ParserInv,
         \/ \E o \in DOMAIN SourceOf : OptSource(o)
         \/ \E o \in DOMAIN FilterOf : OptFilter(o)
         \/ OptUnrequired \/ OptFile
         \/ OptJustOne \/ OptListRepo \/ OptPkgbase \/ OptNameOnly \/ OptMaintainer \/ OptOther
  PROVE  ParserInv'
<1>0. TypeOK /\ (pc = "options" => SourcesInv /\ OpInv)
  BY DEF ParserInv
<1>1. ASSUME NEW o \in DOMAIN SourceOf, OptSource(o) PROVE ParserInv'
  <2>1. CASE config[SourceOf[o]] # 0
    BY <1>0, <1>1, <2>1, FieldStep DEF OptSource, Continue, TypeOK
  <2>2. CASE config[SourceOf[o]] = 0
    <3> DEFINE s == SourceOf[o]
    <3>1. s \in Source /\ config[s] = 0
      BY <2>2, OptionTables
    <3>2. /\ config' = [config EXCEPT ![s] = db_order + 1] /\ db_order' = db_order + 1
          /\ given' = given \cup {"N_DB"} /\ Read(o)
          /\ UNCHANGED <<need, cycle_db, pc, status>>
      BY <1>1, <2>2 DEF OptSource, Continue
    <3>3. SourcesInv /\ OpInv /\ config \in ConfigType /\ db_order \in 0..3
      BY <1>0, <3>2 DEF Read, TypeOK
    <3>4. db_order + 1 \in 0..3
      BY <3>1, <3>3 DEF SourcesInv, RanksDense, Source
    <3>5. /\ config' \in ConfigType
          /\ config'.op = config.op /\ config'.query = config.query
          /\ config'.filter = config.filter
      BY <3>1, <3>2, <3>3, <3>4 DEF ConfigType, Source
    <3>6. RanksDense(config', db_order + 1)
      BY <3>1, <3>2, <3>3, <3>5, NextRank DEF SourcesInv
    <3>7. SourcesInv'
      BY <3>2, <3>3, <3>6 DEF SourcesInv
    <3>8. OpInv'
      BY <3>2, <3>3, <3>5 DEF OpInv, QueryMatchesOp, GroupMatchesOp
    <3>. QED
      BY <1>0, <3>2, <3>4, <3>5, <3>7, <3>8, OptionStep DEF TypeOK, ConfigType
  <2>. QED BY <2>1, <2>2
<1>2. ASSUME NEW o \in DOMAIN FilterOf, OptFilter(o) PROVE ParserInv'
  <2>1. FilterOf[o] \in FilterFlag \ {"F_GROUP"}
    BY OptionTables
  <2>. QED
    BY <1>0, <1>2, <2>1, FieldStep DEF OptFilter, Continue, TypeOK, ConfigType, Source
<1>3. CASE OptUnrequired
  BY <1>0, <1>3, FieldStep DEF OptUnrequired, Continue, TypeOK, ConfigType, Source, FilterFlag
<1>4. CASE OptFile
  BY <1>0, <1>4, FieldStep DEF OptFile, Continue, TypeOK, ConfigType, Source
<1>5. CASE OptJustOne
  BY <1>0, <1>5, FieldStep DEF OptJustOne, OptFlag, Continue, TypeOK, ConfigType, Source
<1>6. CASE OptListRepo
  BY <1>0, <1>6, FieldStep DEF OptListRepo, OptFlag, Continue, TypeOK, ConfigType, Source
<1>7. CASE OptPkgbase
  BY <1>0, <1>7, FieldStep DEF OptPkgbase, OptFlag, Continue, TypeOK, ConfigType, Source
<1>8. CASE OptNameOnly
  BY <1>0, <1>8, FieldStep DEF OptNameOnly, OptFlag, Continue, TypeOK, ConfigType, Source
<1>9. CASE OptMaintainer
  BY <1>0, <1>9, FieldStep DEF OptMaintainer, OptFlag, Continue, TypeOK, ConfigType, Source
<1>10. CASE OptOther
  BY <1>0, <1>10, FieldStep DEF OptOther, OptFlag, Continue, TypeOK, ConfigType, Source
<1>. QED
  BY <1>1, <1>2, <1>3, <1>4, <1>5, <1>6, <1>7, <1>8, <1>9, <1>10

LEMMA OperationActions ==
  ASSUME ParserInv,
         \/ \E o \in DOMAIN QueryOf : OptQuery(o)
         \/ OptGroups \/ OptInfo \/ OptList \/ OptSearch
  PROVE  ParserInv'
<1>0. config \in ConfigType /\ (pc = "options" => OpInv)
  BY DEF ParserInv, TypeOK
<1>1. ASSUME NEW o \in DOMAIN QueryOf, OptQuery(o) PROVE ParserInv'
  <2>1. QueryOf[o] \in QueryType \ {"OP_Q_ALL"}
    BY OptionTables
  <2> DEFINE chosen == [config EXCEPT !.op = "OP_QUERY", !.query = QueryOf[o]]
  <2>2. chosen \in ConfigType /\ \A s \in Source : chosen[s] = config[s]
    BY <1>0, <2>1 DEF ConfigType, OpType, Source
  <2>3. config.op = "OP_NONE" => QueryMatchesOp(chosen) /\ GroupMatchesOp(chosen)
    BY <1>0, <1>1, <2>1 DEF OptQuery, Read, OpInv, QueryMatchesOp, GroupMatchesOp, ConfigType
  <2>4. chosen.op = "OP_QUERY"
    BY <1>0 DEF ConfigType
  <2>. QED
    BY <1>1, <2>2, <2>3, <2>4, ChooseOpStep DEF OptQuery, OpType, CycleOps
<1>2. CASE OptGroups
  <2> DEFINE chosen == [config EXCEPT !.op = "OP_LIST_GROUP", !.filter = @ \cup {"F_GROUP"}]
  <2>1. chosen \in ConfigType /\ \A s \in Source : chosen[s] = config[s]
    BY <1>0 DEF ConfigType, OpType, Source, FilterFlag
  <2>2. config.op = "OP_NONE" => QueryMatchesOp(chosen) /\ GroupMatchesOp(chosen)
    BY <1>0, <1>2 DEF OptGroups, Read, OpInv, QueryMatchesOp, GroupMatchesOp, ConfigType
  <2>3. chosen.op = "OP_LIST_GROUP"
    BY <1>0 DEF ConfigType
  <2>. QED
    BY <1>2, <2>1, <2>2, <2>3, ChooseOpStep DEF OptGroups, OpType, CycleOps
<1>3. CASE OptList
  <2> DEFINE chosen == [config EXCEPT !.op = "OP_LIST_REPO"]
  <2>1. chosen \in ConfigType /\ \A s \in Source : chosen[s] = config[s]
    BY <1>0 DEF ConfigType, OpType, Source
  <2>2. config.op = "OP_NONE" => QueryMatchesOp(chosen) /\ GroupMatchesOp(chosen)
    BY <1>0, <1>3 DEF OptList, Read, OpInv, QueryMatchesOp, GroupMatchesOp, ConfigType
  <2>3. chosen.op = "OP_LIST_REPO"
    BY <1>0 DEF ConfigType
  <2>. QED
    BY <1>3, <2>1, <2>2, <2>3, ChooseOpStep DEF OptList, OpType, CycleOps
<1>4. CASE OptSearch
  <2> DEFINE chosen == [config EXCEPT !.op = "OP_SEARCH"]
  <2>1. chosen \in ConfigType /\ \A s \in Source : chosen[s] = config[s]
    BY <1>0 DEF ConfigType, OpType, Source
  <2>2. config.op = "OP_NONE" => QueryMatchesOp(chosen) /\ GroupMatchesOp(chosen)
    BY <1>0, <1>4 DEF OptSearch, Read, OpInv, QueryMatchesOp, GroupMatchesOp, ConfigType
  <2>3. chosen.op = "OP_SEARCH"
    BY <1>0 DEF ConfigType
  <2>. QED
    BY <1>4, <2>1, <2>2, <2>3, ChooseOpStep DEF OptSearch, OpType, CycleOps
<1>5. CASE OptInfo /\ config.op # "OP_INFO"
  <2> DEFINE chosen == [config EXCEPT !.op = "OP_INFO"]
  <2>1. chosen \in ConfigType /\ \A s \in Source : chosen[s] = config[s]
    BY <1>0 DEF ConfigType, OpType, Source
  <2>2. config.op = "OP_NONE" => QueryMatchesOp(chosen) /\ GroupMatchesOp(chosen)
    BY <1>0, <1>5 DEF OptInfo, Read, OpInv, QueryMatchesOp, GroupMatchesOp, ConfigType
  <2>3. chosen.op = "OP_INFO"
    BY <1>0 DEF ConfigType
  <2>. QED
    BY <1>5, <2>1, <2>2, <2>3, ChooseOpStep DEF OptInfo, OpType, CycleOps
<1>6. CASE OptInfo /\ config.op = "OP_INFO"
  <2>1. /\ Read("i") /\ UNCHANGED <<pc, status, need, given, cycle_db, db_order>>
        /\ config' = [config EXCEPT !.op = "OP_INFO_P"]
        /\ TypeOK /\ SourcesInv /\ OpInv
    BY <1>6 DEF OptInfo, Continue, ParserInv, Read
  <2>2. /\ config' \in ConfigType /\ config'.op = "OP_INFO_P"
        /\ config'.query = config.query /\ config'.filter = config.filter
        /\ \A s \in Source : config'[s] = config[s]
    BY <1>0, <2>1 DEF ConfigType, OpType, Source
  <2>3. SourcesInv'
    BY <2>1, <2>2 DEF SourcesInv, RanksDense
  <2>4. OpInv'
    BY <1>6, <2>1, <2>2 DEF OpInv, QueryMatchesOp, GroupMatchesOp, CycleOps
  <2>. QED
    BY <2>1, <2>2, <2>3, <2>4, OptionStep DEF TypeOK, ConfigType
<1>. QED
  BY <1>1, <1>2, <1>3, <1>4, <1>5, <1>6
LEMMA EndOptionsStep ==
  ASSUME ParserInv, EndOptions
  PROVE  ParserInv'
<1>1. TypeOK /\ SourcesInv /\ OpInv /\ TargetsInv
  BY DEF EndOptions, ParserInv
<1>2. TypeOK'
  BY <1>1 DEF EndOptions, TypeOK, Exit
<1>3. (SourcesInv /\ OpInv)'
  BY <1>1 DEF EndOptions, SourcesInv, OpInv
<1>4. pc' = "operands" => TargetsInv'
  BY <1>1 DEF EndOptions, Exit, TargetsInv
<1>. QED
  BY <1>2, <1>3, <1>4 DEF EndOptions, Exit, ParserInv, HandoverWellFormed

\* The test of alpm_list_find_str keeps the targets distinct under --just-one.
LEMMA TakeOperandStep ==
  ASSUME ParserInv, NEW x \in Operands, TakeOperand(x)
  PROVE  ParserInv'
<1>1. TypeOK /\ SourcesInv /\ OpInv /\ TargetsInv
  BY DEF TakeOperand, ParserInv
<1>2. targets' \in Seq(Operands)
  BY <1>1 DEF TakeOperand, TypeOK
<1>3. TypeOK'
  BY <1>1, <1>2 DEF TakeOperand, TypeOK
<1>4. (SourcesInv /\ OpInv)'
  BY <1>1 DEF TakeOperand, SourcesInv, OpInv
<1>5. TargetsDistinct(config, targets)'
  BY <1>1 DEF TakeOperand, TypeOK, TargetsInv, TargetsDistinct
<1>6. targets' # <<>> /\ operands' # <<>> /\ operands' \in Seq(Operands)
  BY <1>1 DEF TakeOperand, TypeOK, TargetsInv
<1>. QED
  BY <1>1, <1>3, <1>4, <1>5, <1>6
  DEF TakeOperand, TargetsInv, ParserInv, HandoverWellFormed

LEMMA EndOperandsStep ==
  ASSUME ParserInv, EndOperands
  PROVE  ParserInv'
<1>1. TypeOK /\ SourcesInv /\ OpInv /\ TargetsInv /\ pc = "operands"
  BY DEF EndOperands, ParserInv
<1>2. CASE pc' = "exit"
  BY <1>1, <1>2 DEF EndOperands, Exit, TypeOK, ParserInv, HandoverWellFormed
<1>3. CASE pc' = "run"
  <2> DEFINE op == DefaultOp(config, given')
  <2>1. /\ config' = [config EXCEPT !.op = op]
        /\ UNCHANGED <<need, db_order, cycle_db, targets, status>>
        /\ "N_TARGET" \in need => operands # <<>> \/ "N_TARGET" \in given
        /\ given' = IF operands = <<>> THEN given ELSE given \cup {"N_TARGET"}
        /\ "N_TARGET" \notin need \ given'
    BY <1>1, <1>3 DEF EndOperands, Exit
  <2>2. op \in OpType
    BY <1>1 DEF DefaultOp, TypeOK, ConfigType, OpType
  <2>3. /\ config' \in ConfigType /\ config'.op = op
        /\ config'.query = config.query /\ config'.filter = config.filter
        /\ config'.just_one = config.just_one
        /\ config'.aur_maintainer = config.aur_maintainer
        /\ \A s \in Source : config'[s] = config[s]
    BY <1>1, <2>1, <2>2 DEF TypeOK, ConfigType, Source
  <2>4. TypeOK'
    BY <1>1, <1>3, <2>1, <2>3 DEF TypeOK
  <2>5. RanksDense(config', db_order')
    <3>1. RanksDense(config, db_order)
      BY <1>1 DEF SourcesInv
    <3> DEFINE c == config
               d == config'
    <3>2. RanksDense(c, db_order) /\ \A s \in Source : d[s] = c[s]
      BY <2>3, <3>1
    <3>3. db_order' = db_order
      BY <2>1
    <3>. HIDE DEF c, d
    <3>4. RanksDense(d, db_order)
      BY <3>2 DEF RanksDense
    <3>. QED BY <3>3, <3>4 DEF d
  <2>6. /\ QueryMatchesOp(config') /\ GroupMatchesOp(config')
        /\ cycle_db' <=> op \in CycleOps
    BY <1>1, <2>1, <2>3 DEF OpInv, QueryMatchesOp, GroupMatchesOp, CycleOps, DefaultOp
  <2>7. LookupHasTarget(config', targets')
    BY <1>1, <2>1, <2>3 DEF SourcesInv, OpInv, TargetsInv, DefaultOp, LookupHasTarget
  <2>8. OpHasSource(config', db_order') /\ TargetHasOp(config', db_order', targets')
    BY <1>1, <2>1, <2>3 DEF SourcesInv, OpInv, TargetsInv, TypeOK, ConfigType, OpType,
                            DefaultOp, OpHasSource, TargetHasOp
  <2>9. TargetsDistinct(config', targets')
    BY <1>1, <2>1, <2>3 DEF TargetsInv, TargetsDistinct
  <2>. QED
    BY <1>3, <2>3, <2>4, <2>5, <2>6, <2>7, <2>8, <2>9
    DEF ParserInv, HandoverWellFormed, WellFormed
<1>. QED
  BY <1>2, <1>3 DEF EndOperands, Exit
-----------------------------------------------------------------------------
LEMMA NextParserInv == ParserInv /\ [Next]_vars => ParserInv'
<1>. SUFFICES ASSUME ParserInv, [Next]_vars PROVE ParserInv'
  OBVIOUS
<1>1. ASSUME NEW o \in {"h", "v", "unknown"}, OptLeave(o) PROVE ParserInv'
  BY <1>1 DEF OptLeave, Read, Exit, ParserInv, TypeOK, HandoverWellFormed
<1>2. CASE UNCHANGED vars
  <2>1. TypeOK' /\ HandoverWellFormed'
    BY <1>2 DEF vars, ParserInv, TypeOK, HandoverWellFormed
  <2>2. pc \in {"options", "operands"} => (SourcesInv /\ OpInv /\ TargetsInv)'
    BY <1>2 DEF vars, ParserInv, SourcesInv, OpInv, TargetsInv
  <2>. QED BY <1>2, <2>1, <2>2 DEF vars, ParserInv
<1>. QED
  BY <1>1, <1>2, OptionActions, OperationActions, EndOptionsStep, TakeOperandStep,
     EndOperandsStep
  DEF Next

\* The variables keep their types: in particular no source ever gets a rank
\* above 3, however long the command line.
THEOREM OptionsTypeCorrect == Spec => []TypeOK
<1>1. ParserInv => TypeOK
  BY DEF ParserInv
<1>. QED
  BY <1>1, InitParserInv, NextParserInv, PTL DEF Spec

\* main() enters its dispatch loop with a well-formed configuration only:
\* dense ranks, a target and a source wherever the operation needs them, a
\* query kind exactly when querying, distinct targets under --just-one.
THEOREM OptionsHandover == Spec => []HandoverWellFormed
<1>1. ParserInv => HandoverWellFormed
  BY DEF ParserInv
<1>. QED
  BY <1>1, InitParserInv, NextParserInv, PTL DEF Spec

\* The operation, once chosen, is refined but never replaced.
THEOREM OptionsOpLatched == Spec => OpLatched
<1>1. ParserInv /\ [Next]_vars =>
        [\/ config.op = "OP_NONE"
         \/ config'.op = config.op
         \/ config.op = "OP_INFO" /\ config'.op = "OP_INFO_P"
         \/ config.op = "OP_SEARCH" /\ config'.op = "OP_LIST_REPO_S" /\ pc' = "run"]_vars
  <2>. SUFFICES ASSUME ParserInv, Next, config.op # "OP_NONE", config'.op # config.op
                PROVE  \/ config.op = "OP_INFO" /\ config'.op = "OP_INFO_P"
                       \/ config.op = "OP_SEARCH" /\ config'.op = "OP_LIST_REPO_S" /\ pc' = "run"
    OBVIOUS
  <2>1. config \in ConfigType
    BY DEF ParserInv, TypeOK
  <2>2. ASSUME NEW o \in DOMAIN SourceOf, OptSource(o) PROVE FALSE
    BY <2>1, <2>2, OptionTables DEF OptSource, ConfigType, Source
  <2>3. ASSUME NEW o \in DOMAIN FilterOf, OptFilter(o) PROVE FALSE
    BY <2>1, <2>3 DEF OptFilter, ConfigType
  <2>4. ASSUME NEW o \in DOMAIN QueryOf, OptQuery(o) PROVE FALSE
    BY <2>4 DEF OptQuery, ChooseOp
  <2>5. ASSUME NEW o \in {"h", "v", "unknown"}, OptLeave(o) PROVE FALSE
    BY <2>5 DEF OptLeave
  <2>6. ~OptGroups /\ ~OptList /\ ~OptSearch
    BY DEF OptGroups, OptList, OptSearch, ChooseOp
  <2>7. CASE OptInfo
    BY <2>1, <2>7 DEF OptInfo, ChooseOp, ConfigType
  <2>8. ~OptUnrequired /\ ~OptFile /\ ~OptJustOne /\ ~OptListRepo /\ ~OptPkgbase
        /\ ~OptNameOnly /\ ~OptMaintainer /\ ~OptOther
    BY <2>1 DEF OptUnrequired, OptFile, OptJustOne, OptListRepo, OptPkgbase, OptNameOnly,
                OptMaintainer, OptOther, OptFlag, ConfigType
  <2>9. ~EndOptions /\ \A x \in Operands : ~TakeOperand(x)
    BY DEF EndOptions, TakeOperand
  <2>10. CASE EndOperands
    BY <2>1, <2>10 DEF EndOperands, DefaultOp, ConfigType
  <2>. QED
    BY <2>2, <2>3, <2>4, <2>5, <2>6, <2>7, <2>8, <2>9, <2>10 DEF Next
<1>. QED
  BY <1>1, InitParserInv, NextParserInv, PTL DEF Spec, OpLatched
-----------------------------------------------------------------------------
(***************************************************************************)
(* What the variables say of the command line read so far.                 *)
(***************************************************************************)
Sources == DOMAIN SourceOf
Twice == \E j, k \in 1..Len(argv) : j < k /\ argv[j] = "i" /\ argv[k] = "i"

\* Every option that was given has a first place; as many sources have a rank as
\* were asked for.
ArgvInv ==
  /\ argv \in Seq(OptionSet)
  /\ \A o \in AllOptions : Given(o) => GivenBefore(o, o)
  /\ db_order = Cardinality({p \in Sources : Given(p)})

\* One more option.
LEMMA Appended ==
  ASSUME argv \in Seq(OptionSet), NEW x \in OptionSet, argv' = Append(argv, x)
  PROVE  /\ argv' \in Seq(OptionSet)
         /\ \A o : Given(o)' <=> Given(o) \/ o = x
         /\ \A o, p : GivenBefore(o, p)' <=> GivenBefore(o, p) \/ (o = x /\ ~Given(p))
         /\ Twice' <=> Twice \/ (x = "i" /\ Given("i"))
<1> DEFINE n == Len(argv)
           a == argv
           b == argv'
<1>1. /\ b \in Seq(OptionSet) /\ n \in Nat /\ Len(b) = n + 1 /\ b[n + 1] = x
      /\ \A i \in 1..n : b[i] = a[i] /\ i \in 1..(n + 1)
  OBVIOUS
<1>. HIDE DEF n, b
<1>2. \A i : i \in 1..(n + 1) <=> i \in 1..n \/ i = n + 1
  BY <1>1
<1>3. \A i \in 1..n : 1..(i - 1) \subseteq 1..n
  BY <1>1
<1>4. 1..((n + 1) - 1) = 1..n
  BY <1>1
<1>5. ASSUME NEW o PROVE Given(o)' <=> Given(o) \/ o = x
  BY <1>1, <1>2 DEF Given, n, b
<1>6. ASSUME NEW o, NEW p
      PROVE  GivenBefore(o, p)' <=> GivenBefore(o, p) \/ (o = x /\ ~Given(p))
  <2>1. GivenBefore(o, p)' <=> \E i \in 1..(n + 1) : b[i] = o /\ \A j \in 1..(i - 1) : b[j] # p
    BY <1>1 DEF GivenBefore, b
  <2>2. \A i \in 1..n : (b[i] = o /\ \A j \in 1..(i - 1) : b[j] # p) <=>
                        (a[i] = o /\ \A j \in 1..(i - 1) : a[j] # p)
    BY <1>1, <1>3
  <2>3. (b[n + 1] = o /\ \A j \in 1..((n + 1) - 1) : b[j] # p) <=> (o = x /\ ~Given(p))
    BY <1>1, <1>4 DEF Given, n
  <2>4. GivenBefore(o, p) <=> \E i \in 1..n : a[i] = o /\ \A j \in 1..(i - 1) : a[j] # p
    BY DEF GivenBefore, n
  <2>. QED BY <1>2, <2>1, <2>2, <2>3, <2>4
<1>7. Twice' <=> Twice \/ (x = "i" /\ Given("i"))
  <2>1. ASSUME NEW j \in 1..(n + 1), NEW k \in 1..(n + 1), j < k, b[j] = "i", b[k] = "i"
        PROVE  Twice \/ (x = "i" /\ Given("i"))
    <3>1. j \in 1..n /\ a[j] = "i"
      BY <1>1, <2>1
    <3>2. CASE k \in 1..n
      BY <1>1, <2>1, <3>1, <3>2 DEF Twice, n
    <3>3. CASE k = n + 1
      BY <1>1, <2>1, <3>1, <3>3 DEF Given, n
    <3>. QED BY <1>2, <3>2, <3>3
  <2>2. Twice => Twice'
    BY <1>1 DEF Twice, n, b
  <2>3. ASSUME x = "i", NEW j \in 1..n, a[j] = "i" PROVE Twice'
    <3>1. j \in 1..(n + 1) /\ n + 1 \in 1..(n + 1) /\ j < n + 1 /\ b[j] = "i" /\ b[n + 1] = "i"
      BY <1>1, <2>3
    <3>. QED BY <1>1, <3>1 DEF Twice, b
  <2>4. Twice' => Twice \/ (x = "i" /\ Given("i"))
    BY <1>1, <2>1 DEF Twice, b
  <2>. QED BY <2>2, <2>3, <2>4 DEF Given, n
<1>. QED BY <1>1, <1>5, <1>6, <1>7 DEF b

\* Before p was given, what was given was given before p.
LEMMA BeforeGiven ==
  ASSUME argv \in Seq(OptionSet), NEW o, NEW p
  PROVE  (GivenBefore(o, p) => Given(o)) /\ (Given(o) /\ ~Given(p) => GivenBefore(o, p))
<1>1. \A i \in 1..Len(argv) : 1..(i - 1) \subseteq 1..Len(argv)
  OBVIOUS
<1>. QED BY <1>1 DEF GivenBefore, Given
SourcesGiven == {p \in Sources : Given(p)}
SourcesBefore(o) == {p \in Sources : GivenBefore(p, o)}

LEMMA SourcesFinite == \A S \in SUBSET Sources : IsFiniteSet(S) /\ Cardinality(S) \in Nat
<1>1. IsFiniteSet({"A", "Q", "S"})
  <2>1. IsFiniteSet({}) /\ IsFiniteSet({} \cup {"A"})
    BY FS_EmptySet, FS_AddElement
  <2>2. IsFiniteSet(({} \cup {"A"}) \cup {"Q"})
    BY <2>1, FS_AddElement
  <2>3. IsFiniteSet((({} \cup {"A"}) \cup {"Q"}) \cup {"S"})
    BY <2>2, FS_AddElement
  <2>4. (({} \cup {"A"}) \cup {"Q"}) \cup {"S"} = {"A", "Q", "S"}
    OBVIOUS
  <2>. QED BY <2>3, <2>4
<1>2. Sources = {"A", "Q", "S"}
  BY OptionTables DEF Sources
<1>. QED BY <1>1, <1>2, FS_Subset, FS_CardinalityType

RankInv == ArgvInv /\ RanksFollowOrder

\* A source has a rank exactly when it was given.
LEMMA RankedGiven ==
  ASSUME RankInv, NEW o \in Sources
  PROVE  Given(o) <=> config[SourceOf[o]] # 0
<1>1. config[SourceOf[o]] = IF Given(o) THEN Cardinality(SourcesBefore(o)) ELSE 0
  BY DEF RankInv, RanksFollowOrder, SourcesBefore, Sources
<1>2. ASSUME Given(o) PROVE Cardinality(SourcesBefore(o)) # 0
  <2>1. o \in AllOptions
    BY DEF AllOptions, Sources
  <2>2. o \in SourcesBefore(o)
    BY <1>2, <2>1 DEF RankInv, ArgvInv, SourcesBefore
  <2>3. IsFiniteSet(SourcesBefore(o))
    BY SourcesFinite DEF SourcesBefore
  <2>. QED BY <2>2, <2>3, FS_EmptySet
<1>. QED BY <1>1, <1>2

\* An option that gives no source a rank.
LEMMA RankSame ==
  ASSUME OptionsAssumption, RankInv, NEW x \in OptionSet, argv' = Append(argv, x),
         x \in Sources => Given(x),
         db_order' = db_order, \A o \in Sources : config'[SourceOf[o]] = config[SourceOf[o]]
  PROVE  RankInv'
<1>0. argv \in Seq(OptionSet)
  BY DEF RankInv, ArgvInv
<1>1. /\ argv' \in Seq(OptionSet)
      /\ \A o : Given(o)' <=> Given(o) \/ o = x
      /\ \A o, p : GivenBefore(o, p)' <=> GivenBefore(o, p) \/ (o = x /\ ~Given(p))
  BY <1>0, Appended
<1>2. \A o \in Sources : Given(o)' <=> Given(o)
  BY <1>1
<1>3. SourcesGiven' = SourcesGiven
  BY <1>2 DEF SourcesGiven
<1>4. \A o \in Sources : Given(o) => SourcesBefore(o)' = SourcesBefore(o)
  BY <1>1 DEF SourcesBefore
<1>5. ASSUME NEW o \in Sources
      PROVE  config'[SourceOf[o]] = IF Given(o)' THEN Cardinality(SourcesBefore(o)') ELSE 0
  <2>1. config[SourceOf[o]] = IF Given(o) THEN Cardinality(SourcesBefore(o)) ELSE 0
    BY DEF RankInv, RanksFollowOrder, SourcesBefore, Sources
  <2>. QED BY <1>2, <1>4, <2>1
<1>6. RanksFollowOrder'
  BY <1>5 DEF RanksFollowOrder, SourcesBefore, Sources
<1>7. \A o \in AllOptions : Given(o)' => GivenBefore(o, o)'
  BY <1>1 DEF RankInv, ArgvInv
<1>8. db_order' = Cardinality(SourcesGiven')
  BY <1>3 DEF RankInv, ArgvInv, SourcesGiven
<1>. QED BY <1>1, <1>6, <1>7, <1>8 DEF RankInv, ArgvInv, SourcesGiven

\* A source that is given for the first time.
LEMMA RankNext ==
  ASSUME OptionsAssumption, RankInv, NEW x \in OptionSet, argv' = Append(argv, x),
         x \in Sources, ~Given(x), db_order' = db_order + 1,
         config'[SourceOf[x]] = db_order + 1,
         \A o \in Sources \ {x} : config'[SourceOf[o]] = config[SourceOf[o]]
  PROVE  RankInv'
<1>0. argv \in Seq(OptionSet)
  BY DEF RankInv, ArgvInv
<1>1. /\ argv' \in Seq(OptionSet)
      /\ \A o : Given(o)' <=> Given(o) \/ o = x
      /\ \A o, p : GivenBefore(o, p)' <=> GivenBefore(o, p) \/ (o = x /\ ~Given(p))
  BY <1>0, Appended
<1>2. SourcesGiven' = SourcesGiven \cup {x} /\ x \notin SourcesGiven
  BY <1>1 DEF SourcesGiven
<1>3. Cardinality(SourcesGiven') = db_order + 1
  <2>1. IsFiniteSet(SourcesGiven) /\ db_order = Cardinality(SourcesGiven)
    BY SourcesFinite DEF SourcesGiven, RankInv, ArgvInv
  <2>. QED BY <1>2, <2>1, FS_AddElement
<1>4. SourcesBefore(x)' = SourcesGiven'
  <2>1. \A p : GivenBefore(p, x) <=> Given(p)
    <3>1. \A p : (GivenBefore(p, x) => Given(p)) /\ (Given(p) /\ ~Given(x) => GivenBefore(p, x))
      BY <1>0, BeforeGiven
    <3>. QED BY <3>1
  <2>. QED BY <1>1, <2>1 DEF SourcesBefore, SourcesGiven
<1>5. \A o \in Sources \ {x} : (Given(o)' <=> Given(o))
                               /\ (Given(o) => SourcesBefore(o)' = SourcesBefore(o))
  BY <1>1 DEF SourcesBefore
<1>6. ASSUME NEW o \in Sources
      PROVE  config'[SourceOf[o]] = IF Given(o)' THEN Cardinality(SourcesBefore(o)') ELSE 0
  <2>1. CASE o = x
    BY <1>1, <1>3, <1>4, <2>1
  <2>2. CASE o # x
    <3>1. config[SourceOf[o]] = IF Given(o) THEN Cardinality(SourcesBefore(o)) ELSE 0
      BY DEF RankInv, RanksFollowOrder, SourcesBefore, Sources
    <3>. QED BY <1>5, <2>2, <3>1
  <2>. QED BY <2>1, <2>2
<1>7. RanksFollowOrder'
  BY <1>6 DEF RanksFollowOrder, SourcesBefore, Sources
<1>8. \A o \in AllOptions : Given(o)' => GivenBefore(o, o)'
  BY <1>1 DEF RankInv, ArgvInv
<1>. QED BY <1>1, <1>3, <1>7, <1>8 DEF RankInv, ArgvInv, SourcesGiven

LEMMA InitRank == ASSUME Init PROVE RankInv
<1>1. argv = <<>> /\ db_order = 0 /\ config = InitConfig
  BY DEF Init
<1>2. \A o : ~Given(o)
  BY <1>1 DEF Given
<1>3. Cardinality({p \in Sources : Given(p)}) = 0
  BY <1>2, FS_EmptySet
<1>4. RanksFollowOrder
  BY <1>1, <1>2 DEF RanksFollowOrder, SourceOf, InitConfig
<1>. QED BY <1>1, <1>2, <1>3, <1>4 DEF RankInv, ArgvInv
-----------------------------------------------------------------------------
(***************************************************************************)
(* The options by what they change: nothing that matters here, or the      *)
(* operation.                                                              *)
(***************************************************************************)
\* What option x alone asks for, and what operation op needs.
OpNamed(x) ==
  IF x = "g" THEN "OP_LIST_GROUP" ELSE IF x = "l" THEN "OP_LIST_REPO"
  ELSE IF x = "s" THEN "OP_SEARCH" ELSE IF x = "i" THEN "OP_INFO" ELSE "OP_QUERY"
NeedsOf(op) ==
  IF op \in {"OP_INFO", "OP_INFO_P", "OP_QUERY"} THEN {"N_DB", "N_TARGET"}
  ELSE IF op \in {"OP_LIST_REPO", "OP_SEARCH"} THEN {"N_DB"} ELSE {}

LEMMA OpOfNamed ==
  /\ \A x : OpOf(x) = IF x = "i" /\ Twice THEN "OP_INFO_P" ELSE OpNamed(x)
  /\ \A x : OpOf(x)' = IF x = "i" /\ Twice' THEN "OP_INFO_P" ELSE OpNamed(x)
BY DEF OpOf, OpNamed, Twice

OtherKept(x) ==
  /\ x \in OptionSet /\ x \notin Sources \cup OpOptions
  /\ pc = "options" /\ argv' = Append(argv, x) /\ UNCHANGED <<targets, operands>>
  /\ db_order' = db_order /\ config'.op = config.op /\ config'.query = config.query
  /\ \A o \in Sources : config'[SourceOf[o]] = config[SourceOf[o]]
  /\ need' = need \cup (IF x = "p" THEN {"N_TARGET"} ELSE {})

OpRead(x) ==
  /\ x \in OptionSet /\ x \in OpOptions
  /\ pc = "options" /\ argv' = Append(argv, x) /\ UNCHANGED <<targets, operands>>
  /\ db_order' = db_order
  /\ \A o \in Sources : config'[SourceOf[o]] = config[SourceOf[o]]
  /\ \/ /\ config.op # "OP_NONE" /\ config' = config /\ need' = need
        /\ ~(x = "i" /\ config.op = "OP_INFO")
     \/ /\ config.op = "OP_NONE" /\ config'.op = OpNamed(x)
        /\ x \in DOMAIN QueryOf => config'.query = QueryOf[x]
        /\ need' = need \cup NeedsOf(OpNamed(x))
     \/ /\ config.op = "OP_INFO" /\ x = "i" /\ config'.op = "OP_INFO_P" /\ need' = need

LEMMA OptionNames ==
  /\ Sources = {"A", "Q", "S"} /\ DOMAIN FilterOf = {"d", "e", "m", "n", "u"}
  /\ DOMAIN QueryOf = {"qdepends", "qconflicts", "qprovides", "qreplaces", "qrequires"}
  /\ OpOptions = {"g", "i", "l", "s", "qdepends", "qconflicts", "qprovides", "qreplaces", "qrequires"}
  /\ \A o \in Sources : SourceOf[o] \in {"aur", "db_local", "db_sync"}
<1>1. Sources = {"A", "Q", "S"} /\ \A o \in Sources : SourceOf[o] \in {"aur", "db_local", "db_sync"}
  BY OptionTables DEF Sources, Source
<1>2. DOMAIN FilterOf = {"d", "e", "m", "n", "u"}
  BY DEF FilterOf
<1>3. DOMAIN QueryOf = {"qdepends", "qconflicts", "qprovides", "qreplaces", "qrequires"}
  BY DEF QueryOf
<1>4. OpOptions = {"g", "i", "l", "s"} \cup
        {"qdepends", "qconflicts", "qprovides", "qreplaces", "qrequires"}
  BY <1>3 DEF OpOptions
<1>. QED BY <1>1, <1>2, <1>3, <1>4

LEMMA OtherOptions ==
  ASSUME ParserInv,
         \/ \E o \in DOMAIN FilterOf : OptFilter(o)
         \/ \E o \in {"h", "v", "unknown"} : OptLeave(o)
         \/ OptUnrequired \/ OptFile
         \/ OptJustOne \/ OptListRepo \/ OptPkgbase \/ OptNameOnly \/ OptMaintainer \/ OptOther
  PROVE  \E x : OtherKept(x)
<1>0. config \in ConfigType
  BY DEF ParserInv, TypeOK
<1>1. ASSUME NEW o \in DOMAIN FilterOf, OptFilter(o) PROVE OtherKept(o)
  BY <1>0, <1>1, OptionNames DEF OptFilter, Read, OtherKept, ConfigType
<1>2. ASSUME NEW o \in {"h", "v", "unknown"}, OptLeave(o) PROVE OtherKept(o)
  BY <1>0, <1>2, OptionNames DEF OptLeave, Read, OtherKept, ConfigType
<1>3. CASE OptUnrequired
  <2>1. OtherKept("t")
    BY <1>0, <1>3, OptionNames DEF OptUnrequired, Read, OtherKept, ConfigType
  <2>. QED BY <2>1
<1>4. CASE OptFile
  <2>1. OtherKept("p")
    BY <1>0, <1>4, OptionNames DEF OptFile, Read, OtherKept, ConfigType
  <2>. QED BY <2>1
<1>5. CASE OptJustOne
  <2>1. OtherKept("1")
    BY <1>0, <1>5, OptionNames DEF OptJustOne, OptFlag, Read, OtherKept, ConfigType
  <2>. QED BY <2>1
<1>6. CASE OptListRepo
  <2>1. OtherKept("L")
    BY <1>0, <1>6, OptionNames DEF OptListRepo, OptFlag, Read, OtherKept, ConfigType
  <2>. QED BY <2>1
<1>7. CASE OptPkgbase
  <2>1. OtherKept("pkgbase")
    BY <1>0, <1>7, OptionNames DEF OptPkgbase, OptFlag, Read, OtherKept, ConfigType
  <2>. QED BY <2>1
<1>8. CASE OptNameOnly
  <2>1. OtherKept("nameonly")
    BY <1>0, <1>8, OptionNames DEF OptNameOnly, OptFlag, Read, OtherKept, ConfigType
  <2>. QED BY <2>1
<1>9. CASE OptMaintainer
  <2>1. OtherKept("maintainer")
    BY <1>0, <1>9, OptionNames DEF OptMaintainer, OptFlag, Read, OtherKept, ConfigType
  <2>. QED BY <2>1
<1>10. CASE OptOther
  <2>1. OtherKept("other")
    BY <1>0, <1>10, OptionNames DEF OptOther, OptFlag, Read, OtherKept, ConfigType
  <2>. QED BY <2>1
<1>. QED BY <1>1, <1>2, <1>3, <1>4, <1>5, <1>6, <1>7, <1>8, <1>9, <1>10

LEMMA OpsRead ==
  ASSUME ParserInv,
         \/ \E o \in DOMAIN QueryOf : OptQuery(o)
         \/ OptGroups \/ OptInfo \/ OptList \/ OptSearch
  PROVE  \E x : OpRead(x)
<1>0. config \in ConfigType
  BY DEF ParserInv, TypeOK
<1>1. ASSUME NEW o \in DOMAIN QueryOf, OptQuery(o) PROVE OpRead(o)
  <2>1. OpNamed(o) = "OP_QUERY" /\ NeedsOf("OP_QUERY") = {"N_DB", "N_TARGET"} /\ o # "i"
    BY OptionNames DEF OpNamed, NeedsOf
  <2>2. /\ o \in OptionSet /\ o \in OpOptions /\ pc = "options" /\ argv' = Append(argv, o)
        /\ UNCHANGED <<targets, operands>> /\ db_order' = db_order
    BY <1>1 DEF OptQuery, Read, ChooseOp, OpOptions
  <2>3. CASE config.op # "OP_NONE"
    BY <1>1, <2>1, <2>2, <2>3 DEF OptQuery, ChooseOp, OpRead
  <2>4. CASE config.op = "OP_NONE"
    <3> DEFINE q == QueryOf[o]
    <3>1. config' = [config EXCEPT !.op = "OP_QUERY", !.query = q]
          /\ need' = need \cup {"N_DB", "N_TARGET"}
      BY <1>1, <2>4 DEF OptQuery, ChooseOp
    <3>. HIDE DEF q
    <3>2. /\ config'.op = "OP_QUERY" /\ config'.query = q
          /\ \A s \in Sources : config'[SourceOf[s]] = config[SourceOf[s]]
      BY <1>0, <3>1, OptionNames DEF ConfigType
    <3>. QED BY <2>1, <2>2, <2>4, <3>1, <3>2 DEF OpRead, q
  <2>. QED BY <2>3, <2>4
<1>2. CASE OptGroups
  <2>1. OpNamed("g") = "OP_LIST_GROUP" /\ NeedsOf("OP_LIST_GROUP") = {}
    BY DEF OpNamed, NeedsOf
  <2>2. OpRead("g")
    <3>1. /\ "g" \in OptionSet /\ "g" \in OpOptions /\ pc = "options" /\ argv' = Append(argv, "g")
          /\ UNCHANGED <<targets, operands>> /\ db_order' = db_order
      BY <1>2, OptionNames DEF OptGroups, ChooseOp, Read
    <3>2. CASE config.op # "OP_NONE"
      BY <1>2, <3>1, <3>2 DEF OptGroups, ChooseOp, OpRead
    <3>3. CASE config.op = "OP_NONE"
      <4>1. /\ config' = [config EXCEPT !.op = "OP_LIST_GROUP", !.filter = @ \cup {"F_GROUP"}]
            /\ need' = need
        BY <1>2, <3>3 DEF OptGroups, ChooseOp
      <4>2. /\ config'.op = "OP_LIST_GROUP"
            /\ \A s \in Sources : config'[SourceOf[s]] = config[SourceOf[s]]
        BY <1>0, <4>1, OptionNames DEF ConfigType
      <4>. QED BY <2>1, <3>1, <3>3, <4>1, <4>2, OptionNames DEF OpRead
    <3>. QED BY <3>2, <3>3
  <2>. QED BY <2>2
<1>3. CASE OptList
  <2>1. OpNamed("l") = "OP_LIST_REPO" /\ NeedsOf("OP_LIST_REPO") = {"N_DB"}
    BY DEF OpNamed, NeedsOf
  <2>2. OpRead("l")
    BY <1>0, <1>3, <2>1, OptionNames DEF OptList, ChooseOp, Read, OpRead, ConfigType
  <2>. QED BY <2>2
<1>4. CASE OptSearch
  <2>1. OpNamed("s") = "OP_SEARCH" /\ NeedsOf("OP_SEARCH") = {"N_DB"}
    BY DEF OpNamed, NeedsOf
  <2>2. OpRead("s")
    BY <1>0, <1>4, <2>1, OptionNames DEF OptSearch, ChooseOp, Read, OpRead, ConfigType
  <2>. QED BY <2>2
<1>5. CASE OptInfo
  <2>1. OpNamed("i") = "OP_INFO" /\ NeedsOf("OP_INFO") = {"N_DB", "N_TARGET"}
    BY DEF OpNamed, NeedsOf
  <2>2. CASE config.op = "OP_INFO"
    <3>1. OpRead("i")
      BY <1>0, <1>5, <2>2, OptionNames DEF OptInfo, Read, OpRead, ConfigType
    <3>. QED BY <3>1
  <2>3. CASE config.op # "OP_INFO"
    <3>1. OpRead("i")
      BY <1>0, <1>5, <2>1, <2>3, OptionNames DEF OptInfo, ChooseOp, Read, OpRead, ConfigType
    <3>. QED BY <3>1
  <2>. QED BY <2>2, <2>3
<1>. QED BY <1>1, <1>2, <1>3, <1>4, <1>5
-----------------------------------------------------------------------------
(***************************************************************************)
(* The operation and what it needs.                                        *)
(***************************************************************************)
FirstGiven ==
  \/ config.op = "OP_NONE" /\ \A o \in OpOptions : ~Given(o)
  \/ \E o \in OpOptions :
       /\ \A p \in OpOptions \ {o} : GivenBefore(o, p)
       /\ config.op = OpOf(o)
       /\ config.op = "OP_QUERY" => config.query = QueryOf[o]

NeedsChosen == need = NeedsOf(config.op) \cup (IF Given("p") THEN {"N_TARGET"} ELSE {})

\* An option that names no operation.
LEMMA OtherKeepsFirst ==
  ASSUME argv \in Seq(OptionSet), FirstGiven, NeedsChosen,
         NEW x \in OptionSet, x \notin OpOptions, argv' = Append(argv, x),
         config'.op = config.op, config'.query = config.query,
         need' = need \cup (IF x = "p" THEN {"N_TARGET"} ELSE {})
  PROVE  FirstGiven' /\ NeedsChosen'
<1>1. /\ \A o : Given(o)' <=> Given(o) \/ o = x
      /\ \A o, p : GivenBefore(o, p)' <=> GivenBefore(o, p) \/ (o = x /\ ~Given(p))
      /\ Twice' <=> Twice \/ (x = "i" /\ Given("i"))
  BY Appended
<1>2. /\ x \notin OpOptions /\ x # "i" /\ config'.op = config.op /\ config'.query = config.query
      /\ need' = need \cup (IF x = "p" THEN {"N_TARGET"} ELSE {})
  BY OptionNames
<1>3. \A o \in OpOptions : OpOf(o)' = OpOf(o)
  BY <1>1, <1>2, OpOfNamed
<1>4. FirstGiven'
  BY <1>1, <1>2, <1>3 DEF FirstGiven
<1>5. Given("p")' <=> Given("p") \/ x = "p"
  BY <1>1
<1>6. NeedsChosen'
  BY <1>2, <1>5 DEF NeedsChosen
<1>. QED BY <1>4, <1>6

LEMMA OpKeepsFirst ==
  ASSUME argv \in Seq(OptionSet), FirstGiven, NeedsChosen, NEW x, OpRead(x)
  PROVE  FirstGiven' /\ NeedsChosen'
<1>0. x \in OpOptions /\ x # "p" /\ "i" \in OpOptions
  BY OptionNames DEF OpRead
<1>1. /\ \A o : Given(o)' <=> Given(o) \/ o = x
      /\ \A o, p : GivenBefore(o, p)' <=> GivenBefore(o, p) \/ (o = x /\ ~Given(p))
      /\ Twice' <=> Twice \/ (x = "i" /\ Given("i"))
  BY Appended DEF OpRead
<1>2. \A o \in OpOptions : OpOf(o) # "OP_NONE"
  BY OpOfNamed DEF OpNamed
<1>3. Given("p")' <=> Given("p")
  BY <1>0, <1>1
<1>4. ASSUME config.op # "OP_NONE", config' = config, need' = need,
             ~(x = "i" /\ config.op = "OP_INFO")
      PROVE  FirstGiven' /\ NeedsChosen'
  <2>1. PICK o \in OpOptions :
               /\ \A p \in OpOptions \ {o} : GivenBefore(o, p)
               /\ config.op = OpOf(o)
               /\ config.op = "OP_QUERY" => config.query = QueryOf[o]
    BY <1>4 DEF FirstGiven
  <2>2. OpOf(o)' = OpOf(o)
    BY <1>1, <1>4, <2>1, OpOfNamed DEF OpNamed
  <2>3. FirstGiven'
    BY <1>1, <1>4, <2>1, <2>2 DEF FirstGiven
  <2>4. NeedsChosen'
    BY <1>3, <1>4 DEF NeedsChosen
  <2>. QED BY <2>3, <2>4
<1>5. ASSUME config.op = "OP_NONE", config'.op = OpNamed(x),
             x \in DOMAIN QueryOf => config'.query = QueryOf[x],
             need' = need \cup NeedsOf(OpNamed(x))
      PROVE  FirstGiven' /\ NeedsChosen'
  <2>1. \A o \in OpOptions : ~Given(o)
    BY <1>2, <1>5 DEF FirstGiven
  <2>2. ~Twice
    <3>1. ~Given("i")
      BY <1>0, <2>1
    <3>. QED BY <3>1 DEF Twice, Given
  <2>3. OpOf(x)' = OpNamed(x)
    BY <1>0, <1>1, <2>1, <2>2, OpOfNamed
  <2>4. OpNamed(x) = "OP_QUERY" => x \in DOMAIN QueryOf
    BY <1>0, OptionNames DEF OpNamed
  <2>5. \A p \in OpOptions \ {x} : GivenBefore(x, p)'
    BY <1>1, <2>1
  <2>6. FirstGiven'
    BY <1>0, <1>5, <2>3, <2>4, <2>5 DEF FirstGiven
  <2>7. need' = NeedsOf(config'.op) \cup (IF Given("p")' THEN {"N_TARGET"} ELSE {})
    <3>1. need = IF Given("p") THEN {"N_TARGET"} ELSE {}
      BY <1>5 DEF NeedsChosen, NeedsOf
    <3>. QED BY <1>3, <1>5, <3>1
  <2>. QED BY <2>6, <2>7 DEF NeedsChosen
<1>6. ASSUME config.op = "OP_INFO", x = "i", config'.op = "OP_INFO_P", need' = need
      PROVE  FirstGiven' /\ NeedsChosen'
  <2>1. PICK o \in OpOptions :
               /\ \A p \in OpOptions \ {o} : GivenBefore(o, p)
               /\ config.op = OpOf(o)
    BY <1>6 DEF FirstGiven
  <2>2. o = "i"
    BY <1>6, <2>1, OpOfNamed DEF OpNamed
  <2>3. Given("i")
    <3>1. GivenBefore("i", "g")
      BY <2>1, <2>2, OptionNames
    <3>. QED BY <3>1, BeforeGiven
  <2>4. OpOf("i")' = "OP_INFO_P"
    BY <1>1, <1>6, <2>3, OpOfNamed
  <2>5. \A p \in OpOptions \ {"i"} : GivenBefore("i", p)'
    BY <1>1, <2>1, <2>2
  <2>6. FirstGiven'
    BY <1>0, <1>6, <2>4, <2>5 DEF FirstGiven
  <2>7. NeedsChosen'
    BY <1>3, <1>6 DEF NeedsChosen, NeedsOf
  <2>. QED BY <2>6, <2>7
<1>. QED BY <1>4, <1>5, <1>6 DEF OpRead

\* A source leaves the operation alone.
LEMMA SourceRead ==
  ASSUME ParserInv, NEW x \in DOMAIN SourceOf, OptSource(x)
  PROVE  /\ x \in OptionSet /\ pc = "options" /\ argv' = Append(argv, x)
         /\ config'.op = config.op /\ config'.query = config.query /\ need' = need
         /\ UNCHANGED <<targets, operands>>
         /\ config[SourceOf[x]] # 0 => config' = config /\ db_order' = db_order
         /\ config[SourceOf[x]] = 0 =>
              /\ db_order' = db_order + 1 /\ config'[SourceOf[x]] = db_order + 1
              /\ \A o \in Sources \ {x} : config'[SourceOf[o]] = config[SourceOf[o]]
<1>0. config \in ConfigType
  BY DEF ParserInv, TypeOK
<1>1. \A o \in Sources \ {x} : SourceOf[o] # SourceOf[x]
  BY DEF SourceOf, Sources
<1>2. SourceOf[x] \in {"aur", "db_local", "db_sync"} /\ \A o \in Sources : SourceOf[o] \in {"aur", "db_local", "db_sync"}
  BY OptionNames DEF Sources
<1>3. /\ x \in OptionSet /\ pc = "options" /\ argv' = Append(argv, x) /\ need' = need
      /\ UNCHANGED <<targets, operands>>
  BY DEF OptSource, Read
<1>4. CASE config[SourceOf[x]] # 0
  BY <1>3, <1>4 DEF OptSource
<1>5. CASE config[SourceOf[x]] = 0
  <2> DEFINE s == SourceOf[x]
             r == db_order + 1
  <2>1. config' = [config EXCEPT ![s] = r] /\ db_order' = r
    BY <1>5 DEF OptSource
  <2>. HIDE DEF s, r
  <2>2. s \in {"aur", "db_local", "db_sync"}
    BY <1>2 DEF s
  <2>3. config'.op = config.op /\ config'.query = config.query /\ config'[s] = r
    BY <1>0, <2>1, <2>2 DEF ConfigType
  <2>4. \A k \in {"aur", "db_local", "db_sync"} \ {s} : config'[k] = config[k]
    BY <1>0, <2>1 DEF ConfigType
  <2>. QED BY <1>1, <1>2, <1>3, <1>5, <2>1, <2>3, <2>4 DEF s, r
<1>. QED BY <1>4, <1>5
-----------------------------------------------------------------------------
(***************************************************************************)
(* The targets and the operands.                                           *)
(***************************************************************************)
\* Each target is an operand, and they are in the order of the operands.
Picks(f, s, t) ==
  /\ f \in [1..Len(s) -> 1..Len(t)]
  /\ \A i \in 1..Len(s) : s[i] = t[f[i]]
  /\ \A i, j \in 1..Len(s) : i < j => f[i] < f[j]
IsIn(x, s) == \E j \in 1..Len(s) : s[j] = x

\* The k-th operand is a target; it is one that is to be a target.
IsPicked(f, m, k) == \E i \in 1..m : f[i] = k
IsFirst(t, k) == \A j \in 1..(k - 1) : t[j] # t[k]

KeptBy(f, s, t, one) ==
  /\ Picks(f, s, t)
  /\ \A k \in 1..Len(t) : IsPicked(f, Len(s), k) <=> (one => IsFirst(t, k))

LEMMA KeptByOne == OperandsKept <=> \E f : KeptBy(f, targets, operands, config.just_one)
<1>1. ASSUME NEW k PROVE IsKept(k) <=> (config.just_one => IsFirst(operands, k))
  BY Zenon DEF IsKept, IsFirst
<1>2. ASSUME OperandsKept PROVE \E f : KeptBy(f, targets, operands, config.just_one)
  BY <1>1, <1>2, Zenon DEF OperandsKept, KeptBy, Picks, IsPicked
<1>3. ASSUME NEW f, KeptBy(f, targets, operands, config.just_one) PROVE OperandsKept
  BY <1>1, <1>3, Zenon DEF OperandsKept, KeptBy, Picks, IsPicked
<1>. QED BY <1>2, <1>3, Zenon

LEMMA KeptByOneNext ==
  OperandsKept' <=> \E f : KeptBy(f, targets', operands', config'.just_one)
<1>1. ASSUME NEW k PROVE IsKept(k)' <=> (config'.just_one => IsFirst(operands', k))
  BY Zenon DEF IsKept, IsFirst
<1>2. ASSUME OperandsKept' PROVE \E f : KeptBy(f, targets', operands', config'.just_one)
  BY <1>1, <1>2, Zenon DEF OperandsKept, KeptBy, Picks, IsPicked
<1>3. ASSUME NEW f, KeptBy(f, targets', operands', config'.just_one) PROVE OperandsKept'
  BY <1>1, <1>3, Zenon DEF OperandsKept, KeptBy, Picks, IsPicked
<1>. QED BY <1>2, <1>3, Zenon

\* Of the operands equal to x the first is a target.
LEMMA FirstIsIn ==
  ASSUME NEW s, NEW t, NEW f, Len(s) \in Nat, Len(t) \in Nat, KeptBy(f, s, t, TRUE),
         NEW k \in 1..Len(t)
  PROVE  IsIn(t[k], s)
<1> DEFINE S == {j \in 1..Len(t) : t[j] = t[k]}
<1>1. S \in SUBSET Nat /\ S # {}
  OBVIOUS
<1>2. PICK m \in S : \A j \in S : m <= j
  <2>. HIDE DEF S
  <2>. QED BY <1>1, LeastNat
<1>3. m \in 1..Len(t) /\ t[m] = t[k] /\ \A j \in 1..(m - 1) : j \in 1..Len(t) /\ ~(m <= j)
  BY <1>2
<1>4. IsFirst(t, m)
  BY <1>2, <1>3 DEF IsFirst
<1>5. PICK i \in 1..Len(s) : f[i] = m
  BY <1>3, <1>4 DEF KeptBy, IsPicked
<1>6. s[i] = t[m]
  BY <1>5 DEF KeptBy, Picks
<1>. QED BY <1>3, <1>5, <1>6 DEF IsIn

LEMMA TakeKeeps ==
  ASSUME targets \in Seq(Operands), operands \in Seq(Operands), OperandsKept,
         NEW x \in Operands, TakeOperand(x)
  PROVE  OperandsKept'
<1> DEFINE m == Len(targets)
           n == Len(operands)
<1>1. /\ operands' = Append(operands, x) /\ m \in Nat /\ n \in Nat
      /\ Len(operands') = n + 1 /\ operands'[n + 1] = x
      /\ \A i \in 1..n : operands'[i] = operands[i]
      /\ config' = config
  BY DEF TakeOperand
<1>2. PICK f : KeptBy(f, targets, operands, config.just_one)
  BY KeptByOne
<1>3. /\ f \in [1..m -> 1..n]
      /\ \A i \in 1..m : targets[i] = operands[f[i]]
      /\ \A i, j \in 1..m : i < j => f[i] < f[j]
      /\ \A k \in 1..n : IsPicked(f, m, k) <=> (config.just_one => IsFirst(operands, k))
  BY <1>2 DEF KeptBy, Picks
<1>4. \A i : i \in 1..(n + 1) <=> i \in 1..n \/ i = n + 1
  BY <1>1
<1>5. \A k \in 1..n : IsFirst(operands', k) <=> IsFirst(operands, k)
  <2>1. \A k \in 1..n : \A j \in 1..(k - 1) : j \in 1..n
    BY <1>1
  <2>. HIDE DEF n
  <2>. QED BY <1>1, <2>1 DEF IsFirst
<1>6. IsFirst(operands', n + 1) <=> \A j \in 1..n : operands[j] # x
  <2>1. n + 1 - 1 = n
    BY <1>1
  <2>. HIDE DEF n
  <2>. QED BY <1>1, <2>1 DEF IsFirst
<1>7. CASE config.just_one /\ IsIn(x, targets)
  <2>1. targets' = targets
    BY <1>7 DEF TakeOperand, IsIn
  <2>2. PICK i \in 1..m : targets[i] = x
    BY <1>7 DEF IsIn
  <2>3. f[i] \in 1..n /\ operands[f[i]] = x
    BY <1>3, <2>2
  <2>4. Picks(f, targets', operands')
    <3>1. f \in [1..m -> 1..(n + 1)]
      BY <1>1, <1>3
    <3>2. \A k \in 1..m : operands'[f[k]] = operands[f[k]]
      BY <1>1, <1>3
    <3>. QED BY <1>1, <1>3, <2>1, <3>1, <3>2 DEF Picks
  <2>5. ~IsPicked(f, m, n + 1)
    <3>1. \A k \in 1..m : f[k] \in 1..n
      BY <1>3
    <3>2. n + 1 \notin 1..n
      BY <1>1
    <3>. HIDE DEF m, n
    <3>. QED BY <3>1, <3>2 DEF IsPicked
  <2>6. ASSUME NEW k \in 1..(n + 1)
        PROVE  IsPicked(f, m, k) <=> (config.just_one => IsFirst(operands', k))
    <3>. HIDE DEF m, n
    <3>1. CASE k \in 1..n
      BY <1>3, <1>5, <3>1
    <3>2. CASE k = n + 1
      BY <1>6, <1>7, <2>3, <2>5, <3>2
    <3>. QED BY <1>4, <3>1, <3>2
  <2>7. KeptBy(f, targets', operands', config'.just_one)
    BY <1>1, <2>1, <2>4, <2>6 DEF KeptBy
  <2>. QED BY <2>7, KeptByOneNext
<1>8. CASE ~(config.just_one /\ IsIn(x, targets))
  <2>1. /\ targets' = Append(targets, x) /\ Len(targets') = m + 1 /\ targets'[m + 1] = x
        /\ \A i \in 1..m : targets'[i] = targets[i]
    BY <1>8 DEF TakeOperand, IsIn
  <2>2. \A i : i \in 1..(m + 1) <=> i \in 1..m \/ i = m + 1
    BY <1>1
  <2> DEFINE g == [i \in 1..(m + 1) |-> IF i = m + 1 THEN n + 1 ELSE f[i]]
  <2>3. /\ \A i \in 1..m : g[i] = f[i] /\ f[i] \in 1..n /\ i \in 1..(m + 1) /\ i # m + 1
        /\ g[m + 1] = n + 1
    BY <1>1, <1>3
  <2>4. g \in [1..(m + 1) -> 1..(n + 1)]
    BY <1>1, <1>3
  <2>5. config.just_one => IsFirst(operands', n + 1)
    <3>1. SUFFICES ASSUME config.just_one, NEW j \in 1..n, operands[j] = x PROVE FALSE
      BY <1>6
    <3>2. KeptBy(f, targets, operands, TRUE)
      BY <1>2, <3>1, Zenon DEF KeptBy
    <3>3. IsIn(x, targets)
      BY <1>1, <3>1, <3>2, FirstIsIn
    <3>. QED BY <1>8, <3>1, <3>3
  <2>. HIDE DEF g, m, n
  <2>6. \A i \in 1..(m + 1) : targets'[i] = operands'[g[i]]
    BY <1>1, <1>3, <2>1, <2>2, <2>3
  <2>7. \A i, j \in 1..(m + 1) : i < j => g[i] < g[j]
    <3>1. ASSUME NEW i \in 1..(m + 1), NEW j \in 1..(m + 1), i < j PROVE g[i] < g[j]
      <4>1. i \in 1..m
        BY <1>1, <3>1
      <4>2. CASE j \in 1..m
        <5>1. f[i] < f[j]
          BY <1>3, <3>1, <4>1, <4>2
        <5>. QED BY <2>3, <4>1, <4>2, <5>1
      <4>3. CASE j = m + 1
        BY <1>1, <2>3, <4>1, <4>3
      <4>. QED BY <2>2, <4>2, <4>3
    <3>. QED BY <3>1
  <2>8. Picks(g, targets', operands')
    BY <1>1, <2>1, <2>4, <2>6, <2>7 DEF Picks
  <2>9. ASSUME NEW k \in 1..(n + 1)
        PROVE  IsPicked(g, m + 1, k) <=> (config.just_one => IsFirst(operands', k))
    <3>1. CASE k \in 1..n
      <4>1. k # n + 1
        BY <1>1, <3>1
      <4>2. IsPicked(g, m + 1, k) <=> IsPicked(f, m, k)
        BY <2>2, <2>3, <4>1 DEF IsPicked
      <4>. QED BY <1>3, <1>5, <3>1, <4>2
    <3>2. CASE k = n + 1
      <4>1. IsPicked(g, m + 1, n + 1)
        BY <2>2, <2>3 DEF IsPicked
      <4>. QED BY <2>5, <3>2, <4>1
    <3>. QED BY <1>4, <3>1, <3>2
  <2>10. KeptBy(g, targets', operands', config'.just_one)
    BY <1>1, <2>1, <2>8, <2>9 DEF KeptBy
  <2>. QED BY <2>10, KeptByOneNext
<1>. QED BY <1>7, <1>8

LEMMA NoneKept ==
  ASSUME targets = <<>>, operands = <<>> PROVE OperandsKept
<1>1. Len(targets) = 0 /\ Len(operands) = 0 /\ 1..0 = {}
  OBVIOUS
<1>2. [i \in {} |-> 0] \in [1..0 -> 1..0]
  BY <1>1
<1>. QED BY <1>1, <1>2 DEF OperandsKept
-----------------------------------------------------------------------------
HistoryInv ==
  /\ RankInv
  /\ pc \in {"options", "operands"} => FirstGiven /\ NeedsChosen
  /\ OperandsKept

LEMMA InitHistory == ASSUME Init PROVE HistoryInv
<1>1. argv = <<>> /\ config = InitConfig /\ need = {} /\ targets = <<>> /\ operands = <<>>
  BY DEF Init
<1>2. \A o : ~Given(o)
  BY <1>1 DEF Given
<1>3. FirstGiven /\ NeedsChosen
  BY <1>1, <1>2 DEF FirstGiven, NeedsChosen, NeedsOf, InitConfig
<1>. QED BY <1>1, <1>3, InitRank, NoneKept DEF HistoryInv

\* While options are read there are no targets yet.
LEMMA NoTargetsYet ==
  ASSUME ParserInv, pc = "options", UNCHANGED <<targets, operands>>
  PROVE  OperandsKept'
<1>1. targets = <<>> /\ operands = <<>>
  BY DEF ParserInv, TargetsInv
<1>2. targets' = <<>> /\ operands' = <<>>
  BY <1>1
<1>3. Len(targets') = 0 /\ Len(operands') = 0 /\ 1..0 = {}
  BY <1>2
<1>4. [i \in {} |-> 0] \in [1..0 -> 1..0]
  BY <1>3
<1>. QED BY <1>2, <1>3, <1>4 DEF OperandsKept

\* Steps that read no option.
LEMMA ArgvSame ==
  ASSUME HistoryInv, UNCHANGED <<argv, db_order>>,
         \A o \in Sources : config'[SourceOf[o]] = config[SourceOf[o]],
         pc' \in {"options", "operands"} =>
           /\ pc \in {"options", "operands"} /\ need' = need
           /\ config'.op = config.op /\ config'.query = config.query,
         OperandsKept'
  PROVE  HistoryInv'
<1>1. RankInv'
  BY DEF HistoryInv, RankInv, ArgvInv, RanksFollowOrder, Given, GivenBefore, Sources
<1>2. ASSUME pc' \in {"options", "operands"} PROVE FirstGiven' /\ NeedsChosen'
  <2>1. \A o : (Given(o)' <=> Given(o)) /\ (Twice' <=> Twice)
    BY DEF Given, Twice
  <2>2. \A o, p : GivenBefore(o, p)' <=> GivenBefore(o, p)
    BY DEF GivenBefore
  <2>3. \A o : OpOf(o)' = OpOf(o)
    BY <2>1, OpOfNamed
  <2>. QED BY <1>2, <2>1, <2>2, <2>3 DEF HistoryInv, FirstGiven, NeedsChosen
<1>. QED BY <1>1, <1>2 DEF HistoryInv

LEMMA NextHistory ==
  ASSUME OptionsAssumption, ParserInv, HistoryInv, [Next]_vars PROVE HistoryInv'
<1>0. argv \in Seq(OptionSet) /\ RankInv /\ config \in ConfigType
  BY DEF HistoryInv, RankInv, ArgvInv, ParserInv, TypeOK
<1>1. ASSUME NEW x, OtherKept(x) PROVE HistoryInv'
  <2>1. RankInv'
    BY <1>0, <1>1, RankSame DEF OtherKept
  <2>2. FirstGiven' /\ NeedsChosen'
    BY <1>0, <1>1, OtherKeepsFirst DEF OtherKept, HistoryInv
  <2>3. OperandsKept'
    BY <1>1, NoTargetsYet DEF OtherKept
  <2>. QED BY <2>1, <2>2, <2>3 DEF HistoryInv
<1>2. ASSUME NEW x, OpRead(x) PROVE HistoryInv'
  <2>1. RankInv'
    <3>1. x \notin Sources
      BY <1>2, OptionNames DEF OpRead
    <3>. QED BY <1>0, <1>2, <3>1, RankSame DEF OpRead
  <2>2. FirstGiven' /\ NeedsChosen'
    <3>1. pc = "options"
      BY <1>2 DEF OpRead
    <3>. QED BY <1>0, <1>2, <3>1, OpKeepsFirst DEF HistoryInv
  <2>3. OperandsKept'
    BY <1>2, NoTargetsYet DEF OpRead
  <2>. QED BY <2>1, <2>2, <2>3 DEF HistoryInv
<1>3. ASSUME NEW x \in DOMAIN SourceOf, OptSource(x) PROVE HistoryInv'
  <2>1. x \in Sources /\ x \notin OpOptions /\ x # "p"
    BY OptionNames DEF Sources
  <2>2. /\ x \in OptionSet /\ pc = "options" /\ argv' = Append(argv, x)
        /\ config'.op = config.op /\ config'.query = config.query /\ need' = need
        /\ UNCHANGED <<targets, operands>>
    BY <1>3, SourceRead
  <2>3. RankInv'
    <3>1. CASE config[SourceOf[x]] # 0
      <4>1. Given(x)
        BY <1>0, <2>1, <3>1, RankedGiven
      <4>2. config' = config /\ db_order' = db_order
        BY <1>3, <3>1, SourceRead
      <4>. QED BY <1>0, <2>2, <4>1, <4>2, RankSame
    <3>2. CASE config[SourceOf[x]] = 0
      <4>1. ~Given(x)
        BY <1>0, <2>1, <3>2, RankedGiven
      <4>2. /\ db_order' = db_order + 1 /\ config'[SourceOf[x]] = db_order + 1
            /\ \A o \in Sources \ {x} : config'[SourceOf[o]] = config[SourceOf[o]]
        BY <1>3, <3>2, SourceRead
      <4>. QED BY <1>0, <2>1, <2>2, <4>1, <4>2, RankNext
    <3>. QED BY <3>1, <3>2
  <2>4. FirstGiven' /\ NeedsChosen'
    <3>1. need' = need \cup (IF x = "p" THEN {"N_TARGET"} ELSE {})
      BY <2>1, <2>2
    <3>. QED BY <1>0, <2>1, <2>2, <3>1, OtherKeepsFirst DEF HistoryInv
  <2>5. OperandsKept'
    BY <2>2, NoTargetsYet
  <2>. QED BY <2>3, <2>4, <2>5 DEF HistoryInv
<1>4. CASE EndOptions
  <2>1. OperandsKept'
    BY <1>4, NoTargetsYet DEF EndOptions
  <2>. QED BY <1>4, <2>1, ArgvSame DEF EndOptions, Exit
<1>5. ASSUME NEW x \in Operands, TakeOperand(x) PROVE HistoryInv'
  <2>1. OperandsKept'
    <3>1. targets \in Seq(Operands) /\ operands \in Seq(Operands)
      BY <1>5 DEF TakeOperand, ParserInv, TypeOK, TargetsInv
    <3>. QED BY <1>5, <3>1, TakeKeeps DEF HistoryInv
  <2>. QED BY <1>5, <2>1, ArgvSame DEF TakeOperand
<1>6. CASE EndOperands
  <2>1. /\ UNCHANGED <<argv, db_order, targets, operands>> /\ pc' \in {"run", "exit"}
        /\ config' = config \/ config' = [config EXCEPT !.op = DefaultOp(config, given')]
    BY <1>6 DEF EndOperands, Exit
  <2> DEFINE op == DefaultOp(config, given')
  <2>2. \A k \in {"aur", "db_local", "db_sync", "just_one"} : config'[k] = config[k]
    <3>1. config' = config \/ config' = [config EXCEPT !.op = op]
      BY <2>1
    <3>. HIDE DEF op
    <3>. QED BY <1>0, <3>1 DEF ConfigType
  <2>3. \A o \in Sources : config'[SourceOf[o]] = config[SourceOf[o]]
    BY <2>2, OptionNames
  <2>4. OperandsKept'
    <3>1. config'.just_one = config.just_one /\ targets' = targets /\ operands' = operands
      BY <2>1, <2>2
    <3>2. OperandsKept
      BY DEF HistoryInv
    <3>. QED BY <3>1, <3>2, KeptByOne, KeptByOneNext, Zenon
  <2>. QED BY <2>1, <2>3, <2>4, ArgvSame
<1>7. CASE UNCHANGED vars
  <2>1. OperandsKept'
    BY <1>7 DEF vars, HistoryInv, OperandsKept, IsKept
  <2>. QED BY <1>7, <2>1, ArgvSame DEF vars
<1>8. CASE \/ \E o \in DOMAIN FilterOf : OptFilter(o)
           \/ \E o \in {"h", "v", "unknown"} : OptLeave(o)
           \/ OptUnrequired \/ OptFile \/ OptJustOne \/ OptListRepo \/ OptPkgbase
           \/ OptNameOnly \/ OptMaintainer \/ OptOther
  BY <1>1, <1>8, OtherOptions
<1>9. CASE \/ \E o \in DOMAIN QueryOf : OptQuery(o)
           \/ OptGroups \/ OptInfo \/ OptList \/ OptSearch
  BY <1>2, <1>9, OpsRead
<1>. QED BY <1>3, <1>4, <1>5, <1>6, <1>7, <1>8, <1>9 DEF Next

LEMMA HistoryInvariant == Spec => []HistoryInv
<1>1. ParserInv /\ HistoryInv /\ [Next]_vars => HistoryInv'
  BY OptionsAssumption, NextHistory
<1>. QED BY <1>1, InitHistory, InitParserInv, NextParserInv, PTL DEF Spec

\* However often -A, -Q and -S are given and whatever stands between them, the
\* rank of each is its place in the order in which they were first given.
THEOREM OptionsRanks == Spec => []RanksFollowOrder
<1>1. HistoryInv => RanksFollowOrder
  BY DEF HistoryInv, RankInv
<1>. QED BY <1>1, HistoryInvariant, PTL

\* The operation is the one that the first option with an operation names, with
\* -i -i as the only refinement.
THEOREM OptionsFirstOp == Spec => []OpIsFirstGiven
<1>1. HistoryInv => OpIsFirstGiven
  BY DEF HistoryInv, FirstGiven, OpIsFirstGiven
<1>. QED BY <1>1, HistoryInvariant, PTL

\* What is needed is what that operation needs, and a target for -p: nothing is
\* left of the options that were ignored.
THEOREM OptionsNeeds == Spec => []NeedsOfChosenOp
<1>1. HistoryInv => NeedsOfChosenOp
  <2>1. SUFFICES ASSUME NeedsChosen PROVE
           need = (IF config.op \in {"OP_INFO", "OP_INFO_P", "OP_QUERY"} THEN {"N_DB", "N_TARGET"}
                   ELSE IF config.op \in {"OP_LIST_REPO", "OP_SEARCH"} THEN {"N_DB"} ELSE {})
                  \cup (IF Given("p") THEN {"N_TARGET"} ELSE {})
    BY DEF HistoryInv, NeedsOfChosenOp
  <2>. QED BY <2>1 DEF NeedsChosen, NeedsOf
<1>. QED BY <1>1, HistoryInvariant, PTL

\* However many operands there are, the targets are the operands one by one, or,
\* under --just-one, the first occurrence of each, in the order of the operands.
THEOREM OptionsOperands == Spec => []OperandsKept
<1>1. HistoryInv => OperandsKept
  BY DEF HistoryInv
<1>. QED BY <1>1, HistoryInvariant, PTL
=============================================================================
