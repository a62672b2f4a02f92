------------------------- MODULE PackageQueryProofs -------------------------
(***************************************************************************)
(* For all databases, command lines and numbers of targets: --just-one     *)
(* prints a target at most once and, as long as no freed string is read,   *)
(* takes out of the list exactly the targets it has answered; a lookup     *)
(* (-i, -ii and the --q queries) searches its sources in the order of      *)
(* their ranks and overlooks no database; the exit status tells whether    *)
(* anything was shown, the searches together keep the promise that module  *)
(* JustOne states of --just-one, and -Am and -Au show of the foreign       *)
(* packages what they should.                                              *)
(***************************************************************************)
EXTENDS PackageQuery, Counting

Answered == NodesOf(answers)

\* A target_arg_t lives as long as the search it belongs to.
ArgsInScope == pc \notin {"by_type", "aur_info"} => args = {} /\ items = {}

\* Nothing has happened to the targets before main() has chosen its branch.
Fresh ==
  pc \in {"init", "dispatch"} =>
    /\ answers = {} /\ unsent = {} /\ live = Nodes /\ phase = "none"
    /\ \A n \in Nodes : shown[n] = 0

\* What has been printed has been answered, and is no longer in the list; in
\* an AUR request, which shortens the list only at its end, it is noted in args
\* together with its package, the only one of that name.
OnceInv ==
  config.just_one =>
    /\ \A n \in Nodes : shown[n] <= 1
    /\ phase # "files" => \A n \in Nodes : shown[n] = 1 => n \in Answered
    /\ args \subseteq Answered
    /\ Answered \cap live \subseteq args
    /\ pc # "aur_info" => Answered \cap live = {}
    /\ pc = "aur_info" => \A n \in args : \E p \in items \cap AurPkgs : p.name = list[n].name
    /\ ~stale_read => Nodes \subseteq live \cup Answered

\* -p prints its targets without answering them, and then main() is over.
FilesExit == phase = "files" => pc = "exit"

\* A database is being searched.
DbChosen == pc = "by_type" => dbs # <<>>

Inv ==
  /\ TypeOK
  /\ line \in CommandLines
  /\ Len(list) \in Nat
  /\ ArgsInScope
  /\ Fresh
  /\ FilesExit
  /\ DbChosen
  /\ OnceInv

-----------------------------------------------------------------------------
(***************************************************************************)
(* The databases.                                                          *)
(***************************************************************************)
LEMMA WalkDbsType == WalkDbs \in Seq(DbNames)
<1>1. SyncDbs \in Seq(DbNames)
  BY DatabasesAssumption DEF DbNames, SyncNames
<1>2. <<"local">> \in Seq(DbNames)
  BY DEF DbNames
<1>. QED
  BY <1>1, <1>2 DEF WalkDbs

\* Each node is hit by one package of a database at most.
LEMMA OneHitByName ==
  ASSUME NEW d \in DbNames
  PROVE  /\ NodesOf(ByNameHits(d)) \subseteq live
         /\ \A g, h \in ByNameHits(d) : g[1] = h[1] => g = h
<1>1. \A p, q \in PkgsOf(d) : p.name = q.name => p = q
  BY DatabasesAssumption
<1>2. \A h \in ByNameHits(d) : /\ h = <<h[1], h[2]>> /\ h[1] \in live
                               /\ h[2] \in PkgsOf(d) /\ h[2].name = list[h[1]].name
  BY DEF ByNameHits, DbGetPkg
<1>. QED
  BY <1>1, <1>2 DEF NodesOf

LEMMA AurHitsOf ==
  ASSUME NEW reply \in SUBSET AurPkgs
  PROVE  /\ NodesOf(AurHits(reply)) \subseteq live
         /\ \A h \in AurHits(reply) : h[2] \in AurPkgs /\ h[2].name = list[h[1]].name
<1>1. RealTargets \subseteq live
  BY DEF RealTargets
<1>2. \A h \in AurHits(reply) : /\ h = <<h[1], h[2]>> /\ h[1] \in RealTargets
                                /\ h[2] \in reply /\ h[2].name = list[h[1]].name
  BY DEF AurHits
<1>. QED
  BY <1>1, <1>2 DEF NodesOf

-----------------------------------------------------------------------------
(***************************************************************************)
(* Answering and removing.                                                 *)
(***************************************************************************)
LEMMA AnswerStep ==
  ASSUME TypeOK, NEW hits, NodesOf(hits) \subseteq Nodes, Answer(hits)
  PROVE  /\ shown' \in [Nodes -> Nat] /\ found' \in BOOLEAN
         /\ NodesOf(answers') = Answered \cup NodesOf(hits)
         /\ NodesOf(Printed(hits)) \subseteq NodesOf(hits)
         /\ \A n \in Nodes : shown'[n] = IF n \in NodesOf(Printed(hits))
                                         THEN shown[n] + 1 ELSE shown[n]
<1>1. NodesOf(answers') = Answered \cup NodesOf(hits)
  BY DEF Answer, NodesOf, Answered
<1>2. NodesOf(Printed(hits)) \subseteq NodesOf(hits)
  BY DEF Printed, NodesOf
<1>3. shown' \in [Nodes -> Nat]
  BY DEF Answer, TypeOK
<1>4. found' \in BOOLEAN
  BY DEF Answer, TypeOK
<1>5. \A n \in Nodes : shown'[n] = IF n \in NodesOf(Printed(hits))
                                   THEN shown[n] + 1 ELSE shown[n]
  BY DEF Answer
<1>. QED BY <1>1, <1>2, <1>3, <1>4, <1>5

\* Without a dangling string, clearing removes what was noted and no more.
LEMMA ClearStep ==
  ASSUME TypeOK, Len(list) \in Nat, NEW dangling, NEW noted, Clear(dangling, noted)
  PROVE  /\ live' \subseteq live /\ stale_read' \in BOOLEAN
         /\ config.just_one => live' \cap noted = {}
         /\ ~stale_read' => ~stale_read
         /\ ~stale_read' => live \ noted \subseteq live'
<1>1. CASE config.just_one /\ live # {}
  <2>1. PICK lost \in SUBSET (live \ noted) :
          /\ Cardinality(lost) <= Cardinality(dangling)
          /\ live' = live \ (noted \cup lost)
    BY <1>1 DEF Clear
  <2>2. stale_read' = (stale_read \/ dangling # {})
    BY <1>1 DEF Clear
  <2>3. dangling = {} => lost = {}
    <3>1. IsFiniteSet(Nodes)
      BY FS_Interval DEF Nodes
    <3>2. IsFiniteSet(lost) /\ Cardinality(lost) \in Nat
      BY <2>1, <3>1, FS_Subset, FS_CardinalityType DEF TypeOK
    <3>. QED BY <2>1, <3>2, FS_EmptySet
  <2>. QED BY <2>1, <2>2, <2>3 DEF TypeOK
<1>2. CASE ~(config.just_one /\ live # {})
  BY <1>2 DEF Clear, TypeOK
<1>. QED BY <1>1, <1>2
-----------------------------------------------------------------------------
(***************************************************************************)
(* Steps that leave the targets alone.                                     *)
(***************************************************************************)
LEMMA ControlStep ==
  ASSUME Inv, UNCHANGED <<line, list, live, args, items, shown, answers, stale_read>>,
         unsent' \subseteq Nodes,
         config' \in ConfigType, config'.just_one = config.just_one,
         pc \notin {"by_type", "aur_info"}, pc' \in Labels \ {"init", "dispatch"},
         pc' = "by_type" => dbs' # <<>>,
         phase' \in {"none", "cycle", "local", "foreign", "upgrades"},
         pc # "exit", rank' \in Nat, dbs' \in Seq(DbNames), found' \in BOOLEAN, exitcode' \in 0..1
  PROVE  Inv'
<1>1. TypeOK'
  BY DEF Inv, TypeOK, Nodes, NodesOf
<1>2. ArgsInScope' /\ Fresh' /\ FilesExit' /\ DbChosen'
  BY DEF Inv, ArgsInScope, Fresh, FilesExit, DbChosen
<1>3. OnceInv'
  BY DEF Inv, ArgsInScope, FilesExit, OnceInv, Nodes, Answered, NodesOf
<1>. QED
  BY <1>1, <1>2, <1>3 DEF Inv

\* Answering and removing in one go: search_pkg_by_name and search_pkg_by_type.
LEMMA SearchStep ==
  ASSUME Inv, pc # "aur_info", pc' # "aur_info", pc' \in Labels \ {"init", "dispatch"},
         pc \notin {"init", "dispatch", "exit"},
         UNCHANGED <<line, config, list, unsent, phase, exitcode>>,
         rank' \in Nat, dbs' \in Seq(DbNames), pc' = "by_type" => dbs' # <<>>,
         NEW hits, NodesOf(hits) \subseteq live, Answer(hits),
         NEW dangling, Clear(dangling, NodesOf(hits)),
         args' \subseteq args \cup (IF config.just_one THEN NodesOf(hits) ELSE {}),
         pc' # "by_type" => args' = {} /\ items' = {}
  PROVE  Inv'
<1>1. TypeOK /\ Len(list) \in Nat /\ NodesOf(hits) \subseteq Nodes
  BY DEF Inv, TypeOK
<1>2. /\ shown' \in [Nodes -> Nat] /\ found' \in BOOLEAN
      /\ NodesOf(answers') = Answered \cup NodesOf(hits)
      /\ NodesOf(Printed(hits)) \subseteq NodesOf(hits)
      /\ \A n \in Nodes : shown'[n] = IF n \in NodesOf(Printed(hits))
                                      THEN shown[n] + 1 ELSE shown[n]
  BY <1>1, AnswerStep
<1>3. /\ live' \subseteq live /\ stale_read' \in BOOLEAN
      /\ config.just_one => live' \cap NodesOf(hits) = {}
      /\ ~stale_read' => ~stale_read
      /\ ~stale_read' => live \ NodesOf(hits) \subseteq live'
  BY <1>1, ClearStep
<1>4. TypeOK'
  <2>1. Nodes' = Nodes
    BY DEF Nodes
  <2>2. NodesOf(answers)' = Answered \cup NodesOf(hits)
    BY <1>2 DEF NodesOf
  <2>. QED BY <1>1, <1>2, <1>3, <2>1, <2>2 DEF TypeOK, Answered
<1>5. ArgsInScope' /\ Fresh' /\ FilesExit' /\ DbChosen'
  BY DEF Inv, ArgsInScope, Fresh, FilesExit, DbChosen
<1>6. OnceInv'
  <2>. SUFFICES ASSUME config.just_one PROVE OnceInv'
    BY DEF OnceInv
  <2>1. /\ \A n \in Nodes : shown[n] <= 1 /\ shown[n] \in Nat
        /\ \A n \in Nodes : shown[n] = 1 => n \in Answered
        /\ args \subseteq Answered /\ Answered \cap live = {}
        /\ ~stale_read => Nodes \subseteq live \cup Answered
    BY <1>1 DEF Inv, FilesExit, OnceInv, TypeOK
  <2>2. Nodes' = Nodes /\ Answered' = Answered \cup NodesOf(hits)
    BY <1>2 DEF Nodes, Answered, NodesOf
  <2>3. \A n \in Nodes : shown'[n] <= 1 /\ (shown'[n] = 1 => n \in Answered')
    BY <1>2, <2>1, <2>2
  <2>4. args' \subseteq Answered' /\ Answered' \cap live' = {}
    BY <1>3, <2>1, <2>2
  <2>5. ~stale_read' => Nodes' \subseteq live' \cup Answered'
    BY <1>3, <2>1, <2>2
  <2>. QED BY <2>2, <2>3, <2>4, <2>5 DEF OnceInv
<1>. QED
  BY <1>4, <1>5, <1>6 DEF Inv
-----------------------------------------------------------------------------
(***************************************************************************)
(* The AUR request, the only search that prints before it shortens the     *)
(* list: a target may be hit again by a later batch, but then by the same  *)
(* package, which is in items.                                             *)
(***************************************************************************)
LEMMA AurInfoFetchStep ==
  ASSUME Inv, NEW ok \in BOOLEAN, AurInfoFetch(ok)
  PROVE  Inv'
<1> DEFINE reply == IF ok THEN InfoReply({list[n].name : n \in Batch}) ELSE {}
           hits  == AurHits(reply)
<1>1. reply \in SUBSET AurPkgs
  BY DEF InfoReply
<1>2. /\ NodesOf(hits) \subseteq live
      /\ \A h \in hits : h[2] \in AurPkgs /\ h[2].name = list[h[1]].name
  BY <1>1, AurHitsOf
<1>3. /\ pc = "aur_info" /\ Answer(hits)
      /\ config.just_one => /\ args' = args \cup NodesOf(hits)
                            /\ items' = items \cup {h[2] : h \in hits}
      /\ ~config.just_one => UNCHANGED <<args, items>>
      /\ unsent' = unsent \ Batch
      /\ UNCHANGED <<line, config, pc, phase, rank, dbs, exitcode, list, live, stale_read>>
  BY DEF AurInfoFetch
<1>. HIDE DEF hits
<1>4. TypeOK /\ Len(list) \in Nat /\ NodesOf(hits) \subseteq Nodes
  BY <1>2 DEF Inv, TypeOK
<1>5. /\ shown' \in [Nodes -> Nat] /\ found' \in BOOLEAN
      /\ NodesOf(answers') = Answered \cup NodesOf(hits)
      /\ NodesOf(Printed(hits)) \subseteq NodesOf(hits)
      /\ \A n \in Nodes : shown'[n] = IF n \in NodesOf(Printed(hits))
                                      THEN shown[n] + 1 ELSE shown[n]
  BY <1>3, <1>4, AnswerStep
<1>6. Nodes' = Nodes /\ Answered' = Answered \cup NodesOf(hits)
  BY <1>3, <1>5 DEF Nodes, Answered, NodesOf
<1>7. TypeOK'
  BY <1>3, <1>4, <1>5, <1>6 DEF TypeOK, Answered
<1>8. ArgsInScope' /\ Fresh'
  BY <1>3 DEF ArgsInScope, Fresh
<1>9. OnceInv'
  <2>. SUFFICES ASSUME config.just_one PROVE OnceInv'
    BY <1>3 DEF OnceInv
  <2>1. /\ \A n \in Nodes : shown[n] <= 1 /\ shown[n] \in Nat
        /\ phase # "files" => \A n \in Nodes : shown[n] = 1 => n \in Answered
        /\ args \subseteq Answered /\ Answered \cap live \subseteq args
        /\ \A n \in args : \E p \in items \cap AurPkgs : p.name = list[n].name
        /\ ~stale_read => Nodes \subseteq live \cup Answered
    BY <1>3, <1>4 DEF Inv, OnceInv, TypeOK
  <2>2. \A n \in NodesOf(hits) : \E h \in hits : h[1] = n
    BY DEF NodesOf
  <2>3. \A n \in args' : \E p \in items' \cap AurPkgs : p.name = list[n].name
    BY <1>2, <1>3, <2>1, <2>2
  <2>4. args' \subseteq Answered' /\ Answered' \cap live' \subseteq args'
    BY <1>2, <1>3, <1>6, <2>1
  <2>5. \A n \in NodesOf(Printed(hits)) : n \notin args
    <3>. SUFFICES ASSUME NEW h \in hits, h[2] \notin items, h[1] \in args PROVE FALSE
      BY DEF Printed, NodesOf
    <3>1. PICK p \in items \cap AurPkgs : p.name = list[h[1]].name
      BY <2>1
    <3>. QED BY <1>2, <3>1, DatabasesAssumption
  <2>6. phase # "files" => \A n \in Nodes : shown'[n] <= 1 /\ (shown'[n] = 1 => n \in Answered')
    BY <1>2, <1>5, <1>6, <2>1, <2>5
  <2>7. phase # "files"
    BY <1>3 DEF Inv, FilesExit
  <2>8. ~stale_read' => Nodes' \subseteq live' \cup Answered'
    BY <1>3, <1>6, <2>1
  <2>. QED BY <1>3, <1>6, <2>3, <2>4, <2>6, <2>7, <2>8 DEF OnceInv
<1>10. FilesExit' /\ DbChosen'
  BY <1>3 DEF Inv, FilesExit, DbChosen
<1>. QED
  BY <1>3, <1>4, <1>7, <1>8, <1>9, <1>10 DEF Inv

LEMMA AurInfoCloseStep ==
  ASSUME Inv, AurInfoClose
  PROVE  Inv'
<1>1. /\ pc = "aur_info" /\ Clear({}, args) /\ args' = {} /\ items' = {}
      /\ UNCHANGED <<line, config, phase, dbs, found, exitcode, list, unsent, shown, answers>>
      /\ pc' \in {"cycle", "foreign_local", "show"} /\ rank' \in Nat
  BY DEF AurInfoClose, AurReturn, Goto, Inv, TypeOK
<1>2. TypeOK /\ Len(list) \in Nat
  BY DEF Inv
<1>3. /\ live' \subseteq live /\ stale_read' \in BOOLEAN
      /\ config.just_one => live' \cap args = {}
      /\ ~stale_read' => ~stale_read
      /\ ~stale_read' => live \ args \subseteq live'
  BY <1>1, <1>2, ClearStep
<1>4. Nodes' = Nodes /\ Answered' = Answered
  BY <1>1 DEF Nodes, Answered, NodesOf
<1>5. TypeOK'
  BY <1>1, <1>2, <1>3, <1>4 DEF TypeOK, Answered, Labels
<1>6. ArgsInScope' /\ Fresh' /\ FilesExit' /\ DbChosen'
  BY <1>1 DEF Inv, ArgsInScope, Fresh, FilesExit, DbChosen
<1>7. OnceInv'
  BY <1>1, <1>3, <1>4 DEF Inv, OnceInv, FilesExit
<1>. QED
  BY <1>1, <1>2, <1>5, <1>6, <1>7 DEF Inv
-----------------------------------------------------------------------------
(***************************************************************************)
(* search_pkg_by_name and search_pkg_by_type.                              *)
(***************************************************************************)
LEMMA ByNameStep ==
  ASSUME Inv, SearchPkgByName \/ ForeignLocal
  PROVE  Inv'
<1>0. TypeOK
  BY DEF Inv
<1>1. CASE SearchPkgByName
  <2>1. Head(dbs) \in DbNames /\ Tail(dbs) \in Seq(DbNames)
    BY <1>0, <1>1 DEF SearchPkgByName, Deal, TypeOK
  <2> DEFINE hits == ByNameHits(Head(dbs))
  <2>2. NodesOf(hits) \subseteq live
    BY <2>1, OneHitByName
  <2>3. Answer(hits) /\ Clear({}, NodesOf(hits))
    BY <1>1 DEF SearchPkgByName, ByName, db
  <2>. HIDE DEF hits
  <2>4. /\ pc = "walk" /\ dbs' = Tail(dbs)
        /\ UNCHANGED <<line, config, pc, phase, rank, exitcode, list, args, items, unsent>>
    BY <1>1 DEF SearchPkgByName, Deal
  <2>5. args' = {} /\ items' = {}
    BY <2>4 DEF Inv, ArgsInScope
  <2>. QED
    BY <1>0, <2>1, <2>2, <2>3, <2>4, <2>5, SearchStep DEF TypeOK, Labels
<1>2. CASE ForeignLocal
  <2> DEFINE hits == ByNameHits("local")
  <2>1. NodesOf(hits) \subseteq live
    BY OneHitByName DEF DbNames
  <2>2. Answer(hits) /\ Clear({}, NodesOf(hits))
    BY <1>2 DEF ForeignLocal, ByName
  <2>. HIDE DEF hits
  <2>3. /\ pc = "foreign_local" /\ pc' = "show"
        /\ UNCHANGED <<line, config, phase, rank, dbs, exitcode, list, args, items, unsent>>
    BY <1>2 DEF ForeignLocal, Goto
  <2>4. args' = {} /\ items' = {}
    BY <2>3 DEF Inv, ArgsInScope
  <2>. QED
    BY <1>0, <2>1, <2>2, <2>3, <2>4, SearchStep DEF TypeOK, Labels
<1>. QED BY <1>1, <1>2

LEMMA ByTypeDepStep ==
  ASSUME Inv, ByTypeDep
  PROVE  Inv'
<1> DEFINE hits == ByTypeHits
<1>1. NodesOf(hits) \subseteq live
  BY DEF ByTypeHits, NodesOf
<1>2. /\ pc = "by_type" /\ Answer(hits) /\ Clear(args, NodesOf(hits))
      /\ args' \subseteq args \cup (IF config.just_one THEN NodesOf(hits) ELSE {})
      /\ UNCHANGED <<line, config, pc, phase, rank, dbs, exitcode, list, unsent>>
  BY DEF ByTypeDep
<1>. HIDE DEF hits
<1>. QED
  BY <1>1, <1>2, SearchStep DEF Inv, TypeOK, Labels, DbChosen

LEMMA ByTypeCloseStep ==
  ASSUME Inv, ByTypeClose
  PROVE  Inv'
<1>1. /\ pc = "by_type" /\ Clear(args, {}) /\ args' = {} /\ items' = {}
      /\ dbs' = Tail(dbs) /\ pc' = "walk"
      /\ UNCHANGED <<line, config, phase, rank, found, exitcode, list, unsent, shown, answers>>
  BY DEF ByTypeClose, Goto
<1>2. TypeOK /\ Len(list) \in Nat
  BY DEF Inv
<1>3. /\ live' \subseteq live /\ stale_read' \in BOOLEAN
      /\ ~stale_read' => ~stale_read
      /\ ~stale_read' => live \subseteq live'
  BY <1>1, <1>2, ClearStep
<1>4. Nodes' = Nodes /\ Answered' = Answered
  BY <1>1 DEF Nodes, Answered, NodesOf
<1>5. dbs' \in Seq(DbNames)
  BY <1>1, <1>2 DEF TypeOK, Inv, DbChosen
<1>6. TypeOK'
  BY <1>1, <1>2, <1>3, <1>4, <1>5 DEF TypeOK, Answered, Labels
<1>7. ArgsInScope' /\ Fresh' /\ FilesExit' /\ DbChosen'
  BY <1>1 DEF Inv, ArgsInScope, Fresh, FilesExit, DbChosen
<1>8. OnceInv'
  BY <1>1, <1>3, <1>4 DEF Inv, OnceInv, FilesExit
<1>. QED
  BY <1>1, <1>2, <1>6, <1>7, <1>8 DEF Inv

-----------------------------------------------------------------------------
(***************************************************************************)
(* -Am and -Au make the list of targets from the local database.           *)
(***************************************************************************)
LEMMA LocalTargetsLength ==
  ASSUME NEW flags, NEW versioned
  PROVE  Len(LocalTargets(flags, versioned)) \in Nat
<1> DEFINE kept == {i \in 1..Len(Cache["local"]) : Filter(Cache["local"][i], flags)}
<1>1. Cache["local"] \in Seq(PkgsOf("local"))
  BY DatabasesAssumption DEF DbNames
<1>2. IsFiniteSet(1..Len(Cache["local"]))
  BY <1>1, FS_Interval
<1>3. Cardinality(kept) \in Nat
  BY <1>2, FS_Subset, FS_CardinalityType
<1>. HIDE DEF kept
<1>4. Len(LocalTargets(flags, versioned)) = Cardinality(kept)
  BY <1>3 DEF LocalTargets, kept
<1>. QED BY <1>3, <1>4

LEMMA LocalTargetsStep ==
  ASSUME Inv, AurForeign \/ AurUpgrades
  PROVE  Inv'
<1>1. /\ pc = "dispatch" /\ pc' = "aur_info_init" /\ phase' \in {"foreign", "upgrades"}
      /\ \E flags : \E versioned : list' = LocalTargets(flags, versioned)
      /\ live' = 1..Len(list') /\ shown' = [n \in 1..Len(list') |-> 0]
      /\ UNCHANGED <<line, rank, dbs, exitcode, args, items, unsent, answers, stale_read>>
  BY DEF AurForeign, AurUpgrades, NoCycle, SetTargets, Goto
<1>2. config' \in ConfigType
  <2>1. CASE AurForeign
    BY <2>1 DEF AurForeign, Inv, TypeOK, ConfigType
  <2>2. CASE AurUpgrades
    BY <2>2 DEF AurUpgrades, Inv, TypeOK
  <2>. QED BY <2>1, <2>2
<1>3. found' \in BOOLEAN
  <2>1. (listed' # {}) \in BOOLEAN
    OBVIOUS
  <2>. QED BY <2>1 DEF AurForeign, AurUpgrades, Inv, TypeOK
<1>4. Len(list') \in Nat
  BY <1>1, LocalTargetsLength
<1>5. answers' = {} /\ unsent' = {} /\ args' = {} /\ items' = {}
  BY <1>1 DEF Inv, Fresh, ArgsInScope
<1>6. TypeOK'
  BY <1>1, <1>2, <1>3, <1>4, <1>5 DEF Inv, TypeOK, Nodes, NodesOf, Labels
<1>7. ArgsInScope' /\ Fresh' /\ FilesExit' /\ DbChosen'
  BY <1>1, <1>5 DEF ArgsInScope, Fresh, FilesExit, DbChosen
<1>8. OnceInv'
  BY <1>1, <1>5 DEF OnceInv, Nodes, Answered, NodesOf
<1>. QED
  BY <1>1, <1>4, <1>6, <1>7, <1>8 DEF Inv

-----------------------------------------------------------------------------
(***************************************************************************)
(* The remaining actions.                                                  *)
(***************************************************************************)
LEMMA InitDbSyncStep ==
  ASSUME Inv, NEW ok \in BOOLEAN, InitDbSync(ok)
  PROVE  Inv'
<1>1. /\ pc = "init" /\ pc' \in {"dispatch", "exit"} /\ exitcode' \in 0..1
      /\ UNCHANGED <<line, config, phase, rank, dbs, found, list, live, args, items, unsent,
                     shown, answers, stale_read>>
  BY DEF InitDbSync, Goto, lists, history, Inv, TypeOK
<1>2. TypeOK'
  BY <1>1 DEF Inv, TypeOK, Nodes, NodesOf, Labels
<1>3. ArgsInScope' /\ Fresh' /\ FilesExit' /\ DbChosen'
  BY <1>1 DEF Inv, ArgsInScope, Fresh, FilesExit, DbChosen, Nodes
<1>4. OnceInv'
  BY <1>1 DEF Inv, OnceInv, Nodes, Answered, NodesOf
<1>. QED BY <1>1, <1>2, <1>3, <1>4 DEF Inv

LEMMA QueryFilesStep ==
  ASSUME Inv, NEW readable \in SUBSET Nodes, QueryFiles(readable)
  PROVE  Inv'
<1>1. /\ pc = "dispatch" /\ pc' = "exit" /\ exitcode' \in 0..1 /\ phase' = "files"
      /\ shown' = [n \in Nodes |-> IF n \in readable THEN 1 ELSE 0]
      /\ UNCHANGED <<line, config, rank, dbs, list, live, args, items, unsent,
                     answers, stale_read>>
  BY DEF QueryFiles, Goto, lists
<1>2. found' \in BOOLEAN
  <2>1. (readable # {}) \in BOOLEAN
    OBVIOUS
  <2>. QED BY <2>1 DEF QueryFiles
<1>3. answers = {} /\ live = Nodes /\ args = {} /\ items = {}
  BY <1>1 DEF Inv, Fresh, ArgsInScope
<1>4. TypeOK'
  BY <1>1, <1>2 DEF Inv, TypeOK, Nodes, NodesOf, Labels
<1>5. ArgsInScope' /\ Fresh' /\ FilesExit' /\ DbChosen'
  BY <1>1, <1>3 DEF ArgsInScope, Fresh, FilesExit, DbChosen
<1>6. OnceInv'
  BY <1>1, <1>3 DEF OnceInv, Nodes, Answered, NodesOf
<1>. QED BY <1>1, <1>4, <1>5, <1>6 DEF Inv

LEMMA StartByTypeStep ==
  ASSUME Inv, StartByType
  PROVE  Inv'
<1>1. /\ pc = "walk" /\ pc' = "by_type" /\ dbs # <<>> /\ args' = {} /\ items' = {}
      /\ UNCHANGED <<line, config, phase, rank, dbs, found, exitcode, list, live, unsent,
                     shown, answers, stale_read>>
  BY DEF StartByType, Deal, Goto, history
<1>2. args = {} /\ items = {}
  BY <1>1 DEF Inv, ArgsInScope
<1>. QED
  BY <1>1, <1>2, ControlStep DEF Inv, TypeOK, Labels, FilesExit

\* Listing packages neither answers a target nor changes the list.
LEMMA ListStep ==
  ASSUME Inv, ListDb \/ SearchPkg \/ ListGrp
  PROVE  Inv'
<1>1. PICK pkgs : pc = "walk" /\ dbs # <<>> /\ List(pkgs)
  BY DEF ListDb, SearchPkg, ListGrp, Deal
<1>2. (found \/ pkgs # {}) \in BOOLEAN
  OBVIOUS
<1>3. /\ found' \in BOOLEAN /\ dbs' \in Seq(DbNames)
      /\ UNCHANGED <<line, config, pc, phase, rank, exitcode, list, live, args, items, unsent,
                     shown, answers, stale_read>>
  BY <1>1, <1>2 DEF List, lists, Inv, TypeOK
<1>. QED
  BY <1>1, <1>3, ControlStep DEF Inv, TypeOK, Labels, FilesExit

LEMMA AurSearchStep ==
  ASSUME Inv,
         \/ \E outcome \in {"ok", "aur_error", "curl_error"} : AurSearchFetch(outcome)
         \/ AurSearchNext \/ AurSearchNoTarget
  PROVE  Inv'
<1>1. /\ pc \in {"aur_search", "aur_search_next"}
      /\ pc' \in {"aur_search", "aur_search_next", "cycle", "foreign_local", "show"}
      /\ rank' \in Nat
      /\ UNCHANGED <<line, config, phase, dbs, exitcode, list, live, args, items, unsent,
                     shown, answers, stale_read>>
  <2>1. CASE \E outcome \in {"ok", "aur_error", "curl_error"} : AurSearchFetch(outcome)
    <3>1. /\ pc = "aur_search"
          /\ AurReturn \/ (Goto("aur_search_next") /\ UNCHANGED rank)
          /\ UNCHANGED <<line, config, phase, dbs, exitcode, lists, shown, answers, stale_read>>
      BY <2>1 DEF AurSearchFetch
    <3>. QED BY <3>1 DEF AurReturn, Goto, lists, Inv, TypeOK
  <2>2. CASE AurSearchNext
    BY <2>2 DEF AurSearchNext, Goto, history, Inv, TypeOK
  <2>3. CASE AurSearchNoTarget
    BY <2>3 DEF AurSearchNoTarget, AurReturn, Goto, lists, history, Inv, TypeOK
  <2>. QED BY <2>1, <2>2, <2>3
<1>2. found' \in BOOLEAN
  <2>1. CASE \E outcome \in {"ok", "aur_error", "curl_error"} : AurSearchFetch(outcome)
    <3>1. PICK match : found' = (found \/ match # {})
      BY <2>1 DEF AurSearchFetch
    <3>2. (found \/ match # {}) \in BOOLEAN
      OBVIOUS
    <3>. QED BY <3>1, <3>2
  <2>2. CASE AurSearchNext \/ AurSearchNoTarget
    BY <2>2 DEF AurSearchNext, AurSearchNoTarget, Inv, TypeOK
  <2>. QED BY <2>1, <2>2
<1>. QED
  BY <1>1, <1>2, ControlStep DEF Inv, TypeOK, Labels, FilesExit

\* The actions of main() itself, which do no more than choose a branch.
ControlOnly ==
  \/ EnterCycle \/ SearchLocal \/ NothingToDo
  \/ StartWalk \/ StartAurInfo \/ StartAurSearch \/ SkipAur \/ EndCycle
  \/ Fallback \/ EndWalk \/ ShowResults

LEMMA ControlOnlyStep ==
  ASSUME Inv, ControlOnly
  PROVE  Inv'
<1>1. /\ pc \in {"dispatch", "cycle", "walk", "show"}
      /\ pc' \in {"cycle", "walk", "aur_info_init", "aur_search_init", "show", "exit"}
      /\ phase' \in {phase, "cycle", "local"}
      /\ UNCHANGED <<line, list, live, args, items, unsent, shown, answers, stale_read>>
  BY DEF ControlOnly, EnterCycle, SearchLocal, NothingToDo, StartWalk, StartAurInfo,
     StartAurSearch, SkipAur, EndCycle, Fallback, EndWalk, ShowResults, NoCycle, RankOf,
     Goto, lists, history
<1>2. config' \in ConfigType /\ config'.just_one = config.just_one
  <2>1. CASE Fallback
    BY <2>1 DEF Fallback, Inv, TypeOK, ConfigType, OpType, QueryType
  <2>2. CASE EndWalk
    BY <2>2 DEF EndWalk, Inv, TypeOK, ConfigType, OpType
  <2>3. CASE ~Fallback /\ ~EndWalk
    BY <2>3 DEF ControlOnly, EnterCycle, SearchLocal, NothingToDo, StartWalk, StartAurInfo,
       StartAurSearch, SkipAur, EndCycle, ShowResults, Inv, TypeOK
  <2>. QED BY <2>1, <2>2, <2>3
<1>3. rank' \in Nat /\ dbs' \in Seq(DbNames) /\ exitcode' \in 0..1
  BY WalkDbsType DEF ControlOnly, EnterCycle, SearchLocal, NothingToDo, StartWalk,
     StartAurInfo, StartAurSearch, SkipAur, EndCycle, Fallback, EndWalk, ShowResults,
     Inv, TypeOK
<1>4. found' \in BOOLEAN
  <2>1. (listed' # {}) \in BOOLEAN
    OBVIOUS
  <2>. QED
    BY <2>1 DEF ControlOnly, EnterCycle, SearchLocal, NothingToDo, StartWalk, StartAurInfo,
       StartAurSearch, SkipAur, EndCycle, Fallback, EndWalk, ShowResults, Inv, TypeOK
<1>5. unsent' \subseteq Nodes
  BY <1>1 DEF Inv, TypeOK
<1>6. phase' \in {"none", "cycle", "local", "foreign", "upgrades"}
  BY <1>1 DEF Inv, TypeOK, FilesExit
<1>. QED
  BY <1>1, <1>2, <1>3, <1>4, <1>5, <1>6, ControlStep DEF Labels

LEMMA CurlInitStep ==
  ASSUME Inv, NEW ok \in BOOLEAN, CurlInit(ok)
  PROVE  Inv'
<1>1. /\ pc \in {"aur_info_init", "aur_search_init"}
      /\ pc' \in {"aur_info", "aur_search", "cycle", "foreign_local", "show"}
      /\ rank' \in Nat /\ unsent' \in {unsent, {}, RealTargets}
      /\ UNCHANGED <<line, config, phase, dbs, found, exitcode, list, live, args, items,
                     shown, answers, stale_read>>
  BY DEF CurlInit, AurReturn, Goto, history, Inv, TypeOK
<1>2. unsent' \subseteq Nodes
  BY <1>1 DEF RealTargets, Inv, TypeOK
<1>. QED
  BY <1>1, <1>2, ControlStep DEF Inv, TypeOK, Labels, FilesExit

LEMMA NextPkgStep ==
  ASSUME Inv, ByTypeNextPkg
  PROVE  Inv'
<1>1. UNCHANGED <<line, config, pc, phase, rank, dbs, found, exitcode, list, live, args, items,
                  unsent, shown, answers, stale_read>>
  BY DEF ByTypeNextPkg, control, history
<1>. QED
  BY <1>1 DEF Inv, TypeOK, ArgsInScope, Fresh, FilesExit, DbChosen, OnceInv, Nodes, Answered,
     NodesOf

-----------------------------------------------------------------------------
(***************************************************************************)
(* The invariant.                                                          *)
(***************************************************************************)
LEMMA InitInv == Init => Inv
<1>. SUFFICES ASSUME Init PROVE Inv
  OBVIOUS
<1>1. /\ line \in CommandLines /\ config = line.config /\ config \in ConfigType
      /\ list = line.targets /\ list \in Seq(Target)
  BY CommandLinesAssumption DEF Init
<1>2. Len(list) \in Nat
  BY <1>1
<1>3. TypeOK
  <2>1. dbs \in Seq(DbNames)
    BY DEF Init
  <2>2. found \in BOOLEAN /\ stale_read \in BOOLEAN /\ exitcode \in 0..1
    <3>1. found \in BOOLEAN
      BY DEF Init
    <3>2. stale_read \in BOOLEAN
      BY DEF Init
    <3>3. exitcode \in 0..1
      BY DEF Init
    <3>. QED BY <3>1, <3>2, <3>3
  <2>3. /\ live \subseteq Nodes /\ args \subseteq Nodes /\ unsent \subseteq Nodes
        /\ NodesOf(answers) \subseteq Nodes
    BY <1>1 DEF Init, Nodes, NodesOf
  <2>4. shown \in [Nodes -> Nat]
    BY <1>1 DEF Init, Nodes
  <2>5. rank \in Nat
    BY DEF Init
  <2>. QED BY <1>1, <2>1, <2>2, <2>3, <2>4, <2>5 DEF Init, TypeOK, Labels
<1>4. ArgsInScope /\ Fresh /\ FilesExit /\ DbChosen
  BY <1>1 DEF Init, ArgsInScope, Fresh, FilesExit, DbChosen, Nodes
<1>5. OnceInv
  BY <1>1 DEF Init, OnceInv, Nodes, Answered, NodesOf
<1>. QED BY <1>1, <1>2, <1>3, <1>4, <1>5 DEF Inv

LEMMA NextInv == Inv /\ [Next]_vars => Inv'
<1>. SUFFICES ASSUME Inv, [Next]_vars PROVE Inv'
  OBVIOUS
<1>1. CASE \E ok \in BOOLEAN : InitDbSync(ok)
  BY <1>1, InitDbSyncStep
<1>2. CASE \E readable \in SUBSET Nodes : QueryFiles(readable)
  BY <1>2, QueryFilesStep
<1>3. CASE ControlOnly
  BY <1>3, ControlOnlyStep
<1>4. CASE AurForeign \/ AurUpgrades
  BY <1>4, LocalTargetsStep
<1>5. CASE ListDb \/ SearchPkg \/ ListGrp
  BY <1>5, ListStep
<1>6. CASE SearchPkgByName \/ ForeignLocal
  BY <1>6, ByNameStep
<1>7. CASE StartByType
  BY <1>7, StartByTypeStep
<1>8. CASE ByTypeDep
  BY <1>8, ByTypeDepStep
<1>9. CASE ByTypeNextPkg
  BY <1>9, NextPkgStep
<1>10. CASE ByTypeClose
  BY <1>10, ByTypeCloseStep
<1>11. CASE \E ok \in BOOLEAN : CurlInit(ok)
  BY <1>11, CurlInitStep
<1>12. CASE \E ok \in BOOLEAN : AurInfoFetch(ok)
  BY <1>12, AurInfoFetchStep
<1>13. CASE AurInfoClose
  BY <1>13, AurInfoCloseStep
<1>14. CASE \/ \E outcome \in {"ok", "aur_error", "curl_error"} : AurSearchFetch(outcome)
            \/ AurSearchNext \/ AurSearchNoTarget
  BY <1>14, AurSearchStep
<1>15. CASE UNCHANGED vars
  BY <1>15 DEF vars, control, lists, history, Inv, TypeOK, ArgsInScope, Fresh, FilesExit,
     DbChosen, OnceInv, Nodes, Answered, NodesOf
<1>. QED
  BY <1>1, <1>2, <1>3, <1>4, <1>5, <1>6, <1>7, <1>8, <1>9, <1>10, <1>11, <1>12, <1>13, <1>14,
     <1>15 DEF Next, ControlOnly

LEMMA InvInductive == Spec => []Inv
  BY InitInv, NextInv, PTL DEF Spec

\* In every reachable state, of any world, the variables have their types: in
\* particular each node in the list, noted or still to be asked for is a target.
THEOREM TypeCorrect == Spec => []TypeOK
<1>1. Inv => TypeOK
  BY DEF Inv
<1>. QED BY <1>1, InvInductive, PTL

\* --just-one prints a target at most once, whatever the databases, the targets,
\* the size of a batch and the replies of the AUR (print_or_add_result behind
\* target_arg_add).
THEOREM PrintedOnce == Spec => []PrintedAtMostOnce
<1>1. Inv => PrintedAtMostOnce
  BY DEF Inv, OnceInv, PrintedAtMostOnce
<1>. QED BY <1>1, InvInductive, PTL

\* target_arg_clear takes out of the list exactly the targets that have been
\* answered, as long as it reads no string that it freed before.
THEOREM RemovedExactly == Spec => []RemovedIffAnswered
<1>1. Inv => RemovedIffAnswered
  <2>1. SUFFICES ASSUME Inv, config.just_one, pc # "aur_info", ~stale_read
                 PROVE  live = Nodes \ NodesOf(answers)
    BY DEF RemovedIffAnswered
  <2>. QED BY <2>1 DEF Inv, TypeOK, OnceInv, Answered
<1>. QED BY <1>1, InvInductive, PTL

-----------------------------------------------------------------------------
(***************************************************************************)
(* Lookups.                                                                *)
(***************************************************************************)
Lookup == ~line.config.is_file /\ line.config.op \in {"OP_INFO", "OP_INFO_P", "OP_QUERY"}

\* A lookup keeps its targets and its configuration, but for the operation that
\* the -ii fallback puts in its place, and never leaves the loop over the ranks,
\* which it ends behind the last of them.
LookupSetting ==
  /\ list = line.targets /\ list # <<>>
  /\ ~config.is_file /\ (config.just_one <=> line.config.just_one)
  /\ config.filter = line.config.filter /\ config.aur = line.config.aur
  /\ config.db_sync = line.config.db_sync /\ config.db_local = line.config.db_local
  /\ \/ config.op = line.config.op
     \/ line.config.op = "OP_INFO_P" /\ config.op = "OP_QUERY" /\ pc \in {"walk", "by_type"}
  /\ line.config.op = "OP_QUERY" => config.query = line.config.query
  /\ phase \in {"none", "cycle"} /\ (phase = "none" => pc \in {"init", "dispatch", "exit"})
  /\ pc \notin {"aur_search_init", "aur_search", "aur_search_next", "foreign_local"}
  /\ pc = "by_type" => config.op = "OP_QUERY"
  /\ pc \in {"aur_info_init", "aur_info"} => config.aur = rank
  /\ phase = "cycle" /\ pc \in {"show", "exit"} => rank > DbOrder(line.config)
  /\ listed = {}
  /\ ~config.just_one => live = Nodes

\* The databases still to be searched are the last ones of the source whose turn it is.
WalkOfRank ==
  pc \in {"walk", "by_type"} =>
    /\ pc = "by_type" => cursor[1] \in Nat \ {0}
    /\ config.db_sync = rank \/ config.db_local = rank
    /\ Len(dbs) <= Len(WalkDbs)
    /\ \A i \in 1..Len(dbs) : dbs[i] = WalkDbs[Len(WalkDbs) - Len(dbs) + i]

SettingInv == Lookup => LookupSetting /\ WalkOfRank

\* What a lookup does.
LookupNext ==
  \/ EnterCycle \/ StartWalk \/ StartAurInfo \/ SkipAur \/ EndCycle \/ Fallback \/ EndWalk
  \/ SearchPkgByName \/ StartByType \/ ByTypeDep \/ ByTypeNextPkg \/ ByTypeClose
  \/ AurInfoClose \/ ShowResults \/ UNCHANGED vars
  \/ \E ok \in BOOLEAN : InitDbSync(ok) \/ CurlInit(ok) \/ AurInfoFetch(ok)

-----------------------------------------------------------------------------
\* The command line is never changed.
LEMMA LineStays == [Next]_vars => line' = line
  BY DEF Next, vars, control, InitDbSync, QueryFiles, EnterCycle, SearchLocal, AurForeign,
     AurUpgrades, NothingToDo, StartWalk, StartAurInfo, StartAurSearch, SkipAur, EndCycle,
     Fallback, EndWalk, ListDb, SearchPkg, ListGrp, List, SearchPkgByName, StartByType,
     ByTypeDep, ByTypeNextPkg, ByTypeClose, CurlInit, AurInfoFetch, AurInfoClose,
     AurSearchFetch, AurSearchNext, AurSearchNoTarget, ForeignLocal, ShowResults

\* Each database is of the rank of its source.
LEMMA RanksOfDbs ==
  ASSUME Inv
  PROVE  /\ RankOfDb("aur") = line.config.aur /\ RankOfDb("local") = line.config.db_local
         /\ \A d \in SyncNames : RankOfDb(d) = line.config.db_sync
         /\ \A d : RankOfDb(d) \in Nat
         /\ \A d \in DbNames : d # "aur"
<1>1. line.config.aur \in Nat /\ line.config.db_local \in Nat /\ line.config.db_sync \in Nat
  <2>1. line.config \in ConfigType
    BY CommandLinesAssumption DEF Inv
  <2>. QED BY <2>1 DEF ConfigType
<1>2. \A d \in SyncNames : d # "aur" /\ d # "local"
  BY DatabasesAssumption
<1>. QED BY <1>1, <1>2 DEF RankOfDb, DbNames

\* The databases of a source are of its rank, and none occurs twice.
LEMMA WalkDbsOfRank ==
  ASSUME Inv, LookupSetting, config.db_sync = rank \/ config.db_local = rank
  PROVE  /\ Len(WalkDbs) \in Nat
         /\ \A i \in 1..Len(WalkDbs) : RankOfDb(WalkDbs[i]) = rank
         /\ \A i, j \in 1..Len(WalkDbs) : WalkDbs[i] = WalkDbs[j] => i = j
<1>1. CASE config.db_sync = rank
  <2>1. WalkDbs = SyncDbs
    BY <1>1 DEF WalkDbs
  <2>2. \A i \in 1..Len(SyncDbs) : RankOfDb(SyncDbs[i]) = rank
    BY <1>1, RanksOfDbs DEF SyncNames, LookupSetting
  <2>. QED BY <2>1, <2>2, DatabasesAssumption
<1>2. CASE config.db_sync # rank
  <2>1. WalkDbs = <<"local">>
    BY <1>2 DEF WalkDbs
  <2>. QED BY <1>2, <2>1, RanksOfDbs DEF LookupSetting
<1>. QED BY <1>1, <1>2

\* So are those still to be searched.
LEMMA DbsOfRank ==
  ASSUME Inv, LookupSetting, WalkOfRank, pc \in {"walk", "by_type"}
  PROVE  /\ Len(dbs) \in Nat
         /\ \A i \in 1..Len(dbs) : RankOfDb(dbs[i]) = rank /\ dbs[i] \in DbNames
         /\ \A i, j \in 1..Len(dbs) : dbs[i] = dbs[j] => i = j
<1>1. dbs \in Seq(DbNames) /\ Len(dbs) \in Nat
  BY DEF Inv, TypeOK
<1>2. /\ Len(WalkDbs) \in Nat
      /\ \A i \in 1..Len(WalkDbs) : RankOfDb(WalkDbs[i]) = rank
      /\ \A i, j \in 1..Len(WalkDbs) : WalkDbs[i] = WalkDbs[j] => i = j
  BY WalkDbsOfRank DEF WalkOfRank
<1> DEFINE skip == Len(WalkDbs) - Len(dbs)
<1>3. skip \in Nat /\ \A i \in 1..Len(dbs) : dbs[i] = WalkDbs[skip + i]
  BY <1>1, <1>2 DEF WalkOfRank
<1>4. \A i \in 1..Len(dbs) : skip + i \in 1..Len(WalkDbs)
  BY <1>1, <1>2, <1>3
<1>. HIDE DEF skip
<1>5. \A i, j \in 1..Len(dbs) : dbs[i] = dbs[j] => i = j
  <2>. TAKE i, j \in 1..Len(dbs)
  <2>1. dbs[i] = dbs[j] => skip + i = skip + j
    BY <1>2, <1>3, <1>4
  <2>. QED BY <1>3, <2>1
<1>. QED BY <1>1, <1>2, <1>3, <1>4, <1>5

\* The database that is searched, and those after it.
LEMMA HeadOfDbs ==
  ASSUME Inv, LookupSetting, WalkOfRank, pc \in {"walk", "by_type"}, dbs # <<>>
  PROVE  /\ Head(dbs) = dbs[1] /\ 1 \in 1..Len(dbs)
         /\ dbs[1] \in DbNames /\ RankOfDb(dbs[1]) = rank
         /\ Len(Tail(dbs)) = Len(dbs) - 1 /\ Len(Tail(dbs)) \in Nat
         /\ \A i \in 1..Len(Tail(dbs)) : i + 1 \in 1..Len(dbs) /\ Tail(dbs)[i] = dbs[i + 1]
         /\ \A i \in 1..Len(Tail(dbs)) : Tail(dbs)[i] # dbs[1]
<1>1. dbs \in Seq(DbNames) /\ Len(dbs) \in Nat /\ Len(dbs) # 0
  BY DEF Inv, TypeOK
<1>2. /\ Head(dbs) = dbs[1] /\ 1 \in 1..Len(dbs)
      /\ Len(Tail(dbs)) = Len(dbs) - 1 /\ Len(Tail(dbs)) \in Nat
  BY <1>1
<1>3. \A i \in 1..Len(Tail(dbs)) : i + 1 \in 1..Len(dbs) /\ Tail(dbs)[i] = dbs[i + 1]
  BY <1>1, <1>2
<1>4. \A i \in 1..Len(Tail(dbs)) : Tail(dbs)[i] # dbs[1]
  <2>. TAKE i \in 1..Len(Tail(dbs))
  <2>1. Tail(dbs)[i] = dbs[1] => i + 1 = 1
    BY <1>2, <1>3, DbsOfRank
  <2>. QED BY <1>2, <2>1
<1>. QED BY <1>2, <1>3, <1>4, DbsOfRank

LEMMA InitSetting == Init => SettingInv
<1>. SUFFICES ASSUME Init, Lookup PROVE LookupSetting /\ WalkOfRank
  BY DEF SettingInv
<1>1. /\ config = line.config /\ list = line.targets /\ list # <<>> /\ ~config.is_file
  BY CommandLinesAssumption DEF Init, Lookup, WellFormed, LookupHasTarget
<1>2. pc = "init" /\ phase = "none" /\ listed = {} /\ live = Nodes
  BY DEF Init, Nodes
<1>. QED BY <1>1, <1>2 DEF LookupSetting, WalkOfRank

\* A lookup enters the loop over the ranks and none of the other branches.
LEMMA LookupEnters ==
  ASSUME Inv, LookupSetting, pc = "dispatch"
  PROVE  ~NoCycle
<1>1. live = 1..Len(list) /\ list \in Seq(Target) /\ list # <<>>
  BY CommandLinesAssumption DEF Inv, Fresh, Nodes, LookupSetting
<1>2. 1 \in 1..Len(list)
  BY <1>1
<1>. QED BY <1>1, <1>2 DEF NoCycle

LEMMA LookupActions ==
  ASSUME Inv, Lookup, LookupSetting, [Next]_vars
  PROVE  LookupNext
<1>1. ~\/ \E readable \in SUBSET Nodes : QueryFiles(readable)
       \/ SearchLocal \/ AurForeign \/ AurUpgrades \/ NothingToDo
  BY LookupEnters DEF QueryFiles, SearchLocal, AurForeign, AurUpgrades, NothingToDo, NoCycle,
     LookupSetting
<1>2. ~\/ StartAurSearch \/ ListDb \/ SearchPkg \/ ListGrp \/ AurSearchNext
       \/ AurSearchNoTarget \/ ForeignLocal
       \/ \E outcome \in {"ok", "aur_error", "curl_error"} : AurSearchFetch(outcome)
  BY DEF StartAurSearch, ListDb, SearchPkg, ListGrp, AurSearchNext, AurSearchNoTarget,
     ForeignLocal, AurSearchFetch, Deal, Lookup, LookupSetting
<1>. QED BY <1>1, <1>2 DEF Next, LookupNext

LEMMA DbOrderStays ==
  ASSUME LookupSetting
  PROVE  DbOrder(config) = DbOrder(line.config)
BY DEF DbOrder, Source, LookupSetting

\* When a search has gone on to the next database, the remaining ones are still
\* the last ones of the source.
LEMMA TailOfRank ==
  ASSUME Inv, LookupSetting, WalkOfRank, pc \in {"walk", "by_type"}, dbs # <<>>,
         dbs' = Tail(dbs), pc' = "walk", UNCHANGED <<config, rank>>
  PROVE  WalkOfRank'
<1>1. /\ Len(Tail(dbs)) = Len(dbs) - 1 /\ Len(Tail(dbs)) \in Nat /\ Len(dbs) \in Nat
      /\ \A i \in 1..Len(Tail(dbs)) : i + 1 \in 1..Len(dbs) /\ Tail(dbs)[i] = dbs[i + 1]
  BY HeadOfDbs, DbsOfRank
<1>2. Len(WalkDbs) \in Nat /\ Len(dbs) <= Len(WalkDbs)
  BY WalkDbsOfRank DEF WalkOfRank
<1>3. ASSUME NEW i \in 1..Len(Tail(dbs))
      PROVE  Tail(dbs)[i] = WalkDbs[Len(WalkDbs) - Len(Tail(dbs)) + i]
  <2>1. dbs[i + 1] = WalkDbs[Len(WalkDbs) - Len(dbs) + (i + 1)]
    BY <1>1 DEF WalkOfRank
  <2>2. Len(WalkDbs) - Len(dbs) + (i + 1) = Len(WalkDbs) - Len(Tail(dbs)) + i
    BY <1>1, <1>2
  <2>. QED BY <1>1, <2>1, <2>2
<1>4. WalkDbs' = WalkDbs
  BY DEF WalkDbs
<1>5. config.db_sync = rank \/ config.db_local = rank
  BY DEF WalkOfRank
<1>6. Len(Tail(dbs)) <= Len(WalkDbs)
  BY <1>1, <1>2
<1>. QED BY <1>3, <1>4, <1>5, <1>6 DEF WalkOfRank

LEMMA NextSetting == Inv /\ SettingInv /\ [Next]_vars => SettingInv'
<1>. SUFFICES ASSUME Inv, SettingInv, [Next]_vars, Lookup' PROVE LookupSetting' /\ WalkOfRank'
  BY DEF SettingInv
<1>0. line' = line /\ Lookup /\ LookupSetting /\ WalkOfRank
  BY LineStays DEF Lookup, SettingInv
<1>1. TypeOK /\ Nodes = 1..Len(list) /\ phase \in {"none", "cycle"}
  BY <1>0 DEF Inv, Nodes, LookupSetting
<1>2. ASSUME NEW ok \in BOOLEAN, InitDbSync(ok) PROVE LookupSetting' /\ WalkOfRank'
  <2>1. /\ pc = "init" /\ pc' \in {"dispatch", "exit"}
        /\ UNCHANGED <<config, phase, rank, list, live, listed>>
    BY <1>2 DEF InitDbSync, Goto, lists, history
  <2>2. phase = "none"
    BY <2>1 DEF Inv, Fresh
  <2>. QED BY <1>0, <2>1, <2>2 DEF LookupSetting, WalkOfRank, Nodes
<1>3. CASE StartWalk
  <2>1. /\ pc = "cycle" /\ pc' = "walk" /\ dbs' = WalkDbs
        /\ config.db_sync = rank \/ config.db_local = rank
        /\ UNCHANGED <<config, phase, rank, list, live, listed>>
    BY <1>3 DEF StartWalk, RankOf, Goto, lists, history
  <2>2. Len(WalkDbs) \in Nat
    BY <1>0, <2>1, WalkDbsOfRank
  <2>3. WalkDbs' = WalkDbs
    BY <2>1 DEF WalkDbs
  <2>4. \A i \in 1..Len(WalkDbs) : Len(WalkDbs) - Len(WalkDbs) + i = i
    BY <2>2
  <2>5. WalkOfRank'
    BY <2>1, <2>2, <2>3, <2>4 DEF WalkOfRank
  <2>. QED BY <1>0, <2>1, <2>5 DEF LookupSetting, Nodes
<1>4. CASE Fallback
  <2>1. /\ pc = "walk" /\ pc' = "walk" /\ dbs' = WalkDbs /\ config.op = "OP_INFO_P"
        /\ config' = [config EXCEPT !.op = "OP_QUERY", !.query = "OP_Q_PROVIDES"]
        /\ UNCHANGED <<phase, rank, list, live, listed>>
    BY <1>4 DEF Fallback, lists, history
  <2>2. config.db_sync = rank \/ config.db_local = rank
    BY <1>0, <2>1 DEF WalkOfRank
  <2>3. Len(WalkDbs) \in Nat
    BY <1>0, <2>2, WalkDbsOfRank
  <2>4. /\ config'.just_one = config.just_one /\ config'.is_file = config.is_file
        /\ config'.aur = config.aur /\ config'.db_sync = config.db_sync
        /\ config'.db_local = config.db_local /\ config'.op = "OP_QUERY"
        /\ config'.filter = config.filter
    BY <1>1, <2>1 DEF TypeOK, ConfigType
  <2>5. WalkDbs' = WalkDbs
    BY <2>1, <2>4 DEF WalkDbs
  <2>6. \A i \in 1..Len(WalkDbs) : Len(WalkDbs) - Len(WalkDbs) + i = i
    BY <2>3
  <2>7. WalkOfRank'
    BY <2>1, <2>2, <2>3, <2>4, <2>5, <2>6 DEF WalkOfRank
  <2>8. line.config.op = "OP_INFO_P"
    BY <1>0, <2>1 DEF LookupSetting
  <2>. QED BY <1>0, <2>1, <2>4, <2>7, <2>8 DEF LookupSetting, Nodes
<1>5. CASE EndWalk
  <2>1. /\ pc = "walk" /\ pc' = "cycle" /\ UNCHANGED <<phase, list, live, listed>>
        /\ config' = IF line.config.op = "OP_INFO_P"
                     THEN [config EXCEPT !.op = "OP_INFO_P"] ELSE config
    BY <1>5 DEF EndWalk, Goto, lists, history
  <2>2. /\ config'.just_one = config.just_one /\ config'.is_file = config.is_file
        /\ config'.aur = config.aur /\ config'.db_sync = config.db_sync
        /\ config'.db_local = config.db_local /\ config'.filter = config.filter
        /\ config'.query = config.query
    BY <1>1, <2>1 DEF TypeOK, ConfigType
  <2>3. config'.op = line.config.op
    BY <1>0, <1>1, <2>1 DEF TypeOK, ConfigType, LookupSetting
  <2>. QED BY <1>0, <2>1, <2>2, <2>3 DEF LookupSetting, WalkOfRank, Nodes
<1>6. CASE EnterCycle \/ StartAurInfo \/ SkipAur \/ \E ok \in BOOLEAN : CurlInit(ok)
  <2>1. /\ UNCHANGED <<config, list, live, listed>> /\ phase' = "cycle"
        /\ pc \in {"dispatch", "cycle", "aur_info_init"}
        /\ pc' \in {"cycle", "aur_info_init", "aur_info"}
        /\ pc' # "cycle" => UNCHANGED rank /\ config.aur = rank
    BY <1>0, <1>6 DEF EnterCycle, StartAurInfo, SkipAur, CurlInit, AurReturn, RankOf, Goto, lists,
       history, LookupSetting
  <2>. QED BY <1>0, <2>1 DEF LookupSetting, WalkOfRank, Nodes
<1>7. CASE EndCycle \/ ShowResults
  <2>1. /\ UNCHANGED <<config, rank, phase, list, live, listed>>
        /\ \/ pc = "cycle" /\ rank > DbOrder(config) /\ pc' = "show"
           \/ pc = "show" /\ pc' = "exit"
    BY <1>7 DEF EndCycle, ShowResults, Goto, lists, history
  <2>. QED BY <1>0, <2>1, DbOrderStays DEF LookupSetting, WalkOfRank, Nodes
<1>8. CASE SearchPkgByName \/ ByTypeClose
  <2>1. /\ pc \in {"walk", "by_type"} /\ pc' = "walk" /\ dbs # <<>> /\ dbs' = Tail(dbs)
        /\ UNCHANGED <<config, rank, phase, list, listed>>
        /\ \E dangling, noted : Clear(dangling, noted)
    BY <1>8 DEF SearchPkgByName, ByTypeClose, ByName, Answer, Deal, Goto, Inv, DbChosen
  <2>2. ~config.just_one => live' = live
    BY <2>1 DEF Clear
  <2>3. WalkOfRank'
    BY <1>0, <2>1, TailOfRank
  <2>. QED BY <1>0, <2>1, <2>2, <2>3 DEF LookupSetting, Nodes
<1>9. CASE StartByType \/ ByTypeDep \/ ByTypeNextPkg
  <2>1. /\ pc \in {"walk", "by_type"} /\ pc' = "by_type"
        /\ UNCHANGED <<config, rank, phase, dbs, list, listed>> /\ config.op = "OP_QUERY"
        /\ cursor'[1] \in {1, cursor[1], cursor[1] + 1} /\ (pc = "walk" => cursor'[1] = 1)
        /\ UNCHANGED live \/ \E dangling, noted : Clear(dangling, noted)
    BY <1>0, <1>9 DEF StartByType, ByTypeDep, ByTypeNextPkg, Answer, Deal, Goto, control, history,
       LookupSetting
  <2>2. ~config.just_one => live' = live
    BY <2>1 DEF Clear
  <2>3. cursor'[1] \in Nat \ {0}
    BY <1>0, <2>1 DEF WalkOfRank
  <2>4. WalkDbs' = WalkDbs
    BY <2>1 DEF WalkDbs
  <2>5. WalkOfRank'
    BY <1>0, <2>1, <2>3, <2>4 DEF WalkOfRank
  <2>. QED BY <1>0, <2>1, <2>2, <2>5 DEF LookupSetting, Nodes
<1>10. CASE AurInfoClose \/ \E ok \in BOOLEAN : AurInfoFetch(ok)
  <2>1. /\ pc = "aur_info" /\ pc' \in {"aur_info", "cycle"}
        /\ UNCHANGED <<config, phase, list, listed>> /\ (pc' = "aur_info" => UNCHANGED rank)
        /\ UNCHANGED live \/ \E dangling, noted : Clear(dangling, noted)
    BY <1>0, <1>10 DEF AurInfoClose, AurInfoFetch, Answer, AurReturn, Goto, LookupSetting
  <2>2. ~config.just_one => live' = live
    BY <2>1 DEF Clear
  <2>. QED BY <1>0, <2>1, <2>2 DEF LookupSetting, WalkOfRank, Nodes
<1>11. CASE UNCHANGED vars
  BY <1>0, <1>11 DEF vars, control, lists, history, LookupSetting, WalkOfRank, WalkDbs, Nodes
<1>. QED
  BY <1>0, <1>2, <1>3, <1>4, <1>5, <1>6, <1>7, <1>8, <1>9, <1>10, <1>11, LookupActions
  DEF LookupNext

-----------------------------------------------------------------------------
(***************************************************************************)
(* What the targets that are still open tell about the databases that have *)
(* been searched.                                                          *)
(***************************************************************************)
\* The targets that may still be answered: --just-one looks at those in the list.
Open == {n \in Nodes : IF config.just_one THEN n \in live ELSE n \notin Answered}

\* Database d has been searched by name; the -ii fallback walks over the databases
\* of a rank when all of them have been.
BehindByName(d) ==
  \/ RankOfDb(d) < rank
  \/ /\ RankOfDb(d) = rank /\ pc \in {"walk", "by_type"}
     /\ config.op = "OP_QUERY" \/ \A i \in 1..Len(dbs) : dbs[i] # d

\* Database d has been searched by type.
BehindByType(d) ==
  \/ RankOfDb(d) < rank
  \/ /\ RankOfDb(d) = rank /\ pc \in {"walk", "by_type"}
     /\ \A i \in 1..Len(dbs) : dbs[i] # d

NamesBehind ==
  line.config.op \in {"OP_INFO", "OP_INFO_P"} =>
    \A n \in Open : \A d \in DbNames : Searched(d) /\ BehindByName(d) => ~Names(d, n)

RelatesBehind ==
  line.config.op = "OP_QUERY" =>
    \A n \in Open : \A d \in DbNames :
      Searched(d) /\ BehindByType(d) => ~Relates(d, n, line.config.query)

\* Dependency i of the package at index k of database d is on node n.
DependsOn(d, k, i, n) ==
  /\ TargetNamesDb(list[n], d)
  /\ Filter(Cache[d][k], config.filter)
  /\ TargetCompatible(Cache[d][k].rel[line.config.query][i], list[n])

\* The search by type has gone as far as its cursor says.
RelatesHere ==
  line.config.op = "OP_QUERY" /\ pc = "by_type" =>
    /\ cursor[2] \in Nat
    /\ \A n \in Open : \A k \in 1..Len(Cache[dbs[1]]) :
         \A i \in 1..Len(Cache[dbs[1]][k].rel[line.config.query]) :
           k < cursor[1] \/ (k = cursor[1] /\ i < cursor[2]) => ~DependsOn(dbs[1], k, i, n)

\* The answers by name come from the first database that has one.
FirstAnswers ==
  line.config.op = "OP_INFO" /\ config.just_one =>
    \A a \in answers : \A d \in DbNames :
      Searched(d) /\ Before(d, a[2].db) => ~Names(d, a[1])

SearchedInv ==
  Lookup => NamesBehind /\ RelatesBehind /\ RelatesHere /\ FirstAnswers

-----------------------------------------------------------------------------
\* The ranks go up to the number of sources, and no two sources share one.
LEMMA RanksOfSources ==
  ASSUME Inv
  PROVE  /\ DbOrder(line.config) \in Nat
         /\ line.config.aur <= DbOrder(line.config)
         /\ line.config.db_local <= DbOrder(line.config)
         /\ line.config.db_sync <= DbOrder(line.config)
         /\ line.config.aur # 0 => /\ line.config.aur # line.config.db_local
                                  /\ line.config.aur # line.config.db_sync
         /\ line.config.db_local # 0 => line.config.db_local # line.config.db_sync
<1>1. RanksDense(line.config, DbOrder(line.config))
  BY CommandLinesAssumption DEF Inv, WellFormed
<1>2. "aur" \in Source /\ "db_local" \in Source /\ "db_sync" \in Source
  BY DEF Source
<1>3. DbOrder(line.config) \in Nat
  <2>1. IsFiniteSet(Source)
    <3>1. Source = (({} \cup {"aur"}) \cup {"db_local"}) \cup {"db_sync"}
      BY DEF Source
    <3>. QED BY <3>1, FS_EmptySet, FS_AddElement
  <2>. QED BY <2>1, FS_Subset, FS_CardinalityType DEF DbOrder
<1>. QED BY <1>1, <1>2, <1>3 DEF RanksDense

\* A walk over the databases of a rank meets all of them that are searched.
LEMMA WalkDbsAll ==
  ASSUME Inv, LookupSetting, config.db_sync = rank \/ config.db_local = rank,
         NEW d \in DbNames, Searched(d), RankOfDb(d) = rank
  PROVE  \E i \in 1..Len(WalkDbs) : WalkDbs[i] = d
<1>1. CASE d = "local"
  <2>1. line.config.db_local # 0 /\ line.config.db_local = rank
    BY <1>1, RanksOfDbs DEF Searched
  <2>2. WalkDbs = <<"local">>
    BY <2>1, RanksOfSources DEF WalkDbs, LookupSetting
  <2>. QED BY <1>1, <2>2
<1>2. CASE d # "local"
  <2>1. d \in SyncNames /\ line.config.db_sync = rank
    BY <1>2, RanksOfDbs DEF DbNames
  <2>2. WalkDbs = SyncDbs
    BY <2>1 DEF WalkDbs, LookupSetting
  <2>. QED BY <2>1, <2>2 DEF SyncNames
<1>. QED BY <1>1, <1>2

\* Who is open stays open or is answered; what a target is and how it is filtered
\* does not change.
LEMMA OpenShrinks ==
  ASSUME Inv, Lookup, LookupSetting, LookupNext
  PROVE  /\ UNCHANGED list /\ config'.filter = config.filter
         /\ config'.just_one <=> config.just_one
         /\ live' \subseteq live /\ answers \subseteq answers'
         /\ Open' \subseteq Open
<1>1. TypeOK /\ Len(list) \in Nat
  BY DEF Inv
<1>2. UNCHANGED list
  BY DEF LookupNext, EnterCycle, StartWalk, StartAurInfo, SkipAur, EndCycle, Fallback, EndWalk,
     SearchPkgByName, StartByType, ByTypeDep, ByTypeNextPkg, ByTypeClose, AurInfoClose,
     ShowResults, InitDbSync, CurlInit, AurInfoFetch, vars, lists
<1>3. config'.filter = config.filter /\ config'.just_one = config.just_one
  <2>1. CASE Fallback
    BY <1>1, <2>1 DEF Fallback, TypeOK, ConfigType
  <2>2. CASE EndWalk
    BY <1>1, <2>2 DEF EndWalk, TypeOK, ConfigType
  <2>3. CASE ~Fallback /\ ~EndWalk
    <3>1. config' = config
      BY <2>3 DEF LookupNext, EnterCycle, StartWalk, StartAurInfo, SkipAur, EndCycle,
         SearchPkgByName, StartByType, ByTypeDep, ByTypeNextPkg, ByTypeClose, AurInfoClose,
         ShowResults, InitDbSync, CurlInit, AurInfoFetch, vars, control
    <3>. QED BY <3>1
  <2>. QED BY <2>1, <2>2, <2>3
<1>4. live' \subseteq live
  <2>1. UNCHANGED live \/ \E dangling, noted : Clear(dangling, noted)
    BY DEF LookupNext, EnterCycle, StartWalk, StartAurInfo, SkipAur, EndCycle, Fallback, EndWalk,
       SearchPkgByName, ByName, StartByType, ByTypeDep, ByTypeNextPkg, ByTypeClose, AurInfoClose,
       ShowResults, InitDbSync, CurlInit, AurInfoFetch, vars, lists
  <2>. QED BY <1>1, <2>1, ClearStep
<1>5. answers \subseteq answers'
  BY DEF LookupNext, EnterCycle, StartWalk, StartAurInfo, SkipAur, EndCycle, Fallback, EndWalk,
     SearchPkgByName, ByName, StartByType, ByTypeDep, ByTypeNextPkg, ByTypeClose, AurInfoClose,
     ShowResults, InitDbSync, CurlInit, AurInfoFetch, Answer, vars, history
<1>. QED BY <1>2, <1>3, <1>4, <1>5 DEF Open, Nodes, Answered, NodesOf

\* A search closes the targets it hits.
LEMMA HitsClose ==
  ASSUME Inv, Lookup, LookupSetting, LookupNext,
         NEW hits, Answer(hits), NEW dangling, Clear(dangling, NodesOf(hits))
  PROVE  Open' \cap NodesOf(hits) = {}
<1>1. config.just_one => live' \cap NodesOf(hits) = {}
  BY ClearStep DEF Inv
<1>2. NodesOf(hits) \subseteq Answered'
  BY DEF Answer, Answered, NodesOf
<1>. QED BY <1>1, <1>2, OpenShrinks DEF Open

LEMMA NamesStay ==
  ASSUME UNCHANGED <<line, list>>, config'.filter = config.filter
  PROVE  /\ \A d, n : Names(d, n)' <=> Names(d, n)
         /\ \A d, n, q : Relates(d, n, q)' <=> Relates(d, n, q)
         /\ \A d, k, i, n : DependsOn(d, k, i, n)' <=> DependsOn(d, k, i, n)
         /\ \A d : (RankOfDb(d)' = RankOfDb(d)) /\ (Searched(d)' <=> Searched(d))
         /\ \A d, e : Before(d, e)' <=> Before(d, e)
<1>1. \A d, n : Names(d, n)' <=> Names(d, n)
  BY DEF Names
<1>2. \A d, n, q : Relates(d, n, q)' <=> Relates(d, n, q)
  BY DEF Relates
<1>3. \A d, k, i, n : DependsOn(d, k, i, n)' <=> DependsOn(d, k, i, n)
  BY DEF DependsOn
<1>4. \A d : (RankOfDb(d)' = RankOfDb(d)) /\ (Searched(d)' <=> Searched(d))
  BY DEF RankOfDb, Searched
<1>5. \A d, e : Before(d, e)' <=> Before(d, e)
  BY DEF Before, RankOfDb
<1>. QED BY <1>1, <1>2, <1>3, <1>4, <1>5

LEMMA InitSearched == Init => SearchedInv
<1>. SUFFICES ASSUME Init, Lookup PROVE NamesBehind /\ RelatesBehind /\ RelatesHere /\ FirstAnswers
  BY DEF SearchedInv
<1>1. rank = 0 /\ pc = "init" /\ answers = {}
  BY DEF Init
<1>2. \A d : ~(RankOfDb(d) < rank)
  BY <1>1, InitInv, RanksOfDbs
<1>. QED BY <1>1, <1>2 DEF NamesBehind, RelatesBehind, RelatesHere, FirstAnswers, BehindByName,
            BehindByType

\* A step that goes on to other databases, having left behind no more than is known.
LEMMA MoveOn ==
  ASSUME Inv, Lookup, LookupSetting, LookupNext, line' = line,
         NamesBehind, RelatesBehind, FirstAnswers,
         UNCHANGED answers, pc' # "by_type",
         line.config.op # "OP_QUERY" =>
           \A d \in DbNames : Searched(d) /\ BehindByName(d)' => BehindByName(d),
         line.config.op = "OP_QUERY" =>
           \A d \in DbNames : Searched(d) /\ BehindByType(d)' => BehindByType(d)
  PROVE  NamesBehind' /\ RelatesBehind' /\ RelatesHere' /\ FirstAnswers'
<1>2. /\ UNCHANGED list /\ config'.filter = config.filter
      /\ config'.just_one <=> config.just_one
      /\ Open' \subseteq Open
  BY OpenShrinks
<1>3. /\ \A d, n : Names(d, n)' <=> Names(d, n)
      /\ \A d, n, q : Relates(d, n, q)' <=> Relates(d, n, q)
      /\ \A d : Searched(d)' <=> Searched(d)
      /\ \A d, e : Before(d, e)' <=> Before(d, e)
  BY <1>2, NamesStay
<1>4. NamesBehind'
  BY <1>2, <1>3 DEF NamesBehind
<1>5. RelatesBehind'
  BY <1>2, <1>3 DEF RelatesBehind
<1>6. FirstAnswers'
  BY <1>2, <1>3 DEF FirstAnswers
<1>. QED BY <1>4, <1>5, <1>6 DEF RelatesHere

LEMMA NextSearched == Inv /\ SettingInv /\ SettingInv' /\ SearchedInv /\ [Next]_vars => SearchedInv'
<1>. SUFFICES ASSUME Inv, SettingInv, SettingInv', SearchedInv, [Next]_vars, Lookup'
              PROVE  NamesBehind' /\ RelatesBehind' /\ RelatesHere' /\ FirstAnswers'
  BY DEF SearchedInv
<1>0. /\ line' = line /\ Lookup /\ LookupNext
      /\ LookupSetting /\ WalkOfRank /\ LookupSetting' /\ WalkOfRank'
      /\ NamesBehind /\ RelatesBehind /\ RelatesHere /\ FirstAnswers
  BY LineStays, LookupActions DEF Lookup, SettingInv, SearchedInv
<1>1. rank \in Nat /\ TypeOK
  BY DEF Inv, TypeOK
<1>2. /\ \A d : RankOfDb(d) \in Nat /\ RankOfDb(d)' = RankOfDb(d)
      /\ \A d \in DbNames : Searched(d) => RankOfDb(d) > 0
  <2>1. \A d : RankOfDb(d) \in Nat
    BY RanksOfDbs
  <2>2. \A d \in DbNames : Searched(d) => RankOfDb(d) # 0
    BY RanksOfDbs DEF Searched, DbNames
  <2>. QED BY <1>0, <2>1, <2>2 DEF RankOfDb
<1>3. CASE EnterCycle \/ \E ok \in BOOLEAN : InitDbSync(ok)
  <2>1. /\ pc' \in {"dispatch", "cycle", "exit"} /\ UNCHANGED answers
        /\ rank' = 1 \/ rank' = rank
    BY <1>3 DEF EnterCycle, InitDbSync, Goto, history
  <2>2. \A d \in DbNames : Searched(d) /\ RankOfDb(d) < rank' => RankOfDb(d) < rank
    BY <1>1, <1>2, <2>1
  <2>. QED BY <1>0, <1>2, <2>1, <2>2, MoveOn DEF BehindByName, BehindByType
<1>4. CASE StartWalk
  <2>1. /\ pc = "cycle" /\ pc' = "walk" /\ dbs' = WalkDbs /\ UNCHANGED <<config, rank, answers>>
        /\ config.db_sync = rank \/ config.db_local = rank
    BY <1>4 DEF StartWalk, RankOf, Goto, lists, history
  <2>2. \A d \in DbNames : Searched(d) /\ RankOfDb(d) = rank
                             => \E i \in 1..Len(WalkDbs) : WalkDbs[i] = d
    BY <1>0, <2>1, WalkDbsAll
  <2>3. \A d \in DbNames : Searched(d) /\ BehindByType(d)' => BehindByType(d)
    BY <1>2, <2>1, <2>2 DEF BehindByType
  <2>4. line.config.op # "OP_QUERY" =>
          \A d \in DbNames : Searched(d) /\ BehindByName(d)' => BehindByName(d)
    BY <1>0, <1>2, <2>1, <2>2 DEF BehindByName, LookupSetting
  <2>. QED BY <1>0, <2>1, <2>3, <2>4, MoveOn
<1>5. CASE StartAurInfo \/ EndCycle \/ ShowResults
  <2>1. /\ pc' \in {"aur_info_init", "show", "exit"} /\ UNCHANGED <<rank, answers>>
    BY <1>5 DEF StartAurInfo, EndCycle, ShowResults, Goto, lists, history
  <2>. QED BY <1>0, <1>2, <2>1, MoveOn DEF BehindByName, BehindByType
<1>6. CASE SkipAur \/ AurInfoClose \/ \E ok \in BOOLEAN : CurlInit(ok)
  <2>1. /\ UNCHANGED answers /\ pc' \in {"cycle", "aur_info"}
        /\ config.aur = rank /\ rank' \in {rank, rank + 1}
    BY <1>0, <1>6 DEF SkipAur, AurInfoClose, CurlInit, AurReturn, RankOf, Goto, history, LookupSetting
  <2>2. \A d \in DbNames : Searched(d) => RankOfDb(d) # rank
    <3>1. \A d \in DbNames : RankOfDb(d) \in {line.config.db_local, line.config.db_sync}
      BY RanksOfDbs DEF DbNames
    <3>. QED BY <1>0, <1>2, <2>1, <3>1, RanksOfSources DEF LookupSetting
  <2>3. \A d \in DbNames : Searched(d) /\ RankOfDb(d) < rank' => RankOfDb(d) < rank
    BY <1>1, <1>2, <2>1, <2>2
  <2>. QED BY <1>0, <1>2, <2>1, <2>3, MoveOn DEF BehindByName, BehindByType
<1>7. CASE EndWalk \/ Fallback
  <2>1. /\ pc = "walk" /\ dbs = <<>> /\ UNCHANGED answers
        /\ \/ pc' = "cycle" /\ rank' = rank + 1
           \/ pc' = "walk" /\ rank' = rank /\ config.op = "OP_INFO_P"
    BY <1>7 DEF EndWalk, Fallback, Goto, lists, history
  <2>2. \A d : RankOfDb(d) < rank + 1 => RankOfDb(d) < rank \/ RankOfDb(d) = rank
    BY <1>1, <1>2
  <2>3. \A d : RankOfDb(d) < rank \/ RankOfDb(d) = rank => BehindByName(d) /\ BehindByType(d)
    BY <2>1 DEF BehindByName, BehindByType
  <2>4. \A d \in DbNames : BehindByName(d)' \/ BehindByType(d)' => BehindByName(d) /\ BehindByType(d)
    BY <1>2, <2>1, <2>2, <2>3 DEF BehindByName, BehindByType
  <2>. QED BY <1>0, <2>1, <2>4, MoveOn
<1>8. CASE UNCHANGED vars
  <2>1. UNCHANGED <<line, config, pc, rank, dbs, list, live, cursor, answers>>
    BY <1>8 DEF vars, control, lists, history
  <2>2. Open' = Open
    BY <2>1 DEF Open, Nodes, Answered
  <2>3. /\ \A d : BehindByName(d)' <=> BehindByName(d)
        /\ \A d : BehindByType(d)' <=> BehindByType(d)
    BY <1>2, <2>1 DEF BehindByName, BehindByType
  <2>. QED BY <1>0, <2>1, <2>2, <2>3, NamesStay
       DEF NamesBehind, RelatesBehind, RelatesHere, FirstAnswers
<1>9. CASE SearchPkgByName
  <2> DEFINE hits == ByNameHits(Head(dbs))
  <2>1. /\ pc = "walk" /\ pc' = "walk" /\ dbs # <<>> /\ dbs' = Tail(dbs)
        /\ Answer(hits) /\ Clear({}, NodesOf(hits)) /\ UNCHANGED <<config, rank, list>>
        /\ config.op \in {"OP_INFO", "OP_INFO_P"} /\ answers' = answers \cup hits
    BY <1>9 DEF SearchPkgByName, ByName, Deal, db, Answer
  <2>2. /\ Head(dbs) = dbs[1] /\ 1 \in 1..Len(dbs) /\ dbs[1] \in DbNames /\ RankOfDb(dbs[1]) = rank
        /\ Len(Tail(dbs)) = Len(dbs) - 1 /\ Len(Tail(dbs)) \in Nat /\ Len(dbs) \in Nat
        /\ \A i \in 1..Len(Tail(dbs)) : Tail(dbs)[i] = dbs[i + 1]
    BY <1>0, <2>1, HeadOfDbs, DbsOfRank
  <2>3. /\ NodesOf(hits) \subseteq live
        /\ \A h \in hits : h[2] \in PkgsOf(dbs[1])
    <3>1. NodesOf(hits) \subseteq live
      BY <2>2, OneHitByName
    <3>2. \A h \in hits : h[2] \in PkgsOf(dbs[1])
      BY <2>2 DEF ByNameHits, DbGetPkg
    <3>. QED BY <3>1, <3>2
  <2>4. \A n \in live : Names(dbs[1], n) => n \in NodesOf(hits)
    <3>. SUFFICES ASSUME NEW n \in live, Names(dbs[1], n) PROVE n \in NodesOf(hits)
      OBVIOUS
    <3>1. PICK p \in DbGetPkg(dbs[1], list[n].name) :
            Filter(p, config.filter) /\ TargetCheckVersion(list[n], p.ver)
      BY DEF Names
    <3>2. <<n, p>> \in hits
      BY <2>2, <3>1 DEF ByNameHits, Names
    <3>. QED BY <3>2 DEF NodesOf
  <2>. HIDE DEF hits
  <2>5. /\ Open' \subseteq Open /\ Open' \cap NodesOf(hits) = {} /\ Open' \subseteq live
    <3>1. Open' \subseteq Open /\ live' \subseteq live
      BY <1>0, OpenShrinks
    <3>2. Open' \cap NodesOf(hits) = {}
      BY <1>0, <2>1, HitsClose
    <3>3. Open \subseteq live
      BY <1>0 DEF Open, LookupSetting
    <3>. QED BY <3>1, <3>2, <3>3
  <2>6. line.config.op \in {"OP_INFO", "OP_INFO_P"}
    BY <1>0, <2>1 DEF LookupSetting
  <2>7. /\ \A d, n : Names(d, n)' <=> Names(d, n)
        /\ \A d : Searched(d)' <=> Searched(d)
        /\ \A d, e : Before(d, e)' <=> Before(d, e)
    BY <1>0, <2>1, NamesStay
  <2>8. \A d : BehindByName(d)' => BehindByName(d) \/ d = dbs[1]
    <3>. SUFFICES ASSUME NEW d, BehindByName(d)', d # dbs[1], RankOfDb(d) = rank
                  PROVE  \A i \in 1..Len(dbs) : dbs[i] # d
      BY <1>2, <2>1 DEF BehindByName
    <3>1. \A i \in 1..Len(Tail(dbs)) : Tail(dbs)[i] # d
      BY <1>1, <1>2, <2>1 DEF BehindByName
    <3>2. \A i \in 1..Len(dbs) : i # 1 => i - 1 \in 1..Len(Tail(dbs)) /\ (i - 1) + 1 = i
      BY <2>2
    <3>. QED BY <2>2, <3>1, <3>2
  <2>9. NamesBehind'
    BY <1>0, <2>4, <2>5, <2>6, <2>7, <2>8 DEF NamesBehind
  <2>10. FirstAnswers'
    <3>. SUFFICES ASSUME line.config.op = "OP_INFO", config.just_one, NEW a \in answers',
                         NEW d \in DbNames, Searched(d), Before(d, a[2].db), a \in hits
                  PROVE  ~Names(d, a[1])
      BY <1>0, <2>1, <2>7 DEF FirstAnswers
    <3>1. a[1] \in Open
      BY <1>1, <2>3 DEF Open, NodesOf, TypeOK
    <3>2. a[2].db = dbs[1]
      BY <2>2, <2>3, DatabasesAssumption
    <3>3. BehindByName(d)
      <4>1. CASE RankOfDb(d) < RankOfDb(dbs[1])
        BY <2>2, <4>1 DEF BehindByName
      <4>2. CASE RankOfDb(d) = RankOfDb(dbs[1]) /\ \E i, j \in 1..Len(SyncDbs) :
                   i < j /\ SyncDbs[i] = d /\ SyncDbs[j] = dbs[1]
        <5>1. PICK i \in 1..Len(SyncDbs), j \in 1..Len(SyncDbs) :
                     i < j /\ SyncDbs[i] = d /\ SyncDbs[j] = dbs[1]
          BY <4>2
        <5>2. config.db_sync = rank
          BY <1>0, <2>2, <5>1, RanksOfDbs DEF SyncNames, LookupSetting
        <5>3. WalkDbs = SyncDbs /\ Len(SyncDbs) \in Nat
          BY <5>2, DatabasesAssumption DEF WalkDbs
        <5> DEFINE skip == Len(SyncDbs) - Len(dbs)
        <5>4. skip \in Nat /\ \A k \in 1..Len(dbs) : dbs[k] = SyncDbs[skip + k]
          BY <1>0, <2>1, <2>2, <5>3 DEF WalkOfRank
        <5>5. \A k \in 1..Len(dbs) : skip + k \in 1..Len(SyncDbs)
          BY <2>2, <5>3, <5>4
        <5>. HIDE DEF skip
        <5>a. \A k, l \in 1..Len(SyncDbs) : SyncDbs[k] = SyncDbs[l] => k = l
          BY DatabasesAssumption
        <5>b. 1 \in 1..Len(dbs) /\ skip + 1 \in 1..Len(SyncDbs) /\ SyncDbs[j] = SyncDbs[skip + 1]
          BY <2>2, <5>1, <5>4, <5>5
        <5>6. j = skip + 1
          BY <5>a, <5>b
        <5>7. ASSUME NEW k \in 1..Len(dbs), dbs[k] = d PROVE FALSE
          <6>1. i = skip + k
            BY <5>1, <5>4, <5>5, <5>7, <5>a
          <6>. QED BY <5>1, <5>4, <5>6, <6>1
        <5>. QED BY <2>1, <2>2, <4>2, <5>7 DEF BehindByName
      <4>. QED BY <3>2, <4>1, <4>2 DEF Before
    <3>. QED BY <1>0, <2>6, <3>1, <3>3 DEF NamesBehind
  <2>. QED BY <1>0, <2>1, <2>6, <2>9, <2>10 DEF RelatesBehind, RelatesHere
<1>10. ASSUME NEW ok \in BOOLEAN, AurInfoFetch(ok)
       PROVE  NamesBehind' /\ RelatesBehind' /\ RelatesHere' /\ FirstAnswers'
  <2> DEFINE reply == IF ok THEN InfoReply({list[n].name : n \in Batch}) ELSE {}
             hits  == AurHits(reply)
  <2>1. reply \in SUBSET AurPkgs
    BY DEF InfoReply
  <2>2. NodesOf(hits) \subseteq live /\ \A h \in hits : h[2] \in AurPkgs
    BY <2>1, AurHitsOf
  <2>3. /\ pc = "aur_info" /\ pc' = "aur_info" /\ answers' = answers \cup hits
        /\ UNCHANGED <<config, rank, list>>
    BY <1>10 DEF AurInfoFetch, Answer
  <2>. HIDE DEF hits
  <2>4. Open' \subseteq Open
    BY <1>0, OpenShrinks
  <2>5. /\ \A d, n : Names(d, n)' <=> Names(d, n)
        /\ \A d, n, q : Relates(d, n, q)' <=> Relates(d, n, q)
        /\ \A d : Searched(d)' <=> Searched(d)
        /\ \A d, e : Before(d, e)' <=> Before(d, e)
    BY <1>0, <2>3, NamesStay
  <2>6. /\ \A d : BehindByName(d)' => BehindByName(d)
        /\ \A d : BehindByType(d)' => BehindByType(d)
    BY <1>2, <2>3 DEF BehindByName, BehindByType
  <2>7. NamesBehind' /\ RelatesBehind' /\ RelatesHere'
    BY <1>0, <2>3, <2>4, <2>5, <2>6 DEF NamesBehind, RelatesBehind, RelatesHere
  <2>8. FirstAnswers'
    <3>. SUFFICES ASSUME line.config.op = "OP_INFO", config.just_one, NEW a \in answers',
                         NEW d \in DbNames, Searched(d), Before(d, a[2].db), a \in hits
                  PROVE  ~Names(d, a[1])
      BY <1>0, <2>3, <2>5 DEF FirstAnswers
    <3>1. a[1] \in Open
      BY <1>1, <2>2 DEF Open, NodesOf, TypeOK
    <3>2. a[2].db = "aur"
      BY <2>2, DatabasesAssumption
    <3>3. RankOfDb("aur") = rank
      BY <1>0, <2>3, RanksOfDbs DEF LookupSetting
    <3>4. RankOfDb(d) < rank
      <4>1. \A i \in 1..Len(SyncDbs) : SyncDbs[i] # "aur"
        <5>1. \A i \in 1..Len(SyncDbs) : SyncDbs[i] \in SyncNames
          BY DEF SyncNames
        <5>2. "aur" \notin SyncNames
          BY DatabasesAssumption
        <5>. QED BY <5>1, <5>2
      <4>. QED BY <3>2, <3>3, <4>1 DEF Before
    <3>. QED BY <1>0, <3>1, <3>4 DEF NamesBehind, BehindByName
  <2>. QED BY <2>7, <2>8
<1>11. CASE StartByType
  <2>1. /\ pc = "walk" /\ pc' = "by_type" /\ cursor' = <<1, 1>>
        /\ UNCHANGED <<config, rank, dbs, list, live, answers>>
    BY <1>11 DEF StartByType, Deal, Goto, history
  <2>2. Open' = Open
    BY <2>1 DEF Open, Nodes, Answered
  <2>3. /\ \A d : BehindByName(d)' <=> BehindByName(d)
        /\ \A d : BehindByType(d)' <=> BehindByType(d)
    BY <1>2, <2>1 DEF BehindByName, BehindByType
  <2>4. /\ \A d, n : Names(d, n)' <=> Names(d, n)
        /\ \A d, n, q : Relates(d, n, q)' <=> Relates(d, n, q)
        /\ \A d : Searched(d)' <=> Searched(d)
        /\ \A d, e : Before(d, e)' <=> Before(d, e)
    BY <1>0, <2>1, NamesStay
  <2>5. NamesBehind' /\ RelatesBehind' /\ FirstAnswers'
    BY <1>0, <2>1, <2>2, <2>3, <2>4 DEF NamesBehind, RelatesBehind, FirstAnswers
  <2>6. RelatesHere'
    <3>1. \A k : k \in 1..Len(Cache[dbs[1]]) => ~(k < 1)
      OBVIOUS
    <3>2. \A k, i : i \in 1..Len(Cache[dbs[1]][k].rel[line.config.query]) => ~(i < 1)
      OBVIOUS
    <3>. QED BY <1>0, <2>1, <3>1, <3>2 DEF RelatesHere
  <2>. QED BY <2>5, <2>6
<1>12. CASE ByTypeDep \/ ByTypeNextPkg
  <2>1. /\ pc = "by_type" /\ pc' = "by_type" /\ UNCHANGED <<config, rank, dbs, list>>
        /\ answers' = answers \/ answers' = answers \cup ByTypeHits
    BY <1>12 DEF ByTypeDep, ByTypeNextPkg, Answer, control, history
  <2>2. Open' \subseteq Open
    BY <1>0, OpenShrinks
  <2>3. /\ \A d : BehindByName(d)' <=> BehindByName(d)
        /\ \A d : BehindByType(d)' <=> BehindByType(d)
    BY <1>2, <2>1 DEF BehindByName, BehindByType
  <2>4. /\ \A d, n : Names(d, n)' <=> Names(d, n)
        /\ \A d, n, q : Relates(d, n, q)' <=> Relates(d, n, q)
        /\ \A d, k, i, n : DependsOn(d, k, i, n)' <=> DependsOn(d, k, i, n)
        /\ \A d : Searched(d)' <=> Searched(d)
    BY <1>0, <2>1, NamesStay
  <2>5. NamesBehind' /\ RelatesBehind'
    BY <1>0, <2>1, <2>2, <2>3, <2>4 DEF NamesBehind, RelatesBehind
  <2>6. FirstAnswers'
    BY <1>0, <2>1 DEF FirstAnswers, LookupSetting
  <2>7. RelatesHere'
    <3>. SUFFICES ASSUME line.config.op = "OP_QUERY"
                  PROVE  /\ cursor'[2] \in Nat
                         /\ \A n \in Open' : \A k \in 1..Len(Cache[dbs[1]]) :
                              \A i \in 1..Len(Cache[dbs[1]][k].rel[line.config.query]) :
                                k < cursor'[1] \/ (k = cursor'[1] /\ i < cursor'[2])
                                  => ~DependsOn(dbs[1], k, i, n)
      BY <1>0, <2>1, <2>4 DEF RelatesHere
    <3>1. /\ cursor[1] \in Nat \ {0} /\ cursor[2] \in Nat
          /\ \A n \in Open : \A k \in 1..Len(Cache[dbs[1]]) :
               \A i \in 1..Len(Cache[dbs[1]][k].rel[line.config.query]) :
                 k < cursor[1] \/ (k = cursor[1] /\ i < cursor[2]) => ~DependsOn(dbs[1], k, i, n)
      BY <1>0, <2>1 DEF WalkOfRank, RelatesHere
    <3>2. /\ dbs # <<>> /\ Head(dbs) = dbs[1] /\ dbs[1] \in DbNames
          /\ config.query = line.config.query
      BY <1>0, <2>1, HeadOfDbs DEF Inv, DbChosen, LookupSetting
    <3>3. CASE ByTypeNextPkg
      <4>1. cursor[2] > Len(Deps) /\ cursor' = <<cursor[1] + 1, 1>> /\ cursor[1] <= Len(Cache[dbs[1]])
        BY <3>2, <3>3 DEF ByTypeNextPkg, MorePkgs, db
      <4>2. Deps = Cache[dbs[1]][cursor[1]].rel[line.config.query]
        BY <3>2 DEF Deps, Pkg, db
      <4>3. Len(Deps) \in Nat
        <5>1. Cache[dbs[1]][cursor[1]] \in PkgsOf(dbs[1])
          <6>1. Len(Cache[dbs[1]]) \in Nat
            BY <3>2, DatabasesAssumption
          <6>. QED BY <3>1, <4>1, <6>1 DEF PkgsOf
        <5>2. line.config.query \in QueryType \ {"OP_Q_ALL"}
          <6>1. line.config \in ConfigType /\ QueryMatchesOp(line.config)
            BY CommandLinesAssumption DEF Inv, WellFormed
          <6>. QED BY <6>1 DEF ConfigType, QueryMatchesOp
        <5>3. Cache[dbs[1]][cursor[1]].rel \in [QueryType \ {"OP_Q_ALL"} -> Seq(Target)]
          BY <3>2, <5>1, DatabasesAssumption
        <5>4. Deps \in Seq(Target)
          BY <4>2, <5>2, <5>3
        <5>. QED BY <5>4
      <4>4. \A k \in 1..Len(Cache[dbs[1]]) : k < cursor[1] + 1 => k < cursor[1] \/ k = cursor[1]
        BY <3>1
      <4>5. \A i \in 1..Len(Deps) : i < cursor[2]
        BY <3>1, <4>1, <4>3
      <4>6. \A k : \A i \in 1..Len(Cache[dbs[1]][k].rel[line.config.query]) : ~(i < 1)
        OBVIOUS
      <4>. QED BY <2>2, <3>1, <4>1, <4>2, <4>4, <4>5, <4>6
    <3>4. CASE ByTypeDep
      <4>1. /\ cursor' = <<cursor[1], cursor[2] + 1>> /\ Answer(ByTypeHits)
            /\ Clear(args, NodesOf(ByTypeHits))
        BY <3>4 DEF ByTypeDep
      <4>2. Open' \cap NodesOf(ByTypeHits) = {} /\ Open' \subseteq live
        <5>1. Open \subseteq live
          BY <1>0 DEF Open, LookupSetting
        <5>. QED BY <1>0, <2>2, <4>1, <5>1, HitsClose
      <4>3. \A n \in live : DependsOn(dbs[1], cursor[1], cursor[2], n) => n \in NodesOf(ByTypeHits)
        <5>. SUFFICES ASSUME NEW n \in live, DependsOn(dbs[1], cursor[1], cursor[2], n)
                      PROVE  n \in NodesOf(ByTypeHits)
          OBVIOUS
        <5>1. <<n, Pkg>> \in ByTypeHits
          BY <3>2 DEF ByTypeHits, DependsOn, Deps, Pkg, db
        <5>. QED BY <5>1 DEF NodesOf
      <4>4. \A k : \A i \in 1..Len(Cache[dbs[1]][k].rel[line.config.query]) :
               i < cursor[2] + 1 => i < cursor[2] \/ i = cursor[2]
        BY <3>1
      <4>5. cursor'[1] = cursor[1] /\ cursor'[2] = cursor[2] + 1 /\ cursor'[2] \in Nat
        BY <3>1, <4>1
      <4>. QED BY <2>2, <3>1, <4>2, <4>3, <4>4, <4>5
    <3>. QED BY <1>12, <3>3, <3>4
  <2>. QED BY <2>5, <2>6, <2>7
<1>13. CASE ByTypeClose
  <2>1. /\ pc = "by_type" /\ pc' = "walk" /\ dbs # <<>> /\ dbs' = Tail(dbs) /\ ~MorePkgs
        /\ UNCHANGED <<config, rank, list, answers>>
    BY <1>13 DEF ByTypeClose, Goto, Inv, DbChosen
  <2>2. /\ Head(dbs) = dbs[1] /\ 1 \in 1..Len(dbs) /\ dbs[1] \in DbNames
        /\ Len(Tail(dbs)) = Len(dbs) - 1 /\ Len(Tail(dbs)) \in Nat /\ Len(dbs) \in Nat
        /\ \A i \in 1..Len(Tail(dbs)) : Tail(dbs)[i] = dbs[i + 1]
    BY <1>0, <2>1, HeadOfDbs, DbsOfRank
  <2>3. Open' \subseteq Open
    BY <1>0, OpenShrinks
  <2>4. /\ \A d, n : Names(d, n)' <=> Names(d, n)
        /\ \A d, n, q : Relates(d, n, q)' <=> Relates(d, n, q)
        /\ \A d : Searched(d)' <=> Searched(d)
        /\ \A d, e : Before(d, e)' <=> Before(d, e)
    BY <1>0, <2>1, NamesStay
  <2>5. NamesBehind' /\ FirstAnswers'
    <3>1. \A d : BehindByName(d)' => BehindByName(d)
      BY <1>0, <1>2, <2>1 DEF BehindByName, LookupSetting
    <3>. QED BY <1>0, <2>1, <2>3, <2>4, <3>1 DEF NamesBehind, FirstAnswers
  <2>6. RelatesBehind'
    <3>. SUFFICES ASSUME line.config.op = "OP_QUERY", NEW n \in Open', NEW d \in DbNames,
                         Searched(d), BehindByType(d)', Relates(d, n, line.config.query)
                  PROVE  FALSE
      BY <1>0, <2>4 DEF RelatesBehind
    <3>1. BehindByType(d) \/ d = dbs[1]
      <4>. SUFFICES ASSUME d # dbs[1], RankOfDb(d) = rank PROVE \A i \in 1..Len(dbs) : dbs[i] # d
        BY <1>2, <2>1 DEF BehindByType
      <4>1. \A i \in 1..Len(Tail(dbs)) : Tail(dbs)[i] # d
        BY <1>1, <1>2, <2>1 DEF BehindByType
      <4>2. \A i \in 1..Len(dbs) : i # 1 => i - 1 \in 1..Len(Tail(dbs)) /\ (i - 1) + 1 = i
        BY <2>2
      <4>. QED BY <2>2, <4>1, <4>2
    <3>2. d = dbs[1]
      BY <1>0, <2>3, <3>1 DEF RelatesBehind
    <3>3. PICK p \in PkgsOf(d) :
            /\ Filter(p, config.filter)
            /\ \E i \in 1..Len(p.rel[line.config.query]) :
                 TargetCompatible(p.rel[line.config.query][i], list[n])
      BY DEF Relates
    <3>4. PICK k \in 1..Len(Cache[d]) : p = Cache[d][k]
      BY DEF PkgsOf
    <3>5. PICK i \in 1..Len(Cache[d][k].rel[line.config.query]) : DependsOn(d, k, i, n)
      BY <3>3, <3>4 DEF DependsOn, Relates
    <3>6. live # {}
      BY <1>0, <2>3 DEF Open, LookupSetting
    <3>7. cursor[1] > Len(Cache[d])
      <4>1. ~(cursor[1] <= Len(Cache[d]))
        BY <2>1, <2>2, <3>2, <3>6 DEF MorePkgs, db
      <4>2. Cache[d] \in Seq(PkgsOf(d))
        BY DatabasesAssumption
      <4>3. cursor[1] \in Nat /\ Len(Cache[d]) \in Nat
        BY <1>0, <2>1, <4>2 DEF WalkOfRank
      <4>. QED BY <4>1, <4>3
    <3>8. k < cursor[1]
      <4>1. Len(Cache[d]) \in Nat /\ cursor[1] \in Nat
        BY <1>0, <2>1, DatabasesAssumption DEF WalkOfRank
      <4>. QED BY <3>7, <4>1
    <3>. QED BY <1>0, <2>1, <2>3, <3>2, <3>5, <3>8 DEF RelatesHere
  <2>. QED BY <2>1, <2>5, <2>6 DEF RelatesHere
<1>. QED
  BY <1>0, <1>3, <1>4, <1>5, <1>6, <1>7, <1>8, <1>9, <1>10, <1>11, <1>12, <1>13 DEF LookupNext

-----------------------------------------------------------------------------
\* Package files are looked at in a branch of their own.
FilesInv ==
  /\ config.is_file <=> line.config.is_file
  /\ phase = "cycle" => ~line.config.is_file

LEMMA InitFiles == Init => FilesInv
  BY DEF Init, FilesInv

LEMMA NextFiles == Inv /\ FilesInv /\ [Next]_vars => FilesInv'
<1>. SUFFICES ASSUME Inv, FilesInv, [Next]_vars PROVE FilesInv'
  OBVIOUS
<1>1. line' = line
  BY LineStays
<1>2. config'.is_file = config.is_file
  <2>1. CASE Fallback
    BY <2>1 DEF Fallback, Inv, TypeOK, ConfigType
  <2>2. CASE EndWalk
    BY <2>2 DEF EndWalk, Inv, TypeOK, ConfigType
  <2>3. CASE AurForeign
    BY <2>3 DEF AurForeign, Inv, TypeOK, ConfigType
  <2>4. CASE ~Fallback /\ ~EndWalk /\ ~AurForeign
    <3>1. config' = config
      BY <2>4 DEF Next, vars, control, InitDbSync, QueryFiles, EnterCycle, SearchLocal,
         AurUpgrades, NothingToDo, StartWalk, StartAurInfo, StartAurSearch, SkipAur, EndCycle,
         ListDb, SearchPkg, ListGrp, List, SearchPkgByName, StartByType,
         ByTypeDep, ByTypeNextPkg, ByTypeClose, CurlInit, AurInfoFetch, AurInfoClose,
         AurSearchFetch, AurSearchNext, AurSearchNoTarget, ForeignLocal, ShowResults
    <3>. QED BY <3>1
  <2>. QED BY <2>1, <2>2, <2>3, <2>4
<1>3. phase' = "cycle" => phase = "cycle" \/ ~config.is_file
  BY DEF Next, vars, control, InitDbSync, QueryFiles, EnterCycle, SearchLocal, AurForeign,
     AurUpgrades, NothingToDo, StartWalk, StartAurInfo, StartAurSearch, SkipAur, EndCycle,
     Fallback, EndWalk, ListDb, SearchPkg, ListGrp, List, SearchPkgByName, StartByType,
     ByTypeDep, ByTypeNextPkg, ByTypeClose, CurlInit, AurInfoFetch, AurInfoClose,
     AurSearchFetch, AurSearchNext, AurSearchNoTarget, ForeignLocal, ShowResults
<1>. QED BY <1>1, <1>2, <1>3 DEF FilesInv

LEMMA SearchedInductive == Spec => [](Inv /\ SettingInv /\ SearchedInv /\ FilesInv)
  BY InitInv, NextInv, InitSetting, NextSetting, InitSearched, NextSearched, InitFiles, NextFiles,
     PTL DEF Spec

\* -1 -i takes the answer to a target from the first database that has one, in the
\* order of -A, -Q and -S and of the sync databases: deal_db is called for each in
\* turn, and what was answered is no longer asked for.
THEOREM FirstWins == Spec => []FirstDatabaseWins
<1>1. Inv /\ SettingInv /\ SearchedInv /\ FilesInv => FirstDatabaseWins
  BY DEF SettingInv, LookupSetting, SearchedInv, FilesInv, FirstAnswers, FirstDatabaseWins, Lookup
<1>. QED BY <1>1, SearchedInductive, PTL

\* When main() ends without having read a freed string, each database that it was
\* to search has been asked for each target that has no answer.
LEMMA DbsAsked == Spec => []AllAskedInDbs
<1>1. ASSUME Inv, SettingInv, SearchedInv, FilesInv, pc = "exit", phase = "cycle", ~stale_read,
             NEW n \in Nodes \ NodesOf(answers), NEW d \in DbNames, Searched(d), Lookup
      PROVE  /\ line.config.op \in {"OP_INFO", "OP_INFO_P"} => ~Names(d, n)
             /\ line.config.op = "OP_QUERY" => ~Relates(d, n, line.config.query)
  <2>1. n \in Open
    BY <1>1 DEF Open, Inv, OnceInv, Answered
  <2>2. rank > DbOrder(line.config) /\ rank \in Nat
    BY <1>1 DEF SettingInv, LookupSetting, Inv, TypeOK
  <2>3. RankOfDb(d) \in Nat /\ RankOfDb(d) <= DbOrder(line.config)
    BY <1>1, RanksOfDbs, RanksOfSources DEF DbNames
  <2>4. RankOfDb(d) < rank
    BY <1>1, <2>2, <2>3, RanksOfSources
  <2>. QED
    BY <1>1, <2>1, <2>4 DEF SearchedInv, NamesBehind, RelatesBehind, BehindByName, BehindByType
<1>2. Inv /\ SettingInv /\ SearchedInv /\ FilesInv => AllAskedInDbs
  BY <1>1 DEF AllAskedInDbs, FilesInv, Lookup
<1>. QED BY <1>2, SearchedInductive, PTL
-----------------------------------------------------------------------------
(***************************************************************************)
(* The exit status, the promise of --just-one and the foreign packages.    *)
(***************************************************************************)
SomethingShown == listed # {} \/ \E n \in Nodes : shown[n] > 0

\* What the exit status rests on: found is kept up to date, a package that
\* target_arg_add has noted was printed, and nothing happens before the dispatch.
StatusInv ==
  /\ pc \in {"init", "dispatch"} => ~found /\ listed = {} /\ items = {}
  /\ phase # "files" => (found <=> SomethingShown)
  /\ pc = "exit" => (exitcode = 0 <=> SomethingShown)
  /\ items # {} => \E n \in Nodes : shown[n] > 0

-----------------------------------------------------------------------------
\* A package that has answered comes from a database that is behind, or it is
\* noted in items by the search that is running.
AnswersBehind ==
  /\ pc = "cycle" => \A a \in answers : RankOfDb(a[2].db) < rank
  /\ pc \in {"walk", "by_type", "aur_info_init", "aur_info"} =>
       \A a \in answers : RankOfDb(a[2].db) <= rank
  /\ pc = "walk" => \A a \in answers : \A i \in 1..Len(dbs) : a[2].db # dbs[i]
  /\ pc = "by_type" => \A a \in answers : \A i \in 1..Len(dbs) :
                         a[2].db = dbs[i] => i = 1 /\ a[2] \in items
  /\ pc = "aur_info_init" => \A a \in answers : a[2].db # "aur"
  /\ pc = "aur_info" => \A a \in answers : a[2].db = "aur" => a[2] \in items

\* What is noted has answered; every package that has answered was printed; a
\* target still in the list of an AUR request was answered by its own package.
AnswersShown ==
  /\ items \subseteq {a[2] : a \in answers}
  /\ \A a \in answers : \E b \in answers : b[2] = a[2] /\ shown[b[1]] > 0
  /\ pc = "aur_info" => \A a \in answers : a[1] \in live =>
                          a[2] \in AurPkgs /\ a[2].name = list[a[1]].name
  /\ \A a \in answers : a = <<a[1], a[2]>>

AnswersInv == OneLookup => AnswersBehind /\ AnswersShown

-----------------------------------------------------------------------------
(***************************************************************************)
(* target_arg_add and print_or_add_result.                                 *)
(***************************************************************************)
\* Of the targets that one package answers the first is printed, unless the
\* package was noted before.
LEMMA PrintedPackages ==
  ASSUME NEW hits, NodesOf(hits) \subseteq Nodes, Len(list) \in Nat,
         NEW h \in hits, config.just_one => h[2] \notin items
  PROVE  \E g \in Printed(hits) : g[2] = h[2]
<1>1. CASE ~config.just_one
  BY <1>1 DEF Printed
<1>2. CASE config.just_one
  <2> DEFINE S == {g[1] : g \in {x \in hits : x[2] = h[2]}}
  <2>1. S \in SUBSET Nat /\ S # {}
    <3>1. \A g \in hits : g[1] \in NodesOf(hits)
      BY DEF NodesOf
    <3>2. Nodes \subseteq Nat
      BY DEF Nodes
    <3>. QED BY <3>1, <3>2
  <2>2. PICK m \in S : \A n \in S : m <= n
    <3>. HIDE DEF S
    <3>. QED BY <2>1, LeastNat
  <2>3. PICK g \in hits : g[2] = h[2] /\ g[1] = m
    BY <2>2
  <2>. QED BY <1>2, <2>2, <2>3 DEF Printed
<1>. QED BY <1>1, <1>2

\* After an answer something has been printed.
LEMMA AnswerShows ==
  ASSUME Inv, StatusInv, NEW hits, NodesOf(hits) \subseteq Nodes, Answer(hits),
         UNCHANGED list, phase # "files"
  PROVE  /\ hits # {} => \E n \in Nodes : shown'[n] > 0
         /\ \A n \in Nodes : shown[n] > 0 => shown'[n] > 0
         /\ Nodes' = Nodes
         /\ found' <=> SomethingShown'
<1>1. TypeOK /\ Len(list) \in Nat
  BY DEF Inv
<1>2. /\ NodesOf(Printed(hits)) \subseteq Nodes
      /\ \A n \in Nodes : /\ shown[n] \in Nat
                          /\ shown'[n] = IF n \in NodesOf(Printed(hits))
                                         THEN shown[n] + 1 ELSE shown[n]
  BY <1>1, AnswerStep DEF TypeOK
<1>3. \A n \in Nodes : shown[n] > 0 => shown'[n] > 0
  BY <1>2
<1>4. ASSUME NEW h \in hits PROVE \E n \in Nodes : shown'[n] > 0
  <2>1. CASE config.just_one /\ h[2] \in items
    BY <1>3, <2>1 DEF StatusInv
  <2>2. CASE ~(config.just_one /\ h[2] \in items)
    <3>1. PICK g \in Printed(hits) : g[2] = h[2]
      BY <1>1, <2>2, PrintedPackages
    <3>2. g[1] \in NodesOf(Printed(hits))
      BY <3>1 DEF NodesOf
    <3>. QED BY <1>2, <3>2
  <2>. QED BY <2>1, <2>2
<1>5. Nodes' = Nodes
  BY DEF Nodes
<1>6. found' <=> SomethingShown'
  <2>1. found' <=> found \/ hits # {}
    BY DEF Answer
  <2>2. listed' = listed
    BY DEF Answer
  <2>3. hits = {} => \A n \in Nodes : shown'[n] = shown[n]
    BY <1>2 DEF Printed, NodesOf
  <2>. QED
    BY <1>3, <1>4, <1>5, <2>1, <2>2, <2>3 DEF StatusInv, SomethingShown
<1>. QED BY <1>3, <1>4, <1>5, <1>6

-----------------------------------------------------------------------------
(***************************************************************************)
(* The exit status.                                                        *)
(***************************************************************************)
\* Steps that show nothing.
LEMMA QuietStatus ==
  ASSUME Inv, StatusInv, UNCHANGED <<list, shown, listed, found>>,
         pc # "exit", pc' \notin {"dispatch", "init", "exit"}, phase' # "files",
         items' = items \/ items' = {}
  PROVE  StatusInv'
<1>1. phase # "files"
  BY DEF Inv, FilesExit
<1>2. SomethingShown' = SomethingShown /\ Nodes' = Nodes
  BY DEF SomethingShown, Nodes
<1>. QED BY <1>1, <1>2 DEF StatusInv

\* A search for targets.
LEMMA AnswerStatus ==
  ASSUME Inv, StatusInv, UNCHANGED <<list, phase>>,
         pc # "exit", pc' \notin {"dispatch", "init", "exit"},
         NEW hits, NodesOf(hits) \subseteq Nodes, Answer(hits),
         items' # {} => items # {} \/ hits # {}
  PROVE  StatusInv'
<1>1. phase # "files"
  BY DEF Inv, FilesExit
<1>2. /\ hits # {} => \E n \in Nodes : shown'[n] > 0
      /\ \A n \in Nodes : shown[n] > 0 => shown'[n] > 0
      /\ Nodes' = Nodes
      /\ found' <=> SomethingShown'
  BY <1>1, AnswerShows
<1>3. items' # {} => \E n \in Nodes' : shown'[n] > 0
  BY <1>2 DEF StatusInv
<1>. QED BY <1>2, <1>3 DEF StatusInv

\* A search that lists packages.
LEMMA ListStatus ==
  ASSUME Inv, StatusInv, UNCHANGED <<list, shown, phase, items>>,
         pc # "exit", pc' \notin {"dispatch", "init", "exit"},
         NEW pkgs, listed' = listed \cup pkgs, found' = (found \/ pkgs # {})
  PROVE  StatusInv'
<1>1. phase # "files"
  BY DEF Inv, FilesExit
<1>2. Nodes' = Nodes
  BY DEF Nodes
<1>3. found' <=> SomethingShown'
  BY <1>1, <1>2 DEF StatusInv, SomethingShown
<1>. QED BY <1>1, <1>2, <1>3 DEF StatusInv

LEMMA InitStatus == Init => StatusInv
<1>. SUFFICES ASSUME Init PROVE StatusInv
  OBVIOUS
<1>1. \A n \in Nodes : shown[n] = 0
  BY CommandLinesAssumption DEF Init, Nodes
<1>2. pc = "init" /\ phase = "none" /\ items = {} /\ listed = {}
  BY DEF Init
<1>3. ~found
  BY DEF Init
<1>4. ~SomethingShown
  BY <1>1, <1>2 DEF SomethingShown
<1>. QED BY <1>2, <1>3, <1>4 DEF StatusInv

LEMMA NextStatus == Inv /\ StatusInv /\ [Next]_vars => StatusInv'
<1>. SUFFICES ASSUME Inv, StatusInv, [Next]_vars PROVE StatusInv'
  OBVIOUS
<1>0. TypeOK /\ Len(list) \in Nat /\ FilesExit /\ live \subseteq Nodes
  BY DEF Inv, TypeOK
<1>1. ASSUME NEW ok \in BOOLEAN, InitDbSync(ok) PROVE StatusInv'
  <2>1. /\ pc = "init" /\ UNCHANGED <<phase, found, list, items, shown, listed>>
        /\ \/ pc' = "dispatch"
           \/ pc' = "exit" /\ exitcode' = 1
    BY <1>1 DEF InitDbSync, Goto, lists, history
  <2>2. SomethingShown' = SomethingShown /\ Nodes' = Nodes
    BY <2>1 DEF SomethingShown, Nodes
  <2>3. phase # "files" /\ ~found /\ ~SomethingShown
    BY <1>0, <2>1 DEF StatusInv, FilesExit
  <2>. QED BY <2>1, <2>2, <2>3 DEF StatusInv
<1>2. ASSUME NEW readable \in SUBSET Nodes, QueryFiles(readable) PROVE StatusInv'
  <2>1. /\ pc = "dispatch" /\ pc' = "exit" /\ phase' = "files"
        /\ shown' = [n \in Nodes |-> IF n \in readable THEN 1 ELSE 0]
        /\ exitcode' = IF readable # {} THEN 0 ELSE 1
        /\ UNCHANGED <<list, items, listed>>
    BY <1>2 DEF QueryFiles, Goto, lists
  <2>2. listed' = {} /\ items' = {}
    BY <2>1 DEF StatusInv
  <2>3. Nodes' = Nodes
    BY <2>1 DEF Nodes
  <2>4. readable # {} <=> \E n \in Nodes : shown'[n] > 0
    BY <2>1
  <2>. QED BY <2>1, <2>2, <2>3, <2>4 DEF StatusInv, SomethingShown
<1>3. CASE EnterCycle \/ NothingToDo \/ StartWalk \/ StartAurInfo \/ StartAurSearch
           \/ SkipAur \/ EndCycle \/ Fallback \/ EndWalk
  <2>1. /\ UNCHANGED <<list, shown, listed, found, items>>
        /\ pc # "exit" /\ pc' \notin {"dispatch", "init", "exit"}
        /\ phase' = phase \/ phase' = "cycle"
    BY <1>3 DEF EnterCycle, NothingToDo, StartWalk, StartAurInfo, StartAurSearch, SkipAur,
       EndCycle, Fallback, EndWalk, NoCycle, RankOf, Goto, lists, history
  <2>. QED BY <1>0, <2>1, QuietStatus DEF FilesExit
<1>4. CASE SearchLocal
  <2>1. /\ pc = "dispatch" /\ pc' = "show" /\ phase' = "local"
        /\ found' = (listed' # {}) /\ UNCHANGED <<list, shown, items>>
    BY <1>4 DEF SearchLocal, NoCycle, Goto, lists
  <2>2. Nodes' = Nodes /\ ~SomethingShown /\ items = {} /\ phase # "files"
    BY <1>0, <2>1 DEF StatusInv, Nodes, FilesExit
  <2>. QED BY <2>1, <2>2 DEF StatusInv, SomethingShown
<1>5. CASE AurForeign \/ AurUpgrades
  <2>1. /\ pc = "dispatch" /\ pc' = "aur_info_init" /\ phase' \in {"foreign", "upgrades"}
        /\ shown' = [n \in 1..Len(list') |-> 0] /\ items' = items
        /\ \/ UNCHANGED <<found, listed>>
           \/ found' = (listed' # {})
    BY <1>5 DEF AurForeign, AurUpgrades, NoCycle, SetTargets, Goto
  <2>2. ~\E n \in Nodes' : shown'[n] > 0
    BY <2>1 DEF Nodes
  <2>3. ~found /\ listed = {} /\ items' = {}
    BY <2>1 DEF StatusInv
  <2>4. found' <=> listed' # {}
    <3>1. CASE UNCHANGED <<found, listed>>
      BY <2>3, <3>1
    <3>2. CASE found' = (listed' # {})
      BY <3>2
    <3>. QED BY <2>1, <3>1, <3>2
  <2>5. SomethingShown' <=> listed' # {}
    BY <2>2 DEF SomethingShown
  <2>. QED BY <2>1, <2>3, <2>4, <2>5 DEF StatusInv
<1>6. CASE ListDb \/ SearchPkg \/ ListGrp
  <2>1. PICK pkgs : List(pkgs)
    BY <1>6 DEF ListDb, SearchPkg, ListGrp
  <2>2. pc = "walk"
    BY <1>6 DEF ListDb, SearchPkg, ListGrp, Deal
  <2>. QED BY <2>1, <2>2, ListStatus DEF List, lists
<1>7. CASE SearchPkgByName \/ ForeignLocal
  <2>1. PICK d \in DbNames : ByName(d)
    <3>1. CASE SearchPkgByName
      BY <1>0, <3>1 DEF SearchPkgByName, Deal, TypeOK, db
    <3>2. CASE ForeignLocal
      BY <3>2 DEF ForeignLocal, DbNames
    <3>. QED BY <1>7, <3>1, <3>2
  <2>2. NodesOf(ByNameHits(d)) \subseteq Nodes
    BY <1>0, OneHitByName
  <2>3. /\ UNCHANGED <<list, phase, items>> /\ pc \in {"walk", "foreign_local"}
        /\ pc' \in {"walk", "show"}
    BY <1>7 DEF SearchPkgByName, ForeignLocal, Deal, Goto
  <2>. QED BY <2>1, <2>2, <2>3, AnswerStatus DEF ByName
<1>8. CASE StartByType \/ ByTypeNextPkg
  <2>1. /\ UNCHANGED <<list, shown, listed, found, phase>> /\ items' \in {items, {}}
        /\ pc \in {"walk", "by_type"} /\ pc' = "by_type"
    BY <1>8 DEF StartByType, ByTypeNextPkg, Deal, Goto, control, history
  <2>. QED BY <1>0, <2>1, QuietStatus DEF FilesExit
<1>9. CASE ByTypeDep
  <2>1. NodesOf(ByTypeHits) \subseteq Nodes
    BY <1>0 DEF ByTypeHits, NodesOf
  <2>2. /\ UNCHANGED <<list, phase, pc>> /\ pc = "by_type" /\ Answer(ByTypeHits)
        /\ items' = items \/ items' = items \cup {h[2] : h \in ByTypeHits}
    BY <1>9 DEF ByTypeDep
  <2>3. items' # {} => items # {} \/ ByTypeHits # {}
    BY <2>2
  <2>. QED BY <2>1, <2>2, <2>3, AnswerStatus
<1>10. CASE ByTypeClose \/ AurInfoClose
  <2>1. /\ UNCHANGED <<list, shown, listed, found, phase>> /\ items' = {}
        /\ pc \in {"by_type", "aur_info"} /\ pc' \in {"walk", "cycle", "foreign_local", "show"}
    BY <1>10 DEF ByTypeClose, AurInfoClose, AurReturn, Goto
  <2>. QED BY <1>0, <2>1, QuietStatus DEF FilesExit
<1>11. ASSUME NEW ok \in BOOLEAN, CurlInit(ok) PROVE StatusInv'
  <2>1. /\ UNCHANGED <<list, shown, listed, found, phase, items>>
        /\ pc \in {"aur_info_init", "aur_search_init"}
        /\ pc' \in {"aur_info", "aur_search", "cycle", "foreign_local", "show"}
    BY <1>11 DEF CurlInit, AurReturn, Goto, history
  <2>. QED BY <1>0, <2>1, QuietStatus DEF FilesExit
<1>12. ASSUME NEW ok \in BOOLEAN, AurInfoFetch(ok) PROVE StatusInv'
  <2>1. PICK reply : /\ reply \in SUBSET AurPkgs /\ Answer(AurHits(reply))
                     /\ items' = items \/ items' = items \cup {h[2] : h \in AurHits(reply)}
                     /\ UNCHANGED <<list, phase, pc>> /\ pc = "aur_info"
    <3> DEFINE reply == IF ok THEN InfoReply({list[n].name : n \in Batch}) ELSE {}
    <3>1. reply \in SUBSET AurPkgs
      BY DEF InfoReply
    <3>. QED BY <1>12, <3>1 DEF AurInfoFetch
  <2>2. NodesOf(AurHits(reply)) \subseteq Nodes
    BY <1>0, <2>1, AurHitsOf
  <2>3. items' # {} => items # {} \/ AurHits(reply) # {}
    BY <2>1
  <2>. QED BY <2>1, <2>2, <2>3, AnswerStatus
<1>13. ASSUME NEW outcome \in {"ok", "aur_error", "curl_error"}, AurSearchFetch(outcome)
       PROVE  StatusInv'
  <2>1. PICK match : listed' = listed \cup match /\ found' = (found \/ match # {})
    BY <1>13 DEF AurSearchFetch
  <2>2. /\ UNCHANGED <<list, shown, phase, items>> /\ pc = "aur_search"
        /\ pc' \in {"aur_search_next", "cycle", "foreign_local", "show"}
    BY <1>13 DEF AurSearchFetch, AurReturn, Goto, lists
  <2>. QED BY <2>1, <2>2, ListStatus
<1>14. CASE AurSearchNext \/ AurSearchNoTarget
  <2>1. /\ UNCHANGED <<list, shown, listed, found, phase, items>>
        /\ pc \in {"aur_search_next", "aur_search"}
        /\ pc' \in {"aur_search", "cycle", "foreign_local", "show"}
    BY <1>14 DEF AurSearchNext, AurSearchNoTarget, AurReturn, Goto, lists, history
  <2>. QED BY <1>0, <2>1, QuietStatus DEF FilesExit
<1>15. CASE ShowResults
  <2>1. /\ pc = "show" /\ pc' = "exit" /\ exitcode' = IF found THEN 0 ELSE 1
        /\ UNCHANGED <<list, shown, listed, found, phase, items>>
    BY <1>15 DEF ShowResults, Goto, lists, history
  <2>2. SomethingShown' = SomethingShown /\ Nodes' = Nodes /\ phase # "files"
    BY <1>0, <2>1 DEF SomethingShown, Nodes, FilesExit
  <2>. QED BY <2>1, <2>2 DEF StatusInv
<1>16. CASE UNCHANGED vars
  BY <1>16 DEF vars, control, lists, history, StatusInv, SomethingShown, Nodes
<1>. QED
  BY <1>1, <1>2, <1>3, <1>4, <1>5, <1>6, <1>7, <1>8, <1>9, <1>10, <1>11, <1>12, <1>13, <1>14,
     <1>15, <1>16
  DEF Next

\* Whatever main() is asked for and whatever fails, its exit status tells whether
\* anything was shown.
THEOREM ExitStatus == Spec => []ExitStatusTruthful
<1>1. Inv /\ StatusInv => ExitStatusTruthful
  BY DEF StatusInv, SomethingShown, ExitStatusTruthful
<1>. QED
  BY <1>1, InvInductive, InitStatus, NextStatus, PTL DEF Spec

-----------------------------------------------------------------------------
(***************************************************************************)
(* The answers of a lookup under --just-one.                               *)
(***************************************************************************)
\* A hit is a target and a package.
LEMMA HitsArePairs ==
  /\ \A d : \A h \in ByNameHits(d) : h = <<h[1], h[2]>>
  /\ \A h \in ByTypeHits : h = <<h[1], h[2]>>
  /\ \A reply : \A h \in AurHits(reply) : h = <<h[1], h[2]>>
<1>1. \A d : \A h \in ByNameHits(d) : h = <<h[1], h[2]>>
  BY DEF ByNameHits
<1>2. \A h \in ByTypeHits : h = <<h[1], h[2]>>
  BY DEF ByTypeHits
<1>3. \A reply : \A h \in AurHits(reply) : h = <<h[1], h[2]>>
  BY DEF AurHits
<1>. QED BY <1>1, <1>2, <1>3

\* The hits of a search come from the database that is searched.
LEMMA ByNameHitsOf ==
  ASSUME NEW d \in DbNames
  PROVE  /\ NodesOf(ByNameHits(d)) \subseteq live
         /\ \A g, h \in ByNameHits(d) : g[1] = h[1] => g = h
         /\ \A h \in ByNameHits(d) : h[2].db = d /\ h = <<h[1], h[2]>>
<1>1. \A h \in ByNameHits(d) : h[2] \in PkgsOf(d)
  BY DEF ByNameHits, DbGetPkg
<1>. QED BY <1>1, OneHitByName, HitsArePairs, DatabasesAssumption

LEMMA ByTypeHitsOf ==
  ASSUME Inv, LookupSetting, WalkOfRank, pc = "by_type", MorePkgs
  PROVE  /\ NodesOf(ByTypeHits) \subseteq live
         /\ \A g, h \in ByTypeHits : g[1] = h[1] => g = h
         /\ \A h \in ByTypeHits : h[2].db = dbs[1] /\ h = <<h[1], h[2]>>
<1>1. Head(dbs) = dbs[1] /\ dbs[1] \in DbNames
  BY HeadOfDbs DEF Inv, DbChosen
<1>2. Pkg \in PkgsOf(dbs[1])
  <2>1. cursor[1] \in Nat \ {0}
    BY DEF WalkOfRank
  <2>2. cursor[1] <= Len(Cache[dbs[1]])
    BY <1>1 DEF MorePkgs, db
  <2>3. Cache[dbs[1]] \in Seq(PkgsOf(dbs[1]))
    BY <1>1, DatabasesAssumption
  <2>. QED BY <1>1, <2>1, <2>2, <2>3 DEF Pkg, db
<1>3. \A h \in ByTypeHits : h = <<h[1], Pkg>> /\ h[1] \in live
  BY DEF ByTypeHits
<1>. QED BY <1>1, <1>2, <1>3, HitsArePairs, DatabasesAssumption DEF NodesOf

\* A search keeps what is known of the answers.
LEMMA AnswersStayShown ==
  ASSUME Inv, AnswersShown, UNCHANGED list,
         NEW hits, NodesOf(hits) \subseteq Nodes, Answer(hits),
         \A h \in hits : h = <<h[1], h[2]>>, items' \subseteq items \cup {h[2] : h \in hits}
  PROVE  /\ items' \subseteq {a[2] : a \in answers'}
         /\ \A a \in answers' : a = <<a[1], a[2]>>
         /\ \A a \in answers' : \E b \in answers' : b[2] = a[2] /\ shown'[b[1]] > 0
<1>1. TypeOK /\ Len(list) \in Nat
  BY DEF Inv
<1>2. answers' = answers \cup hits
  BY DEF Answer
<1>3. /\ NodesOf(Printed(hits)) \subseteq Nodes
      /\ \A n \in Nodes : /\ shown[n] \in Nat
                          /\ shown'[n] = IF n \in NodesOf(Printed(hits))
                                         THEN shown[n] + 1 ELSE shown[n]
  BY <1>1, AnswerStep DEF TypeOK
<1>4. \A a \in answers : a[1] \in Nodes
  BY <1>1 DEF TypeOK, NodesOf
<1>5. \A a \in answers : \E b \in answers : b[2] = a[2] /\ shown'[b[1]] > 0
  BY <1>3, <1>4 DEF AnswersShown
<1>6. ASSUME NEW a \in hits PROVE \E b \in answers' : b[2] = a[2] /\ shown'[b[1]] > 0
  <2>1. CASE a[2] \in items
    <3>1. PICK c \in answers : c[2] = a[2]
      BY <2>1 DEF AnswersShown
    <3>. QED BY <1>2, <1>5, <3>1
  <2>2. CASE a[2] \notin items
    <3>1. PICK g \in Printed(hits) : g[2] = a[2]
      BY <1>1, <2>2, PrintedPackages
    <3>2. g[1] \in NodesOf(Printed(hits)) /\ g \in hits
      BY <3>1 DEF NodesOf, Printed
    <3>. QED BY <1>2, <1>3, <3>1, <3>2
  <2>. QED BY <2>1, <2>2
<1>7. items' \subseteq {a[2] : a \in answers'}
  BY <1>2 DEF AnswersShown
<1>8. \A a \in answers' : a = <<a[1], a[2]>>
  BY <1>2 DEF AnswersShown
<1>. QED BY <1>2, <1>5, <1>6, <1>7, <1>8

LEMMA InitAnswers == Init => AnswersInv
<1>1. Init => pc = "init" /\ answers = {} /\ items = {}
  BY DEF Init
<1>. QED BY <1>1 DEF AnswersInv, AnswersBehind, AnswersShown

LEMMA NextAnswers ==
  Inv /\ StatusInv /\ SettingInv /\ SettingInv' /\ AnswersInv /\ [Next]_vars => AnswersInv'
<1>. SUFFICES ASSUME Inv, StatusInv, SettingInv, SettingInv', AnswersInv, [Next]_vars, OneLookup'
              PROVE  AnswersBehind' /\ AnswersShown'
  BY DEF AnswersInv
<1>0. /\ line' = line /\ OneLookup /\ Lookup /\ LookupNext /\ config.just_one
      /\ LookupSetting /\ WalkOfRank /\ AnswersBehind /\ AnswersShown
  BY LineStays, LookupActions DEF OneLookup, Lookup, SettingInv, AnswersInv, LookupSetting
<1>1. /\ TypeOK /\ rank \in Nat /\ Len(list) \in Nat
      /\ \A a \in answers : a[1] \in Nodes
  BY DEF Inv, TypeOK, NodesOf
<1>2. \A d : RankOfDb(d)' = RankOfDb(d) /\ RankOfDb(d) \in Nat
  <2>1. \A d : RankOfDb(d) \in Nat
    BY RanksOfDbs
  <2>. QED BY <1>0, <2>1 DEF RankOfDb
<1>3. CASE EnterCycle \/ \E ok \in BOOLEAN : InitDbSync(ok)
  <2>1. /\ pc \in {"init", "dispatch"} /\ pc' \in {"dispatch", "cycle", "exit"}
        /\ UNCHANGED <<items, answers>>
    BY <1>3 DEF EnterCycle, InitDbSync, Goto, lists, history
  <2>2. items = {} /\ answers = {}
    BY <2>1 DEF Inv, Fresh, ArgsInScope
  <2>. QED BY <2>1, <2>2 DEF AnswersBehind, AnswersShown
<1>4. CASE StartWalk
  <2>1. /\ pc = "cycle" /\ pc' = "walk" /\ dbs' = WalkDbs
        /\ config.db_sync = rank \/ config.db_local = rank
        /\ UNCHANGED <<rank, list, live, items, shown, answers>>
    BY <1>4 DEF StartWalk, RankOf, Goto, lists, history
  <2>2. \A i \in 1..Len(WalkDbs) : RankOfDb(WalkDbs[i]) = rank
    BY <1>0, <2>1, WalkDbsOfRank
  <2>3. \A a \in answers : RankOfDb(a[2].db) < rank
    BY <1>0, <2>1 DEF AnswersBehind
  <2>4. \A a \in answers : RankOfDb(a[2].db) <= rank
    BY <1>1, <1>2, <2>3
  <2>5. \A a \in answers : \A i \in 1..Len(WalkDbs) : a[2].db # WalkDbs[i]
    BY <1>1, <2>2, <2>3
  <2>6. AnswersBehind'
    BY <1>2, <2>1, <2>4, <2>5 DEF AnswersBehind
  <2>. QED BY <1>0, <2>1, <2>6 DEF AnswersShown
<1>5. CASE StartAurInfo
  <2>1. /\ pc = "cycle" /\ pc' = "aur_info_init" /\ config.aur = rank
        /\ UNCHANGED <<rank, list, live, items, shown, answers>>
    BY <1>5 DEF StartAurInfo, RankOf, Goto, lists, history
  <2>2. \A a \in answers : RankOfDb(a[2].db) < rank /\ RankOfDb(a[2].db) <= rank
    BY <1>0, <1>1, <1>2, <2>1 DEF AnswersBehind
  <2>3. RankOfDb("aur") = rank
    BY <1>0, <2>1, RanksOfDbs DEF LookupSetting
  <2>4. \A a \in answers : a[2].db # "aur"
    BY <1>1, <2>2, <2>3
  <2>5. AnswersBehind'
    BY <1>2, <2>1, <2>2, <2>4 DEF AnswersBehind
  <2>. QED BY <1>0, <2>1, <2>5 DEF AnswersShown
<1>6. CASE \/ SkipAur \/ EndWalk \/ AurInfoClose
           \/ \E ok \in BOOLEAN : CurlInit(ok) /\ pc' # "aur_info"
  <2>1. /\ pc \in {"cycle", "walk", "aur_info", "aur_info_init"} /\ pc' = "cycle"
        /\ UNCHANGED <<list, shown, answers>> /\ rank' = rank + 1 /\ items' \in {items, {}}
    BY <1>0, <1>6 DEF SkipAur, EndWalk, AurInfoClose, CurlInit, AurReturn, RankOf, Goto, lists,
       history, LookupSetting
  <2>2. \A a \in answers : RankOfDb(a[2].db) < rank'
    BY <1>0, <1>1, <1>2, <2>1 DEF AnswersBehind
  <2>. QED BY <1>0, <1>2, <2>1, <2>2 DEF AnswersBehind, AnswersShown
<1>7. CASE EndCycle \/ ShowResults
  BY <1>0, <1>7 DEF EndCycle, ShowResults, Goto, lists, history, AnswersBehind, AnswersShown
<1>8. CASE Fallback
  <2>1. pc = "walk" /\ pc' = "walk" /\ ~found /\ UNCHANGED <<list, live, items, shown, answers>>
    BY <1>8 DEF Fallback, lists, history
  <2>2. ~SomethingShown
    BY <1>0, <2>1 DEF LookupSetting, StatusInv
  <2>3. answers = {}
    BY <1>0, <1>1, <2>2 DEF SomethingShown, AnswersShown
  <2>. QED BY <1>0, <2>1, <2>3 DEF AnswersBehind, AnswersShown
<1>9. CASE SearchPkgByName
  <2> DEFINE hits == ByNameHits(Head(dbs))
  <2>1. /\ pc = "walk" /\ pc' = "walk" /\ dbs # <<>> /\ dbs' = Tail(dbs) /\ Answer(hits)
        /\ UNCHANGED <<rank, list, items>>
    BY <1>9 DEF SearchPkgByName, ByName, Deal, db, Answer
  <2>2. /\ Head(dbs) = dbs[1] /\ 1 \in 1..Len(dbs) /\ dbs[1] \in DbNames /\ RankOfDb(dbs[1]) = rank
        /\ \A i \in 1..Len(Tail(dbs)) : i + 1 \in 1..Len(dbs) /\ Tail(dbs)[i] = dbs[i + 1]
        /\ \A i \in 1..Len(Tail(dbs)) : Tail(dbs)[i] # dbs[1]
    BY <1>0, <2>1, HeadOfDbs
  <2>3. NodesOf(hits) \subseteq Nodes /\ \A h \in hits : h[2].db = dbs[1] /\ h = <<h[1], h[2]>>
    BY <1>1, <2>2, ByNameHitsOf DEF TypeOK
  <2>. HIDE DEF hits
  <2>4. AnswersShown'
    BY <1>0, <2>1, <2>3, AnswersStayShown DEF AnswersShown
  <2>5. answers' = answers \cup hits
    BY <2>1 DEF Answer
  <2>6. \A a \in answers' : RankOfDb(a[2].db) <= rank
    BY <1>0, <1>1, <2>1, <2>2, <2>3, <2>5 DEF AnswersBehind
  <2>7. \A a \in answers' : \A i \in 1..Len(Tail(dbs)) : a[2].db # Tail(dbs)[i]
    BY <1>0, <2>1, <2>2, <2>3, <2>5 DEF AnswersBehind
  <2>8. AnswersBehind'
    BY <1>2, <2>1, <2>6, <2>7 DEF AnswersBehind
  <2>. QED BY <2>4, <2>8
<1>10. CASE StartByType
  <2>1. /\ pc = "walk" /\ pc' = "by_type" /\ items' = {}
        /\ UNCHANGED <<rank, dbs, list, live, shown, answers>>
    BY <1>10 DEF StartByType, Deal, Goto, history
  <2>. QED BY <1>0, <1>2, <2>1 DEF AnswersBehind, AnswersShown
<1>11. CASE ByTypeDep
  <2>1. /\ pc = "by_type" /\ pc' = "by_type" /\ Answer(ByTypeHits)
        /\ items' = items \cup {h[2] : h \in ByTypeHits}
        /\ UNCHANGED <<rank, dbs, list>>
    BY <1>0, <1>11 DEF ByTypeDep, Answer
  <2>2. /\ 1 \in 1..Len(dbs) /\ RankOfDb(dbs[1]) = rank
        /\ \A i \in 1..Len(dbs) : dbs[i] = dbs[1] => i = 1
    BY <1>0, <2>1, HeadOfDbs, DbsOfRank DEF Inv, DbChosen
  <2>3. /\ NodesOf(ByTypeHits) \subseteq Nodes
        /\ \A h \in ByTypeHits : h[2].db = dbs[1] /\ h = <<h[1], h[2]>>
    BY <1>0, <1>1, <1>11, ByTypeHitsOf DEF ByTypeDep, TypeOK
  <2>4. AnswersShown'
    BY <1>0, <2>1, <2>3, AnswersStayShown DEF AnswersShown
  <2>5. answers' = answers \cup ByTypeHits
    BY <2>1 DEF Answer
  <2>6. \A a \in answers' : RankOfDb(a[2].db) <= rank
    BY <1>0, <1>1, <2>1, <2>2, <2>3, <2>5 DEF AnswersBehind
  <2>7. \A a \in answers' : \A i \in 1..Len(dbs) : a[2].db = dbs[i] => i = 1 /\ a[2] \in items'
    BY <1>0, <2>1, <2>2, <2>3, <2>5 DEF AnswersBehind
  <2>8. AnswersBehind'
    BY <1>2, <2>1, <2>6, <2>7 DEF AnswersBehind
  <2>. QED BY <2>4, <2>8
<1>12. CASE ByTypeNextPkg
  <2>1. UNCHANGED <<pc, rank, dbs, list, live, items, shown, answers>>
    BY <1>12 DEF ByTypeNextPkg, control, history
  <2>. QED BY <1>0, <1>2, <2>1 DEF AnswersBehind, AnswersShown
<1>13. CASE ByTypeClose
  <2>1. /\ pc = "by_type" /\ pc' = "walk" /\ dbs # <<>> /\ dbs' = Tail(dbs) /\ items' = {}
        /\ UNCHANGED <<rank, list, shown, answers>>
    BY <1>13 DEF ByTypeClose, Goto, Inv, DbChosen
  <2>2. /\ Len(Tail(dbs)) \in Nat
        /\ \A i \in 1..Len(Tail(dbs)) : i + 1 \in 1..Len(dbs) /\ Tail(dbs)[i] = dbs[i + 1]
    BY <1>0, <2>1, HeadOfDbs
  <2>3. \A a \in answers : \A i \in 1..Len(Tail(dbs)) : a[2].db # Tail(dbs)[i]
    BY <1>0, <2>1, <2>2 DEF AnswersBehind
  <2>4. AnswersBehind'
    BY <1>0, <1>2, <2>1, <2>3 DEF AnswersBehind
  <2>. QED BY <1>0, <2>1, <2>4 DEF AnswersShown
<1>14. CASE \E ok \in BOOLEAN : CurlInit(ok) /\ pc' = "aur_info"
  <2>1. /\ pc = "aur_info_init" /\ pc' = "aur_info"
        /\ UNCHANGED <<rank, list, live, items, shown, answers>>
    BY <1>14 DEF CurlInit, AurReturn, Goto, history
  <2>2. \A a \in answers : a[1] \notin live
    BY <1>0, <2>1 DEF Inv, OnceInv, Answered, NodesOf
  <2>. QED BY <1>0, <1>2, <2>1, <2>2 DEF AnswersBehind, AnswersShown
<1>15. ASSUME NEW ok \in BOOLEAN, AurInfoFetch(ok)
       PROVE  AnswersBehind' /\ AnswersShown'
  <2> DEFINE reply == IF ok THEN InfoReply({list[n].name : n \in Batch}) ELSE {}
             hits  == AurHits(reply)
  <2>1. reply \in SUBSET AurPkgs
    BY DEF InfoReply
  <2>2. /\ NodesOf(hits) \subseteq Nodes
        /\ \A h \in hits : h[2] \in AurPkgs /\ h[2].name = list[h[1]].name
        /\ \A h \in hits : h = <<h[1], h[2]>>
    BY <1>1, <2>1, AurHitsOf, HitsArePairs DEF TypeOK
  <2>3. /\ pc = "aur_info" /\ pc' = "aur_info" /\ Answer(hits)
        /\ items' = items \cup {h[2] : h \in hits}
        /\ UNCHANGED <<rank, list, live>>
    BY <1>0, <1>15 DEF AurInfoFetch, Answer
  <2>. HIDE DEF hits
  <2>4. answers' = answers \cup hits
    BY <2>3 DEF Answer
  <2>5. AnswersShown'
    <3>1. \A a \in answers' : a[1] \in live => a[2] \in AurPkgs /\ a[2].name = list[a[1]].name
      BY <1>0, <2>2, <2>3, <2>4 DEF AnswersShown
    <3>2. /\ items' \subseteq {a[2] : a \in answers'}
          /\ \A a \in answers' : \E b \in answers' : b[2] = a[2] /\ shown'[b[1]] > 0
          /\ \A a \in answers' : a = <<a[1], a[2]>>
      BY <1>0, <2>2, <2>3, AnswersStayShown
    <3>. QED BY <2>3, <3>1, <3>2 DEF AnswersShown
  <2>6. RankOfDb("aur") = rank
    BY <1>0, <2>3, RanksOfDbs DEF LookupSetting
  <2>7. \A h \in hits : h[2].db = "aur" /\ h[2] \in items'
    BY <2>2, <2>3, DatabasesAssumption
  <2>8. \A a \in answers' : RankOfDb(a[2].db) <= rank
    BY <1>0, <1>1, <2>3, <2>4, <2>6, <2>7 DEF AnswersBehind
  <2>9. \A a \in answers' : a[2].db = "aur" => a[2] \in items'
    BY <1>0, <2>3, <2>4, <2>7 DEF AnswersBehind
  <2>10. AnswersBehind'
    BY <1>2, <2>3, <2>8, <2>9 DEF AnswersBehind
  <2>. QED BY <2>5, <2>10
<1>16. CASE UNCHANGED vars
  BY <1>0, <1>2, <1>16 DEF vars, control, lists, history, AnswersBehind, AnswersShown
<1>. QED
  BY <1>0, <1>3, <1>4, <1>5, <1>6, <1>7, <1>8, <1>9, <1>10, <1>11, <1>12, <1>13, <1>14, <1>15,
     <1>16
  DEF LookupNext

LEMMA AnswersInductive == Spec => [](Inv /\ StatusInv /\ SettingInv /\ AnswersInv)
  BY InitInv, NextInv, InitStatus, NextStatus, InitSetting, NextSetting, InitAnswers, NextAnswers,
     PTL DEF Spec

-----------------------------------------------------------------------------
(***************************************************************************)
(* The searches implement JustOne.                                         *)
(***************************************************************************)
Screen == {a \in answers : shown[a[1]] > 0}

\* The answers of one search are an answer of JustOne: what was printed is what
\* comes to the screen, packages that were printed before are in items.
LEMMA AnswerRefines ==
  ASSUME Inv, config.just_one, AnswersShown, OneLookup, OneLookup', UNCHANGED list, phase # "files",
         pc # "exit", pc' # "exit",
         NEW hits, NodesOf(hits) \subseteq Nodes, Answer(hits),
         \A g, h \in hits : g[1] = h[1] => g = h,
         \A h \in hits, a \in answers : h[1] = a[1] => h = a,
         \A h \in hits, a \in answers : h[2] = a[2] => h[2] \in items
  PROVE  Promise!Answer
<1>1. TypeOK /\ Len(list) \in Nat
  BY DEF Inv
<1>2. answers' = answers \cup hits /\ \A h \in hits : h[1] \in Nodes
  BY DEF Answer, NodesOf
<1>3. /\ \A n \in Nodes : /\ shown[n] \in Nat
                          /\ shown'[n] = IF n \in NodesOf(Printed(hits))
                                         THEN shown[n] + 1 ELSE shown[n]
  BY <1>1, AnswerStep DEF TypeOK
<1>4. /\ \A a \in answers : a[1] \in Nodes
      /\ \A n \in Nodes : shown[n] > 0 => \E a \in answers : a[1] = n
  BY <1>1, <1>3 DEF Inv, OnceInv, TypeOK, Answered, NodesOf
<1>5. /\ Printed(hits) \subseteq hits
      /\ \A h \in Printed(hits) : h[2] \notin items
      /\ \A g, h \in Printed(hits) : g[2] = h[2] => h[1] <= g[1]
  BY <1>1 DEF Printed
<1>6. \A h \in Printed(hits), a \in answers : h[1] # a[1] /\ h[2] # a[2]
  BY <1>5
<1>7. Screen \subseteq Screen'
  BY <1>2, <1>3, <1>4 DEF Screen
<1>8. Screen' \ Screen = Printed(hits)
  <2>1. ASSUME NEW a \in Screen' \ Screen PROVE a \in Printed(hits)
    <3>1. a \in answers \cup hits /\ shown'[a[1]] > 0 /\ a[1] \in Nodes
      BY <1>2, <1>4, <2>1 DEF Screen
    <3>2. a \notin answers
      <4>1. SUFFICES ASSUME a \in answers PROVE FALSE
        OBVIOUS
      <4>2. ~(shown[a[1]] > 0)
        BY <2>1, <4>1 DEF Screen
      <4>3. PICK h \in Printed(hits) : h[1] = a[1]
        BY <1>3, <3>1, <4>2 DEF NodesOf
      <4>. QED BY <1>6, <4>1, <4>3
    <3>3. ~(shown[a[1]] > 0)
      BY <1>4, <3>1, <3>2
    <3>4. PICK h \in Printed(hits) : h[1] = a[1]
      BY <1>3, <3>1, <3>3 DEF NodesOf
    <3>. QED BY <1>5, <3>1, <3>2, <3>4
  <2>2. ASSUME NEW h \in Printed(hits) PROVE h \in Screen' \ Screen
    <3>1. h[1] \in NodesOf(Printed(hits)) /\ h[1] \in Nodes /\ h \in answers'
      BY <1>2, <1>5 DEF NodesOf
    <3>2. shown'[h[1]] > 0 /\ h \notin answers
      BY <1>3, <1>6, <3>1
    <3>. QED BY <3>1, <3>2 DEF Screen
  <2>. QED BY <2>1, <2>2
<1>9. {h[2] : h \in Printed(hits)} = {h[2] : h \in answers' \ answers} \ {a[2] : a \in Screen}
  <2>1. ASSUME NEW h \in Printed(hits)
        PROVE  h[2] \in {g[2] : g \in answers' \ answers} \ {a[2] : a \in Screen}
    BY <1>2, <1>5, <1>6 DEF Screen
  <2>2. ASSUME NEW h \in answers' \ answers, h[2] \notin {a[2] : a \in Screen}
        PROVE  h[2] \in {g[2] : g \in Printed(hits)}
    <3>1. h \in hits
      BY <1>2, <2>2
    <3>2. h[2] \notin items
      BY <1>1, <2>2 DEF AnswersShown, Screen
    <3>3. \E g \in Printed(hits) : g[2] = h[2]
      BY <1>1, <3>1, <3>2, PrintedPackages
    <3>. QED BY <3>3
  <2>. QED BY <2>1, <2>2
<1>10. \A a, b \in Printed(hits) : a[2] = b[2] => a = b
  <2>1. \A h \in hits : h[1] \in Int
    BY <1>2 DEF Nodes
  <2>. QED BY <1>5, <2>1
<1>11. {h[1] : h \in answers' \ answers} \subseteq Nodes \ {a[1] : a \in answers}
  BY <1>2
<1>12. \A a, b \in answers' \ answers : a[1] = b[1] => a = b
  BY <1>2
<1>13. answers \subseteq answers' /\ Printed(hits) \subseteq answers' \ answers /\ Nodes' = Nodes
  BY <1>2, <1>5, <1>6 DEF Nodes
<1>. QED
  BY <1>7, <1>8, <1>9, <1>10, <1>11, <1>12, <1>13
  DEF Promise!Answer, Promise!TargetsOf, Promise!PackagesOf, Screen

\* The variables of JustOne as the searches show them.
PromiseVars ==
  <<IF OneLookup THEN Nodes ELSE {},
    IF OneLookup THEN answers ELSE {},
    IF OneLookup THEN {a \in answers : shown[a[1]] > 0} ELSE {},
    IF ~OneLookup \/ pc # "exit" THEN "running"
    ELSE IF exitcode = 0 THEN "found" ELSE "nothing">>

LEMMA NextRefines ==
  ASSUME Inv, StatusInv, StatusInv', SettingInv, SettingInv', AnswersInv, [Next]_vars
  PROVE  [Promise!Next]_PromiseVars
<1>0. OneLookup' = OneLookup
  BY LineStays DEF OneLookup
<1>1. CASE ~OneLookup
  BY <1>0, <1>1 DEF PromiseVars
<1>. SUFFICES ASSUME OneLookup, OneLookup' PROVE [Promise!Next]_PromiseVars
  BY <1>0, <1>1
<1>2. /\ Lookup /\ LookupNext /\ config.just_one /\ LookupSetting /\ WalkOfRank
      /\ AnswersBehind /\ AnswersShown /\ LookupSetting'
  <2>1. Lookup /\ Lookup' /\ line.config.just_one
    BY LineStays DEF OneLookup, Lookup
  <2>. QED BY <2>1, LookupActions DEF SettingInv, AnswersInv, LookupSetting
<1>3. /\ TypeOK /\ Len(list) \in Nat /\ phase # "files" /\ live \subseteq Nodes
      /\ pc # "aur_info" => \A a \in answers : a[1] \notin live
  BY <1>2 DEF Inv, LookupSetting, TypeOK, OnceInv, Answered, NodesOf
<1>4. CASE UNCHANGED <<list, answers, shown>> /\ pc # "exit" /\ pc' # "exit"
  BY <1>4 DEF PromiseVars, Nodes
<1>5. CASE UNCHANGED <<list, answers, shown>> /\ pc # "exit" /\ pc' = "exit"
  <2>1. Screen = {} <=> ~SomethingShown'
    <3>1. SomethingShown' <=> \E n \in Nodes : shown[n] > 0
      BY <1>2, <1>5 DEF SomethingShown, LookupSetting, Nodes
    <3>2. \A n \in Nodes : shown[n] > 0 => \E a \in answers : a[1] = n
      BY <1>2, <1>3 DEF Inv, OnceInv, TypeOK, Answered, NodesOf
    <3>3. \A a \in answers : a[1] \in Nodes
      BY <1>3 DEF TypeOK, NodesOf
    <3>. QED BY <3>1, <3>2, <3>3 DEF Screen
  <2>2. exitcode' = 0 <=> Screen # {}
    BY <1>5, <2>1 DEF StatusInv
  <2>3. Promise!Finish
    BY <1>5, <2>2 DEF Promise!Finish, Screen, Nodes
  <2>. QED BY <2>3 DEF Promise!Next
<1>6. CASE SearchPkgByName
  <2> DEFINE hits == ByNameHits(Head(dbs))
  <2>1. /\ pc = "walk" /\ pc' = "walk" /\ dbs # <<>> /\ Answer(hits) /\ UNCHANGED list
    BY <1>6 DEF SearchPkgByName, ByName, Deal, db
  <2>2. Head(dbs) = dbs[1] /\ 1 \in 1..Len(dbs) /\ dbs[1] \in DbNames
    BY <1>2, <2>1, HeadOfDbs
  <2>3. /\ NodesOf(hits) \subseteq live
        /\ \A g, h \in hits : g[1] = h[1] => g = h
        /\ \A h \in hits : h[2].db = dbs[1]
    BY <2>2, ByNameHitsOf
  <2>. HIDE DEF hits
  <2>4. \A h \in hits, a \in answers : h[1] # a[1]
    BY <1>3, <2>1, <2>3 DEF NodesOf
  <2>5. \A h \in hits, a \in answers : h[2] # a[2]
    BY <1>2, <2>1, <2>2, <2>3 DEF AnswersBehind
  <2>6. Promise!Answer
    BY <1>2, <1>3, <2>1, <2>3, <2>4, <2>5, AnswerRefines
  <2>. QED BY <2>6 DEF Promise!Next
<1>7. CASE ByTypeDep
  <2>1. pc = "by_type" /\ pc' = "by_type" /\ Answer(ByTypeHits) /\ UNCHANGED list
    BY <1>7 DEF ByTypeDep
  <2>2. 1 \in 1..Len(dbs)
    BY <1>2, <2>1, HeadOfDbs DEF Inv, DbChosen
  <2>3. /\ NodesOf(ByTypeHits) \subseteq live
        /\ \A g, h \in ByTypeHits : g[1] = h[1] => g = h
        /\ \A h \in ByTypeHits : h[2].db = dbs[1]
    BY <1>2, <1>7, ByTypeHitsOf DEF ByTypeDep
  <2>4. \A h \in ByTypeHits, a \in answers : h[1] # a[1]
    BY <1>3, <2>1, <2>3 DEF NodesOf
  <2>5. \A h \in ByTypeHits, a \in answers : h[2] = a[2] => h[2] \in items
    BY <1>2, <2>1, <2>2, <2>3 DEF AnswersBehind
  <2>6. Promise!Answer
    BY <1>2, <1>3, <2>1, <2>3, <2>4, <2>5, AnswerRefines
  <2>. QED BY <2>6 DEF Promise!Next
<1>8. ASSUME NEW ok \in BOOLEAN, AurInfoFetch(ok) PROVE [Promise!Next]_PromiseVars
  <2> DEFINE reply == IF ok THEN InfoReply({list[n].name : n \in Batch}) ELSE {}
             hits  == AurHits(reply)
  <2>1. reply \in SUBSET AurPkgs
    BY DEF InfoReply
  <2>2. /\ NodesOf(hits) \subseteq live
        /\ \A h \in hits : h[2] \in AurPkgs /\ h[2].name = list[h[1]].name
        /\ \A h \in hits : h = <<h[1], h[2]>>
    BY <2>1, AurHitsOf, HitsArePairs
  <2>3. /\ pc = "aur_info" /\ pc' = "aur_info" /\ Answer(hits) /\ UNCHANGED list
    BY <1>8 DEF AurInfoFetch
  <2>. HIDE DEF hits
  <2>4. \A p, q \in AurPkgs : p.db = "aur" /\ (p.name = q.name => p = q)
    BY DatabasesAssumption
  <2>5. \A g, h \in hits : g[1] = h[1] => g = h
    BY <2>2, <2>4
  <2>6. \A h \in hits, a \in answers : h[1] = a[1] => h[2] = a[2]
    BY <1>2, <2>2, <2>3, <2>4 DEF AnswersShown, NodesOf
  <2>7. \A h \in hits, a \in answers : h[1] = a[1] => h = a
    <3>1. \A a \in answers : a = <<a[1], a[2]>>
      BY <1>2 DEF AnswersShown
    <3>. QED BY <2>2, <2>6, <3>1
  <2>8. \A h \in hits, a \in answers : h[2] = a[2] => h[2] \in items
    BY <1>2, <2>2, <2>3, <2>4 DEF AnswersBehind
  <2>9. Promise!Answer
    BY <1>2, <1>3, <2>2, <2>3, <2>5, <2>7, <2>8, AnswerRefines
  <2>. QED BY <2>9 DEF Promise!Next
<1>9. CASE \/ \E ok \in BOOLEAN : InitDbSync(ok) \/ CurlInit(ok)
           \/ EnterCycle \/ StartWalk \/ StartAurInfo \/ SkipAur \/ EndCycle \/ Fallback
           \/ EndWalk \/ StartByType \/ ByTypeNextPkg \/ ByTypeClose \/ AurInfoClose
           \/ ShowResults
  <2>1. UNCHANGED <<list, answers, shown>> /\ pc # "exit"
    BY <1>9 DEF InitDbSync, CurlInit, EnterCycle, StartWalk, StartAurInfo, SkipAur, EndCycle,
       Fallback, EndWalk, StartByType, ByTypeNextPkg, ByTypeClose, AurInfoClose, ShowResults,
       RankOf, Deal, Goto, lists, history
  <2>. QED BY <1>4, <1>5, <2>1
<1>10. CASE UNCHANGED vars
  BY <1>10 DEF vars, control, lists, history, PromiseVars, Nodes
<1>. QED
  BY <1>2, <1>6, <1>7, <1>8, <1>9, <1>10 DEF LookupNext

\* Every behaviour of the searches is one of module JustOne: target_arg_add,
\* target_arg_clear and the searches that share them keep the promise of
\* --just-one between them, for all databases, targets and replies, and whatever
\* freed string is read.
THEOREM KeepsJustOne == Spec => JustOneKept
<1>1. Init => Promise!Init
  BY DEF Init, Promise!Init
<1>2. Inv /\ StatusInv /\ StatusInv' /\ SettingInv /\ SettingInv' /\ AnswersInv /\ [Next]_vars
        => [Promise!Next]_PromiseVars
  BY NextRefines
<1>. QED
  BY <1>1, <1>2, AnswersInductive, PTL DEF Spec, JustOneKept, Promise!Spec, PromiseVars
-----------------------------------------------------------------------------
(***************************************************************************)
(* -Am and -Au: the packages of the local database are the targets.        *)
(***************************************************************************)
\* The targets are foreign packages, and from a package of the AUR that answers
\* one of them a newer version can be had.
UpgradesInv ==
  phase = "upgrades" =>
    /\ pc \in {"aur_info_init", "aur_info", "show", "exit"}
    /\ \A n \in Nodes :
         /\ list[n].mod = "GT"
         /\ \E p \in PkgsOf("local") :
              p.name = list[n].name /\ p.ver = list[n].ver /\ GetSyncPkg(p) = {}
    /\ UpgradesAreNewer

\* Each target is an installed package, and no two are the same one.
ForeignTargets ==
  /\ \A n \in Nodes :
       /\ list[n].db = "" /\ list[n].mod = "ANY"
       /\ \E p \in PkgsOf("local") : p.name = list[n].name /\ Filter(p, config.filter)
  /\ \A m, n \in Nodes : list[m].name = list[n].name => m = n

\* Each answer has been printed.  The AUR answers no target whose name was not
\* yet sent, and in the end the local database has answered what was left.
ForeignInv ==
  phase = "foreign" =>
    /\ config.just_one /\ ~stale_read /\ ForeignTargets
    /\ pc \in {"aur_info_init", "aur_info", "foreign_local", "show", "exit"}
    /\ \A n \in Answered : shown[n] = 1
    /\ pc = "aur_info_init" => answers = {}
    /\ pc = "aur_info" => /\ unsent \cap Answered = {}
                          /\ \A p \in items : \E m \in Answered : p.name = list[m].name
    /\ pc \in {"show", "exit"} /\ config.db_local # 0 => Nodes \subseteq Answered

NothingStale == pc \in {"init", "dispatch"} => ~stale_read

BranchInv == UpgradesInv /\ ForeignInv /\ NothingStale

-----------------------------------------------------------------------------
\* What alpm_search_local makes of the packages it is asked for: a target each.
OneTargetEach(l, flags, versioned) ==
  /\ Len(l) \in Nat
  /\ \A n \in 1..Len(l) : \E p \in PkgsOf("local") :
       /\ Filter(p, flags) /\ p.name = l[n].name /\ l[n].db = ""
       /\ l[n].mod = IF versioned THEN "GT" ELSE "ANY"
       /\ versioned => l[n].ver = p.ver
  /\ \A m, n \in 1..Len(l) : l[m].name = l[n].name => m = n

LEMMA LocalTargetsAre ==
  ASSUME NEW flags, NEW versioned \in BOOLEAN
  PROVE  OneTargetEach(LocalTargets(flags, versioned), flags, versioned)
<1> DEFINE C == Cache["local"]
           K == {i \in 1..Len(C) : Filter(C[i], flags)}
           pos(n) == CHOOSE i \in K : PlaceIn(K, i) = n
           l == LocalTargets(flags, versioned)
<1>1. C \in Seq(PkgsOf("local")) /\ \A i, j \in 1..Len(C) : C[i] = C[j] => i = j
  BY DatabasesAssumption DEF DbNames
<1>2. \A p, q \in PkgsOf("local") : p.name = q.name => p = q
  BY DatabasesAssumption DEF DbNames
<1>3. K \in SUBSET Nat /\ IsFiniteSet(K)
  <2>1. Len(C) \in Nat
    BY <1>1
  <2>. HIDE DEF C
  <2>2. IsFiniteSet(1..Len(C)) /\ 1..Len(C) \subseteq Nat
    BY <2>1, FS_Interval
  <2>3. K \subseteq 1..Len(C)
    OBVIOUS
  <2>. HIDE DEF K
  <2>. QED BY <2>2, <2>3, FS_Subset
<1>4. \A i \in K : C[i] \in PkgsOf("local") /\ Filter(C[i], flags)
  BY <1>1
<1>5. \A i, j \in K : C[i].name = C[j].name => i = j
  <2>. SUFFICES ASSUME NEW i \in K, NEW j \in K, C[i].name = C[j].name PROVE i = j
    OBVIOUS
  <2>1. C[i] = C[j]
    BY <1>2, <1>4
  <2>. QED BY <1>1, <2>1
<1>6. l = [n \in 1..Cardinality(K) |->
             IF versioned THEN [db |-> "", name |-> C[pos(n)].name, mod |-> "GT", ver |-> C[pos(n)].ver]
             ELSE [db |-> "", name |-> C[pos(n)].name, mod |-> "ANY", ver |-> 0]]
  BY DEF LocalTargets, PlaceIn
<1>. HIDE DEF K, C, l
<1>7. /\ Cardinality(K) \in Nat
      /\ \A n \in 1..Cardinality(K) : \E i \in K : PlaceIn(K, i) = n
  BY <1>3, RankingNat
<1>8. \A n \in 1..Cardinality(K) : pos(n) \in K /\ PlaceIn(K, pos(n)) = n
  BY <1>7
<1>. HIDE DEF pos
<1>9. DOMAIN l = 1..Cardinality(K) /\ Len(l) = Cardinality(K)
  <2> DEFINE N == Cardinality(K)
             e(n) == IF versioned
                     THEN [db |-> "", name |-> C[pos(n)].name, mod |-> "GT", ver |-> C[pos(n)].ver]
                     ELSE [db |-> "", name |-> C[pos(n)].name, mod |-> "ANY", ver |-> 0]
  <2>1. l = [n \in 1..N |-> e(n)] /\ N \in Nat
    BY <1>6, <1>7
  <2>. HIDE DEF N, e
  <2>2. DOMAIN l = 1..N /\ Len(l) = N
    BY <2>1
  <2>. QED BY <2>2 DEF N
<1>10. ASSUME NEW n \in 1..Len(l)
       PROVE  /\ pos(n) \in K /\ PlaceIn(K, pos(n)) = n
              /\ l[n].name = C[pos(n)].name /\ l[n].db = ""
              /\ l[n].mod = IF versioned THEN "GT" ELSE "ANY"
              /\ versioned => l[n].ver = C[pos(n)].ver
  BY <1>6, <1>8, <1>9
<1>11. \A m, n \in 1..Len(l) : l[m].name = l[n].name => m = n
  <2>. SUFFICES ASSUME NEW m \in 1..Len(l), NEW n \in 1..Len(l), l[m].name = l[n].name PROVE m = n
    OBVIOUS
  <2>1. /\ pos(m) \in K /\ pos(n) \in K
        /\ C[pos(m)].name = l[m].name /\ C[pos(n)].name = l[n].name
    BY <1>10
  <2>2. pos(m) = pos(n)
    BY <1>5, <2>1
  <2>3. PlaceIn(K, pos(m)) = m /\ PlaceIn(K, pos(n)) = n
    BY <1>10
  <2>. QED BY <2>2, <2>3
<1>. QED BY <1>4, <1>7, <1>9, <1>10, <1>11 DEF OneTargetEach, l

\* Which actions there are on these branches.
BranchActions ==
  \/ AurForeign \/ AurUpgrades \/ AurInfoClose \/ ForeignLocal \/ ShowResults
  \/ \E ok \in BOOLEAN : CurlInit(ok) \/ AurInfoFetch(ok)
  \/ UNCHANGED vars

LEMMA OnlyBranchActions ==
  ASSUME Inv, UpgradesInv, ForeignInv, [Next]_vars, phase' \in {"foreign", "upgrades"}
  PROVE  BranchActions
<1>1. pc \in {"init", "dispatch"} => phase = "none"
  BY DEF Inv, Fresh
<1>2. phase \in {"foreign", "upgrades"} =>
        pc \in {"aur_info_init", "aur_info", "foreign_local", "show", "exit"}
  BY DEF UpgradesInv, ForeignInv
<1>3. ~\/ \E ok \in BOOLEAN : InitDbSync(ok)
       \/ \E readable \in SUBSET Nodes : QueryFiles(readable)
       \/ EnterCycle \/ SearchLocal \/ NothingToDo
  BY <1>1 DEF InitDbSync, QueryFiles, EnterCycle, SearchLocal, NothingToDo, NoCycle
<1>4. ~\/ StartWalk \/ StartAurInfo \/ StartAurSearch \/ SkipAur \/ EndCycle
       \/ Fallback \/ EndWalk
  BY <1>2 DEF StartWalk, StartAurInfo, StartAurSearch, SkipAur, EndCycle, Fallback, EndWalk, RankOf
<1>5. ~\/ ListDb \/ SearchPkg \/ ListGrp \/ SearchPkgByName \/ StartByType
       \/ ByTypeDep \/ ByTypeNextPkg \/ ByTypeClose
  BY <1>2 DEF ListDb, SearchPkg, ListGrp, List, SearchPkgByName, StartByType, ByTypeDep, ByTypeNextPkg,
     ByTypeClose, Deal, control
<1>6. ~\/ \E outcome \in {"ok", "aur_error", "curl_error"} : AurSearchFetch(outcome)
       \/ AurSearchNext \/ AurSearchNoTarget
  BY <1>2 DEF AurSearchFetch, AurSearchNext, AurSearchNoTarget
<1>. QED BY <1>3, <1>4, <1>5, <1>6 DEF Next, BranchActions

LEMMA InitBranch == Init => BranchInv
  BY DEF Init, BranchInv, UpgradesInv, ForeignInv, NothingStale

LEMMA NextNothingStale == Inv /\ NothingStale /\ [Next]_vars => NothingStale'
<1>. SUFFICES ASSUME Inv, NothingStale, [Next]_vars, pc' \in {"init", "dispatch"} PROVE ~stale_read'
  BY DEF NothingStale
<1>1. CASE \E ok \in BOOLEAN : InitDbSync(ok)
  BY <1>1 DEF NothingStale, InitDbSync, history
<1>2. CASE UNCHANGED vars
  BY <1>2 DEF NothingStale, vars, control, history
<1>3. ~(\E ok \in BOOLEAN : InitDbSync(ok)) /\ ~UNCHANGED vars => FALSE
  BY DEF Next, QueryFiles, EnterCycle, SearchLocal, AurForeign,
     AurUpgrades, NothingToDo, StartWalk, StartAurInfo, StartAurSearch, SkipAur, EndCycle,
     Fallback, EndWalk, ListDb, SearchPkg, ListGrp, List, SearchPkgByName, StartByType,
     ByTypeDep, ByTypeNextPkg, ByTypeClose, CurlInit, AurInfoFetch, AurInfoClose,
     AurSearchFetch, AurSearchNext, AurSearchNoTarget, ForeignLocal, ShowResults,
     AurReturn, Goto, RankOf, Deal, NoCycle, control
<1>. QED BY <1>1, <1>2, <1>3

\* What the AUR answers a target with fits it.
LEMMA AurHitsFit ==
  ASSUME NEW reply
  PROVE  \A h \in AurHits(reply) :
           /\ h = <<h[1], h[2]>> /\ h[1] \in RealTargets /\ h[2] \in reply
           /\ h[2].name = list[h[1]].name /\ TargetCheckVersion(list[h[1]], h[2].ver)
BY DEF AurHits

\* The steps of -Au.
LEMMA NextUpgrades == Inv /\ BranchInv /\ [Next]_vars => UpgradesInv'
<1>. SUFFICES ASSUME Inv, BranchInv, [Next]_vars, phase' = "upgrades" PROVE UpgradesInv'
  BY DEF UpgradesInv
<1>0. /\ BranchActions /\ UpgradesInv /\ ForeignInv
  BY OnlyBranchActions DEF BranchInv
<1>1. CASE AurUpgrades
  <2>1. /\ pc = "dispatch" /\ pc' = "aur_info_init" /\ answers' = answers
        /\ list' = LocalTargets((config.filter \ {"F_UPGRADES"}) \cup {"F_FOREIGN"}, TRUE)
    BY <1>1 DEF AurUpgrades, NoCycle, SetTargets, Goto
  <2> DEFINE flags == (config.filter \ {"F_UPGRADES"}) \cup {"F_FOREIGN"}
  <2>2. OneTargetEach(list', flags, TRUE) /\ "F_FOREIGN" \in flags
    BY <2>1, LocalTargetsAre
  <2>. HIDE DEF flags
  <2>3. \A n \in 1..Len(list') :
          /\ list'[n].mod = "GT"
          /\ \E p \in PkgsOf("local") :
               p.name = list'[n].name /\ p.ver = list'[n].ver /\ GetSyncPkg(p) = {}
    BY <2>2 DEF OneTargetEach, Filter
  <2>4. answers' = {}
    BY <2>1 DEF Inv, Fresh
  <2>. QED BY <2>1, <2>3, <2>4 DEF UpgradesInv, UpgradesAreNewer, Nodes
<1>2. CASE AurForeign
  BY <1>2 DEF AurForeign
<1>3. ASSUME NEW ok \in BOOLEAN, AurInfoFetch(ok) PROVE UpgradesInv'
  <2> DEFINE reply == IF ok THEN InfoReply({list[n].name : n \in Batch}) ELSE {}
             hits  == AurHits(reply)
  <2>1. UNCHANGED <<pc, phase, list>> /\ answers' = answers \cup hits
    BY <1>3 DEF AurInfoFetch, Answer
  <2>2. ASSUME NEW h \in hits
        PROVE  \E p \in PkgsOf("local") : p.name = h[2].name /\ GetSyncPkg(p) = {} /\ h[2].ver > p.ver
    <3>1. PICK n \in RealTargets : /\ h[2].name = list[n].name
                                   /\ TargetCheckVersion(list[n], h[2].ver)
      BY AurHitsFit
    <3>2. n \in Nodes
      BY DEF RealTargets, Inv, TypeOK
    <3>3. PICK p \in PkgsOf("local") :
            p.name = list[n].name /\ p.ver = list[n].ver /\ GetSyncPkg(p) = {} /\ list[n].mod = "GT"
      BY <1>0, <2>1, <3>2 DEF UpgradesInv
    <3>. QED BY <3>1, <3>3 DEF TargetCheckVersion
  <2>. HIDE DEF hits
  <2>3. UpgradesAreNewer'
    BY <1>0, <2>1, <2>2 DEF UpgradesInv, UpgradesAreNewer
  <2>. QED BY <1>0, <2>1, <2>3 DEF UpgradesInv, Nodes
<1>4. ASSUME NEW ok \in BOOLEAN, CurlInit(ok) PROVE UpgradesInv'
  <2>1. /\ UNCHANGED <<phase, list, answers>>
        /\ pc \in {"aur_info_init", "aur_search_init"}
        /\ pc = "aur_info_init" => pc' \in {"aur_info", "show"}
    BY <1>4 DEF CurlInit, AurReturn, Goto, history
  <2>. QED BY <1>0, <2>1 DEF UpgradesInv, UpgradesAreNewer, Nodes
<1>5. CASE AurInfoClose
  <2>1. UNCHANGED <<phase, list, answers>> /\ pc' = "show"
    BY <1>5 DEF AurInfoClose, AurReturn, Goto
  <2>. QED BY <1>0, <2>1 DEF UpgradesInv, UpgradesAreNewer, Nodes
<1>6. CASE ForeignLocal
  BY <1>0, <1>6 DEF ForeignLocal, UpgradesInv
<1>7. CASE ShowResults
  <2>1. UNCHANGED <<phase, list, answers>> /\ pc' = "exit"
    BY <1>7 DEF ShowResults, Goto, lists, history
  <2>. QED BY <1>0, <2>1 DEF UpgradesInv, UpgradesAreNewer, Nodes
<1>8. CASE UNCHANGED vars
  BY <1>0, <1>8 DEF UpgradesInv, UpgradesAreNewer, Nodes, vars, control, lists, history
<1>. QED BY <1>0, <1>1, <1>2, <1>3, <1>4, <1>5, <1>6, <1>7, <1>8 DEF BranchActions

\* Hits of different packages that were not noted are printed, each once.
LEMMA AllPrinted ==
  ASSUME TypeOK, config.just_one, NEW hits, NodesOf(hits) \subseteq Nodes, Answer(hits),
         \A h \in hits : h[2] \notin items,
         \A g, h \in hits : g[2] = h[2] => g[1] = h[1],
         Nodes \subseteq Nat, UNCHANGED list
  PROVE  /\ Nodes' = Nodes /\ Answered' = Answered \cup NodesOf(hits)
         /\ \A n \in Nodes : shown'[n] = IF n \in NodesOf(hits) THEN shown[n] + 1 ELSE shown[n]
<1>1. \A h \in hits : h[1] \in Nat
  BY DEF NodesOf
<1>2. Printed(hits) = hits
  BY <1>1 DEF Printed
<1>. QED BY <1>2, AnswerStep DEF Answered, Nodes

\* The AUR answers a target by the one package of its name; a later request is
\* about other names.
LEMMA ForeignFetch ==
  ASSUME Inv, ForeignInv, phase = "foreign", NEW ok \in BOOLEAN, AurInfoFetch(ok)
  PROVE  ForeignInv'
<1> DEFINE reply == IF ok THEN InfoReply({list[n].name : n \in Batch}) ELSE {}
           hits  == AurHits(reply)
<1>1. /\ pc = "aur_info" /\ Answer(hits) /\ config.just_one
      /\ items' = items \cup {h[2] : h \in hits}
      /\ unsent' = unsent \ Batch
      /\ UNCHANGED <<config, pc, phase, list, stale_read>>
  BY DEF AurInfoFetch, ForeignInv
<1>2. \A h \in hits : h = <<h[1], h[2]>> /\ h[1] \in live /\ h[2].name = list[h[1]].name
  BY AurHitsFit DEF RealTargets
<1>3. \A h \in hits : h[2] \in reply
  BY AurHitsFit
<1>. HIDE DEF hits
<1>4. TypeOK /\ Nodes \subseteq Nat /\ live \subseteq Nodes /\ unsent \subseteq Nodes
  BY DEF Inv, TypeOK, Nodes
<1>5. Batch \subseteq unsent
  BY DEF Batch
<1>6. ForeignTargets /\ unsent \cap Answered = {} /\ \A p \in items : \E m \in Answered : p.name = list[m].name
  BY <1>1 DEF ForeignInv
<1>7. Answered \subseteq Nodes
  BY <1>4 DEF TypeOK, Answered
<1>8. ASSUME NEW h \in hits PROVE h[1] \in Batch /\ h[1] \in Nodes
  <2>1. PICK n \in Batch : h[2].name = list[n].name
    BY <1>3 DEF InfoReply
  <2>2. n \in Nodes /\ h[1] \in Nodes /\ list[n].name = list[h[1]].name
    BY <1>2, <1>4, <1>5, <2>1
  <2>. QED BY <1>6, <2>1, <2>2 DEF ForeignTargets
<1>9. \A m, n \in Nodes : list[m].name = list[n].name => m = n
  BY <1>6 DEF ForeignTargets
<1>10. \A h \in hits : h[2] \notin items
  <2>. SUFFICES ASSUME NEW h \in hits, h[2] \in items PROVE FALSE
    OBVIOUS
  <2>1. PICK m \in Answered : h[2].name = list[m].name
    BY <1>6
  <2>2. m \in Nodes /\ h[1] \in Nodes /\ list[m].name = list[h[1]].name
    BY <1>2, <1>7, <1>8, <2>1
  <2>3. m = h[1]
    BY <1>9, <2>2
  <2>. QED BY <1>5, <1>6, <1>8, <2>1, <2>3
<1>11. ASSUME NEW g \in hits, NEW h \in hits, g[2] = h[2] PROVE g[1] = h[1]
  <2>1. g[1] \in Nodes /\ h[1] \in Nodes /\ list[g[1]].name = list[h[1]].name
    BY <1>2, <1>8, <1>11
  <2>. QED BY <1>9, <2>1
<1>12. NodesOf(hits) \subseteq Batch /\ NodesOf(hits) \subseteq Nodes
  BY <1>8 DEF NodesOf
<1>13. /\ Nodes' = Nodes /\ Answered' = Answered \cup NodesOf(hits)
       /\ \A n \in Nodes : shown'[n] = IF n \in NodesOf(hits) THEN shown[n] + 1 ELSE shown[n]
  BY <1>1, <1>4, <1>10, <1>12, <1>11, AllPrinted
<1>14. \A n \in Nodes : n \notin Answered => shown[n] = 0
  BY <1>1, <1>4 DEF Inv, OnceInv, TypeOK
<1>15. \A n \in Answered' : shown'[n] = 1
  <2>1. \A n \in Answered : shown[n] = 1 /\ n \in Nodes /\ n \notin unsent
    BY <1>6, <1>7 DEF ForeignInv
  <2>2. \A n \in NodesOf(hits) : n \in Nodes /\ n \notin Answered
    BY <1>5, <1>6, <1>12
  <2>. QED BY <1>5, <1>12, <1>13, <1>14, <2>1, <2>2
<1>16. unsent' \cap Answered' = {}
  BY <1>1, <1>6, <1>12, <1>13
<1>17. \A p \in items' : \E m \in Answered' : p.name = list'[m].name
  <2>1. \A h \in hits : h[1] \in Answered' /\ h[2].name = list'[h[1]].name
    BY <1>1, <1>2, <1>13 DEF NodesOf
  <2>. QED BY <1>1, <1>6, <1>13, <2>1
<1>18. ForeignTargets'
  BY <1>1, <1>6, <1>13 DEF ForeignTargets
<1>. QED BY <1>1, <1>15, <1>16, <1>17, <1>18 DEF ForeignInv

LEMMA InByNameHits ==
  ASSUME NEW d, NEW n \in live, NEW p \in PkgsOf(d), p.name = list[n].name,
         TargetNamesDb(list[n], d), Filter(p, config.filter), TargetCheckVersion(list[n], p.ver)
  PROVE  <<n, p>> \in ByNameHits(d)
<1> DEFINE S(m) == {q \in DbGetPkg(d, list[m].name) :
                      /\ TargetNamesDb(list[m], d)
                      /\ Filter(q, config.filter)
                      /\ TargetCheckVersion(list[m], q.ver)}
<1>1. p \in S(n)
  BY DEF DbGetPkg
<1>2. ByNameHits(d) = UNION {{<<m, q>> : q \in S(m)} : m \in live}
  BY DEF ByNameHits
<1>. HIDE DEF S
<1>. QED BY <1>1, <1>2

\* The local database has each target that is left.
LEMMA ForeignLocalStep ==
  ASSUME Inv, ForeignInv, phase = "foreign", ForeignLocal
  PROVE  ForeignInv'
<1> DEFINE hits == ByNameHits("local")
<1>1. /\ pc = "foreign_local" /\ pc' = "show" /\ Answer(hits) /\ Clear({}, NodesOf(hits))
      /\ UNCHANGED <<config, phase, list>> /\ config.just_one /\ ~stale_read
  BY DEF ForeignLocal, ByName, Goto, ForeignInv
<1>2. /\ NodesOf(hits) \subseteq live
      /\ \A h \in hits : h = <<h[1], h[2]>> /\ h[2].name = list[h[1]].name
  BY OneHitByName DEF DbNames, ByNameHits, DbGetPkg
<1>3. TypeOK /\ Nodes \subseteq Nat /\ live \subseteq Nodes /\ Answered \subseteq Nodes
  BY DEF Inv, TypeOK, Nodes, Answered
<1>4. ForeignTargets /\ items = {} /\ live = Nodes \ Answered
  BY <1>1, <1>3 DEF Inv, ForeignInv, ArgsInScope, OnceInv
<1>5. ASSUME NEW n \in live PROVE n \in NodesOf(hits)
  <2>1. PICK p \in PkgsOf("local") : p.name = list[n].name /\ Filter(p, config.filter)
    BY <1>3, <1>4 DEF ForeignTargets
  <2>2. list[n].db = "" /\ list[n].mod = "ANY"
    BY <1>3, <1>4 DEF ForeignTargets
  <2>3. <<n, p>> \in hits
    BY <2>1, <2>2, InByNameHits DEF TargetNamesDb, TargetCheckVersion
  <2>. HIDE DEF hits
  <2>4. <<n, p>>[1] = n
    OBVIOUS
  <2>. QED BY <2>3, <2>4 DEF NodesOf
<1>. HIDE DEF hits
<1>6. NodesOf(hits) = live
  BY <1>2, <1>5
<1>7. ASSUME NEW g \in hits, NEW h \in hits, g[2] = h[2] PROVE g[1] = h[1]
  <2>1. \A m, n \in Nodes : list[m].name = list[n].name => m = n
    BY <1>4 DEF ForeignTargets
  <2>2. g[1] \in Nodes /\ h[1] \in Nodes
    BY <1>3, <1>6 DEF NodesOf
  <2>3. list[g[1]].name = list[h[1]].name
    BY <1>2, <1>7
  <2>. QED BY <2>1, <2>2, <2>3
<1>8. /\ Nodes' = Nodes /\ Answered' = Answered \cup NodesOf(hits)
      /\ \A n \in Nodes : shown'[n] = IF n \in NodesOf(hits) THEN shown[n] + 1 ELSE shown[n]
  BY <1>1, <1>3, <1>4, <1>6, <1>7, AllPrinted
<1>9. \A n \in Nodes : n \notin Answered => shown[n] = 0
  BY <1>1, <1>3 DEF Inv, OnceInv, FilesExit, TypeOK
<1>10. \A n \in Answered' : shown'[n] = 1
  <2>1. \A n \in Answered : shown[n] = 1
    BY DEF ForeignInv
  <2>. QED BY <1>3, <1>4, <1>6, <1>8, <1>9, <2>1
<1>11. Nodes' \subseteq Answered'
  BY <1>4, <1>6, <1>8
<1>12. ~stale_read'
  BY <1>1 DEF Clear
<1>13. ForeignTargets'
  BY <1>1, <1>4, <1>8 DEF ForeignTargets
<1>. QED BY <1>1, <1>10, <1>11, <1>12, <1>13 DEF ForeignInv

\* The steps of -Am.
LEMMA NextForeign == Inv /\ BranchInv /\ [Next]_vars => ForeignInv'
<1>. SUFFICES ASSUME Inv, BranchInv, [Next]_vars, phase' = "foreign" PROVE ForeignInv'
  BY DEF ForeignInv
<1>0. /\ BranchActions /\ UpgradesInv /\ ForeignInv /\ NothingStale
  BY OnlyBranchActions DEF BranchInv
<1>1. CASE AurForeign
  <2>1. /\ pc = "dispatch" /\ pc' = "aur_info_init" /\ answers' = answers
        /\ config' = [config EXCEPT !.just_one = TRUE]
        /\ list' = LocalTargets(config.filter, FALSE) /\ stale_read' = stale_read
    BY <1>1 DEF AurForeign, NoCycle, SetTargets, Goto
  <2>2. OneTargetEach(list', config.filter, FALSE)
    BY <2>1, LocalTargetsAre
  <2>3. config'.just_one /\ config'.filter = config.filter
    BY <2>1 DEF Inv, TypeOK, ConfigType
  <2>4. ForeignTargets'
    BY <2>2, <2>3 DEF OneTargetEach, ForeignTargets, Nodes
  <2>5. answers' = {} /\ Answered' = {} /\ ~stale_read'
    BY <1>0, <2>1 DEF Inv, Fresh, Answered, NodesOf, NothingStale
  <2>. QED BY <2>1, <2>3, <2>4, <2>5 DEF ForeignInv
<1>2. CASE AurUpgrades
  BY <1>2 DEF AurUpgrades
<1>3. ASSUME NEW ok \in BOOLEAN, AurInfoFetch(ok) PROVE ForeignInv'
  BY <1>0, <1>3, ForeignFetch DEF AurInfoFetch
<1>4. ASSUME NEW ok \in BOOLEAN, CurlInit(ok) PROVE ForeignInv'
  <2>1. UNCHANGED <<phase, config, list, answers, shown, stale_read, items>>
    BY <1>4 DEF CurlInit, history
  <2>2. pc = "aur_info_init"
    BY <1>0, <1>4, <2>1 DEF CurlInit, ForeignInv
  <2>3. /\ pc' \in {"aur_info", "foreign_local", "show"}
        /\ pc' = "show" => config.db_local = 0
    BY <1>4, <2>1, <2>2 DEF CurlInit, AurReturn, Goto
  <2>4. answers = {} /\ items = {} /\ Answered' = {}
    BY <1>0, <2>1, <2>2 DEF ForeignInv, Inv, ArgsInScope, Answered, NodesOf
  <2>5. ForeignTargets'
    BY <1>0, <2>1 DEF ForeignInv, ForeignTargets, Nodes
  <2>. QED BY <1>0, <2>1, <2>3, <2>4, <2>5 DEF ForeignInv
<1>5. CASE AurInfoClose
  <2>1. /\ UNCHANGED <<phase, config, list, answers, shown>> /\ pc = "aur_info"
        /\ Clear({}, args) /\ pc' \in {"foreign_local", "show"}
        /\ pc' = "show" => config.db_local = 0
    BY <1>5 DEF AurInfoClose, AurReturn, Goto
  <2>2. ~stale_read' /\ Answered' = Answered
    BY <1>0, <2>1 DEF Clear, ForeignInv, Answered, NodesOf
  <2>3. ForeignTargets'
    BY <1>0, <2>1 DEF ForeignInv, ForeignTargets, Nodes
  <2>. QED BY <1>0, <2>1, <2>2, <2>3 DEF ForeignInv
<1>6. CASE ForeignLocal
  BY <1>0, <1>6, ForeignLocalStep DEF ForeignLocal
<1>7. CASE ShowResults
  <2>1. /\ UNCHANGED <<phase, config, list, answers, shown, stale_read>>
        /\ pc = "show" /\ pc' = "exit"
    BY <1>7 DEF ShowResults, Goto, lists, history
  <2>2. ForeignTargets' /\ Answered' = Answered /\ Nodes' = Nodes
    BY <1>0, <2>1 DEF ForeignInv, ForeignTargets, Nodes, Answered, NodesOf
  <2>. QED BY <1>0, <2>1, <2>2 DEF ForeignInv
<1>8. CASE UNCHANGED vars
  BY <1>0, <1>8 DEF ForeignInv, ForeignTargets, Nodes, Answered, NodesOf, vars, control, lists, history
<1>. QED BY <1>0, <1>1, <1>2, <1>3, <1>4, <1>5, <1>6, <1>7, <1>8 DEF BranchActions

LEMMA BranchInductive == Spec => [](Inv /\ BranchInv)
<1>1. Inv /\ BranchInv /\ [Next]_vars => BranchInv'
  BY NextUpgrades, NextForeign, NextNothingStale DEF BranchInv
<1>. QED BY <1>1, InitInv, NextInv, InitBranch, PTL DEF Spec

\* -Au shows no package that is not newer than an installed foreign one of its
\* name, whatever the databases, the filter and the replies of the AUR.
THEOREM OnlyNewer == Spec => []UpgradesAreNewer
<1>1. BranchInv => UpgradesAreNewer
  BY DEF BranchInv, UpgradesInv, UpgradesAreNewer
<1>. QED BY <1>1, BranchInductive, PTL

\* -AQm shows each foreign package once, however many requests the AUR needs and
\* whichever of them fail.
THEOREM ForeignOnce == Spec => []ForeignShownOnce
<1>1. Inv /\ BranchInv => ForeignShownOnce
  BY DEF BranchInv, ForeignInv, ForeignShownOnce
<1>. QED BY <1>1, BranchInductive, PTL

-----------------------------------------------------------------------------
(***************************************************************************)
(* The lookups in the AUR.                                                 *)
(***************************************************************************)
\* Node n needs no question to the AUR any more.
Settled(n) == n \in Answered \cup unreached \/ ~InAur(n)

InCycle == /\ phase = "cycle" /\ Lookup
           /\ line.config.aur # 0 /\ line.config.op \in {"OP_INFO", "OP_INFO_P"}
OfForeign == phase \in {"foreign", "upgrades"}

\* The turn of the AUR is over.
AurOver ==
  \/ InCycle /\ pc \notin {"aur_info_init", "aur_info"} /\ rank > line.config.aur
  \/ OfForeign /\ pc \in {"foreign_local", "show", "exit"}

\* Between the requests, what is not still to be sent is settled; behind the last
\* one everything is.
AskedSoFar ==
  /\ (InCycle \/ OfForeign) /\ pc = "aur_info" =>
       unsent \subseteq RealTargets /\ \A n \in Nodes \ unsent : Settled(n)
  /\ AurOver => \A n \in Nodes : Settled(n)

AskedInv ==
  /\ ~config.just_one => live = Nodes
  /\ ~stale_read => AskedSoFar

\* What a step leaves of the targets.
Grows ==
  /\ UNCHANGED list /\ config'.pkgbase = config.pkgbase
  /\ config'.just_one = config.just_one
  /\ answers \subseteq answers' /\ unreached \subseteq unreached'

LEMMA SettledStays ==
  ASSUME Grows, NEW n, Settled(n)
  PROVE  Settled(n)'
BY DEF Grows, Settled, InAur, Answered, NodesOf

LEMMA NextGrows ==
  ASSUME Inv, [Next]_vars, ~AurForeign, ~AurUpgrades
  PROVE  Grows
<1>1. UNCHANGED list
  BY DEF Next, vars, lists, InitDbSync, QueryFiles, EnterCycle, SearchLocal, NothingToDo,
     StartWalk, StartAurInfo, StartAurSearch, SkipAur, EndCycle, Fallback, EndWalk, ListDb,
     SearchPkg, ListGrp, List, SearchPkgByName, StartByType, ByTypeDep, ByTypeNextPkg,
     ByTypeClose, CurlInit, AurInfoFetch, AurInfoClose, AurSearchFetch, AurSearchNext,
     AurSearchNoTarget, ForeignLocal, ShowResults
<1>2. config'.pkgbase = config.pkgbase /\ config'.just_one = config.just_one
  <2>1. CASE Fallback
    BY <2>1 DEF Fallback, Inv, TypeOK, ConfigType
  <2>2. CASE EndWalk
    BY <2>2 DEF EndWalk, Inv, TypeOK, ConfigType
  <2>3. CASE ~Fallback /\ ~EndWalk
    <3>1. config' = config
      BY <2>3 DEF Next, vars, control, InitDbSync, QueryFiles, EnterCycle, SearchLocal,
         NothingToDo, StartWalk, StartAurInfo, StartAurSearch, SkipAur, EndCycle,
         ListDb, SearchPkg, ListGrp, List, SearchPkgByName, StartByType,
         ByTypeDep, ByTypeNextPkg, ByTypeClose, CurlInit, AurInfoFetch, AurInfoClose,
         AurSearchFetch, AurSearchNext, AurSearchNoTarget, ForeignLocal, ShowResults
    <3>. QED BY <3>1
  <2>. QED BY <2>1, <2>2, <2>3
<1>3. answers \subseteq answers'
  BY DEF Next, vars, history, InitDbSync, QueryFiles, EnterCycle, SearchLocal, NothingToDo,
     StartWalk, StartAurInfo, StartAurSearch, SkipAur, EndCycle, Fallback, EndWalk, ListDb,
     SearchPkg, ListGrp, List, SearchPkgByName, ByName, StartByType, ByTypeDep, ByTypeNextPkg,
     ByTypeClose, CurlInit, AurInfoFetch, AurInfoClose, AurSearchFetch, AurSearchNext,
     AurSearchNoTarget, ForeignLocal, ShowResults, Answer
<1>4. unreached \subseteq unreached'
  BY DEF Next, vars, history, InitDbSync, QueryFiles, EnterCycle, SearchLocal, NothingToDo,
     StartWalk, StartAurInfo, StartAurSearch, SkipAur, EndCycle, Fallback, EndWalk, ListDb,
     SearchPkg, ListGrp, List, SearchPkgByName, StartByType, ByTypeDep, ByTypeNextPkg,
     ByTypeClose, CurlInit, AurInfoFetch, AurInfoClose, AurSearchFetch, AurSearchNext,
     AurSearchNoTarget, ForeignLocal, ShowResults
<1>. QED BY <1>1, <1>2, <1>3, <1>4 DEF Grows

\* The list is only shortened by target_arg_clear, and what is stale stays so.
LEMMA NextLive ==
  ASSUME Inv, AskedInv, [Next]_vars
  PROVE  /\ ~config'.just_one => live' = Nodes'
         /\ ~stale_read' => ~stale_read
<1>1. CASE AurForeign \/ AurUpgrades
  <2>1. live' = 1..Len(list') /\ stale_read' = stale_read
    BY <1>1 DEF AurForeign, AurUpgrades, SetTargets
  <2>. QED BY <2>1 DEF Nodes
<1>2. CASE ~AurForeign /\ ~AurUpgrades
  <2>1. Grows
    BY <1>2, NextGrows
  <2>2. \/ UNCHANGED <<live, stale_read>>
        \/ \E dangling, noted : Clear(dangling, noted)
    BY <1>2 DEF Next, vars, lists, history, InitDbSync, QueryFiles, EnterCycle, SearchLocal,
       NothingToDo, StartWalk, StartAurInfo, StartAurSearch, SkipAur, EndCycle, Fallback, EndWalk,
       ListDb, SearchPkg, ListGrp, List, SearchPkgByName, ByName, StartByType, ByTypeDep,
       ByTypeNextPkg, ByTypeClose, CurlInit, AurInfoFetch, AurInfoClose, AurSearchFetch,
       AurSearchNext, AurSearchNoTarget, ForeignLocal, ShowResults
  <2>3. (~config.just_one => live' = live) /\ (~stale_read' => ~stale_read)
    BY <2>2 DEF Clear
  <2>. QED BY <2>1, <2>3 DEF Grows, AskedInv, Nodes
<1>. QED BY <1>1, <1>2

-----------------------------------------------------------------------------
\* Before the first request, who is not asked for is answered or not of the AUR.
LEMMA NotAskedFor ==
  ASSUME Inv, AskedInv, ~stale_read, pc = "aur_info_init", NEW n \in Nodes \ RealTargets
  PROVE  Settled(n)
<1>1. CASE n \in live
  BY <1>1 DEF RealTargets, Settled, InAur
<1>2. CASE n \notin live
  <2>1. config.just_one
    BY <1>2 DEF AskedInv
  <2>2. Nodes \subseteq live \cup Answered
    BY <2>1 DEF Inv, OnceInv
  <2>. QED BY <1>2, <2>2 DEF Settled
<1>. QED BY <1>1, <1>2

LEMMA CurlInitAsks ==
  ASSUME Inv, AskedInv, ~stale_read, pc = "aur_info_init", NEW ok \in BOOLEAN, CurlInit(ok), Grows
  PROVE  /\ pc' = "aur_info" => unsent' \subseteq RealTargets' /\ \A n \in Nodes' \ unsent' : Settled(n)'
         /\ pc' # "aur_info" => \A n \in Nodes' : Settled(n)'
<1>1. Nodes' = Nodes
  BY DEF Grows, Nodes
<1>2. CASE ok
  <2>1. unsent' = RealTargets /\ pc' = "aur_info" /\ live' = live /\ list' = list
    BY <1>2 DEF CurlInit, Goto
  <2>2. RealTargets' = RealTargets
    BY <2>1 DEF RealTargets
  <2>. QED BY <1>1, <2>1, <2>2, NotAskedFor, SettledStays
<1>3. CASE ~ok
  <2>1. unreached' = unreached \cup RealTargets
    BY <1>3 DEF CurlInit
  <2>2. pc' # "aur_info"
    BY <1>3 DEF CurlInit, AurReturn, Goto
  <2>3. \A n \in RealTargets : Settled(n)'
    BY <2>1 DEF Settled
  <2>. QED BY <1>1, <2>2, <2>3, NotAskedFor, SettledStays
<1>. QED BY <1>2, <1>3

LEMMA NotBefore ==
  ASSUME NEW k \in Nat, NEW m \in 1..k, NEW n \in 1..k, ~(m \in 1..(n - 1))
  PROVE  n <= m
OBVIOUS

\* A request settles the targets of its batch.
LEMMA FetchAsks ==
  ASSUME Inv, NEW ok \in BOOLEAN, AurInfoFetch(ok), Grows, unsent \subseteq RealTargets,
         \A n \in Nodes \ unsent : Settled(n)
  PROVE  unsent' \subseteq RealTargets' /\ \A n \in Nodes' \ unsent' : Settled(n)'
<1> DEFINE names == {list[n].name : n \in Batch}
           reply == IF ok THEN InfoReply(names) ELSE {}
           hits  == AurHits(reply)
<1>1. /\ Nodes' = Nodes /\ Len(list) \in Nat /\ live \subseteq Nodes
      /\ unsent' = unsent \ Batch /\ Batch \subseteq unsent /\ live' = live /\ list' = list
      /\ unreached' = IF ok THEN unreached ELSE unreached \cup Batch
      /\ answers' = answers \cup hits
  BY DEF Grows, Nodes, AurInfoFetch, Answer, Batch, Inv, TypeOK
<1>2. RealTargets' = RealTargets
  BY <1>1 DEF RealTargets
<1>3. ASSUME NEW n \in Batch PROVE Settled(n)'
  <2>1. CASE ~ok
    BY <1>1, <2>1 DEF Settled
  <2>2. CASE ok /\ InAur(n)
    <3>1. PICK p \in InfoReply({list[n].name}) :
            TargetCheckVersion(list[n], p.ver) /\ (config.pkgbase => p.name = p.base)
      BY <2>2 DEF InAur
    <3>2. p.name = list[n].name /\ p \in reply
      BY <2>2, <3>1 DEF InfoReply
    <3>3. n \in RealTargets /\ RealTargets \subseteq Nodes
      BY <1>1 DEF RealTargets
    <3>. HIDE DEF hits, reply, names
    <3>4. ASSUME NEW m \in RealTargets, list[m].name = p.name PROVE n <= m
      <4>1. m \in 1..Len(list) /\ n \in 1..Len(list)
        BY <3>3 DEF Nodes
      <4>2. list[m].db \in {"", "aur"}
        BY DEF RealTargets
      <4>3. ~(m \in 1..(n - 1))
        BY <2>2, <3>2, <3>4, <4>2 DEF InAur
      <4>. QED BY <1>1, <4>1, <4>3, NotBefore
    <3>5. p \in {q \in reply : /\ q.name = list[n].name
                               /\ \A m \in RealTargets : list[m].name = q.name => n <= m
                               /\ TargetCheckVersion(list[n], q.ver)
                               /\ config.pkgbase => q.name = q.base}
      BY <3>1, <3>2, <3>4
    <3>6. <<n, p>> \in hits
      BY <3>3, <3>5 DEF AurHits, hits
    <3>7. n \in NodesOf(answers')
      <4>1. <<n, p>> \in answers' /\ <<n, p>>[1] = n
        BY <1>1, <3>6
      <4>. QED BY <4>1 DEF NodesOf
    <3>. QED BY <3>7 DEF Settled, Answered
  <2>3. CASE ~InAur(n)
    BY <2>3, SettledStays DEF Settled
  <2>. QED BY <2>1, <2>2, <2>3
<1>. HIDE DEF hits, reply, names
<1>. QED BY <1>1, <1>2, <1>3, SettledStays

\* What the steps do, in the loop over the ranks and on the branches of the
\* foreign packages, that do not ask the AUR.
LEMMA AskedStays ==
  ASSUME AskedSoFar, Grows, AurOver' => AurOver, pc' # "aur_info"
  PROVE  AskedSoFar'
<1>1. Nodes' = Nodes
  BY DEF Grows, Nodes
<1>. QED BY <1>1, SettledStays DEF AskedSoFar

LEMMA AskedInCycle ==
  ASSUME Inv, SettingInv, AskedInv, [Next]_vars, InCycle', ~stale_read
  PROVE  AskedSoFar'
<1>0. line' = line /\ Lookup /\ LookupSetting /\ WalkOfRank /\ LookupNext /\ phase' = "cycle" /\ AskedSoFar
  BY LineStays, LookupActions DEF InCycle, Lookup, SettingInv, AskedInv
<1>1. /\ line.config.aur # 0 /\ line.config.op \in {"OP_INFO", "OP_INFO_P"}
      /\ line.config.aur \in Nat \ {0} /\ rank \in Nat
  <2>1. line.config \in ConfigType
    BY CommandLinesAssumption DEF Inv
  <2>. QED BY <1>0, <2>1 DEF InCycle, ConfigType, Inv, TypeOK
<1>2. Grows
  <2>1. ~AurForeign /\ ~AurUpgrades
    BY <1>0 DEF AurForeign, AurUpgrades
  <2>. QED BY <2>1, NextGrows
<1>3. phase = "cycle" => InCycle
  BY <1>0, <1>1 DEF InCycle
<1>4. phase' # "foreign" /\ phase' # "upgrades" /\ ~OfForeign'
  BY <1>0 DEF OfForeign
<1>5. CASE EnterCycle
  <2>1. pc' = "cycle" /\ rank' = 1
    BY <1>5 DEF EnterCycle, Goto
  <2>2. ~AurOver'
    BY <1>0, <1>1, <1>4, <2>1 DEF AurOver
  <2>. QED BY <2>1, <2>2 DEF AskedSoFar
<1>6. CASE StartAurInfo
  <2>1. pc' = "aur_info_init"
    BY <1>6 DEF StartAurInfo, Goto
  <2>. QED BY <1>4, <2>1 DEF AskedSoFar, AurOver
<1>7. CASE \/ StartWalk \/ EndCycle \/ Fallback \/ SearchPkgByName \/ StartByType \/ ByTypeDep
           \/ ByTypeNextPkg \/ ByTypeClose \/ ShowResults
  <2>1. /\ rank' = rank /\ phase' = phase /\ pc' # "aur_info"
        /\ pc \in {"cycle", "walk", "by_type", "show"}
    BY <1>7 DEF StartWalk, EndCycle, Fallback, SearchPkgByName, StartByType, ByTypeDep, ByTypeNextPkg,
       ByTypeClose, ShowResults, RankOf, Deal, Goto, control
  <2>2. AurOver' => AurOver
    BY <1>0, <1>3, <1>4, <2>1 DEF AurOver
  <2>. QED BY <1>0, <1>2, <2>1, <2>2, AskedStays
<1>8. CASE SkipAur
  <2>1. FALSE
    BY <1>0, <1>1, <1>8 DEF SkipAur, RankOf, LookupSetting
  <2>. QED BY <2>1
<1>9. CASE EndWalk
  <2>1. pc = "walk" /\ rank' = rank + 1 /\ pc' = "cycle" /\ phase' = phase
    BY <1>9 DEF EndWalk, Goto
  <2>2. rank = line.config.db_sync \/ rank = line.config.db_local
    BY <1>0, <2>1 DEF WalkOfRank, LookupSetting
  <2>3. rank # line.config.aur
    BY <1>1, <2>2, RanksOfSources
  <2>4. rank + 1 > line.config.aur => rank > line.config.aur
    BY <1>1, <2>3
  <2>5. AurOver' => AurOver
    BY <1>0, <1>3, <1>4, <2>1, <2>4 DEF AurOver
  <2>. QED BY <1>0, <1>2, <2>1, <2>5, AskedStays
<1>10. ASSUME NEW ok \in BOOLEAN, CurlInit(ok) PROVE AskedSoFar'
  <2>1. pc = "aur_info_init"
    BY <1>0, <1>10 DEF CurlInit, LookupSetting
  <2>2. /\ pc' = "aur_info" => /\ unsent' \subseteq RealTargets'
                              /\ \A n \in Nodes' \ unsent' : Settled(n)'
        /\ pc' # "aur_info" => \A n \in Nodes' : Settled(n)'
    BY <1>2, <1>10, <2>1, CurlInitAsks
  <2>. QED BY <2>2 DEF AskedSoFar, AurOver
<1>11. ASSUME NEW ok \in BOOLEAN, AurInfoFetch(ok) PROVE AskedSoFar'
  <2>1. pc = "aur_info" /\ pc' = "aur_info" /\ phase' = phase
    BY <1>11 DEF AurInfoFetch
  <2>2. unsent \subseteq RealTargets /\ \A n \in Nodes \ unsent : Settled(n)
    BY <1>0, <1>3, <2>1 DEF AskedSoFar
  <2>. QED BY <1>2, <1>4, <1>11, <2>1, <2>2, FetchAsks DEF AskedSoFar, AurOver
<1>12. CASE AurInfoClose
  <2>1. pc = "aur_info" /\ phase' = phase /\ unsent = {} /\ pc' # "aur_info"
    BY <1>12 DEF AurInfoClose, AurReturn, Goto
  <2>2. \A n \in Nodes : Settled(n)
    BY <1>0, <1>3, <2>1 DEF AskedSoFar
  <2>3. \A n \in Nodes' : Settled(n)'
    BY <1>2, <2>2, SettledStays DEF Grows, Nodes
  <2>. QED BY <2>1, <2>3 DEF AskedSoFar
<1>13. ASSUME NEW ok \in BOOLEAN, InitDbSync(ok) PROVE AskedSoFar'
  <2>1. FALSE
    BY <1>0, <1>13 DEF InitDbSync, Inv, Fresh
  <2>. QED BY <2>1
<1>14. CASE UNCHANGED vars
  BY <1>0, <1>14 DEF AskedSoFar, AurOver, InCycle, OfForeign, Lookup, RealTargets, Settled, InAur, Nodes,
     Answered, NodesOf, vars, control, lists, history
<1>. QED
  BY <1>0, <1>5, <1>6, <1>7, <1>8, <1>9, <1>10, <1>11, <1>12, <1>13, <1>14 DEF LookupNext

LEMMA AskedOfForeign ==
  ASSUME Inv, BranchInv, AskedInv, [Next]_vars, OfForeign', ~stale_read
  PROVE  AskedSoFar'
<1>0. BranchActions /\ AskedSoFar /\ phase' \in {"foreign", "upgrades"} /\ phase' # "cycle"
  BY OnlyBranchActions DEF OfForeign, BranchInv, AskedInv
<1>1. CASE AurForeign \/ AurUpgrades
  <2>1. pc' = "aur_info_init"
    BY <1>1 DEF AurForeign, AurUpgrades, Goto
  <2>. QED BY <1>0, <2>1 DEF AskedSoFar, AurOver, InCycle
<1>2. CASE UNCHANGED vars
  BY <1>0, <1>2 DEF AskedSoFar, AurOver, InCycle, OfForeign, Lookup, RealTargets, Settled, InAur, Nodes,
     Answered, NodesOf, vars, control, lists, history
<1>3. CASE ~AurForeign /\ ~AurUpgrades /\ ~UNCHANGED vars
  <2>1. Grows
    BY <1>3, NextGrows
  <2>2. phase' = phase /\ OfForeign
    BY <1>0, <1>3 DEF BranchActions, AurInfoClose, ForeignLocal, ShowResults, CurlInit, AurInfoFetch,
       OfForeign
  <2>3. ASSUME NEW ok \in BOOLEAN, CurlInit(ok) PROVE AskedSoFar'
    <3>1. pc = "aur_info_init"
      BY <2>2, <2>3 DEF CurlInit, BranchInv, UpgradesInv, ForeignInv, OfForeign
    <3>2. /\ pc' = "aur_info" => /\ unsent' \subseteq RealTargets'
                                /\ \A n \in Nodes' \ unsent' : Settled(n)'
          /\ pc' # "aur_info" => \A n \in Nodes' : Settled(n)'
      BY <2>1, <2>3, <3>1, CurlInitAsks
    <3>. QED BY <3>2 DEF AskedSoFar, AurOver
  <2>4. ASSUME NEW ok \in BOOLEAN, AurInfoFetch(ok) PROVE AskedSoFar'
    <3>1. pc = "aur_info" /\ pc' = "aur_info"
      BY <2>4 DEF AurInfoFetch
    <3>2. unsent \subseteq RealTargets /\ \A n \in Nodes \ unsent : Settled(n)
      BY <1>0, <2>2, <3>1 DEF AskedSoFar
    <3>. QED BY <2>1, <2>4, <3>1, <3>2, FetchAsks DEF AskedSoFar, AurOver
  <2>5. CASE AurInfoClose
    <3>1. pc = "aur_info" /\ unsent = {} /\ pc' # "aur_info"
      BY <2>5 DEF AurInfoClose, AurReturn, Goto
    <3>2. \A n \in Nodes : Settled(n)
      BY <1>0, <2>2, <3>1 DEF AskedSoFar
    <3>3. \A n \in Nodes' : Settled(n)'
      BY <2>1, <3>2, SettledStays DEF Grows, Nodes
    <3>. QED BY <3>1, <3>3 DEF AskedSoFar
  <2>6. CASE ForeignLocal \/ ShowResults
    <3>1. pc \in {"foreign_local", "show"} /\ pc' # "aur_info"
      BY <2>6 DEF ForeignLocal, ShowResults, Goto
    <3>2. AurOver
      BY <2>2, <3>1 DEF AurOver
    <3>. QED BY <1>0, <2>1, <3>1, <3>2, AskedStays
  <2>. QED BY <1>0, <1>3, <2>3, <2>4, <2>5, <2>6 DEF BranchActions
<1>. QED BY <1>1, <1>2, <1>3

LEMMA NextAsked == Inv /\ SettingInv /\ BranchInv /\ AskedInv /\ [Next]_vars => AskedInv'
<1>. SUFFICES ASSUME Inv, SettingInv, BranchInv, AskedInv, [Next]_vars PROVE AskedInv'
  OBVIOUS
<1>1. (~config'.just_one => live' = Nodes') /\ (~stale_read' => ~stale_read)
  BY NextLive
<1>2. ASSUME ~stale_read' PROVE AskedSoFar'
  <2>1. CASE InCycle'
    BY <1>1, <1>2, <2>1, AskedInCycle
  <2>2. CASE OfForeign'
    BY <1>1, <1>2, <2>2, AskedOfForeign
  <2>3. CASE ~InCycle' /\ ~OfForeign'
    BY <2>3 DEF AskedSoFar, AurOver
  <2>. QED BY <2>1, <2>2, <2>3
<1>. QED BY <1>1, <1>2 DEF AskedInv

LEMMA AskedInductive == Spec => [](Inv /\ SettingInv /\ FilesInv /\ BranchInv /\ AskedInv)
<1>1. Init => AskedInv
  BY DEF Init, AskedInv, AskedSoFar, AurOver, InCycle, OfForeign, Nodes
<1>2. Inv /\ BranchInv /\ [Next]_vars => BranchInv'
  BY NextUpgrades, NextForeign, NextNothingStale DEF BranchInv
<1>. QED BY <1>1, <1>2, InitInv, NextInv, InitSetting, NextSetting, InitFiles, NextFiles, InitBranch,
            NextAsked, PTL DEF Spec

LEMMA AurAsked == Spec => []AllAskedInAur
<1>1. ASSUME Inv, SettingInv, FilesInv, BranchInv, AskedInv, pc = "exit", AurLookup, ~stale_read
      PROVE  \A n \in Nodes : Settled(n)
  <2>1. CASE phase = "cycle"
    <3>1. Lookup /\ LookupSetting /\ InCycle
      BY <1>1, <2>1 DEF AurLookup, FilesInv, Lookup, SettingInv, InCycle
    <3>2. rank > DbOrder(line.config) /\ rank \in Nat
      BY <1>1, <2>1, <3>1 DEF LookupSetting, Inv, TypeOK
    <3>3. line.config.aur \in Nat /\ DbOrder(line.config) \in Nat /\ line.config.aur <= DbOrder(line.config)
      BY <1>1, RanksOfDbs, RanksOfSources
    <3>4. rank > line.config.aur
      BY <3>2, <3>3
    <3>5. AurOver
      BY <1>1, <3>1, <3>4 DEF AurOver
    <3>. QED BY <1>1, <3>5 DEF AskedInv, AskedSoFar
  <2>2. CASE OfForeign
    <3>1. AurOver
      BY <1>1, <2>2 DEF AurOver
    <3>. QED BY <1>1, <3>1 DEF AskedInv, AskedSoFar
  <2>. QED BY <1>1, <2>1, <2>2 DEF AurLookup, OfForeign
<1>2. Inv /\ SettingInv /\ FilesInv /\ BranchInv /\ AskedInv => AllAskedInAur
  BY <1>1 DEF AllAskedInAur, Settled, Answered
<1>. QED BY <1>2, AskedInductive, PTL

\* When main() ends, no target is left that one of the databases it was to search
\* has, or the AUR, however many targets there are for however many requests, of
\* whatever size; unless a request failed or a freed string was read.
THEOREM NoneOverlooked == Spec => []NothingOverlooked
BY DbsAsked, AurAsked, PTL DEF NothingOverlooked
=============================================================================
