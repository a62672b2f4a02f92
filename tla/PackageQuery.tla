---------------------------- MODULE PackageQuery ----------------------------
(***************************************************************************)
(* The second half of main(): dispatch over the sources that were asked    *)
(* for, in their order, and the searches it calls.                         *)
(*                                                                         *)
(* The targets are a linked list of strings that the searches share and,   *)
(* under --just-one, shorten: a target that has been answered is removed   *)
(* and its string freed.  A target is identified by its node, its index in *)
(* list; live holds the nodes still linked.  target_arg_t is the pair      *)
(* args, items: the strings to remove and the packages already printed.    *)
(***************************************************************************)
EXTENDS Alpm

CONSTANTS
  CommandLines,  \* the [config, targets] with which the dispatch may start
  AurMaxArg      \* AUR_MAX_ARG: the names that fit in one request

DbOrder(c) == Cardinality({s \in Source : c[s] # 0})

ASSUME CommandLinesAssumption ==
  \A l \in CommandLines :
    /\ l.config \in ConfigType /\ l.targets \in Seq(Target)
    /\ WellFormed(l.config, DbOrder(l.config), l.config.op \in CycleOps, l.targets)
    \* words, repositories and groups are plain names
    /\ l.config.op \in CycleOps =>
         \A i \in 1..Len(l.targets) : l.targets[i].db = "" /\ l.targets[i].mod = "ANY"
ASSUME AurMaxArgAssumption == AurMaxArg \in Nat \ {0}

VARIABLES
  line,        \* the command line, never changed
  config,      \* the global aq_config
  pc,          \* what main() does next
  phase,       \* which branch of main() is running
  rank,        \* the loop variable i of main()
  dbs,         \* databases of this rank still to be dealt with
  list, live,  \* the list of targets: its nodes, and those still linked
  args, items, \* the target_arg_t of the search that is running
  cursor,      \* search_pkg_by_type: package and dependency to look at next
  term,        \* aur_request_search: the node to ask for next, not linked if none
  unsent,      \* aur_request_info: nodes whose name was not yet asked for
  found,       \* ret # 0
  exitcode,
  \* history
  shown,       \* how often each node's target was printed
  answers,     \* which package answered which node, printed or not
  listed,      \* packages given to print_or_add_result or printed without a target
  unreached,   \* nodes that the AUR was to be asked for by a request that failed
  stale_read   \* a freed target string has been read

control == <<line, config, pc, phase, rank, dbs, found, exitcode>>
lists   == <<list, live, args, items, cursor, term, unsent>>
history == <<shown, answers, listed, unreached, stale_read>>
vars    == <<control, lists, history>>

Nodes == 1..Len(list)
CycleDb == line.config.op \in CycleOps
GivenTarget == line.targets # <<>>
Words == {list[n].name : n \in live}

Init ==
  /\ line \in CommandLines
  /\ config = line.config
  /\ pc = "init" /\ phase = "none" /\ rank = 0 /\ dbs = <<>>
  /\ list = line.targets /\ live = 1..Len(line.targets)
  /\ args = {} /\ items = {} /\ cursor = <<1, 1>> /\ term = 1 /\ unsent = {}
  /\ found = FALSE /\ exitcode = 0
  /\ shown = [n \in 1..Len(line.targets) |-> 0]
  /\ answers = {} /\ listed = {} /\ unreached = {} /\ stale_read = FALSE

-----------------------------------------------------------------------------
(***************************************************************************)
(* target_arg_add, target_arg_clear, target_arg_close.                     *)
(***************************************************************************)

\* Mutant: a package is noted before it is looked for.
PrintedNever(hits) ==
  IF config.just_one THEN {h \in hits : \A g \in hits : g[2] # h[2]} ELSE hits

\* Under --just-one the string of each hit is noted, and of the nodes hit by
\* one package only the first is printed, once in the whole call.
Printed(hits) ==
  IF config.just_one
  THEN {h \in hits : /\ h[2] \notin items
                     /\ \A g \in hits : g[2] = h[2] => h[1] <= g[1]}
  ELSE hits

NodesOf(hits) == {h[1] : h \in hits}

\* Mutant: the last search decides.
AnswerLast(hits) ==
  /\ shown' = [n \in Nodes |->
                 IF n \in NodesOf(Printed(hits)) THEN shown[n] + 1 ELSE shown[n]]
  /\ answers' = answers \cup hits
  /\ found' = (hits # {})
  /\ UNCHANGED listed

\* The effect of a set of hits <<node, package>>, one for each node, on what is
\* shown and remembered.
Answer(hits) ==
  /\ shown' = [n \in Nodes |->
                 IF n \in NodesOf(Printed(hits)) THEN shown[n] + 1 ELSE shown[n]]
  /\ answers' = answers \cup hits
  /\ found' = (found \/ hits # {})
  /\ UNCHANGED listed

\* Mutant: nothing is removed.
ClearNothing(dangling, noted) == UNCHANGED <<live, stale_read>>

\* target_arg_clear removes the strings in args from the list.  Reading one that
\* was freed by an earlier call may find anything there, also the text of
\* another target, which is then removed as well.
Clear(dangling, noted) ==
  IF config.just_one /\ live # {}
  THEN /\ \E lost \in SUBSET (live \ noted) :
            /\ Cardinality(lost) <= Cardinality(dangling)
            /\ live' = live \ (noted \cup lost)
       /\ stale_read' = (stale_read \/ dangling # {})
  ELSE UNCHANGED <<live, stale_read>>

-----------------------------------------------------------------------------
(***************************************************************************)
(* main(): which branch.                                                   *)
(***************************************************************************)
Goto(label) == pc' = label

InitDbSync(ok) ==
  /\ pc = "init"
  /\ IF ok THEN Goto("dispatch") /\ UNCHANGED exitcode ELSE Goto("exit") /\ exitcode' = 1
  /\ UNCHANGED <<line, config, phase, rank, dbs, found, lists, history>>

\* -p: each target is the name of a package file, which can be read or not.
QueryFiles(readable) ==
  /\ pc = "dispatch" /\ config.is_file
  /\ shown' = [n \in Nodes |-> IF n \in readable THEN 1 ELSE 0]
  /\ found' = (readable # {})
  /\ exitcode' = IF readable # {} THEN 0 ELSE 1
  /\ phase' = "files" /\ Goto("exit")
  /\ UNCHANGED <<line, config, rank, dbs, lists, answers, listed, unreached, stale_read>>

EnterCycle ==
  /\ pc = "dispatch" /\ ~config.is_file
  /\ CycleDb \/ live # {}
  /\ phase' = "cycle" /\ rank' = 1 /\ Goto("cycle")
  /\ UNCHANGED <<line, config, dbs, found, exitcode, lists, history>>

NoCycle == pc = "dispatch" /\ ~config.is_file /\ ~CycleDb /\ live = {}

\* alpm_search_local (filter, NULL, NULL)
LocalPkgs(flags) == {p \in PkgsOf("local") : Filter(p, flags)}

SearchLocal ==
  /\ NoCycle /\ config.aur = 0 /\ config.db_local # 0
  /\ listed' = LocalPkgs(config.filter)
  /\ found' = (listed' # {})
  /\ phase' = "local" /\ Goto("show")
  /\ UNCHANGED <<line, config, rank, dbs, exitcode, lists, shown, answers, unreached, stale_read>>

\* Mutant: ">=" for ">" in the format.
LocalTargetsSame(flags, versioned) ==
  LET kept == SelectSeq(Cache["local"], LAMBDA p : Filter(p, flags))
  IN [n \in 1..Len(kept) |->
        [db |-> "", name |-> kept[n].name, mod |-> IF versioned THEN "GE" ELSE "ANY",
         ver |-> IF versioned THEN kept[n].ver ELSE 0]]

\* alpm_search_local (filter, format, &targets): one target per package, "%n" or
\* "%n>%v" by the format.
LocalTargets(flags, versioned) ==
  LET kept == {i \in 1..Len(Cache["local"]) : Filter(Cache["local"][i], flags)}
      place(i) == Cardinality({k \in kept : k <= i})
      pkg(n) == Cache["local"][CHOOSE i \in kept : place(i) = n]
  IN [n \in 1..Cardinality(kept) |->
        IF versioned
        THEN [db |-> "", name |-> pkg(n).name, mod |-> "GT", ver |-> pkg(n).ver]
        ELSE [db |-> "", name |-> pkg(n).name, mod |-> "ANY", ver |-> 0]]

SetTargets(l) ==
  /\ list' = l /\ live' = 1..Len(l)
  /\ shown' = [n \in 1..Len(l) |-> 0]

\* Mutant: just_one is not set, what was found in the AUR stays in the list.
AurForeignAll ==
  /\ NoCycle /\ config.aur # 0 /\ ~GivenTarget /\ "F_FOREIGN" \in config.filter
  /\ SetTargets(LocalTargets(config.filter, FALSE))
  /\ phase' = "foreign" /\ Goto("aur_info_init")
  /\ UNCHANGED <<line, config, rank, dbs, found, exitcode, args, items, cursor, term, unsent,
                 answers, listed, unreached, stale_read>>

\* -Am: the foreign packages are looked up in the AUR by name
AurForeign ==
  /\ NoCycle /\ config.aur # 0 /\ ~GivenTarget /\ "F_FOREIGN" \in config.filter
  /\ config' = [config EXCEPT !.just_one = TRUE]
  /\ SetTargets(LocalTargets(config.filter, FALSE))
  /\ phase' = "foreign" /\ Goto("aur_info_init")
  /\ UNCHANGED <<line, rank, dbs, found, exitcode, args, items, cursor, term, unsent,
                 answers, listed, unreached, stale_read>>

\* -Au: "%n>%v", the foreign packages are looked up in a newer version; -AQu
\* first lists the updates of the sync databases
AurUpgrades ==
  /\ NoCycle /\ config.aur # 0 /\ ~GivenTarget
  /\ "F_FOREIGN" \notin config.filter /\ "F_UPGRADES" \in config.filter
  /\ listed' = IF config.db_local # 0 THEN LocalPkgs(config.filter) ELSE {}
  /\ found' = (listed' # {})
  /\ SetTargets(LocalTargets((config.filter \ {"F_UPGRADES"}) \cup {"F_FOREIGN"}, TRUE))
  /\ phase' = "upgrades" /\ Goto("aur_info_init")
  /\ UNCHANGED <<line, config, rank, dbs, exitcode, args, items, cursor, term, unsent,
                 answers, unreached, stale_read>>

NothingToDo ==
  /\ NoCycle
  /\ config.aur = 0 => config.db_local = 0
  /\ config.aur # 0 => ~GivenTarget /\ {"F_FOREIGN", "F_UPGRADES"} \cap config.filter = {}
  /\ Goto("show")
  /\ UNCHANGED <<line, config, phase, rank, dbs, found, exitcode, lists, history>>

-----------------------------------------------------------------------------
(***************************************************************************)
(* main(): the loop over the ranks.                                        *)
(***************************************************************************)
RankOf(source) == pc = "cycle" /\ rank <= DbOrder(config) /\ config[source] = rank

\* Mutant: from the last database to the first.
WalkDbsBack ==
  IF config.db_sync = rank THEN [i \in 1..Len(SyncDbs) |-> SyncDbs[Len(SyncDbs) + 1 - i]]
  ELSE <<"local">>

WalkDbs == IF config.db_sync = rank THEN SyncDbs ELSE <<"local">>

StartWalk ==
  /\ RankOf("db_sync") \/ RankOf("db_local")
  /\ dbs' = WalkDbs /\ Goto("walk")
  /\ UNCHANGED <<line, config, phase, rank, found, exitcode, lists, history>>

StartAurInfo ==
  /\ RankOf("aur") /\ config.op \in {"OP_INFO", "OP_INFO_P"}
  /\ Goto("aur_info_init")
  /\ UNCHANGED <<line, config, phase, rank, dbs, found, exitcode, lists, history>>

StartAurSearch ==
  /\ RankOf("aur") /\ config.op = "OP_SEARCH"
  /\ Goto("aur_search_init")
  /\ UNCHANGED <<line, config, phase, rank, dbs, found, exitcode, lists, history>>

\* The AUR has neither groups nor a listing nor the --q queries.
SkipAur ==
  /\ RankOf("aur") /\ config.op \notin {"OP_INFO", "OP_INFO_P", "OP_SEARCH"}
  /\ rank' = rank + 1
  /\ UNCHANGED <<line, config, pc, phase, dbs, found, exitcode, lists, history>>

EndCycle ==
  /\ pc = "cycle" /\ rank > DbOrder(config)
  /\ Goto("show")
  /\ UNCHANGED <<line, config, phase, rank, dbs, found, exitcode, lists, history>>

\* -ii found nothing so far: look for packages that provide the targets.
Fallback ==
  /\ pc = "walk" /\ dbs = <<>> /\ config.op = "OP_INFO_P" /\ ~found
  /\ config' = [config EXCEPT !.op = "OP_QUERY", !.query = "OP_Q_PROVIDES"]
  /\ dbs' = WalkDbs
  /\ UNCHANGED <<line, pc, phase, rank, found, exitcode, lists, history>>

\* Mutant: the operation is not put back.
EndWalkAsIs ==
  /\ pc = "walk" /\ dbs = <<>> /\ ~(config.op = "OP_INFO_P" /\ ~found)
  /\ rank' = rank + 1 /\ Goto("cycle")
  /\ UNCHANGED <<line, config, phase, dbs, found, exitcode, lists, history>>

EndWalk ==
  /\ pc = "walk" /\ dbs = <<>> /\ ~(config.op = "OP_INFO_P" /\ ~found)
  /\ config' = IF line.config.op = "OP_INFO_P"
               THEN [config EXCEPT !.op = "OP_INFO_P"] ELSE config
  /\ rank' = rank + 1 /\ Goto("cycle")
  /\ UNCHANGED <<line, phase, dbs, found, exitcode, lists, history>>

-----------------------------------------------------------------------------
(***************************************************************************)
(* deal_db(): one database, one operation.                                 *)
(***************************************************************************)
Deal(ops) == pc = "walk" /\ dbs # <<>> /\ config.op \in ops
db == Head(dbs)

\* Mutant: the last database decides.
ListLast(pkgs) ==
  /\ listed' = listed \cup pkgs
  /\ found' = (pkgs # {})
  /\ dbs' = Tail(dbs)
  /\ UNCHANGED <<line, config, pc, phase, rank, exitcode, lists, shown, answers, unreached, stale_read>>

List(pkgs) ==
  /\ listed' = listed \cup pkgs
  /\ found' = (found \/ pkgs # {})
  /\ dbs' = Tail(dbs)
  /\ UNCHANGED <<line, config, pc, phase, rank, exitcode, lists, shown, answers, unreached, stale_read>>

ListDb ==
  /\ Deal({"OP_LIST_REPO", "OP_LIST_REPO_S"})
  /\ List(IF live = {} \/ db \in Words THEN PkgsOf(db) ELSE {})

SearchPkg ==
  /\ Deal({"OP_SEARCH"})
  /\ List({p \in DbSearch(db, Words) :
             Filter(p, config.filter) /\ (config.name_only => NameContainsTargets(p, Words))})

\* With a target, the packages of the groups named; without one the groups
\* themselves, for which listed holds their packages.
ListGrp ==
  /\ Deal({"OP_LIST_GROUP"})
  /\ List({p \in PkgsOf(db) : p.groups \cap (IF live = {} THEN p.groups ELSE Words) # {}})

\* search_pkg_by_name: all targets against one database.
ByNameHits(d) ==
  UNION {{<<n, p>> : p \in {q \in DbGetPkg(d, list[n].name) :
                              /\ TargetNamesDb(list[n], d)
                              /\ Filter(q, config.filter)
                              /\ TargetCheckVersion(list[n], q.ver)}} : n \in live}

\* Mutant: only what was printed is removed.
ByNamePrinted(d) ==
  LET hits == ByNameHits(d) IN Answer(hits) /\ Clear({}, NodesOf(Printed(hits)))

ByName(d) ==
  LET hits == ByNameHits(d) IN Answer(hits) /\ Clear({}, NodesOf(hits))

SearchPkgByName ==
  /\ Deal({"OP_INFO", "OP_INFO_P"})
  /\ ByName(db)
  /\ dbs' = Tail(dbs)
  /\ UNCHANGED <<line, config, pc, phase, rank, exitcode, list, args, items, cursor, term, unsent,
                 unreached>>

(***************************************************************************)
(* search_pkg_by_type: for each package, for each of its dependencies (of  *)
(* the kind asked for), for each target.  The list is shortened after each *)
(* dependency, but args keeps the strings that were freed.                 *)
(***************************************************************************)
StartByType ==
  /\ Deal({"OP_QUERY"})
  /\ cursor' = <<1, 1>> /\ args' = {} /\ items' = {} /\ Goto("by_type")
  /\ UNCHANGED <<line, config, phase, rank, dbs, found, exitcode, list, live, term, unsent, history>>

Pkg == Cache[db][cursor[1]]
Deps == Pkg.rel[config.query]
\* Mutant: the last package is not looked at.
MorePkgsButLast == cursor[1] < Len(Cache[db]) /\ live # {}

MorePkgs == cursor[1] <= Len(Cache[db]) /\ live # {}

ByTypeHits ==
  {<<n, Pkg>> : n \in {m \in live : /\ TargetNamesDb(list[m], db)
                                    /\ TargetCompatible(Deps[cursor[2]], list[m])
                                    /\ Filter(Pkg, config.filter)}}

ByTypeDep ==
  /\ pc = "by_type" /\ MorePkgs /\ cursor[2] <= Len(Deps)
  /\ Answer(ByTypeHits)
  /\ IF config.just_one
     THEN /\ args' = args \cup NodesOf(ByTypeHits)
          /\ items' = items \cup {h[2] : h \in ByTypeHits}
     ELSE UNCHANGED <<args, items>>
  /\ Clear(args, NodesOf(ByTypeHits))
  /\ cursor' = <<cursor[1], cursor[2] + 1>>
  /\ UNCHANGED <<line, config, pc, phase, rank, dbs, exitcode, list, term, unsent, unreached>>

ByTypeNextPkg ==
  /\ pc = "by_type" /\ MorePkgs /\ cursor[2] > Len(Deps)
  /\ cursor' = <<cursor[1] + 1, 1>>
  /\ UNCHANGED <<control, list, live, args, items, term, unsent, history>>

ByTypeClose ==
  /\ pc = "by_type" /\ ~MorePkgs
  /\ Clear(args, {})
  /\ args' = {} /\ items' = {}
  /\ dbs' = Tail(dbs) /\ Goto("walk")
  /\ UNCHANGED <<line, config, phase, rank, found, exitcode, list, cursor, term, unsent,
                 shown, answers, listed, unreached>>

-----------------------------------------------------------------------------
(***************************************************************************)
(* aur_request()                                                           *)
(***************************************************************************)
\* Where aur_request returns to.
AurReturn ==
  /\ rank' = IF phase = "cycle" THEN rank + 1 ELSE rank
  /\ Goto(IF phase = "cycle" THEN "cycle"
          ELSE IF phase = "foreign" /\ config.db_local # 0 THEN "foreign_local"
          ELSE "show")

\* aur_request_info: the targets that may be in the AUR, AurMaxArg at a time.
RealTargets == {n \in live : list[n].db \in {"", "aur"}}

CurlInit(ok) ==
  /\ pc \in {"aur_info_init", "aur_search_init"}
  /\ IF ok
     THEN /\ Goto(IF pc = "aur_info_init" THEN "aur_info" ELSE "aur_search")
          /\ unsent' = IF pc = "aur_info_init" THEN RealTargets ELSE {}
          /\ term' = 1
          /\ UNCHANGED <<rank, unreached>>
     ELSE /\ AurReturn
          /\ unreached' = unreached \cup RealTargets
          /\ UNCHANGED <<unsent, term>>
  /\ UNCHANGED <<line, config, phase, dbs, found, exitcode, list, live, args, items,
                 cursor, shown, answers, listed, stale_read>>

Batch == {n \in unsent : Cardinality({m \in unsent : m < n}) < AurMaxArg}

\* Each package of the reply is compared with the first target of its name.
AurHits(reply) ==
  UNION {{<<n, p>> : p \in {q \in reply :
                              /\ q.name = list[n].name
                              /\ \A m \in RealTargets : list[m].name = q.name => n <= m
                              /\ TargetCheckVersion(list[n], q.ver)
                              /\ config.pkgbase => q.name = q.base}} : n \in RealTargets}

\* Mutant: the name at the boundary of two requests is in none.
AurInfoFetchSkips(ok) ==
  /\ pc = "aur_info" /\ unsent # {}
  /\ LET hits == AurHits(IF ok THEN InfoReply({list[n].name : n \in Batch}) ELSE {})
     IN /\ Answer(hits)
        /\ IF config.just_one
           THEN /\ args' = args \cup NodesOf(hits)
                /\ items' = items \cup {h[2] : h \in hits}
           ELSE UNCHANGED <<args, items>>
  /\ unreached' = IF ok THEN unreached ELSE unreached \cup Batch
  /\ unsent' = {n \in unsent \ Batch : \E m \in unsent \ Batch : m < n}
  /\ UNCHANGED <<line, config, pc, phase, rank, dbs, exitcode, list, live, cursor, term, stale_read>>

\* One request: curl_fetch and aur_json_parse return all of it or nothing.
AurInfoFetch(ok) ==
  /\ pc = "aur_info" /\ unsent # {}
  /\ LET hits == AurHits(IF ok THEN InfoReply({list[n].name : n \in Batch}) ELSE {})
     IN /\ Answer(hits)
        /\ IF config.just_one
           THEN /\ args' = args \cup NodesOf(hits)
                /\ items' = items \cup {h[2] : h \in hits}
           ELSE UNCHANGED <<args, items>>
  /\ unreached' = IF ok THEN unreached ELSE unreached \cup Batch
  /\ unsent' = unsent \ Batch
  /\ UNCHANGED <<line, config, pc, phase, rank, dbs, exitcode, list, live, cursor, term, stale_read>>

AurInfoClose ==
  /\ pc = "aur_info" /\ unsent = {}
  /\ Clear({}, args)
  /\ args' = {} /\ items' = {}
  /\ AurReturn
  /\ UNCHANGED <<line, config, phase, dbs, found, exitcode, list, cursor, term, unsent,
                 shown, answers, listed, unreached>>

\* aur_request_search: one request.  A transport error ends the search; a reply
\* that is empty, as it is when the AUR answers with an error, asks for another.
AurSearchFetch(outcome) ==
  /\ pc = "aur_search"
  /\ term \in live \/ config.aur_maintainer
  /\ LET word  == IF term \in live THEN list[term].name ELSE ""
         reply == IF outcome = "ok" THEN SearchReply(config, word) ELSE {}
         match == {p \in reply : config.aur_maintainer \/ Words \subseteq p.words}
     IN /\ listed' = listed \cup match
        /\ found' = (found \/ match # {})
        /\ IF outcome = "curl_error" \/ reply # {}
           THEN AurReturn
           ELSE Goto("aur_search_next") /\ UNCHANGED rank
  /\ UNCHANGED <<line, config, phase, dbs, exitcode, lists, shown, answers, unreached, stale_read>>

\* Mutant: the next one is about the first target again.
AurSearchAgain ==
  /\ pc = "aur_search_next"
  /\ term' = 1 /\ Goto("aur_search")
  /\ UNCHANGED <<line, config, phase, rank, dbs, found, exitcode,
                 list, live, args, items, cursor, unsent, history>>

\* The next one is about what follows the first target, every time.
AurSearchNext ==
  /\ pc = "aur_search_next"
  /\ term' = 2 /\ Goto("aur_search")
  /\ UNCHANGED <<line, config, phase, rank, dbs, found, exitcode,
                 list, live, args, items, cursor, unsent, history>>

AurSearchNoTarget ==
  /\ pc = "aur_search"
  /\ term \notin live /\ ~config.aur_maintainer
  /\ AurReturn
  /\ UNCHANGED <<line, config, phase, dbs, found, exitcode, lists, history>>

-----------------------------------------------------------------------------
\* -AQm: the foreign packages that are not in the AUR are shown all the same.
ForeignLocal ==
  /\ pc = "foreign_local"
  /\ ByName("local")
  /\ Goto("show")
  /\ UNCHANGED <<line, config, phase, rank, dbs, exitcode, list, args, items, cursor, term, unsent,
                 unreached>>

\* Mutant: the program exits with the number of answers.
ShowResultsCount ==
  /\ pc = "show"
  /\ Goto("exit") /\ exitcode' = Cardinality(answers)
  /\ UNCHANGED <<line, config, phase, rank, dbs, found, lists, history>>

ShowResults ==
  /\ pc = "show"
  /\ Goto("exit") /\ exitcode' = IF found THEN 0 ELSE 1
  /\ UNCHANGED <<line, config, phase, rank, dbs, found, lists, history>>

Next ==
  \/ \E ok \in BOOLEAN : InitDbSync(ok)
  \/ \E readable \in SUBSET Nodes : QueryFiles(readable)
  \/ EnterCycle \/ SearchLocal \/ AurForeign \/ AurUpgrades \/ NothingToDo
  \/ StartWalk \/ StartAurInfo \/ StartAurSearch \/ SkipAur \/ EndCycle
  \/ Fallback \/ EndWalk
  \/ ListDb \/ SearchPkg \/ ListGrp \/ SearchPkgByName \/ StartByType
  \/ ByTypeDep \/ ByTypeNextPkg \/ ByTypeClose
  \/ \E ok \in BOOLEAN : CurlInit(ok)
  \/ \E ok \in BOOLEAN : AurInfoFetch(ok)
  \/ AurInfoClose
  \/ \E outcome \in {"ok", "aur_error", "curl_error"} : AurSearchFetch(outcome)
  \/ AurSearchNext \/ AurSearchNoTarget
  \/ ForeignLocal \/ ShowResults

Spec == Init /\ [][Next]_vars

\* The program runs until it exits; nothing else is assumed of the network than
\* that each request ends.
FairSpec == Spec /\ WF_vars(Next)

-----------------------------------------------------------------------------
(***************************************************************************)
(* Properties.                                                             *)
(***************************************************************************)
Labels == {"init", "dispatch", "cycle", "walk", "by_type", "aur_info_init", "aur_info",
           "aur_search_init", "aur_search", "aur_search_next", "foreign_local", "show", "exit"}

TypeOK ==
  /\ config \in ConfigType
  /\ pc \in Labels
  /\ phase \in {"none", "files", "cycle", "local", "foreign", "upgrades"}
  /\ rank \in Nat
  /\ dbs \in Seq(DbNames)
  /\ live \subseteq Nodes /\ args \subseteq Nodes /\ unsent \subseteq Nodes
  /\ shown \in [Nodes -> Nat]
  /\ NodesOf(answers) \subseteq Nodes
  /\ found \in BOOLEAN /\ exitcode \in 0..1 /\ stale_read \in BOOLEAN

\* --just-one prints a target at most once, over all sources and databases, over
\* the -ii fallback, over the batches of an AUR request and for any reply.
PrintedAtMostOnce ==
  config.just_one => \A n \in Nodes : shown[n] <= 1

\* Between two searches, --just-one has taken out of the list the targets that
\* were answered and no others.
RemovedIffAnswered ==
  config.just_one /\ pc # "aur_info" /\ ~stale_read => live = Nodes \ NodesOf(answers)

\* The lookups that --just-one is for; other command lines promise nothing here.
OneLookup ==
  line.config.just_one /\ ~line.config.is_file
    /\ line.config.op \in {"OP_INFO", "OP_INFO_P", "OP_QUERY"}

Promise == INSTANCE JustOne WITH
  asked  <- IF OneLookup THEN Nodes ELSE {},
  answer <- IF OneLookup THEN answers ELSE {},
  screen <- IF OneLookup THEN {a \in answers : shown[a[1]] > 0} ELSE {},
  status <- IF ~OneLookup \/ pc # "exit" THEN "running"
            ELSE IF exitcode = 0 THEN "found" ELSE "nothing"

\* The searches keep the promise of --just-one between them: over sources,
\* databases, the -ii fallback, the batches of an AUR request and its failures,
\* and whatever freed strings are read, every answer is a first one, and an
\* answer that is not printed is on the screen for another target.
JustOneKept == Promise!Spec

\* The databases in the order in which main() deals with them.
Searched(d) == IF d = "local" THEN line.config.db_local # 0 ELSE line.config.db_sync # 0
RankOfDb(d) == line.config[IF d = "aur" THEN "aur"
                           ELSE IF d = "local" THEN "db_local" ELSE "db_sync"]
Before(d, e) ==
  \/ RankOfDb(d) < RankOfDb(e)
  \/ RankOfDb(d) = RankOfDb(e) /\ \E i, j \in 1..Len(SyncDbs) :
       i < j /\ SyncDbs[i] = d /\ SyncDbs[j] = e

\* Database d has a package that answers node n by its name.
Names(d, n) ==
  /\ TargetNamesDb(list[n], d)
  /\ \E p \in DbGetPkg(d, list[n].name) :
       Filter(p, config.filter) /\ TargetCheckVersion(list[n], p.ver)

\* Database d has a package with a dependency of kind query on node n.
Relates(d, n, query) ==
  /\ TargetNamesDb(list[n], d)
  /\ \E p \in PkgsOf(d) :
       /\ Filter(p, config.filter)
       /\ \E i \in 1..Len(p.rel[query]) : TargetCompatible(p.rel[query][i], list[n])

\* -1 -i: the answer comes from the first database that has one, in the order
\* of the options -A, -Q, -S and of the sync databases.
FirstDatabaseWins ==
  phase = "cycle" /\ config.just_one /\ line.config.op = "OP_INFO" =>
    \A a \in answers : \A d \in DbNames :
      Searched(d) /\ Before(d, a[2].db) => ~Names(d, a[1])

\* Every database searched has been asked for every target without an answer.
AllAskedInDbs ==
  pc = "exit" /\ phase = "cycle" /\ ~stale_read =>
    \A n \in Nodes \ NodesOf(answers) : \A d \in DbNames :
      Searched(d) =>
        /\ line.config.op \in {"OP_INFO", "OP_INFO_P"} => ~Names(d, n)
        /\ line.config.op = "OP_QUERY" => ~Relates(d, n, line.config.query)

\* The AUR has a package that answers node n, and no target before n has its name.
InAur(n) ==
  /\ list[n].db \in {"", "aur"}
  /\ \A m \in 1..(n - 1) : list[m].db \in {"", "aur"} => list[m].name # list[n].name
  /\ \E p \in InfoReply({list[n].name}) :
       TargetCheckVersion(list[n], p.ver) /\ (config.pkgbase => p.name = p.base)

AurLookup ==
  \/ phase = "cycle" /\ line.config.aur # 0 /\ line.config.op \in {"OP_INFO", "OP_INFO_P"}
  \/ phase \in {"foreign", "upgrades"}

\* A lookup in the AUR loses no target between two of its requests.
AllAskedInAur ==
  pc = "exit" /\ AurLookup /\ ~stale_read =>
    \A n \in Nodes \ (NodesOf(answers) \cup unreached) : ~InAur(n)

\* When the program exits, no target is unanswered that a database it searched could
\* have answered, or the AUR in a request that did not fail, however many requests
\* there were, unless a stale read took the target out of the list.
NothingOverlooked == AllAskedInDbs /\ AllAskedInAur

\* The exit status tells whether anything was shown.
ExitStatusTruthful ==
  pc = "exit" => (exitcode = 0 <=> listed # {} \/ \E n \in Nodes : shown[n] > 0)

\* -AQm shows every foreign package exactly once, from the AUR or as installed.
ForeignShownOnce ==
  pc = "exit" /\ phase = "foreign" /\ config.db_local # 0 => \A n \in Nodes : shown[n] = 1

\* -Au shows only packages that are installed, foreign, and newer in the AUR.
UpgradesAreNewer ==
  phase = "upgrades" =>
    \A a \in answers : \E p \in PkgsOf("local") :
      p.name = a[2].name /\ GetSyncPkg(p) = {} /\ a[2].ver > p.ver

\* The program exits, but for an AUR search of several words or by maintainer,
\* which may ask the AUR for ever.
ExitsOrAsksForEver ==
  \/ <>(pc = "exit")
  \/ <>[](/\ pc \in {"aur_search", "aur_search_next"}
          /\ config.aur_maintainer \/ Cardinality(live) > 1)

\* aur.h: an AUR request "returns number of packages found", that is, it returns.
AurRequestReturns ==
  pc = "aur_search_init" ~> pc \in {"cycle", "show", "exit"}

\* The manual page: --just-one shows the "first answer for each target (-i)".
EachTargetAnswered ==
  pc = "exit" /\ phase = "cycle" /\ config.just_one
    /\ line.config.op \in {"OP_INFO", "OP_INFO_P"} =>
    \A n \in Nodes \ NodesOf(answers) : \A d \in DbNames : Searched(d) => ~Names(d, n)

\* The manual page: -ii is "to search a package that provides the target".
ProviderFound ==
  pc = "exit" /\ phase = "cycle" /\ line.config.op = "OP_INFO_P" =>
    \A n \in Nodes \ NodesOf(answers) : \A d \in DbNames :
      Searched(d) => ~Relates(d, n, "OP_Q_PROVIDES")
=============================================================================
