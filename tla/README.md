# A TLA+ model of package-query

package-query is a sequential C program: it parses a command line, asks the
local package database, the sync databases (through libalpm) and the AUR
(through curl and yajl), prints what it found and exits with 0 if that was
anything. Paths below are relative to `src/src/` unless they start with `doc/`.

What makes it hard is not concurrency (but for two signals) but shared mutable
state: one global configuration that is changed while it is used, one list of
targets that every search walks and, under `--just-one`, shortens and frees, a
configuration file whose reader keeps its state in static variables while it
calls itself, an AUR that may fail between two requests of one call, callbacks
that rebuild structure from a stream of tokens, one curl handle for callers
that want different ones, and a clean-up that a signal may start at any step.

## Inventory

| component | code | state | operations | modelled in |
|---|---|---|---|---|
| command line | `package-query.c` 189-480 | `config`, `need`, `given`, `db_order`, `cycle_db`, `targets` | one case per option, operands, default operation | `Options` |
| dispatch | `package-query.c` 160-187, 482-564 | rank `i`, `ret`, `config.op` during the `-ii` fallback | loop over ranks, `deal_db`, `-Q`, `-Am`, `-AQm`, `-Au`, `-p` | `PackageQuery` |
| libalpm searches | `alpm-query.c` 212-443 | cursor over packages and dependencies | `search_pkg_by_name`, `_by_type`, `search_pkg`, `list_grp`, `list_db`, `alpm_search_local`, `filter` | `PackageQuery`, `Alpm` |
| target bookkeeping | `util.c` 991-1050 | `target_arg_t`: `args`, `items` | `target_arg_add`, `_clear`, `_close` | `PackageQuery` |
| AUR requests | `aur.c` 621-771 | word asked for, names not yet sent | `aur_request_info` in batches, `aur_request_search` | `PackageQuery`, `Alpm` |
| AUR reply parser | `aur.c` 344-609 | `jsonpkg_t` | yajl callbacks, `aur_json_parse` | `AurJson` |
| results | `util.c` 66-309 | list of `results_t` | `print_or_add_result`, comparisons, `show_results` | `Results` |
| target parsing | `util.c` 311-393 | none | `target_parse`, `target_check_version`, `target_compatible` | `Strings`, `Alpm` |
| pacman.conf | `alpm-query.c` 36-210 | static `db`, `in_option`, `global_opt_parsed`; `config.handle` | `parse_configfile`, `init_alpm` | `ConfigFile` |
| curl handle | `util.c` 1082-1154 | `curl_config` | `curl_init`, `curl_fetch`, `curl_cleanup` | `Resources` |
| life cycle, signals | `package-query.c` 53-70 | the pointers that `cleanup` frees | `cleanup` as exit path and signal handler | `Resources` |
| colours | `color.c` | list of colours | `parse_var`, `color_init`, `color_cleanup` | `Strings`, `Resources` |
| strings and lists | `util.c` 395-690 | `string_t` | `string_ncat`, `strtrim`, `strreplace`, `concat_*`, `format_str` | `Strings` |
| output | `util.c` 699-990 | none | `print_package`, `pkg_to_str` | formats in `Strings`, what a line asks for in `Resources` |
| package data | `alpm-query.c` 445-736, `aur.c` 773-980 | one static string per function | `alpm_pkg_get_str`, `aur_get_str`, sizes | the strings in `Resources`, sizes and PKGBUILDs in `Strings` |
| build files, locale, manual | | | | no behaviour |

How they interact: `main` fills `config` and `targets`, then hands both to the
searches by reference. A search returns how many packages it found, prints (or
stores, with `--sort`) each of them, and gives the list of targets back,
shortened under `--just-one`. The AUR requests call yajl, which calls back into
the parser; their packages are freed when a request returns, so a stored result
is a copy. `show_results` runs last.

What must hold, by component:

* command line: the sources are ranked in the order asked for, the first
  operation wins, nothing that was ignored has an effect, and what is handed to
  the dispatch is consistent (`Config!WellFormed`);
* dispatch and searches: `--just-one` prints a target once, from the first
  source that has it, and removes exactly the targets that were answered; no
  target is overlooked; the exit status is right; `config.op` survives the
  fallback; the program ends;
* AUR requests: batches and failures do not lose, double or mix up targets, and
  no target falls between two requests;
* pacman.conf: what the lines mean read one after the other, whichever files
  they stand in: repositories and servers, and a handle made of the options
  that came before the first repository; files and results of `glob` are closed
  on every way out;
* life cycle and curl handle: of what `cleanup` is there to free nothing is freed
  twice or, without a signal, left, wherever the program ends; the curl handle
  is not used after it was freed;
* strings: what was written is what is read, and every buffer is large enough;
* reply parser: one package per object of the reply, all or nothing, fields
  under their own keys, sorted;
* results: what is found is printed, once, in order, from live memory.

`PROJECT.json` lists under "hazards" the places where each of these can fail.

## Modules

* `Config` - the fields of `aq_config` that decide what is searched, and
  `WellFormed`, the contract between the two halves of `main`. `Options`
  establishes it (a theorem), `PackageQuery` assumes it of its command lines
  (`CommandLinesAssumption`); so the two compose without being run together.
* `Options` - one action per option or family of options that do the same, one
  for the end of the options, one per operand, one for the end. `argv` and
  `operands` are history: they say what was typed. Options that only set paths,
  colours or layout are all "other". `OptLeave` is `-h`, `-v` and `?`.
* `Alpm` - the databases as constants, with what libalpm guarantees of them
  (`DatabasesAssumption`), and the tests of the program on a package and a
  target. A version is a number, a search word a member of a package's words.
* `PackageQuery` - the dispatch, the searches and the AUR requests as one state
  machine. `pc` is the place in `main`; each database dealt with is a step; the
  walk of `search_pkg_by_type` is a step per package and dependency; each
  request to the AUR is a step that may fail. A target is its node in the
  linked list, `live` the nodes still linked; `args` and `items` are
  `target_arg_t`. `search_pkg_by_name` is one step, as nothing it calls depends
  on the list before it returns. History: `shown`, `answers`, `listed`,
  `unreached` (the nodes that a request which failed was to ask for), `stale_read`.
* `JustOne` - the abstract promise of `--just-one`: targets, answers, what is on
  the screen, and how it ends. `PackageQuery` implements it (`Promise`,
  `JustOneKept`): a target of the program with its package is an answer, one
  that `shown` counts is on the screen, and the exit code is the outcome. A step
  of the program is a set of answers or a stutter; for a command line that is no
  such lookup the abstract state never changes.
* `ConfigFile` - `parse_configfile` line by line. A call of it is a record in
  `calls`, the static variables are one for all calls, and an `Include` is a
  call for each file that matches. A line is a section header, an assignment or
  something else, with or without a comment at its end (one that follows a
  blank makes a header no header). `files` and `globs` count what was opened and
  not yet closed, apart from the calls: each place where the code has an `fclose`
  or a `globfree` is an action with `Fclose` or `Globfree` in it, so that one that
  is missing shows (`FilesClosed`). `reg` tells `init_db_sync` from
  `get_db_sync`. `Text` is any set of texts; TLC has the strings. The
  properties look at `flat`, the lines in the order in which they were read,
  and never at the static variables.
* `Resources` - every pointer that `cleanup` frees is "null", "live" or
  "dangling" between its `free` and its assignment, where a signal can come.
  The searches are "search" and "request" with whatever letters a format (or a
  line without one) asks for; `curl_init` runs in steps for its three callers.
  The handle of curl has its own step after its `free` (`CurlReset`). An
  assignment to a pointer that was the only one to something live puts the
  resource in `lost`; `setarch` does so (`Architecture`, with `many_archs`). What
  a function allocates for itself alone (the list of `-L`, a URL, the package
  that a reply cut off in the middle leaves behind, `aur.c:586-593`) is no
  pointer of `cleanup` and not modelled.
* `Strings` - the functions on strings and lists, loop by loop: a `for` or
  `while` is a recursive function from the number of its rounds to its
  variables, and a round an operator of its own (`RowStep`, `FieldStep`,
  `FormatStep`). A character is a one-letter string; the characters there are
  (`Char`), `PathMax`, the letters, escapes and character classes are constants.
* `Texts` - writes any short text, character by character, and states what
  `Strings` must make of it, position by position: least cost over all
  alignments for the distances, parity of a run of signs for escapes and
  letters, each variable of a `Server` in the order in which they are replaced,
  and the entries of a PKGBUILD's list (any of `Entries`, up to `MaxEntries` of
  them) as the maintainer wrote them.
* `AurJson` - yajl (external: any well-formed sequence of tokens, cut off
  anywhere; arrays in arrays as well) and the callbacks. "empty" is the key "",
  the first of `aur_key_types_names` and the initial `current_key`. A string, and an entry of a list, remembers the
  key it stood under, which is what `FieldUnderItsKey` is about.
* `Results` - what happens to the packages found. `INT_MAX` is the largest `int`
  and `UINT_MAX` follows from it: votes are unsigned, and `AsInt` is what an
  `int` makes of their difference.
* `OptionsProofs`, `PackageQueryProofs` (with the refinement of `JustOne`),
  `AurJsonProofs`, `ConfigFileProofs`, `ResultsProofs`, `ResourcesProofs`,
  `TextsProofs` - the theorems of one component each; `Counting` - lemmas about
  numbers, finite sets and loops that they share.
* `MCPackageQuery`, `MCResults`, `MCConfigFile`, `MCTexts` - the values for TLC.
  The other modules need none but those in their `.cfg` files.

Definitions whose comment begins with "Mutant" are plausible mistakes in the
definition that follows them. They are part of no specification; each shows
that some property would notice (the list is in `PROJECT.json`).

### Undefined behaviour

`search_pkg_by_type` calls `target_arg_clear` after every dependency but never
empties `ta->args` (`alpm-query.c:329`), so the second call reads strings that
the first one freed. The model lets such a read find anything: `Clear` removes,
besides the nodes noted, up to as many further nodes as there are dangling
strings, and sets `stale_read`. Properties that cannot hold after such a read
say `~stale_read`; `PrintedAtMostOnce`, `JustOneKept` and
`ExitStatusTruthful` hold regardless.

`format_str` calls `memcpy` on ranges that overlap (`util.c:591`); the model has
what it does when it copies upwards. `strreplace` returns NULL for an empty
text (`util.c:658`), which the model takes for an empty text: `Server =` with
nothing but a comment after it, where the NULL is passed on, is not among the
lines of the model. `alpm_release` and `color_cleanup` leave their pointers
set, and the handler of one signal may interrupt the other's: `FreedOnce` names
what can be freed twice then.

## Runs

| run | question | bounds | states |
|---|---|---|---|
| `options` | every option, repeated and conflicting ones | 3 options, 3 operands of 2 | 251k |
| `dispatch` | every operation, with and without `-1`, `--pkgbase`, filters; the refinement of `JustOne`; termination | 15 orders of sources for `-i`, 5 for `--q`; 0-3 targets of 6; 8 filters; 2 names per request | 251k |
| `json` | replies with maps and lists in any place, an unknown key, both orders | 3 maps, 4 keys, 5 containers open at a time, 2 names | 2.4M |
| `results` | all orders, both directions | 4 results of 5 packages, ints of 4 bits | 33k |
| `config_file` | pacman.conf with sections, settings, comments and included files, to register and to list | 4 lines, or 3 and an included file of 2; 3 open files | 797k |
| `resources` | both signals at any step, every failure of curl, formats or not, https or not, one or more `Architecture` lines | none: the machine is finite | 3.6M |
| `texts` | all texts of the characters each function tells apart | pairs of 4, targets of 5, formats and servers of 6, colours and PKGBUILDs of 7 characters; lists and packages of 4 | 138k |

The world of `MCPackageQuery` has two sync databases that share a name, a
package that is installed and outdated, two foreign ones, and an AUR that
answers some of them: every filter separates some of the packages, every kind
of dependency occurs, and every source can be the first, second or third to
answer. Two targets are enough for the interaction of targets, as a search
treats each one independently of the others but for the shared list; three are
used where the list changes under the walk (`--q`) and where a request is full (with two names per
request, an exact multiple and a rest). Three sources are all there are. Between
them the runs take every action.

`MaxOptions`, `MaxOperands` (module `Options`), `MaxMaps`, `MaxKeys`, `MaxOpen`
(`AurJson`) and `MaxResults` (`Results`) bound what the environment does; the
sets of command lines bound `PackageQuery`, the sets of files `ConfigFile` and
`MaxText`, `MaxOther` `Texts`. `MaxMaps`, `MaxKeys` and, in `AurJson`, `MaxOpen`
are guards on a new map, a new key and a new array: three maps are two packages,
or one that holds a map, and of four keys one can be that of the results and
three those of their fields; five containers are two arrays around a package or
within it. In `ConfigFile`, `MaxOpen` is no bound of the model but the limit on open files that ends a file that
includes itself; three are enough to have such a failure at every depth.
`PathMax` is 1, so that every string outgrows its memory several times.
The parsers are loops with a bounded memory of what they read (the last
operator, the fields' two pointers, the parity of a run), which texts of five
to seven characters go through in every order. `CHECK_DEADLOCK FALSE`: every
one of these machines stops when the program exits or its input ends.

Safety needs no fairness. `dispatch` and `search_repeats` assume `WF_vars(Next)`: a sequential
process that can take a step takes one, and a request to the AUR ends,
successfully or not (curl returns). Nothing is assumed about how it ends: that
the AUR should finally answer is not needed for termination, except in the
loop named below.

### Where the code and its documents disagree

Each has a run that exhibits it (expected to be violated):

* `search_repeats`: `aur_request_search` goes on to `alpm_list_next (*targets)`,
  always the second word (`aur.c:626`). Two words without results make it ask
  for ever, and a third word is never tried. `ExitsOrAsksForEver` shows that
  this, together with `--maintainer`, is the only way not to exit.
* `providers`: `-ii` falls back to providers only while nothing at all has been
  found (`package-query.c:506`, `515`), not target by target (`doc/package-query.8:140`).
* `stale_read`: see above; under `-1 -ii` an unanswered target may vanish
  (`doc/package-query.8:135`).
* `json_other_key`: the value of a key that is not in `aur_key_types_names` is
  stored under the key before it (`aur.c:386`), so that `%m` can show something
  that is not the maintainer (`doc/package-query.8:265`).
* `votes_top`: packages of libalpm do not come on top when sorting by votes
  (`util.c:126`, `174`): the difference to `UINT_MAX` is read as -1.

Two more have no run of their own, as properties that hold describe them:

* `doc/package-query.8:372` offers `[repo name]=` in `PQ_COLORS` for the colour of a
  repository, but an id has the letters a to z only (`color.c:28`, `109`):
  `multilib-testing=1` leaves that repository in the colour of the others and
  sets the colour of `testing`, as `parse_var` begins a field anew behind the
  dash and not at the next colon. `TypeOK` of `Texts` says that no other
  character gets into a colour's name, `ColorsRead` which fields take effect and
  which ends of malformed ones do.
* `setarch` sets `config.arch` without freeing the string of an earlier
  `Architecture` (`alpm-query.c:44-46`), so that one is lost per repetition; no
  document is contradicted by it. `NothingLeft` has it as its one exception.

## Proofs

Every safety invariant and action property that a passing run checks is proved
for every value of the constants, and so is the refinement of `JustOne`. For
`Texts` this means texts of any length over any characters.

| theorem | property | argument |
|---|---|---|
| `OptionsProofs` | | |
| `OptionsTypeCorrect` | `TypeOK` | ranks stay dense, so `db_order` is at most the number of sources |
| `OptionsHandover` | `HandoverWellFormed` | the parts of `WellFormed` that hold while options are read, and what `need` records |
| `OptionsOpLatched` | `OpLatched` | each option, by its guard on `config.op` |
| `OptionsRanks` | `RanksFollowOrder` | the rank of a source is the number of sources given before its first option; `db_order` is the number of sources given (`ArgvInv`) |
| `OptionsFirstOp` | `OpIsFirstGiven` | as long as options are read (`FirstGiven`) |
| `OptionsNeeds` | `NeedsOfChosenOp` | `need` is what the operation and `-p` need, with no trace of ignored options (`NeedsChosen`) |
| `OptionsOperands` | `OperandsKept` | the targets so far are the operands read so far, or the first of each of them in their order |
| `PackageQueryProofs` | | |
| `TypeCorrect` | `TypeOK` | with the shape of the command line |
| `PrintedOnce` | `PrintedAtMostOnce` | below |
| `RemovedExactly` | `RemovedIffAnswered` | below |
| `FirstWins` | `FirstDatabaseWins` | below |
| `NoneOverlooked` | `NothingOverlooked` | below |
| `ExitStatus` | `ExitStatusTruthful` | `found` is kept up to date, and a package noted by a search was printed (`StatusInv`) |
| `KeepsJustOne` | `JustOneKept` | below |
| `OnlyNewer` | `UpgradesAreNewer` | every target stands for a foreign package and asks for a greater version; an answer fulfils it (`UpgradesInv`) |
| `ForeignOnce` | `ForeignShownOnce` | below |
| `AurJsonProofs` | | |
| `TypeCorrect` | `TypeOK` | the shape of the stack of containers (`NestInv`) |
| `ParsedWhole` | `AllOrNothing` | `level` counts the open maps, there is a package under construction from the second on (`DepthInv`) |
| `ParsedSorted` | `SortedWhenNamed` | inserting into a sorted list keeps it sorted and moves nothing else |
| `ParsedFields` | `FieldUnderItsKey` | where a value may stand, `current_key` is the key above it (`KeyInv`) |
| `ConfigFileProofs` | | |
| `FileTypes`, `EveryFileClosed` | `TypeOK`, `FilesClosed` | `FilesInv`: there is an open file for each call and a result of `glob` for each call in an `Include`, all but at most the innermost |
| `HandleAsSet` | `HandleFromOptions` | below |
| `ServersAsRead` | `ServersOfRepos` | below |
| `ResultsProofs` | | |
| `ResultsTypes`, `PrintsAlive` | `TypeOK`, `PrintedAlive` | a result never points into a reply (`MemoryInv`) |
| `PrintsWhatIsFound` | `PrintedIsFound` | a sort has an inverse (`Undoes`), which carries the bag of what was found to what is printed |
| `ComparisonOrders` | `CompareIsOrder` | each comparison compares a number (`Key`) |
| `PrintsInOrder` | `PrintedInOrder` | a stable sort by a key exists and is in order; it is the ranking of the pairs of key and place (`Counting`) |
| `ResourcesProofs` | | |
| `ResourceTypes` | `TypeOK` | each cleanup but one has used up a signal (`NestingInv`) |
| `NeverFreedTwice` | `FreedOnce` | below |
| `AllFreed` | `NothingLeft` | an uninterrupted cleanup has nothing live behind it (`BehindInv`) and its list names every resource; before it, each step assigns only to pointers it has found unset or has freed, but for `Architecture` (`LostInv`, `UnsetInv`) |
| `HandleStays` | `HandleInUse` | the flags differ between calls only where `--format` may ask for `%a` and the AUR is not reached by https (`HandleInv`) |
| `TextsProofs` | | |
| `TextsTypes` | `TypeOK` | what each loop keeps its variables in |
| `NumbersAreExact` | `NumbersExact` | a cell of either table is the least cost, or the greatest length, over the ways to pair the characters of two prefixes; a file adds the bytes of its inode or none |
| `BuffersHold` | `BuffersSuffice` | doubling a size as often as there are characters to add exceeds them; the length of a list is the sum of what is written of it |
| `ColorsAreRead` | `ColorsRead` | at a field, what was left of the one before is out of use; `sid` always stands at the beginning or behind a character that `Breaks` |
| `TextsAreExpanded` | `TextsExpanded` | what is written so far is what the characters behind the pointer stand for |
| `PartsAreRead` | `PartsRead` | below |

### The inductive invariants

None of the deeper properties is inductive as it stands. Each of the invariants
named here was also checked by TLC on the instance of its run.

* `PrintedAtMostOnce`: `Inv` adds that a node still linked was never shown
  except inside the running AUR request (`OnceInv`), where a node shown is in
  `args` and no longer in `unsent`; that every node removed was answered, and,
  as long as no freed string was read, every answered one removed; that `args`
  only names nodes of the list the running search has (`ArgsInScope`); that the
  history is empty before anything is searched (`Fresh`). Reading a freed
  string only removes more nodes, so it cannot break `PrintedAtMostOnce`, which
  is why that theorem needs no `stale_read`.
* `FirstDatabaseWins` and the databases' half of `NothingOverlooked` (`AllAskedInDbs`) relate an answer to databases
  searched long before. `SettingInv` says what a lookup keeps (its list, its
  configuration but for `-ii`) and that `dbs` is what is left of the databases
  of its rank; `SearchedInv` says of each database behind, or of the one being
  walked, that no target still open has a package there. How far a walk is makes
  the difference between `NamesBehind`, `RelatesBehind` and `RelatesHere`.
* `JustOneKept` needs, besides, that the first answer of a target is the one that
  was shown and that an answer from a database that is not behind is among the
  packages the running search has noted (`AnswersInv`). Each action is then
  mapped to an answer, the end, or a stutter.
* `ForeignShownOnce`: `ForeignInv` says that the targets have different names,
  that whatever was answered was printed, and that the AUR has answered no
  target whose name was not yet sent. The last step, in which the local
  database answers what is left, then finds one package for each target.
* The other half of `NothingOverlooked`, `AllAskedInAur`: `AskedInv` says that whoever the running AUR request has not
  still to ask for is settled (`Settled`: answered, in a request that failed, or
  nothing the AUR has), and that once the turn of the AUR is over everyone is.
  A batch settles its nodes because `AurHits` gives a package to the first
  target of its name; what has left the list under `--just-one` was answered
  (`OnceInv`); the other sources only add answers (`Grows`).
* `HandleFromOptions` and `ServersOfRepos` compare the static variables of a
  recursive reader with the flat sequence of lines. `PlaceInv` says what `db`,
  `in_option` and `global_opt_parsed` mean in terms of the sections of `flat`,
  `OptionsInv` what `dbpath`, `arch` and the handle are in terms of the settings
  before the first repository, `ListsInv` what the lists of repositories and
  servers are. No depth of inclusion occurs in them, which is the point.
* `FreedOnce`: whatever is freed and not set is what `main` is about to set, what
  the cleanup on top of the stack is about to set or leaves, or what a signal
  has exposed (`DanglingInv`). The places of a cleanup being distinct, the next
  one it frees is none of its own.

The proofs have one lemma per action, or per group of actions that do the same.

### The loops

What a loop computes is not an invariant of `Spec` but of the loop, and its
proof is an induction over the rounds, which the provers do not have. `Counting`
makes up for it: a set of numbers has a least one (`LeastNat`, as finite sets
are well founded), hence induction over a set of numbers (`NatSetInduction`),
hence a loop has states (`LoopExists`, which says that the recursive function
satisfies its equation) and what each round keeps up holds after the last one
(`LoopInvariant`: `G[k]` is the set of states that the invariant allows after
`k` rounds). Each loop of `Strings` then has a lemma that it exists, one that a
round keeps its invariant, and one that says what that means at the end. The
invariants are about positions of the text:

* `levenshtein_distance` keeps one column. In the middle of a row its upper
  part belongs to this row and its lower part to the row before, and `lastdiag`
  is the value that was overwritten; each value is the least cost of two
  prefixes (`IsLeastCost`). A pairing of two prefixes either pairs their last
  characters or leaves one of them out, which gives the three candidates of
  `Cell`. `longest_common_subseq` has the whole table (`IsMostKept`).
* `parse_var` moves three pointers. `InField` says what they are within a field
  whatever the fields before it left in them, and a field that is well formed
  is set at its colon.
* `format_str` changes the text it reads. What is before its pointer is what
  the characters read so far stand for, what is behind it is what they are
  followed by, and no escape begins one character before (`FormatAt`);
  `PkgAt` and `ValuesAt` are the same for `pkg_to_str` and `strreplace`.
  `FlattenSeq` of the pieces is unrolled from the left (`IsFlat`).
* `target_parse` has no loop, but its first operator in the order of `Operators`
  need not be the first in the text. Where the signs of a text are those of one
  operator, none that is looked for before it occurs (`OneOperator`); that is
  what the order of `Operators` is for.
* `read_pkgbuild_field` looks, for each entry, for a quote, the closing bracket
  and the next quote. `IsLaidOut` says where the entries of the list end, and
  `EntryReached` that after `k` rounds the first `k` entries were read and the
  pointer is where the `k`-th ends. The last one ends at `total_end` itself, so
  that the test is `end > total_end`, and what comes after it is never looked at.

### Assumptions

* `OptionsAssumption`, `AurMaxArgAssumption`: the bounds are numbers.
* `DatabasesAssumption`: a name occurs once in a database and is cached once
  (libalpm's package cache is a hash by name), a dependency is a target, no
  sync database is called "local" or "aur" (libalpm refuses the former; a
  repository named like the AUR, which the program cannot tell from it, is left
  out).
* `CommandLinesAssumption`: what `OptionsHandover` proves of the other half of
  `main`, and that words, repositories and groups are plain names.
* `ConfigFileAssumption`: lines are lines, a pattern that matches nothing stands
  for itself (`GLOB_NOCHECK`).
* `AurJsonAssumption`, `ResultsAssumption`: the keys the parser does not know
  are none of those it knows; popularity and distances are less than `DBL_MAX`.
* `VotesFit`, a hypothesis of the theorems of `ResultsProofs`: a package of the
  AUR has less than `INT_MAX` votes. Without it the difference to the
  `UINT_MAX` of libalpm's packages changes its sign and the comparison is no
  order, so that nothing is known of what the sort does. `results` runs with
  the most votes it allows.

* `StringsAssumption`: the first size of a string is at least 1; a colour's
  name has neither the sign of an assignment nor the delimiter of fields
  (`COL_ID`, `COL_VAL` are such), and a backslash can be escaped.
* `StatAssumption`: an inode has one size, that is, the files of a package are
  of one file system.
* `TextsAssumption`: an entry of a list in a PKGBUILD has no quote in it, is
  not empty and not just a blank (the function leaves such entries out), and
  does not begin with a bracket (which would end the list at its first quote).

TLC evaluates all the ASSUMEs.

### Only model-checked

* Liveness (`ExitsOrAsksForEver`): fairness is out of the prover's reach.
* That the code and its documents disagree as listed above.

No module here declares a recursive operator.

## Not modelled

* The layout of a line without `--format` (`color_print_package`, `indent`), the
  conversions of numbers and times, `print_escape` and `mbasename`: no state but
  what `Resources` has, and no property but how it looks.
* The letters of a format that are lookups in a package.
* A reply of type "error" that names no error (`aur.c:598`): the program relies
  on the AUR there.
* Files of one package on two file systems with the same inode number
  (`alpm-query.c:483`): `Strings` has one file system (`StatAssumption`).
* Memory that is no pointer of `cleanup`, see `Resources`.
* Failures of allocation, which the program reports and mostly goes on from.
* The build system and translations.

libalpm, yajl, curl, glob and the AUR are external and modelled by what the
program relies on. `Results` takes the distances of words and names as given;
`Texts` shows that they are what `Strings` computes.

## Plan

1. Done: all components but the layout of the output; the refinement; all
   safety properties of all runs as theorems.
2. Next: `votes` without `VotesFit` (which pairs of votes the comparison gets
   wrong); targets with several operators, of which the first in the order of
   `Operators` wins and not the first in the text; lists in a PKGBUILD that
   have empty entries or more than a blank between them; the columns of
   `print_package`.
