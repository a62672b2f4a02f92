------------------------------ MODULE Resources ------------------------------
(***************************************************************************)
(* What cleanup() is there to release, from the first option to exit():    *)
(* the handle of libalpm, the list of targets, the strings of config, the  *)
(* strings that the three functions behind the format letters return, the  *)
(* colours and the one handle of curl.                                     *)
(*                                                                         *)
(* cleanup() is how main() ends, at any place, and it is the handler of    *)
(* SIGINT and SIGTERM, which may come between any two steps: a free() and  *)
(* the assignment after it are therefore two steps.  An allocation and the *)
(* assignment of its result are one: a signal that comes between them      *)
(* keeps the memory from being freed before exit().                        *)
(***************************************************************************)
EXTENDS Naturals, Sequences

Infos == {"info", "local_info", "aur_info"}

\* The strings of config that options set: "options" are aur_url, configfile and
\* format_out; rootdir goes the way of dbpath, but for the line DBPath.
Strings == {"options", "dbpath"}
Resource == {"handle", "targets", "arch", "colors", "curl"} \cup Strings \cup Infos
Handlers == {"SIGINT", "SIGTERM"}

VARIABLES
  https,      \* config.aur_url begins with "https", never changed
  custom_out, \* config.custom_out: --format was given, never changed
  many_archs, \* [options] has more than one Architecture, never changed
  ptr,        \* resource -> its pointer: "null", "live" or "dangling"
  pc,         \* how far main() is
  busy,       \* the resource that main() has freed and is about to set again
  flags,      \* curl_config.flags
  want,       \* the flags for which curl_init is running, or "none"
  caller,     \* which function called it: "request" or "letter"
  held,       \* the handle that aur_request works with: "none", "current" or "gone"
  cleanups,   \* the calls of cleanup() that are running, the last one first:
              \* the place in ReleaseOrder, and whether free() was called there
  pending,    \* the signals that may still come
  exited,
  \* history
  lost,       \* what was set while its pointer was the only one to something live
  twice,      \* what was freed again without having been set
  exposed,    \* what was between its free() and its assignment when a signal came
  stale_curl  \* a handle of curl was used after it was freed

inputs == <<https, custom_out, many_archs>>
curl   == <<flags, want, caller, held>>
vars   == <<inputs, ptr, pc, busy, curl, cleanups, pending, exited,
            lost, twice, exposed, stale_curl>>

Init ==
  /\ https \in BOOLEAN /\ custom_out \in BOOLEAN /\ many_archs \in BOOLEAN
  /\ ptr = [r \in Resource |-> IF r = "options" THEN "live" ELSE "null"]
  /\ pc = "options" /\ busy = "none"
  /\ flags = "none" /\ want = "none" /\ caller = "none" /\ held = "none"
  /\ cleanups = <<>> /\ pending = Handlers /\ exited = FALSE
  /\ lost = {} /\ twice = {} /\ exposed = {} /\ stale_curl = FALSE

Running == cleanups = <<>> /\ ~exited
Ready == Running /\ busy = "none" /\ want = "none"

\* p is assigned to the pointers of S.
Assign(S, p) ==
  /\ ptr' = [r \in Resource |-> IF r \in S THEN p ELSE ptr[r]]
  /\ lost' = lost \cup {r \in S : ptr[r] = "live"}

-----------------------------------------------------------------------------
(***************************************************************************)
(* main()                                                                  *)
(***************************************************************************)
\* The options; color_init, unless --format or --color never; the operands;
\* init_db_sync.  -L reads the same file (get_db_sync) and leaves.
Advance ==
  /\ Ready
  /\ \E p \in {"null", "live"} :
       \/ pc = "options" /\ pc' = "colors" /\ Assign({"colors"}, p)
          /\ (custom_out => p = "null")
       \/ pc = "options" /\ pc' = "list" /\ Assign({}, p)
       \/ pc = "colors" /\ pc' = "operands" /\ Assign({"targets"}, p)
       \/ pc = "operands" /\ pc' = "search" /\ Assign({}, p)
  /\ UNCHANGED <<inputs, busy, curl, cleanups, pending, exited, twice, exposed, stale_curl>>

\* -b (-r), the first time.
OptDbpath ==
  /\ Ready /\ pc = "options" /\ ptr["dbpath"] = "null"
  /\ Assign({"dbpath"}, "live")
  /\ UNCHANGED <<inputs, pc, busy, curl, cleanups, pending, exited, twice, exposed, stale_curl>>

\* setarch: a second Architecture replaces the first one without freeing it.
Architecture ==
  /\ Ready /\ pc = "operands" /\ ptr["handle"] = "null"
  /\ ptr["arch"] = "null" \/ many_archs
  /\ Assign({"arch"}, "live")
  /\ UNCHANGED <<inputs, pc, busy, curl, cleanups, pending, exited, twice, exposed, stale_curl>>

DBPath ==
  /\ Ready /\ pc = "operands" /\ ptr["handle"] = "null"
  /\ ptr["dbpath"] = "null"
  /\ Assign({"dbpath"}, "live")
  /\ UNCHANGED <<inputs, pc, busy, curl, cleanups, pending, exited, twice, exposed, stale_curl>>

Unset(S) == {r \in S : ptr[r] = "null"}

\* init_alpm, at the first repository: main() leaves when libalpm cannot be
\* initialized.
InitAlpm(initialized) ==
  /\ Ready /\ pc \in {"list", "operands"} /\ ptr["handle"] = "null"
  /\ IF initialized
     THEN Assign(Unset({"dbpath", "arch"}) \cup {"handle"}, "live") /\ UNCHANGED pc
     ELSE Assign(Unset({"dbpath"}), "live") /\ pc' = "failed"
  /\ UNCHANGED <<inputs, busy, curl, cleanups, pending, exited, twice, exposed, stale_curl>>

\* -Am and -Au: the foreign packages become the targets.
ForeignTargets ==
  /\ Ready /\ pc = "search" /\ ptr["targets"] = "null"
  /\ Assign({"targets"}, "live")
  /\ UNCHANGED <<inputs, pc, busy, curl, cleanups, pending, exited, twice, exposed, stale_curl>>

\* An option that was given before (--format, --root, ...), a colour that is set
\* again, a target that is taken out of the list by --just-one, the string that
\* a letter returned.
Replaces(r) ==
  \/ r \in Strings /\ pc = "options"
  \/ r = "colors" /\ pc = "colors"
  \/ r \in {"targets"} \cup Infos /\ pc \in {"search", "request"}

Free(r) ==
  /\ Ready /\ Replaces(r) /\ ptr[r] = "live"
  /\ ptr' = [ptr EXCEPT ![r] = "dangling"] /\ busy' = r
  /\ UNCHANGED <<inputs, pc, curl, cleanups, pending, exited, lost, twice, exposed, stale_curl>>

\* free_info = false, or the new pointer; the last target leaves an empty list.
\* The handle of curl has a step of its own (CurlReset).
Renew ==
  /\ Running /\ busy \notin {"none", "curl"}
  /\ \E p \in IF busy \in Infos THEN {"null"}
              ELSE IF busy = "targets" THEN {"null", "live"} ELSE {"live"} :
       Assign({busy}, p)
  /\ busy' = "none"
  /\ UNCHANGED <<inputs, pc, curl, cleanups, pending, exited, twice, exposed, stale_curl>>

-----------------------------------------------------------------------------
(***************************************************************************)
(* curl_init, curl_cleanup and the requests.                               *)
(***************************************************************************)
\* Mutant: one kind of handle for all requests.
RequestFlagsPlain == "NOTHING"

RequestFlags == IF https THEN "SSL" ELSE "NOTHING"

\* aur_request
StartRequest ==
  /\ Ready /\ pc = "search"
  /\ pc' = "request" /\ want' = RequestFlags /\ caller' = "request"
  /\ UNCHANGED <<inputs, ptr, busy, flags, held, cleanups, pending, exited,
                 lost, twice, exposed, stale_curl>>

\* curl_init has what it needs, or is without a handle; a request that gets none
\* is over.
Got(result) ==
  /\ want' = "none" /\ caller' = "none"
  /\ held' = IF caller = "request" THEN result ELSE held
  /\ pc' = IF caller = "request" /\ result = "none" THEN "search" ELSE pc

CurlSame ==
  /\ Running /\ want # "none" /\ ptr["curl"] = "live" /\ flags = want
  /\ Got("current")
  /\ UNCHANGED <<inputs, ptr, busy, flags, cleanups, pending, exited,
                 lost, twice, exposed, stale_curl>>

\* The handle was made with other flags: curl_cleanup.
CurlDrop ==
  /\ Running /\ want # "none" /\ busy = "none" /\ ptr["curl"] = "live" /\ flags # want
  /\ ptr' = [ptr EXCEPT !["curl"] = "dangling"] /\ busy' = "curl"
  /\ held' = IF held = "current" THEN "gone" ELSE held
  /\ UNCHANGED <<inputs, pc, flags, want, caller, cleanups, pending, exited,
                 lost, twice, exposed, stale_curl>>

\* Mutant: the pointer stays.
CurlKeep ==
  /\ Running /\ want # "none" /\ busy = "curl"
  /\ flags' = "none" /\ busy' = "none"
  /\ UNCHANGED <<inputs, ptr, pc, want, caller, held, cleanups, pending, exited,
                 lost, twice, exposed, stale_curl>>

CurlReset ==
  /\ Running /\ want # "none" /\ busy = "curl"
  /\ Assign({"curl"}, "null") /\ flags' = "none" /\ busy' = "none"
  /\ UNCHANGED <<inputs, pc, want, caller, held, cleanups, pending, exited,
                 twice, exposed, stale_curl>>

\* curl_global_init and curl_easy_init, which may fail.
CurlNew(ok) ==
  /\ Running /\ want # "none" /\ busy = "none" /\ ptr["curl"] # "live"
  /\ IF ok THEN Assign({"curl"}, "live") /\ flags' = want /\ Got("current")
           ELSE UNCHANGED <<ptr, lost, flags>> /\ Got("none")
  /\ UNCHANGED <<inputs, busy, cleanups, pending, exited, twice, exposed, stale_curl>>

\* One request of aur_request_info or aur_request_search, with the handle that
\* aur_request got.
Fetch ==
  /\ Ready /\ pc = "request"
  /\ stale_curl' = (stale_curl \/ held = "gone")
  /\ UNCHANGED <<inputs, ptr, pc, busy, curl, cleanups, pending, exited, lost, twice, exposed>>

EndRequest ==
  /\ Ready /\ pc = "request"
  /\ pc' = "search" /\ held' = "none"
  /\ UNCHANGED <<inputs, ptr, busy, flags, want, caller, cleanups, pending, exited,
                 lost, twice, exposed, stale_curl>>

-----------------------------------------------------------------------------
(***************************************************************************)
(* The functions behind the format letters.  A string that a function has  *)
(* made is its own until its next call; the others belong to the package.  *)
(***************************************************************************)
LocalMade == {"F", "1", "3", "4"}
AlpmMade == {"2", "5", "6", "B", "c", "C", "D", "e", "g", "I", "M", "N", "o", "O", "P", "R", "u"}
AurMade  == {"a", "c", "C", "D", "e", "g", "G", "i", "k", "K", "M", "L", "o", "O", "p", "P",
             "s", "r", "R", "u", "S", "w"}

\* The letters that ask the network: the PKGBUILD's arch, the package's page.
AurAsks == {"a"}
AlpmAsks == {"o"}

\* Mutant: a line shows the architecture, too.
LineLettersArch == {"r", "s", "n", "l", "v", "V", "m", "g", "o", "w", "p", "d", "a"}

\* The letters of color_print_package: those of a line without --format.  What
\* libalpm knows is not asked for "o".
LineLetters == {"r", "s", "n", "l", "v", "V", "m", "g", "o", "w", "p", "d"}
AlpmLetters == IF custom_out THEN AlpmMade \cup LocalMade ELSE LineLetters \ {"o", "w", "p"}
AurLetters  == IF custom_out THEN AurMade \cup LocalMade ELSE LineLetters

\* Mutant: the string of the last call is not freed first.
MakeAnother(info) ==
  /\ Ready
  /\ Assign({info}, "live")
  /\ UNCHANGED <<inputs, pc, busy, curl, cleanups, pending, exited, twice, exposed, stale_curl>>

\* Each call begins with Free, if the last one has made a string, and makes one
\* or not.
Make(info) ==
  /\ Ready /\ ptr[info] = "null"
  /\ Assign({info}, "live")
  /\ UNCHANGED <<inputs, pc, busy, curl, cleanups, pending, exited, twice, exposed, stale_curl>>

\* pkg_to_str asks the local package for some letters, and the package for the others.
LetterMade ==
  \/ /\ pc = "search"
     /\ \/ AlpmLetters \cap AlpmMade # {} /\ Make("info")
        \/ AlpmLetters \cap LocalMade # {} /\ Make("local_info")
  \/ /\ pc = "request"
     /\ \/ AurLetters \cap AurMade # {} /\ Make("aur_info")
        \/ AurLetters \cap LocalMade # {} /\ Make("local_info")

\* aur_get_arch, alpm_pkg_get_outofdate
LetterAsks ==
  /\ Ready
  /\ \/ pc = "search" /\ AlpmLetters \cap AlpmAsks # {} /\ ptr["info"] = "null"
     \/ pc = "request" /\ AurLetters \cap AurAsks # {} /\ ptr["aur_info"] = "null"
  /\ want' = "SSL" /\ caller' = "letter"
  /\ UNCHANGED <<inputs, ptr, pc, busy, flags, held, cleanups, pending, exited,
                 lost, twice, exposed, stale_curl>>

-----------------------------------------------------------------------------
(***************************************************************************)
(* cleanup()                                                               *)
(***************************************************************************)
ReleaseOrder ==
  <<"handle", "targets", "arch", "options", "dbpath", "info", "local_info", "aur_info",
    "colors", "curl">>

\* alpm_release and color_cleanup leave the pointer as it is.
LeftDangling == {"handle", "colors"}

NewCleanup == <<[at |-> 1, freed |-> FALSE]>> \o cleanups
Current == cleanups[1]
Place == ReleaseOrder[Current.at]

\* usage, version, -L, an error, or the end of main
Cleanup ==
  /\ Ready /\ cleanups' = NewCleanup
  /\ UNCHANGED <<inputs, ptr, pc, busy, curl, pending, exited, lost, twice, exposed, stale_curl>>

\* What a running cleanup has freed and not set.
Released(c) ==
  {ReleaseOrder[i] : i \in {j \in 1..Len(ReleaseOrder) :
                              \/ j = c.at /\ c.freed
                              \/ j < c.at /\ ReleaseOrder[j] \in LeftDangling}}

\* Mutant: a handler is interrupted by its own signal, too.
SignalUnmasked(s) ==
  /\ ~exited
  /\ cleanups' = NewCleanup
  /\ UNCHANGED <<inputs, ptr, pc, busy, curl, pending, exited, lost, twice, exposed, stale_curl>>

\* A handler is not interrupted by its own signal, but by the other.
Signal(s) ==
  /\ ~exited /\ s \in pending
  /\ pending' = pending \ {s}
  /\ cleanups' = NewCleanup
  /\ exposed' = exposed \cup ({busy} \ {"none"})
                        \cup UNION {Released(cleanups[i]) : i \in 1..Len(cleanups)}
  /\ UNCHANGED <<inputs, ptr, pc, busy, curl, exited, lost, twice, stale_curl>>

Release ==
  /\ ~exited /\ cleanups # <<>> /\ Current.at <= Len(ReleaseOrder) /\ ~Current.freed
  /\ IF ptr[Place] = "null"
     THEN /\ cleanups' = [cleanups EXCEPT ![1].at = @ + 1]
          /\ UNCHANGED <<ptr, twice>>
     ELSE /\ cleanups' = [cleanups EXCEPT ![1].freed = TRUE]
          /\ ptr' = [ptr EXCEPT ![Place] = "dangling"]
          /\ twice' = IF ptr[Place] = "dangling" THEN twice \cup {Place} ELSE twice
  /\ UNCHANGED <<inputs, pc, busy, curl, pending, exited, lost, exposed, stale_curl>>

ResetPointer ==
  /\ ~exited /\ cleanups # <<>> /\ Current.at <= Len(ReleaseOrder) /\ Current.freed
  /\ cleanups' = [cleanups EXCEPT ![1] = [at |-> @.at + 1, freed |-> FALSE]]
  /\ ptr' = IF Place \in LeftDangling THEN ptr ELSE [ptr EXCEPT ![Place] = "null"]
  /\ UNCHANGED <<inputs, pc, busy, curl, pending, exited, lost, twice, exposed, stale_curl>>

\* The handler does not return: exit() ends what it has interrupted.
Exit ==
  /\ ~exited /\ cleanups # <<>> /\ Current.at > Len(ReleaseOrder)
  /\ exited' = TRUE
  /\ UNCHANGED <<inputs, ptr, pc, busy, curl, cleanups, pending, lost, twice, exposed, stale_curl>>

Next ==
  \/ Advance \/ OptDbpath \/ Renew
  \/ Architecture \/ DBPath \/ ForeignTargets
  \/ \E initialized \in BOOLEAN : InitAlpm(initialized)
  \/ \E r \in Resource : Free(r)
  \/ StartRequest \/ CurlSame \/ CurlDrop \/ CurlReset
  \/ \E ok \in BOOLEAN : CurlNew(ok)
  \/ Fetch \/ EndRequest
  \/ LetterMade \/ LetterAsks
  \/ Cleanup \/ Release \/ ResetPointer \/ Exit
  \/ \E s \in Handlers : Signal(s)

Spec == Init /\ [][Next]_vars

-----------------------------------------------------------------------------
(***************************************************************************)
(* Properties.                                                             *)
(***************************************************************************)
TypeOK ==
  /\ https \in BOOLEAN /\ custom_out \in BOOLEAN /\ many_archs \in BOOLEAN
  /\ ptr \in [Resource -> {"null", "live", "dangling"}]
  /\ pc \in {"options", "list", "colors", "operands", "failed", "search", "request"}
  /\ busy \in Resource \cup {"none"}
  /\ flags \in {"SSL", "NOTHING", "none"} /\ want \in {"SSL", "NOTHING", "none"}
  /\ caller \in {"request", "letter", "none"} /\ held \in {"current", "gone", "none"}
  /\ cleanups \in Seq([at : 1..(Len(ReleaseOrder) + 1), freed : BOOLEAN])
  /\ Len(cleanups) <= 3
  /\ pending \subseteq Handlers /\ exited \in BOOLEAN
  /\ lost \subseteq Resource /\ twice \subseteq Resource /\ exposed \subseteq Resource
  /\ stale_curl \in BOOLEAN

\* Nothing is freed twice, wherever main() calls cleanup() and wherever a signal
\* does, but for what was just then between its free() and its assignment, and
\* for the two pointers that cleanup() itself leaves when it is interrupted.
FreedOnce == twice \subseteq exposed

\* A program that no signal has stopped exits with nothing left, wherever main()
\* or a failure ends it: cleanup() frees all that there are pointers to, and none
\* is set again while it is the only one, but for config.arch, which a second
\* Architecture in [options] replaces.
NothingLeft ==
  exited /\ pending = Handlers =>
    /\ \A r \in Resource : ptr[r] # "live"
    /\ lost \subseteq IF many_archs THEN {"arch"} ELSE {}

\* A request never uses a handle of curl that another caller has freed, unless
\* --format asks for %a of packages of an AUR that is not reached by https.
HandleInUse == stale_curl => custom_out /\ ~https
=============================================================================
