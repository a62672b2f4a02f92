----------------------------- MODULE ConfigFile -----------------------------
(***************************************************************************)
(* parse_configfile(): pacman.conf and the files it includes are read line *)
(* by line, each by a call of its own.  The calls share three static       *)
(* variables, and the first repository that any of them meets makes        *)
(* init_alpm() create the handle of libalpm with what [options] said       *)
(* before.  init_db_sync() registers the repositories, get_db_sync() only  *)
(* lists them (-L).                                                        *)
(*                                                                         *)
(* A line is [what, value, comment]: a section header, an assignment or    *)
(* anything else, with no comment at its end, one that follows at once     *)
(* (tight) or one after a blank (apart).  glob() and libalpm are external. *)
(***************************************************************************)
EXTENDS Naturals, Sequences, FiniteSets

CONSTANTS
  Text,         \* the texts of lines and names; "none" is NULL and none of them
  FileSystems,  \* the contents the files may have: file -> its lines
  Configfile,   \* config.configfile
  Globs,        \* pattern -> the files it matches, at least one
  Machine,      \* uname's machine, the architecture "auto"
  MaxOpen       \* how many files the process may have open

Keys == {"Include", "Server", "Architecture", "DBPath", "other"}
Line == [what : {"blank", "section"} \cup Keys, value : Text,
         comment : {"none", "tight", "apart"}]

ASSUME ConfigFileAssumption ==
  /\ "none" \notin Text /\ {"given", "rootdir", "default"} \subseteq Text
  /\ MaxOpen \in Nat /\ Machine \in Text /\ Configfile \in Text
  /\ \A files \in FileSystems : \A f \in DOMAIN files : files[f] \in Seq(Line)
  /\ \A p \in DOMAIN Globs : Globs[p] \in Seq(Text) /\ Globs[p] # <<>>

VARIABLES
  fs,           \* the file system, never changed
  reg,          \* the argument reg: register (init_db_sync) or list (get_db_sync)
  \* config
  rootdir,      \* config.rootdir was given on the command line
  arch, dbpath, \* config.arch and config.dbpath, "none" for NULL
  handle,       \* config.handle: the dbpath and the architecture it was made with
  \* the static variables of parse_configfile
  db, in_option, global_opt_parsed,
  \* what libalpm, or the list of get_db_sync, was given
  repos, servers,
  \* the calls of parse_configfile that are running, innermost first: the lines
  \* not yet read, whether it reads the files of an Include, and which it has yet to
  calls,
  files,        \* how many files are open: fopen without its fclose
  globs,        \* how many results of glob are there: glob without its globfree
  opening,      \* the file that the next call is to open
  pc,           \* "open", "read", "failed" (the call made last returned false to
                \* the innermost one), or what the first call returned
  \* history
  given,        \* the dbpath of the command line
  flat,         \* the lines read, in the order in which they were read
  cause         \* what made the first call that failed return false

input   == <<fs, reg, rootdir, given>>
options == <<arch, dbpath, handle>>
statics == <<db, in_option, global_opt_parsed>>
output  == <<repos, servers>>
held    == <<files, globs>>
control == <<calls, held, opening, pc>>
vars    == <<input, options, statics, output, control, flat, cause>>

NoHandle == [dbpath |-> "none", arch |-> "none"]

Init ==
  /\ fs \in FileSystems /\ reg \in BOOLEAN
  /\ rootdir \in BOOLEAN /\ given \in {"none", "given"}
  /\ arch = "none" /\ dbpath = given /\ handle = NoHandle
  /\ db = "none" /\ in_option = FALSE /\ global_opt_parsed = FALSE
  /\ repos = <<>> /\ servers = <<>>
  /\ calls = <<>> /\ files = 0 /\ globs = 0
  /\ opening = Configfile /\ pc = "open"
  /\ flat = <<>> /\ cause = "none"

-----------------------------------------------------------------------------
(***************************************************************************)
(* The calls: fopen, fgets, fclose, return.                                *)
(***************************************************************************)
Call == Head(calls)

Fopen == files' = files + 1
Fclose == files' = files - 1
Glob == globs' = globs + 1
Globfree == globs' = globs - 1

ReturnTrue  == /\ calls' = Tail(calls)
               /\ pc' = IF Len(calls) = 1 THEN "true" ELSE "read"
ReturnFalse == /\ calls' = Tail(calls)
               /\ pc' = IF Len(calls) = 1 THEN "false" ELSE "failed"

OpenFile ==
  /\ pc = "open"
  /\ opening \in DOMAIN fs /\ files < MaxOpen
  /\ Fopen
  /\ calls' = <<[lines |-> fs[opening], including |-> FALSE, todo |-> <<>>]>> \o calls
  /\ pc' = "read"
  /\ UNCHANGED <<input, options, statics, output, globs, opening, flat, cause>>

\* There is no such file, or too many are open.
OpenFails ==
  /\ pc = "open"
  /\ opening \notin DOMAIN fs \/ files = MaxOpen
  /\ pc' = IF calls = <<>> THEN "false" ELSE "failed"
  /\ cause' = "open"
  /\ UNCHANGED <<input, options, statics, output, calls, held, opening, flat>>

Reading == pc = "read" /\ ~Call.including /\ Call.lines # <<>>
line == Head(Call.lines)
ReadLine == /\ flat' = Append(flat, line)
            /\ calls' = [calls EXCEPT ![1].lines = Tail(@)]

EndOfFile ==
  /\ pc = "read" /\ ~Call.including /\ Call.lines = <<>>
  /\ Fclose /\ ReturnTrue
  /\ UNCHANGED <<input, options, statics, output, globs, opening, flat, cause>>

-----------------------------------------------------------------------------
(***************************************************************************)
(* Section headers.                                                        *)
(***************************************************************************)
\* After a comment is cut off, a blank before it is left: such a header does not
\* end in a bracket and is no header.
IsSection(l) == l.what = "section" /\ l.comment # "apart"

\* Such a blank is a value, as the "=" is then not the end of the line.
IsAssignment(l) == l.what \in Keys /\ (l.value # "" \/ l.comment = "apart")

SkipLine ==
  /\ Reading /\ ~IsSection(line) /\ ~IsAssignment(line)
  /\ ReadLine
  /\ UNCHANGED <<input, options, statics, output, held, opening, pc, cause>>

\* [options] has no effect after the handle was made, but ends a repository.
SectionOptions ==
  /\ Reading /\ IsSection(line) /\ line.value = "options"
  /\ ReadLine
  /\ db' = "none"
  /\ in_option' = (in_option \/ ~global_opt_parsed)
  /\ UNCHANGED <<input, options, global_opt_parsed, output, held, opening, pc, cause>>

\* init_alpm, if libalpm can be initialized: what was not given has a default.
Dbpath == IF dbpath # "none" THEN dbpath ELSE IF rootdir THEN "rootdir" ELSE "default"
\* Mutant: without an Architecture there is none.
ArchGiven == arch

Arch == IF arch # "none" THEN arch ELSE Machine
InitAlpm == /\ dbpath' = Dbpath /\ arch' = Arch
            /\ handle' = [dbpath |-> Dbpath, arch |-> Arch]

\* parse_config_options: libalpm takes a name once, no empty one, and "local" is
\* its own.
Registers(name) == reg => name \notin {"", "local"} /\ \A i \in 1..Len(repos) : repos[i] # name

\* Mutant: the handle is made by init_db_sync only.
SectionRepoRegOnly(initialized) ==
  /\ Reading /\ IsSection(line) /\ line.value # "options"
  /\ initialized /\ Registers(line.value)
  /\ ReadLine
  /\ in_option' = FALSE /\ global_opt_parsed' = TRUE
  /\ IF global_opt_parsed \/ ~reg THEN UNCHANGED options ELSE InitAlpm
  /\ repos' = Append(repos, line.value)
  /\ db' = IF reg THEN line.value ELSE "none"
  /\ UNCHANGED <<input, servers, held, opening, pc, cause>>

SectionRepo(initialized) ==
  /\ Reading /\ IsSection(line) /\ line.value # "options"
  /\ initialized \/ global_opt_parsed
  /\ Registers(line.value)
  /\ ReadLine
  /\ in_option' = FALSE /\ global_opt_parsed' = TRUE
  /\ IF global_opt_parsed THEN UNCHANGED options ELSE InitAlpm
  /\ repos' = Append(repos, line.value)
  /\ db' = IF reg THEN line.value ELSE "none"
  /\ UNCHANGED <<input, servers, held, opening, pc, cause>>

\* libalpm cannot be initialized.
InitFails ==
  /\ Reading /\ IsSection(line) /\ line.value # "options"
  /\ ~global_opt_parsed
  /\ flat' = Append(flat, line)
  /\ db' = "none" /\ in_option' = FALSE
  /\ dbpath' = Dbpath
  /\ Fclose /\ ReturnFalse
  /\ cause' = "init"
  /\ UNCHANGED <<input, arch, handle, global_opt_parsed, output, globs, opening>>

\* Mutant: the file is left open.
RegisterFailsNoClose(initialized) ==
  /\ Reading /\ IsSection(line) /\ line.value # "options"
  /\ initialized \/ global_opt_parsed
  /\ ~Registers(line.value)
  /\ flat' = Append(flat, line)
  /\ db' = "none" /\ in_option' = FALSE /\ global_opt_parsed' = TRUE
  /\ IF global_opt_parsed THEN UNCHANGED options ELSE InitAlpm
  /\ ReturnFalse
  /\ cause' = "register"
  /\ UNCHANGED <<input, output, held, opening>>

\* libalpm does not take the repository.
RegisterFails(initialized) ==
  /\ Reading /\ IsSection(line) /\ line.value # "options"
  /\ initialized \/ global_opt_parsed
  /\ ~Registers(line.value)
  /\ flat' = Append(flat, line)
  /\ db' = "none" /\ in_option' = FALSE /\ global_opt_parsed' = TRUE
  /\ IF global_opt_parsed THEN UNCHANGED options ELSE InitAlpm
  /\ Fclose /\ ReturnFalse
  /\ cause' = "register"
  /\ UNCHANGED <<input, output, globs, opening>>

-----------------------------------------------------------------------------
(***************************************************************************)
(* Assignments.                                                            *)
(***************************************************************************)
Assigns(key) == Reading /\ IsAssignment(line) /\ line.what = key

\* GLOB_NOCHECK: a pattern that matches no file stands for itself.
Include ==
  /\ Assigns("Include")
  /\ flat' = Append(flat, line)
  /\ Glob
  /\ calls' = [calls EXCEPT ![1].lines = Tail(@), ![1].including = TRUE,
                            ![1].todo = IF line.value \in DOMAIN Globs THEN Globs[line.value]
                                        ELSE <<line.value>>]
  /\ UNCHANGED <<input, options, statics, output, files, opening, pc, cause>>

\* glob is out of memory, which is ignored.
IncludeNothing ==
  /\ Assigns("Include")
  /\ ReadLine
  /\ UNCHANGED <<input, options, statics, output, held, opening, pc, cause>>

\* Mutant: the sections of an included file are its own.
IncludeNextOwn ==
  /\ pc = "read" /\ Call.including /\ Call.todo # <<>>
  /\ opening' = Head(Call.todo) /\ pc' = "open"
  /\ calls' = [calls EXCEPT ![1].todo = Tail(@)]
  /\ db' = "none"
  /\ UNCHANGED <<input, options, in_option, global_opt_parsed, output, held, flat, cause>>

IncludeNext ==
  /\ pc = "read" /\ Call.including /\ Call.todo # <<>>
  /\ opening' = Head(Call.todo) /\ pc' = "open"
  /\ calls' = [calls EXCEPT ![1].todo = Tail(@)]
  /\ UNCHANGED <<input, options, statics, output, held, flat, cause>>

\* A file it includes returned false, and so does the call, whatever is left to do.
IncludeFails ==
  /\ pc = "failed"
  /\ Globfree /\ Fclose /\ ReturnFalse
  /\ UNCHANGED <<input, options, statics, output, opening, flat, cause>>

IncludeEnd ==
  /\ pc = "read" /\ Call.including /\ Call.todo = <<>>
  /\ Globfree
  /\ calls' = [calls EXCEPT ![1].including = FALSE]
  /\ UNCHANGED <<input, options, statics, output, files, opening, pc, flat, cause>>

\* parse_config_server: $arch is the architecture of the handle.
Server ==
  /\ Assigns("Server")
  /\ ReadLine
  /\ servers' = IF reg /\ db # "none"
                THEN Append(servers, [db |-> db, url |-> line.value, arch |-> handle.arch])
                ELSE servers
  /\ UNCHANGED <<input, options, statics, repos, held, opening, pc, cause>>

\* setarch
Architecture ==
  /\ Assigns("Architecture")
  /\ ReadLine
  /\ arch' = IF ~(reg /\ in_option) THEN arch
             ELSE IF line.value = "auto" THEN Machine ELSE line.value
  /\ UNCHANGED <<input, dbpath, handle, statics, output, held, opening, pc, cause>>

\* Mutant: the last DBPath counts.
DBPathLast ==
  /\ Assigns("DBPath")
  /\ ReadLine
  /\ dbpath' = IF reg /\ in_option THEN line.value ELSE dbpath
  /\ UNCHANGED <<input, arch, handle, statics, output, held, opening, pc, cause>>

\* The command line, or the first DBPath.
DBPath ==
  /\ Assigns("DBPath")
  /\ ReadLine
  /\ dbpath' = IF reg /\ in_option /\ dbpath = "none" THEN line.value ELSE dbpath
  /\ UNCHANGED <<input, arch, handle, statics, output, held, opening, pc, cause>>

OtherKey ==
  /\ Assigns("other")
  /\ ReadLine
  /\ UNCHANGED <<input, options, statics, output, held, opening, pc, cause>>

Next ==
  \/ OpenFile \/ OpenFails \/ EndOfFile
  \/ SkipLine \/ SectionOptions \/ InitFails
  \/ \E initialized \in BOOLEAN : SectionRepo(initialized) \/ RegisterFails(initialized)
  \/ Include \/ IncludeNothing \/ IncludeNext \/ IncludeFails \/ IncludeEnd
  \/ Server \/ Architecture \/ DBPath \/ OtherKey

Spec == Init /\ [][Next]_vars

-----------------------------------------------------------------------------
(***************************************************************************)
(* Properties.  They say what the lines mean read one after the other,     *)
(* wherever they stand; the code has them in files that include files.     *)
(***************************************************************************)
TypeOK ==
  /\ arch \in Text \cup {"none"} /\ dbpath \in Text \cup {"none"}
  /\ handle \in {NoHandle} \cup [dbpath : Text, arch : Text]
  /\ db \in Text \cup {"none"} /\ in_option \in BOOLEAN /\ global_opt_parsed \in BOOLEAN
  /\ repos \in Seq(Text) /\ servers \in Seq([db : Text, url : Text, arch : Text])
  /\ calls \in Seq([lines : Seq(Line), including : BOOLEAN, todo : Seq(Text)])
  /\ files \in 0..MaxOpen /\ globs \in Nat
  /\ opening \in Text /\ pc \in {"open", "read", "failed", "true", "false"}
  /\ flat \in Seq(Line) /\ cause \in {"none", "open", "init", "register"}

\* The section in which the i-th line stands, and the headers of repositories.
Headers(i) == {j \in 1..i : IsSection(flat[j])}
SectionAt(i) ==
  IF Headers(i) = {} THEN "none"
  ELSE flat[CHOOSE j \in Headers(i) : \A k \in Headers(i) : k <= j].value
Repos == {j \in Headers(Len(flat)) : flat[j].value # "options"}

\* The lines that set key in [options], before the first repository.
Settings(key) == {i \in 1..Len(flat) : /\ flat[i].what = key /\ IsAssignment(flat[i])
                                       /\ SectionAt(i) = "options"
                                       /\ \A r \in Repos : i < r}
FirstOf(S) == flat[CHOOSE i \in S : \A j \in S : i <= j].value
LastOf(S)  == flat[CHOOSE i \in S : \A j \in S : j <= i].value

ChosenDbpath ==
  IF given # "none" THEN given
  ELSE IF reg /\ Settings("DBPath") # {} THEN FirstOf(Settings("DBPath"))
  ELSE IF rootdir THEN "rootdir" ELSE "default"

ChosenArch ==
  IF ~reg \/ Settings("Architecture") = {} \/ LastOf(Settings("Architecture")) = "auto"
  THEN Machine ELSE LastOf(Settings("Architecture"))

\* The handle of libalpm is there from the first repository on, and was made
\* with what [options] said by then: all of it, nothing that came later, and the
\* command line before the file.
HandleFromOptions ==
  handle = IF Repos = {} \/ cause = "init" THEN NoHandle
           ELSE [dbpath |-> ChosenDbpath, arch |-> ChosenArch]

\* The repositories in the order of their headers, and each Server under the
\* header before it with the architecture of the handle: an included file goes
\* on in the section that includes it, and leaves it in its own last section.
ServersOfRepos ==
  LET taken == IF cause \in {"init", "register"}
               THEN {r \in Repos : \E q \in Repos : r < q} ELSE Repos
      lines == {i \in 1..Len(flat) : /\ flat[i].what = "Server" /\ IsAssignment(flat[i])
                                     /\ SectionAt(i) \notin {"none", "options"}}
  IN /\ Len(repos) = Cardinality(taken)
     /\ \A r \in taken : repos[Cardinality({q \in taken : q <= r})] = flat[r].value
     /\ Len(servers) = IF reg THEN Cardinality(lines) ELSE 0
     /\ reg => \A i \in lines :
          servers[Cardinality({j \in lines : j <= i})] =
            [db |-> SectionAt(i), url |-> flat[i].value, arch |-> ChosenArch]

\* Wherever parse_configfile returns, at the end of a file or where an Include, a
\* repository or libalpm fails, and however deep: nothing is left open or in memory
\* when the first call has returned, and what was read before never keeps a file
\* from being opened: only as many nested calls do as there may be open files.
FilesClosed ==
  /\ pc \in {"true", "false"} => files = 0 /\ globs = 0
  /\ pc = "open" /\ files = MaxOpen => Len(calls) = MaxOpen
=============================================================================
