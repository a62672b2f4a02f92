-------------------------- MODULE ConfigFileProofs --------------------------
(***************************************************************************)
(* For every set of files, whatever they include and however many may be   *)
(* open: every file is closed, the handle is made with what [options] said *)
(* before the first repository, and each Server reaches its repository.    *)
(***************************************************************************)
EXTENDS ConfigFile, Counting, SequenceTheorems

Frame == [lines : Seq(Line), including : BOOLEAN, todo : Seq(Text)]

InputInv ==
  /\ fs \in FileSystems /\ reg \in BOOLEAN /\ rootdir \in BOOLEAN
  /\ given \in {"none", "given"}

\* Every call has its file open.  All but the innermost are in an Include, each with
\* a result of glob, and the innermost is whenever a file is opened or has failed.
FilesInv ==
  /\ files = Len(calls) /\ files <= MaxOpen
  /\ \A i \in 2..Len(calls) : calls[i].including
  /\ globs = IF calls = <<>> \/ calls[1].including THEN files ELSE files - 1
  /\ pc \in {"read", "failed"} => calls # <<>>
  /\ pc \in {"open", "failed"} /\ calls # <<>> => calls[1].including
  /\ pc \in {"true", "false"} => calls = <<>>

\* A repository is current only after the handle was made.
HandleInv ==
  /\ db # "none" => global_opt_parsed
  /\ global_opt_parsed => handle \in [dbpath : Text, arch : Text]

ShapeInv == InputInv /\ TypeOK /\ FilesInv /\ HandleInv

-----------------------------------------------------------------------------
LEMMA OneSeq == ASSUME NEW S, NEW x \in S PROVE <<x>> \in Seq(S)
OBVIOUS

LEMMA DbpathText == ASSUME ConfigFileAssumption, TypeOK PROVE Dbpath \in Text
BY DEF TypeOK, Dbpath, ConfigFileAssumption

LEMMA ArchText == ASSUME ConfigFileAssumption, TypeOK PROVE Arch \in Text
BY DEF TypeOK, Arch, ConfigFileAssumption

\* The line that is read, and the call after it.
LEMMA Line1 ==
  ASSUME ShapeInv, Reading
  PROVE  /\ calls \in Seq(Frame) /\ calls # <<>> /\ Len(calls) \in Nat \ {0}
         /\ Call = calls[1] /\ Call \in Frame /\ line \in Line
         /\ Tail(Call.lines) \in Seq(Line) /\ pc = "read" /\ ~Call.including
<1>1. calls \in Seq(Frame) /\ calls # <<>> /\ pc = "read" /\ Call.lines # <<>> /\ ~Call.including
  BY DEF ShapeInv, TypeOK, FilesInv, Reading, Frame
<1>2. Len(calls) \in Nat \ {0}
  BY <1>1, EmptySeq
<1>3. Call = calls[1] /\ Call \in Frame
  <2>1. 1 \in 1..Len(calls)
    BY <1>2
  <2>. QED BY <1>1, <2>1, ElementOfSeq DEF Call
<1>4. Call.lines \in Seq(Line)
  BY <1>3 DEF Frame
<1>. QED BY <1>1, <1>2, <1>3, <1>4 DEF line

\* The innermost call goes on.
LEMMA FirstCall ==
  ASSUME calls \in Seq(Frame), calls # <<>>
  PROVE  /\ Len(calls) \in Nat \ {0} /\ 1 \in 1..Len(calls)
         /\ Call = calls[1] /\ Call \in Frame
<1>1. Len(calls) \in Nat \ {0}
  BY EmptySeq
<1>2. 1 \in 1..Len(calls)
  BY <1>1
<1>. QED BY <1>1, <1>2, ElementOfSeq DEF Call

LEMMA FrameLines ==
  ASSUME NEW c \in Frame, NEW l \in Seq(Line)
  PROVE  [c EXCEPT !.lines = l] \in Frame /\ [c EXCEPT !.lines = l].including = c.including
BY DEF Frame

LEMMA FrameTodo ==
  ASSUME NEW c \in Frame, NEW d \in Seq(Text)
  PROVE  [c EXCEPT !.todo = d] \in Frame /\ [c EXCEPT !.todo = d].including = c.including
BY DEF Frame

LEMMA CallGoesOn ==
  ASSUME calls \in Seq(Frame), calls # <<>>, NEW c \in Frame, calls' = [calls EXCEPT ![1] = c]
  PROVE  /\ calls' \in Seq(Frame) /\ Len(calls') = Len(calls) /\ calls' # <<>>
         /\ calls'[1] = c /\ \A i \in 2..Len(calls) : calls'[i] = calls[i]
<1>1. 1 \in 1..Len(calls) /\ Len(calls) \in Nat \ {0}
  BY FirstCall
<1>2. /\ [calls EXCEPT ![1] = c] \in Seq(Frame)
      /\ Len([calls EXCEPT ![1] = c]) = Len(calls)
  BY <1>1, ExceptSeq
<1>3. DOMAIN calls = 1..Len(calls)
  BY LenProperties, Zenon
<1>4. calls'[1] = c
  BY <1>1, <1>3
<1>5. \A i \in 2..Len(calls) : calls'[i] = calls[i]
  <2>1. \A i \in 2..Len(calls) : i # 1 /\ i \in 1..Len(calls)
    BY <1>1
  <2>. QED BY <1>3, <2>1
<1>. QED BY <1>1, <1>2, <1>4, <1>5, EmptySeq

\* The innermost call goes on, in an Include or not.
LEMMA FilesGoOn ==
  ASSUME ConfigFileAssumption, ShapeInv, calls # <<>>, NEW c \in Frame,
         calls' = [calls EXCEPT ![1] = c], files' = files,
         globs' = IF c.including THEN files ELSE files - 1,
         \/ pc' = "read"
         \/ pc' = "open" /\ c.including
  PROVE  calls' \in Seq(Frame) /\ FilesInv'
<1>1. calls \in Seq(Frame)
  BY DEF ShapeInv, TypeOK, Frame
<1>2. FilesInv
  BY DEF ShapeInv
<1>. QED BY <1>1, <1>2, CallGoesOn DEF FilesInv

\* A line is read.
LEMMA CallReads ==
  ASSUME ConfigFileAssumption, ShapeInv, Reading, ReadLine, UNCHANGED held, pc' = "read"
  PROVE  calls' \in Seq(Frame) /\ FilesInv'
<1>1. calls \in Seq(Frame) /\ calls # <<>> /\ Call = calls[1] /\ Call \in Frame
      /\ Tail(Call.lines) \in Seq(Line) /\ ~Call.including
  BY Line1
<1> DEFINE l == Tail(Call.lines)
           c == [Call EXCEPT !.lines = l]
<1>2. c \in Frame /\ ~c.including
  <2>1. c \in Frame /\ c.including = Call.including
    <3>1. Call \in Frame /\ l \in Seq(Line)
      BY <1>1
    <3>. HIDE DEF l
    <3>. QED BY <3>1, FrameLines
  <2>. HIDE DEF c
  <2>. QED BY <1>1, <2>1, Zenon
<1>3. calls' = [calls EXCEPT ![1] = c]
  BY <1>1 DEF ReadLine
<1>4. files' = files /\ globs' = files - 1
  BY <1>1 DEF ShapeInv, FilesInv, held
<1>. HIDE DEF c
<1>. QED BY <1>1, <1>2, <1>3, <1>4, FilesGoOn

\* The innermost call returns, with its own file and no result of glob: what is
\* left of both is that of the calls outside.
LEMMA CallReturns ==
  ASSUME ConfigFileAssumption, ShapeInv, calls # <<>>, calls' = Tail(calls),
         files' = files - 1, globs' = files - 1,
         pc' \in IF Len(calls) = 1 THEN {"true", "false"} ELSE {"read", "failed"}
  PROVE  calls' \in Seq(Frame) /\ FilesInv'
<1>1. calls \in Seq(Frame) /\ FilesInv
  BY DEF ShapeInv, TypeOK, Frame
<1>2. Tail(calls) \in Seq(Frame) /\ Len(Tail(calls)) = Len(calls) - 1 /\ Len(calls) \in Nat \ {0}
      /\ \A i \in 1..Len(Tail(calls)) : Tail(calls)[i] = calls[i + 1]
  BY <1>1, HeadTailProperties, FirstCall
<1>3. calls' \in Seq(Frame) /\ Len(calls') = Len(calls) - 1 /\ Len(calls) \in Nat \ {0}
  BY <1>2
<1>4. \A i \in 1..(Len(calls) - 1) : calls'[i].including
  <2>1. \A i \in 1..(Len(calls) - 1) : i + 1 \in 2..Len(calls) /\ calls'[i] = calls[i + 1]
    BY <1>2, <1>3
  <2>. QED BY <1>1, <2>1 DEF FilesInv
<1>5. files' = Len(calls') /\ files' <= MaxOpen
  BY <1>1, <1>3 DEF FilesInv, ConfigFileAssumption
<1>6. \A i \in 2..Len(calls') : calls'[i].including
  <2>1. \A i \in 2..Len(calls') : i \in 1..(Len(calls) - 1)
    BY <1>3
  <2>. QED BY <1>4, <2>1
<1>7. CASE Len(calls) = 1
  <2>1. calls' = <<>>
    BY <1>3, <1>7, EmptySeq
  <2>. QED BY <1>3, <1>5, <1>6, <1>7, <2>1 DEF FilesInv
<1>8. CASE Len(calls) # 1
  <2>1. calls' # <<>> /\ 1 \in 1..(Len(calls) - 1)
    <3>1. Len(calls') # 0
      BY <1>3, <1>8
    <3>2. calls' # <<>>
      BY <3>1
    <3>3. 1 \in 1..(Len(calls) - 1)
      BY <1>3, <1>8
    <3>. QED BY <3>2, <3>3
  <2>2. calls'[1].including
    BY <1>4, <2>1
  <2>. QED BY <1>3, <1>5, <1>6, <1>8, <2>1, <2>2 DEF FilesInv
<1>. QED BY <1>7, <1>8

\* What is held, by its invariant.
LEMMA FilesHeld ==
  ASSUME ConfigFileAssumption, calls \in Seq(Frame), FilesInv
  PROVE  files \in 0..MaxOpen /\ globs \in Nat /\ FilesClosed
<1>1. Len(calls) \in Nat /\ (calls # <<>> => Len(calls) # 0)
  BY EmptySeq
<1>. QED BY <1>1 DEF FilesInv, FilesClosed, ConfigFileAssumption

LEMMA FilesHeldNext ==
  ASSUME ConfigFileAssumption, calls' \in Seq(Frame), FilesInv'
  PROVE  files' \in 0..MaxOpen /\ globs' \in Nat
<1>1. Len(calls') \in Nat /\ (calls' # <<>> => Len(calls') # 0)
  BY EmptySeq
<1>. QED BY <1>1 DEF FilesInv, ConfigFileAssumption

\* A line is read.
LEMMA ShapeRead ==
  ASSUME ConfigFileAssumption, ShapeInv, Reading, flat' = Append(flat, line),
         calls' \in Seq(Frame), FilesInv',
         UNCHANGED <<input, opening>>, pc' \in {"read", "failed", "false"},
         cause' \in {"none", "open", "init", "register"},
         arch' \in Text \cup {"none"}, dbpath' \in Text \cup {"none"}, db' \in Text \cup {"none"},
         handle' \in {NoHandle} \cup [dbpath : Text, arch : Text],
         in_option' \in BOOLEAN, global_opt_parsed' \in BOOLEAN,
         repos' \in Seq(Text), servers' \in Seq([db : Text, url : Text, arch : Text]),
         HandleInv'
  PROVE  ShapeInv'
<1>1. line \in Line
  BY Line1
<1>2. flat' \in Seq(Line)
  <2>1. flat \in Seq(Line)
    BY DEF ShapeInv, TypeOK
  <2>. QED BY <1>1, <2>1, AppendProperties, Zenon
<1>3. TypeOK'
  BY <1>2, FilesHeldNext DEF ShapeInv, TypeOK, Frame
<1>4. InputInv'
  BY DEF ShapeInv, InputInv, input
<1>. QED BY <1>3, <1>4 DEF ShapeInv

LEMMA ShapeSame ==
  ASSUME ConfigFileAssumption, ShapeInv, Reading, flat' = Append(flat, line),
         calls' \in Seq(Frame), FilesInv',
         UNCHANGED <<input, statics, output, options, opening, pc, cause>>
  PROVE  ShapeInv'
<1>1. pc = "read"
  BY Line1
<1>2. HandleInv'
  BY DEF ShapeInv, HandleInv, statics, options
<1>. QED BY <1>1, <1>2, ShapeRead DEF statics, output, options, ShapeInv, TypeOK

LEMMA ShapePlain ==
  ASSUME ConfigFileAssumption, ShapeInv, SkipLine \/ IncludeNothing \/ OtherKey
  PROVE  ShapeInv'
<1>1. Reading /\ ReadLine /\ UNCHANGED held
      /\ UNCHANGED <<input, statics, output, options, opening, pc, cause>>
  BY DEF SkipLine, IncludeNothing, OtherKey, Assigns
<1>2. pc' = "read" /\ flat' = Append(flat, line)
  BY <1>1, Line1 DEF ReadLine
<1>. QED BY <1>1, <1>2, CallReads, ShapeSame

LEMMA ShapeInclude ==
  ASSUME ConfigFileAssumption, ShapeInv, Include
  PROVE  ShapeInv'
<1> DEFINE todo == IF line.value \in DOMAIN Globs THEN Globs[line.value] ELSE <<line.value>>
           l == Tail(Call.lines)
           c == [[[Call EXCEPT !.lines = l] EXCEPT !.including = TRUE] EXCEPT !.todo = todo]
<1>1. Reading /\ flat' = Append(flat, line)
      /\ UNCHANGED <<input, statics, output, options, opening, pc, cause, files>>
      /\ globs' = globs + 1
      /\ calls' = [calls EXCEPT ![1].lines = Tail(@), ![1].including = TRUE, ![1].todo = todo]
  BY DEF Include, Assigns, Glob
<1>2. calls \in Seq(Frame) /\ calls # <<>> /\ Call = calls[1] /\ Call \in Frame /\ ~Call.including
      /\ l \in Seq(Line) /\ line \in Line /\ pc = "read"
  BY <1>1, Line1
<1>3. todo \in Seq(Text)
  <2>1. line.value \in Text
    BY <1>2 DEF Line
  <2>2. CASE line.value \in DOMAIN Globs
    BY <2>2 DEF ConfigFileAssumption
  <2>3. CASE line.value \notin DOMAIN Globs
    <3>1. <<line.value>> \in Seq(Text)
      BY <2>1, OneSeq, Zenon
    <3>. QED BY <2>3, <3>1
  <2>. QED BY <2>2, <2>3
<1>4. c \in Frame /\ c.including
  <2>. HIDE DEF l, todo
  <2>. QED BY <1>2, <1>3 DEF Frame
<1>5. calls' = [calls EXCEPT ![1] = c]
  <2>1. 1 \in DOMAIN calls
    <3>1. DOMAIN calls = 1..Len(calls)
      BY <1>2, LenProperties, Zenon
    <3>. QED BY <1>2, <3>1, FirstCall
  <2>2. l = Tail(calls[1].lines)
    BY <1>2
  <2>. HIDE DEF l, todo
  <2>. QED BY <1>1, <1>2, <2>1, <2>2
<1>6. globs' = files
  BY <1>1, <1>2, FirstCall DEF ShapeInv, FilesInv
<1>. HIDE DEF c
<1>7. calls' \in Seq(Frame) /\ FilesInv'
  BY <1>1, <1>2, <1>4, <1>5, <1>6, FilesGoOn
<1>. QED BY <1>1, <1>7, ShapeSame

-----------------------------------------------------------------------------
\* Every step keeps the shape of the state.
SectionFails(initialized) == InitFails \/ RegisterFails(initialized)

LEMMA ShapeSection ==
  ASSUME ConfigFileAssumption, ShapeInv, NEW initialized \in BOOLEAN,
         SectionRepo(initialized) \/ SectionFails(initialized)
  PROVE  ShapeInv'
<1>1. Reading /\ flat' = Append(flat, line) /\ UNCHANGED <<input, opening>>
      /\ pc' \in {"read", "failed", "false"} /\ cause' \in {"none", "open", "init", "register"}
      /\ calls' \in Seq(Frame) /\ FilesInv'
  <2>1. CASE SectionRepo(initialized)
    <3>1. Reading /\ ReadLine /\ UNCHANGED <<input, held, opening, pc, cause>>
      BY <2>1 DEF SectionRepo
    <3>. QED BY <3>1, CallReads, Line1 DEF ReadLine, ShapeInv, TypeOK
  <2>2. CASE SectionFails(initialized)
    <3>1. Reading /\ flat' = Append(flat, line) /\ UNCHANGED <<input, opening>>
          /\ Fclose /\ ReturnFalse /\ globs' = globs /\ cause' \in {"init", "register"}
      BY <2>2 DEF SectionFails, InitFails, RegisterFails
    <3>2. globs = files - 1 /\ calls # <<>>
      BY <3>1, Line1 DEF ShapeInv, FilesInv
    <3>3. calls' = Tail(calls) /\ files' = files - 1
          /\ pc' = IF Len(calls) = 1 THEN "false" ELSE "failed"
      BY <3>1 DEF Fclose, ReturnFalse
    <3>. QED BY <3>1, <3>2, <3>3, CallReturns
  <2>. QED BY <2>1, <2>2
<1>2. line \in Line /\ line.value \in Text
  BY <1>1, Line1 DEF Line
<1>3. /\ arch \in Text \cup {"none"} /\ dbpath \in Text \cup {"none"} /\ db \in Text \cup {"none"}
      /\ handle \in {NoHandle} \cup [dbpath : Text, arch : Text]
      /\ repos \in Seq(Text) /\ servers \in Seq([db : Text, url : Text, arch : Text])
      /\ global_opt_parsed \in BOOLEAN
      /\ global_opt_parsed => handle \in [dbpath : Text, arch : Text]
  BY DEF ShapeInv, TypeOK, HandleInv
<1>4. /\ in_option' \in BOOLEAN /\ db' \in Text \cup {"none"}
      /\ servers' \in Seq([db : Text, url : Text, arch : Text])
  BY <1>2, <1>3 DEF SectionRepo, SectionFails, InitFails, RegisterFails, output
<1>5. repos' \in Seq(Text)
  <2>1. repos' = repos \/ repos' = Append(repos, line.value)
    BY DEF SectionRepo, SectionFails, InitFails, RegisterFails, output
  <2>. QED BY <1>2, <1>3, <2>1
<1>6. ASSUME InitAlpm
      PROVE  /\ arch' \in Text \cup {"none"} /\ dbpath' \in Text \cup {"none"}
             /\ handle' \in [dbpath : Text, arch : Text]
  BY <1>6, DbpathText, ArchText DEF InitAlpm, ShapeInv
<1>7. /\ global_opt_parsed' \in BOOLEAN
      /\ arch' \in Text \cup {"none"} /\ dbpath' \in Text \cup {"none"}
      /\ handle' \in {NoHandle} \cup [dbpath : Text, arch : Text]
      /\ HandleInv'
  <2>1. CASE SectionRepo(initialized)
    <3>1. global_opt_parsed' = TRUE
      BY <2>1 DEF SectionRepo
    <3>2. CASE global_opt_parsed
      <4>1. UNCHANGED options
        BY <2>1, <3>2 DEF SectionRepo
      <4>. QED BY <1>3, <3>1, <3>2, <4>1 DEF options, HandleInv
    <3>3. CASE ~global_opt_parsed
      <4>1. InitAlpm
        BY <2>1, <3>3 DEF SectionRepo
      <4>. QED BY <1>6, <3>1, <4>1 DEF HandleInv
    <3>. QED BY <3>2, <3>3
  <2>2. CASE RegisterFails(initialized)
    <3>1. global_opt_parsed' = TRUE
      BY <2>2 DEF SectionFails, InitFails, RegisterFails
    <3>2. CASE global_opt_parsed
      <4>1. UNCHANGED options
        BY <2>2, <3>2 DEF SectionFails, InitFails, RegisterFails
      <4>. QED BY <1>3, <3>1, <3>2, <4>1 DEF options, HandleInv
    <3>3. CASE ~global_opt_parsed
      <4>1. InitAlpm
        BY <2>2, <3>3 DEF SectionFails, InitFails, RegisterFails
      <4>. QED BY <1>6, <3>1, <4>1 DEF HandleInv
    <3>. QED BY <3>2, <3>3
  <2>3. CASE InitFails
    <3>1. global_opt_parsed' = global_opt_parsed /\ arch' = arch /\ handle' = handle
          /\ dbpath' = Dbpath /\ db' = "none" /\ ~global_opt_parsed
      BY <2>3 DEF SectionFails, InitFails, RegisterFails
    <3>2. dbpath' \in Text
      BY <3>1, DbpathText DEF ShapeInv
    <3>. QED BY <1>3, <3>1, <3>2 DEF HandleInv
  <2>. QED BY <2>1, <2>2, <2>3 DEF SectionFails
<1>. QED BY <1>1, <1>4, <1>5, <1>7, ShapeRead

LEMMA ShapeOptions ==
  ASSUME ConfigFileAssumption, ShapeInv, SectionOptions
  PROVE  ShapeInv'
<1>1. Reading /\ ReadLine /\ UNCHANGED <<input, held, opening>> /\ pc' = pc /\ cause' = cause
      /\ db' = "none" /\ in_option' = (in_option \/ ~global_opt_parsed)
      /\ global_opt_parsed' = global_opt_parsed /\ UNCHANGED <<options, output>>
  BY DEF SectionOptions
<1>2. pc = "read"
  BY <1>1, Line1
<1>3. in_option' \in BOOLEAN
  BY <1>1
<1>4. HandleInv'
  BY <1>1 DEF ShapeInv, HandleInv, options
<1>5. flat' = Append(flat, line)
  BY <1>1 DEF ReadLine
<1>. QED BY <1>1, <1>2, <1>3, <1>4, <1>5, CallReads, ShapeRead DEF options, output, ShapeInv, TypeOK

LEMMA ShapeServer ==
  ASSUME ConfigFileAssumption, ShapeInv, Server
  PROVE  ShapeInv'
<1>1. Reading /\ ReadLine /\ UNCHANGED <<input, held, opening>> /\ pc' = pc /\ cause' = cause
      /\ UNCHANGED <<options, statics, repos>>
      /\ servers' = IF reg /\ db # "none"
                    THEN Append(servers, [db |-> db, url |-> line.value, arch |-> handle.arch])
                    ELSE servers
  BY DEF Server, Assigns
<1>2. pc = "read" /\ line \in Line /\ line.value \in Text
  BY <1>1, Line1 DEF Line
<1>3. servers' \in Seq([db : Text, url : Text, arch : Text])
  <2>1. servers \in Seq([db : Text, url : Text, arch : Text])
    BY DEF ShapeInv, TypeOK
  <2>2. CASE reg /\ db # "none"
    <3>1. db \in Text /\ handle.arch \in Text
      BY <2>2 DEF ShapeInv, TypeOK, HandleInv
    <3>2. [db |-> db, url |-> line.value, arch |-> handle.arch] \in [db : Text, url : Text, arch : Text]
      BY <1>2, <3>1
    <3>. QED BY <1>1, <2>1, <2>2, <3>2, AppendProperties
  <2>3. CASE ~(reg /\ db # "none")
    <3>1. servers' = servers
      BY <1>1, <2>3
    <3>. QED BY <2>1, <3>1
  <2>. QED BY <2>2, <2>3
<1>4. HandleInv'
  BY <1>1 DEF ShapeInv, HandleInv, options, statics
<1>5. flat' = Append(flat, line)
  BY <1>1 DEF ReadLine
<1>. QED BY <1>1, <1>2, <1>3, <1>4, <1>5, CallReads, ShapeRead DEF options, statics, ShapeInv, TypeOK

LEMMA ShapeAssign ==
  ASSUME ConfigFileAssumption, ShapeInv, Architecture \/ DBPath
  PROVE  ShapeInv'
<1>1. Reading /\ ReadLine /\ UNCHANGED <<input, held, opening>> /\ pc' = pc /\ cause' = cause
      /\ UNCHANGED <<handle, statics, output>>
      /\ arch' \in {arch, Machine, line.value} /\ dbpath' \in {dbpath, line.value}
  BY DEF Architecture, DBPath, Assigns
<1>2. pc = "read" /\ line \in Line /\ line.value \in Text /\ Machine \in Text
  BY <1>1, Line1 DEF Line, ConfigFileAssumption
<1>3. arch' \in Text \cup {"none"} /\ dbpath' \in Text \cup {"none"}
  BY <1>1, <1>2 DEF ShapeInv, TypeOK
<1>4. HandleInv'
  BY <1>1 DEF ShapeInv, HandleInv, statics
<1>5. flat' = Append(flat, line)
  BY <1>1 DEF ReadLine
<1>. QED BY <1>1, <1>2, <1>3, <1>4, <1>5, CallReads, ShapeRead DEF statics, output, ShapeInv, TypeOK

\* The calls: OpenFile, OpenFails, EndOfFile, IncludeNext, IncludeFails, IncludeEnd.
LEMMA ShapeCalls ==
  ASSUME ConfigFileAssumption, ShapeInv, calls' \in Seq(Frame), FilesInv',
         UNCHANGED <<input, options, statics, output, flat>>,
         opening' \in Text, pc' \in {"open", "read", "failed", "true", "false"},
         cause' \in {"none", "open", "init", "register"}
  PROVE  ShapeInv'
<1>1. TypeOK'
  BY FilesHeldNext DEF ShapeInv, TypeOK, Frame, options, statics, output
<1>2. InputInv'
  BY DEF ShapeInv, InputInv, input
<1>3. HandleInv'
  BY DEF ShapeInv, HandleInv, options, statics
<1>. QED BY <1>1, <1>2, <1>3 DEF ShapeInv

LEMMA ShapeOpen ==
  ASSUME ConfigFileAssumption, ShapeInv, OpenFile
  PROVE  ShapeInv'
<1>1. /\ calls \in Seq(Frame) /\ opening \in Text /\ Len(calls) \in Nat
      /\ cause \in {"none", "open", "init", "register"} /\ fs \in FileSystems
      /\ MaxOpen \in Nat
  BY DEF ShapeInv, TypeOK, InputInv, Frame, ConfigFileAssumption
<1>2. UNCHANGED <<input, options, statics, output, globs, opening, flat, cause>>
      /\ pc = "open" /\ opening \in DOMAIN fs /\ files < MaxOpen /\ files' = files + 1
  BY DEF OpenFile, Fopen
<1> DEFINE c == [lines |-> fs[opening], including |-> FALSE, todo |-> <<>>]
<1>3. c \in Frame /\ ~c.including
  <2>1. fs[opening] \in Seq(Line)
    BY <1>1, <1>2 DEF ConfigFileAssumption
  <2>2. <<>> \in Seq(Text)
    BY EmptySeq
  <2>. QED BY <2>1, <2>2 DEF Frame
<1>4. calls' = <<c>> \o calls /\ pc' = "read"
  BY DEF OpenFile
<1>. HIDE DEF c
<1>5. <<c>> \in Seq(Frame) /\ Len(<<c>>) = 1 /\ <<c>>[1] = c
  BY <1>3
<1>6. /\ calls' \in Seq(Frame) /\ Len(calls') = Len(calls) + 1
      /\ calls'[1] = c /\ \A i \in 2..Len(calls') : calls'[i] = calls[i - 1]
  <2>1. /\ <<c>> \o calls \in Seq(Frame) /\ Len(<<c>> \o calls) = 1 + Len(calls)
        /\ \A i \in 1..(1 + Len(calls)) :
             (<<c>> \o calls)[i] = IF i <= 1 THEN <<c>>[i] ELSE calls[i - 1]
    BY <1>1, <1>5, ConcatProperties
  <2>2. 1 \in 1..(1 + Len(calls)) /\ \A i \in 2..(1 + Len(calls)) : i \in 1..(1 + Len(calls)) /\ ~(i <= 1)
    BY <1>1
  <2>. QED BY <1>1, <1>4, <1>5, <2>1, <2>2
<1>7. calls' # <<>>
  BY <1>1, <1>6, EmptySeq
<1>8. \A i \in 2..Len(calls') : calls'[i].including
  <2>1. ASSUME NEW i \in 1..Len(calls) PROVE calls[i].including
    BY <1>1, <1>2, <2>1 DEF ShapeInv, FilesInv
  <2>2. \A i \in 2..Len(calls') : i - 1 \in 1..Len(calls)
    BY <1>1, <1>6
  <2>. QED BY <1>6, <2>1, <2>2
<1>9. FilesInv'
  <2>1. files = Len(calls) /\ globs = files
    BY <1>2 DEF ShapeInv, FilesInv
  <2>. QED BY <1>1, <1>2, <1>3, <1>4, <1>6, <1>7, <1>8, <2>1 DEF FilesInv
<1>. QED BY <1>1, <1>2, <1>4, <1>6, <1>9, ShapeCalls

LEMMA ShapeOpenFails ==
  ASSUME ConfigFileAssumption, ShapeInv, OpenFails
  PROVE  ShapeInv'
<1>1. calls \in Seq(Frame) /\ opening \in Text /\ FilesInv
  BY DEF ShapeInv, TypeOK, Frame
<1>2. UNCHANGED <<input, options, statics, output, calls, files, globs, opening, flat>>
      /\ pc = "open" /\ pc' = (IF calls = <<>> THEN "false" ELSE "failed") /\ cause' = "open"
  BY DEF OpenFails, held
<1>3. FilesInv'
  BY <1>1, <1>2 DEF FilesInv
<1>. QED BY <1>1, <1>2, <1>3, ShapeCalls

LEMMA ShapeReturn ==
  ASSUME ConfigFileAssumption, ShapeInv, EndOfFile \/ IncludeFails
  PROVE  ShapeInv'
<1>1. calls \in Seq(Frame) /\ opening \in Text /\ FilesInv /\ calls # <<>>
      /\ cause \in {"none", "open", "init", "register"} /\ Call = calls[1]
  <2>1. calls \in Seq(Frame) /\ opening \in Text /\ FilesInv
        /\ cause \in {"none", "open", "init", "register"} /\ pc \in {"read", "failed"}
    BY DEF ShapeInv, TypeOK, Frame, EndOfFile, IncludeFails
  <2>2. calls # <<>>
    BY <2>1 DEF FilesInv
  <2>. QED BY <2>1, <2>2, FirstCall
<1>2. UNCHANGED <<input, options, statics, output, opening, flat, cause>>
      /\ calls' = Tail(calls) /\ files' = files - 1
      /\ pc' = IF Len(calls) = 1 THEN pc' ELSE pc'
  BY DEF EndOfFile, IncludeFails, Fclose, ReturnTrue, ReturnFalse
<1>3. pc' \in IF Len(calls) = 1 THEN {"true", "false"} ELSE {"read", "failed"}
  BY DEF EndOfFile, IncludeFails, ReturnTrue, ReturnFalse
<1>4. globs' = files - 1
  <2>1. CASE EndOfFile
    <3>1. globs' = globs /\ ~calls[1].including
      BY <1>1, <2>1 DEF EndOfFile
    <3>. QED BY <1>1, <3>1 DEF FilesInv
  <2>2. CASE IncludeFails
    <3>1. globs' = globs - 1 /\ pc = "failed"
      BY <2>2 DEF IncludeFails, Globfree
    <3>. QED BY <1>1, <3>1 DEF FilesInv
  <2>. QED BY <2>1, <2>2
<1>5. calls' \in Seq(Frame) /\ FilesInv'
  BY <1>1, <1>2, <1>3, <1>4, CallReturns
<1>. QED BY <1>1, <1>2, <1>3, <1>5, ShapeCalls

LEMMA ShapeIncludeNext ==
  ASSUME ConfigFileAssumption, ShapeInv, IncludeNext
  PROVE  ShapeInv'
<1>1. /\ calls \in Seq(Frame) /\ calls # <<>> /\ FilesInv
      /\ cause \in {"none", "open", "init", "register"} /\ Call.todo # <<>> /\ Call.including
  BY DEF ShapeInv, TypeOK, Frame, IncludeNext, FilesInv
<1>2. UNCHANGED <<input, options, statics, output, files, globs, flat>> /\ cause' = cause
      /\ opening' = Head(Call.todo) /\ pc' = "open"
      /\ calls' = [calls EXCEPT ![1].todo = Tail(@)]
  BY DEF IncludeNext, held
<1>3. Call \in Frame /\ Call = calls[1] /\ Call.todo \in Seq(Text)
  BY <1>1, FirstCall DEF Frame
<1>4. Head(Call.todo) \in Text /\ Tail(Call.todo) \in Seq(Text)
  BY <1>1, <1>3, HeadTailProperties
<1> DEFINE d == Tail(Call.todo)
           c == [Call EXCEPT !.todo = d]
<1>5. c \in Frame /\ c.including
  <2>1. c \in Frame /\ c.including = Call.including
    <3>1. Call \in Frame /\ d \in Seq(Text)
      BY <1>3, <1>4
    <3>. HIDE DEF d
    <3>. QED BY <3>1, FrameTodo
  <2>. HIDE DEF c
  <2>. QED BY <1>1, <2>1, Zenon
<1>6. calls' = [calls EXCEPT ![1] = c]
  BY <1>2, <1>3
<1>7. globs' = files
  BY <1>1, <1>2, <1>3 DEF FilesInv
<1>. HIDE DEF c
<1>8. calls' \in Seq(Frame) /\ FilesInv'
  BY <1>1, <1>2, <1>5, <1>6, <1>7, FilesGoOn
<1>. QED BY <1>1, <1>2, <1>4, <1>8, ShapeCalls

LEMMA ShapeIncludeEnd ==
  ASSUME ConfigFileAssumption, ShapeInv, IncludeEnd
  PROVE  ShapeInv'
<1>1. /\ calls \in Seq(Frame) /\ calls # <<>> /\ FilesInv /\ opening \in Text
      /\ cause \in {"none", "open", "init", "register"} /\ Call.including
  BY DEF ShapeInv, TypeOK, Frame, IncludeEnd, FilesInv
<1>2. UNCHANGED <<input, options, statics, output, files, flat, opening>> /\ cause' = cause
      /\ pc' = pc /\ pc = "read" /\ globs' = globs - 1
      /\ calls' = [calls EXCEPT ![1].including = FALSE]
  BY DEF IncludeEnd, Globfree
<1>3. Call \in Frame /\ Call = calls[1]
  BY <1>1, FirstCall
<1> DEFINE c == [Call EXCEPT !.including = FALSE]
<1>4. c \in Frame /\ ~c.including
  BY <1>3 DEF Frame
<1>5. calls' = [calls EXCEPT ![1] = c]
  BY <1>2, <1>3
<1>6. globs' = files - 1
  BY <1>1, <1>2, <1>3 DEF FilesInv
<1>. HIDE DEF c
<1>7. calls' \in Seq(Frame) /\ FilesInv'
  BY <1>1, <1>2, <1>4, <1>5, <1>6, FilesGoOn
<1>. QED BY <1>1, <1>2, <1>7, ShapeCalls

LEMMA NextShape == ASSUME ConfigFileAssumption, ShapeInv, [Next]_vars PROVE ShapeInv'
<1>1. CASE OpenFile \/ OpenFails
  BY <1>1, ShapeOpen, ShapeOpenFails
<1>2. CASE EndOfFile \/ IncludeFails
  BY <1>2, ShapeReturn
<1>3. CASE SkipLine \/ IncludeNothing \/ OtherKey
  BY <1>3, ShapePlain
<1>4. CASE SectionOptions
  BY <1>4, ShapeOptions
<1>5. CASE InitFails \/ \E initialized \in BOOLEAN : SectionRepo(initialized) \/ RegisterFails(initialized)
  BY <1>5, ShapeSection DEF SectionFails
<1>6. CASE Include
  BY <1>6, ShapeInclude
<1>7. CASE IncludeNext \/ IncludeEnd
  BY <1>7, ShapeIncludeNext, ShapeIncludeEnd
<1>8. CASE Server
  BY <1>8, ShapeServer
<1>9. CASE Architecture \/ DBPath
  BY <1>9, ShapeAssign
<1>10. CASE UNCHANGED vars
  <2>1. ShapeInv <=> ShapeInv'
    BY <1>10 DEF vars, input, options, statics, output, control, held, ShapeInv, InputInv, TypeOK,
       FilesInv, HandleInv
  <2>. QED BY <2>1
<1>. QED BY <1>1, <1>2, <1>3, <1>4, <1>5, <1>6, <1>7, <1>8, <1>9, <1>10 DEF Next

LEMMA InitShape == ASSUME ConfigFileAssumption, Init PROVE ShapeInv
<1>1. InputInv
  BY DEF Init, InputInv
<1>2. TypeOK
  <2>1. /\ arch = "none" /\ dbpath \in {"none", "given"} /\ handle = NoHandle /\ db = "none"
        /\ in_option \in BOOLEAN /\ global_opt_parsed \in BOOLEAN
        /\ repos = <<>> /\ servers = <<>> /\ calls = <<>> /\ opening = Configfile
        /\ pc = "open" /\ flat = <<>> /\ cause = "none" /\ files = 0 /\ globs = 0
    BY DEF Init
  <2>2. files \in 0..MaxOpen
    BY <2>1 DEF ConfigFileAssumption
  <2>. QED BY <2>1, <2>2 DEF TypeOK, ConfigFileAssumption
<1>3. FilesInv
  <2>1. calls = <<>> /\ files = 0 /\ globs = 0 /\ pc = "open"
    BY DEF Init
  <2>2. Len(calls) = 0
    BY <2>1
  <2>. QED BY <2>1, <2>2 DEF FilesInv, ConfigFileAssumption
<1>4. HandleInv
  BY DEF Init, HandleInv
<1>. QED BY <1>1, <1>2, <1>3, <1>4 DEF ShapeInv

-----------------------------------------------------------------------------
(***************************************************************************)
(* What lines mean, of any sequence of them, and what one more line adds.  *)
(***************************************************************************)
HeadersOf(s, i) == {j \in 1..i : IsSection(s[j])}
SectionOf(s, i) ==
  IF HeadersOf(s, i) = {} THEN "none"
  ELSE s[CHOOSE j \in HeadersOf(s, i) : \A k \in HeadersOf(s, i) : k <= j].value
ReposOf(s) == {j \in HeadersOf(s, Len(s)) : s[j].value # "options"}
Sets(l, key) == l.what = key /\ IsAssignment(l)
SettingsOf(s, key) == {i \in 1..Len(s) : /\ Sets(s[i], key) /\ SectionOf(s, i) = "options"
                                         /\ \A r \in ReposOf(s) : i < r}
ServersOf(s) == {i \in 1..Len(s) : Sets(s[i], "Server") /\ SectionOf(s, i) \notin {"none", "options"}}

LEMMA OfFlat ==
  /\ \A i : SectionAt(i) = SectionOf(flat, i)
  /\ Repos = ReposOf(flat)
  /\ \A key : Settings(key) = SettingsOf(flat, key)
<1>1. \A i : Headers(i) = HeadersOf(flat, i)
  BY DEF Headers, HeadersOf
<1>2. \A i : SectionAt(i) = SectionOf(flat, i)
  BY DEF SectionAt, SectionOf, Headers, HeadersOf
<1>3. Repos = ReposOf(flat)
  BY <1>1 DEF Repos, ReposOf
<1>4. \A key : Settings(key) = SettingsOf(flat, key)
  BY <1>2, <1>3 DEF Settings, SettingsOf, Sets
<1>. QED BY <1>2, <1>3, <1>4

\* A line stands in the section whose header was read last.
LEMMA SectionIs ==
  ASSUME NEW s \in Seq(Line), NEW i \in 0..Len(s)
  PROVE  /\ HeadersOf(s, i) = {} => SectionOf(s, i) = "none"
         /\ \A j \in HeadersOf(s, i) :
              (\A k \in HeadersOf(s, i) : k <= j) => SectionOf(s, i) = s[j].value
         /\ HeadersOf(s, i) # {} => \E j \in HeadersOf(s, i) : \A k \in HeadersOf(s, i) : k <= j
         /\ SectionOf(s, i) \in Text \cup {"none"}
<1>1. HeadersOf(s, i) \in SUBSET Nat /\ HeadersOf(s, i) \subseteq 1..i /\ i \in Nat
      /\ HeadersOf(s, i) \subseteq 1..Len(s)
  BY DEF HeadersOf
<1> DEFINE H == HeadersOf(s, i)
<1>2. H # {} => \E j \in H : \A k \in H : k <= j
  <2>1. \A k \in H : k <= i
    BY <1>1
  <2>. HIDE DEF H
  <2>. QED BY <1>1, <2>1, GreatestNat DEF H
<1>3. ASSUME NEW j \in H, \A k \in H : k <= j
      PROVE  j = CHOOSE m \in H : \A k \in H : k <= m
  <2>1. \A m \in H : (\A k \in H : k <= m) => m = j
    BY <1>1, <1>3
  <2>. HIDE DEF H
  <2>. QED BY <1>3, <2>1
<1>4. \A j \in H : (\A k \in H : k <= j) => SectionOf(s, i) = s[j].value
  BY <1>3 DEF SectionOf
<1>5. \A j \in H : s[j].value \in Text
  <2>1. \A j \in H : s[j] \in Line
    BY <1>1, ElementOfSeq
  <2>. QED BY <2>1 DEF Line
<1>6. HeadersOf(s, i) = {} => SectionOf(s, i) = "none"
  BY DEF SectionOf
<1>. QED BY <1>2, <1>4, <1>5, <1>6

LEMMA RepoSection ==
  ASSUME NEW s \in Seq(Line), NEW i \in 0..Len(s), SectionOf(s, i) \notin {"none", "options"}
  PROVE  ReposOf(s) # {}
<1>1. PICK j \in HeadersOf(s, i) : \A k \in HeadersOf(s, i) : k <= j
  BY SectionIs
<1>2. s[j].value # "options"
  BY <1>1, SectionIs
<1>3. j \in HeadersOf(s, Len(s))
  BY <1>1 DEF HeadersOf
<1>. QED BY <1>2, <1>3 DEF ReposOf

\* One more line.
LEMMA SectionsAppend ==
  ASSUME NEW s \in Seq(Line), NEW l \in Line, NEW t \in Seq(Line), NEW n \in Nat,
         Len(s) = n, Len(t) = n + 1, \A i \in 1..n : t[i] = s[i], t[n + 1] = l
  PROVE  /\ \A i \in 0..n : HeadersOf(t, i) = HeadersOf(s, i) /\ SectionOf(t, i) = SectionOf(s, i)
         /\ HeadersOf(t, n + 1) = HeadersOf(s, n) \cup (IF IsSection(l) THEN {n + 1} ELSE {})
         /\ SectionOf(t, n + 1) = IF IsSection(l) THEN l.value ELSE SectionOf(s, n)
         /\ ReposOf(t) = ReposOf(s) \cup (IF IsSection(l) /\ l.value # "options" THEN {n + 1} ELSE {})
<1>1. ASSUME NEW i \in 0..n
      PROVE  HeadersOf(t, i) = HeadersOf(s, i) /\ SectionOf(t, i) = SectionOf(s, i)
  <2>1. HeadersOf(t, i) = HeadersOf(s, i)
    BY DEF HeadersOf
  <2>2. CASE HeadersOf(s, i) = {}
    BY <2>1, <2>2 DEF SectionOf
  <2>3. CASE HeadersOf(s, i) # {}
    <3>1. PICK j \in HeadersOf(s, i) : \A k \in HeadersOf(s, i) : k <= j
      BY <2>3, SectionIs
    <3>2. SectionOf(s, i) = s[j].value
      BY <3>1, SectionIs
    <3>3. SectionOf(t, i) = t[j].value
      <4>1. i \in 0..Len(t)
        OBVIOUS
      <4>. QED BY <2>1, <3>1, <4>1, SectionIs
    <3>4. j \in 1..n
      BY <3>1 DEF HeadersOf
    <3>. QED BY <2>1, <3>2, <3>3, <3>4
  <2>. QED BY <2>2, <2>3
<1>2. HeadersOf(t, n + 1) = HeadersOf(s, n) \cup (IF IsSection(l) THEN {n + 1} ELSE {})
  <2>1. \A j : j \in 1..(n + 1) <=> j \in 1..n \/ j = n + 1
    OBVIOUS
  <2>2. CASE IsSection(l)
    BY <2>1, <2>2 DEF HeadersOf
  <2>3. CASE ~IsSection(l)
    BY <2>1, <2>3 DEF HeadersOf
  <2>. QED BY <2>2, <2>3
<1>3. SectionOf(t, n + 1) = IF IsSection(l) THEN l.value ELSE SectionOf(s, n)
  <2>0. n + 1 \in 0..Len(t) /\ n \in 0..Len(s)
    OBVIOUS
  <2>1. CASE IsSection(l)
    <3>1. n + 1 \in HeadersOf(t, n + 1) /\ \A k \in HeadersOf(t, n + 1) : k <= n + 1
      BY <2>1 DEF HeadersOf
    <3>. QED BY <2>0, <2>1, <3>1, SectionIs
  <2>2. CASE ~IsSection(l)
    <3>1. HeadersOf(t, n + 1) = HeadersOf(s, n)
      BY <1>2, <2>2
    <3>2. CASE HeadersOf(s, n) = {}
      BY <2>2, <3>1, <3>2 DEF SectionOf
    <3>3. CASE HeadersOf(s, n) # {}
      <4>1. PICK j \in HeadersOf(s, n) : \A k \in HeadersOf(s, n) : k <= j
        BY <2>0, <3>3, SectionIs
      <4>2. SectionOf(s, n) = s[j].value /\ SectionOf(t, n + 1) = t[j].value
        BY <2>0, <3>1, <4>1, SectionIs
      <4>3. j \in 1..n
        BY <4>1 DEF HeadersOf
      <4>. QED BY <2>2, <4>2, <4>3
    <3>. QED BY <3>2, <3>3
  <2>. QED BY <2>1, <2>2
<1>4. ReposOf(t) = ReposOf(s) \cup (IF IsSection(l) /\ l.value # "options" THEN {n + 1} ELSE {})
  <2>1. \A j \in HeadersOf(s, n) : t[j] = s[j]
    BY DEF HeadersOf
  <2>2. CASE IsSection(l) /\ l.value # "options"
    BY <1>2, <2>1, <2>2 DEF ReposOf
  <2>3. CASE ~(IsSection(l) /\ l.value # "options")
    BY <1>2, <2>1, <2>3 DEF ReposOf
  <2>. QED BY <2>2, <2>3
<1>. QED BY <1>1, <1>2, <1>3, <1>4

LEMMA SettingsAppend ==
  ASSUME NEW s \in Seq(Line), NEW l \in Line, NEW t \in Seq(Line), NEW n \in Nat,
         Len(s) = n, Len(t) = n + 1, \A i \in 1..n : t[i] = s[i], t[n + 1] = l,
         NEW key \in Keys
  PROVE  SettingsOf(t, key) =
           SettingsOf(s, key) \cup
             (IF Sets(l, key) /\ SectionOf(s, n) = "options" /\ ReposOf(s) = {}
              THEN {n + 1} ELSE {})
<1>1. /\ \A i \in 0..n : SectionOf(t, i) = SectionOf(s, i)
      /\ SectionOf(t, n + 1) = IF IsSection(l) THEN l.value ELSE SectionOf(s, n)
      /\ ReposOf(t) = ReposOf(s) \cup (IF IsSection(l) /\ l.value # "options" THEN {n + 1} ELSE {})
  BY SectionsAppend
<1>2. ReposOf(s) \subseteq 1..n
  BY DEF ReposOf, HeadersOf
<1>3. Sets(l, key) => ~IsSection(l)
  BY DEF Sets, IsSection, Keys
<1>4. ASSUME NEW i \in 1..n
      PROVE  i \in SettingsOf(t, key) <=> i \in SettingsOf(s, key)
  <2>1. i \in 1..Len(t) /\ i \in 1..Len(s) /\ t[i] = s[i] /\ SectionOf(t, i) = SectionOf(s, i)
    BY <1>1
  <2>2. (\A r \in ReposOf(t) : i < r) <=> (\A r \in ReposOf(s) : i < r)
    BY <1>1
  <2>. QED BY <2>1, <2>2 DEF SettingsOf
<1>5. n + 1 \in SettingsOf(t, key) <=> Sets(l, key) /\ SectionOf(s, n) = "options" /\ ReposOf(s) = {}
  <2>1. CASE Sets(l, key)
    <3>1. SectionOf(t, n + 1) = SectionOf(s, n) /\ ReposOf(t) = ReposOf(s)
      BY <1>1, <1>3, <2>1
    <3>2. (\A r \in ReposOf(s) : n + 1 < r) <=> ReposOf(s) = {}
      BY <1>2
    <3>. QED BY <2>1, <3>1, <3>2 DEF SettingsOf
  <2>2. CASE ~Sets(l, key)
    BY <2>2 DEF SettingsOf
  <2>. QED BY <2>1, <2>2
<1>6. SettingsOf(t, key) \subseteq 1..(n + 1) /\ SettingsOf(s, key) \subseteq 1..n
  BY DEF SettingsOf
<1>7. \A i : i \in 1..(n + 1) <=> i \in 1..n \/ i = n + 1
  OBVIOUS
<1>8. n + 1 \notin 1..n
  OBVIOUS
<1>. QED BY <1>4, <1>5, <1>6, <1>7, <1>8

LEMMA ServersAppend ==
  ASSUME NEW s \in Seq(Line), NEW l \in Line, NEW t \in Seq(Line), NEW n \in Nat,
         Len(s) = n, Len(t) = n + 1, \A i \in 1..n : t[i] = s[i], t[n + 1] = l
  PROVE  ServersOf(t) =
           ServersOf(s) \cup
             (IF Sets(l, "Server") /\ SectionOf(s, n) \notin {"none", "options"}
              THEN {n + 1} ELSE {})
<1>1. /\ \A i \in 0..n : SectionOf(t, i) = SectionOf(s, i)
      /\ SectionOf(t, n + 1) = IF IsSection(l) THEN l.value ELSE SectionOf(s, n)
  BY SectionsAppend
<1>3. Sets(l, "Server") => ~IsSection(l)
  BY DEF Sets, IsSection
<1>4. ASSUME NEW i \in 1..n
      PROVE  i \in ServersOf(t) <=> i \in ServersOf(s)
  <2>1. i \in 1..Len(t) /\ i \in 1..Len(s) /\ t[i] = s[i] /\ SectionOf(t, i) = SectionOf(s, i)
    BY <1>1
  <2>. QED BY <2>1 DEF ServersOf
<1>5. n + 1 \in ServersOf(t) <=> Sets(l, "Server") /\ SectionOf(s, n) \notin {"none", "options"}
  <2>1. n + 1 \in 1..Len(t)
    OBVIOUS
  <2>. QED BY <1>1, <1>3, <2>1 DEF ServersOf
<1>6. ServersOf(t) \subseteq 1..(n + 1) /\ ServersOf(s) \subseteq 1..n
  BY DEF ServersOf
<1>7. \A i : i \in 1..(n + 1) <=> i \in 1..n \/ i = n + 1
  OBVIOUS
<1>8. n + 1 \notin 1..n
  OBVIOUS
<1>. QED BY <1>4, <1>5, <1>6, <1>7, <1>8

-----------------------------------------------------------------------------
(***************************************************************************)
(* Lists that grow with a set of line numbers.                             *)
(***************************************************************************)
Lists(s, D, g) ==
  Len(s) = Cardinality(D) /\ \A i \in D : s[PlaceIn(D, i)] = g[i]

LEMMA ListsAppend ==
  ASSUME NEW n \in Nat, NEW D \in SUBSET (1..n), NEW S, NEW s \in Seq(S), NEW x \in S,
         NEW g, NEW h, Lists(s, D, g), \A i \in D : h[i] = g[i], h[n + 1] = x
  PROVE  Lists(Append(s, x), D \cup {n + 1}, h)
<1> DEFINE E == D \cup {n + 1}
<1>1. IsFiniteSet(D) /\ D \in SUBSET Nat /\ n + 1 \notin D
  <2>1. IsFiniteSet(1..n)
    BY FS_Interval
  <2>2. D \subseteq 1..n
    OBVIOUS
  <2>3. IsFiniteSet(D)
    BY <2>1, <2>2, FS_Subset, Zenon
  <2>4. D \in SUBSET Nat /\ n + 1 \notin D
    OBVIOUS
  <2>. QED BY <2>3, <2>4
<1>2. Cardinality(E) = Cardinality(D) + 1 /\ Cardinality(D) \in Nat
  BY <1>1, FS_AddElement, FS_CardinalityType
<1>3. \A i \in D : PlaceIn(E, i) = PlaceIn(D, i)
  <2>1. ASSUME NEW i \in D PROVE {k \in E : k <= i} = {k \in D : k <= i}
    OBVIOUS
  <2>. QED BY <2>1 DEF PlaceIn
<1>4. PlaceIn(E, n + 1) = Cardinality(D) + 1
  <2>1. \A k \in E : k <= n + 1
    OBVIOUS
  <2>2. {k \in E : k <= n + 1} = E
    BY <2>1
  <2>. QED BY <1>2, <2>2 DEF PlaceIn
<1>5. \A i \in D : PlaceIn(D, i) \in 1..Cardinality(D)
  BY <1>1, RankingNat
<1>6. Len(s) = Cardinality(D) /\ \A i \in D : s[PlaceIn(D, i)] = g[i]
  BY DEF Lists
<1> DEFINE u == Append(s, x)
<1>7. Len(u) = Len(s) + 1 /\ u[Len(s) + 1] = x /\ \A i \in 1..Len(s) : u[i] = s[i]
  OBVIOUS
<1>. HIDE DEF u, E
<1>8. Len(u) = Cardinality(E)
  BY <1>2, <1>6, <1>7
<1>9. ASSUME NEW i \in E PROVE u[PlaceIn(E, i)] = h[i]
  <2>1. CASE i \in D
    BY <1>3, <1>5, <1>6, <1>7, <2>1
  <2>2. CASE i = n + 1
    BY <1>4, <1>6, <1>7, <2>2
  <2>. QED BY <2>1, <2>2 DEF E
<1>. QED BY <1>8, <1>9 DEF Lists, u, E

LEMMA ListsSame ==
  ASSUME NEW D, NEW s, NEW g, NEW h, Lists(s, D, g), \A i \in D : h[i] = g[i]
  PROVE  Lists(s, D, h)
BY DEF Lists

-----------------------------------------------------------------------------
(***************************************************************************)
(* What [options] says, and what of it the handle is made with.            *)
(***************************************************************************)
FirstIn(s, D) == s[CHOOSE i \in D : \A j \in D : i <= j].value
LastIn(s, D)  == s[CHOOSE i \in D : \A j \in D : j <= i].value

DbSet(s) ==
  IF SettingsOf(s, "DBPath") = {} THEN "none" ELSE FirstIn(s, SettingsOf(s, "DBPath"))
ArchSet(s) ==
  IF SettingsOf(s, "Architecture") = {} THEN "none"
  ELSE IF LastIn(s, SettingsOf(s, "Architecture")) = "auto" THEN Machine
  ELSE LastIn(s, SettingsOf(s, "Architecture"))

DbChosen(d) ==
  IF given # "none" THEN given ELSE IF reg /\ d # "none" THEN d
  ELSE IF rootdir THEN "rootdir" ELSE "default"
ArchChosen(a) == IF reg /\ a # "none" THEN a ELSE Machine

LEMMA FirstIs ==
  ASSUME NEW s, NEW D \in SUBSET Nat, NEW i \in D, \A j \in D : i <= j
  PROVE  FirstIn(s, D) = s[i].value
<1>1. \A k \in D : (\A j \in D : k <= j) => k = i
  OBVIOUS
<1>2. i = CHOOSE k \in D : \A j \in D : k <= j
  BY <1>1
<1>. QED BY <1>2 DEF FirstIn

LEMMA LastIs ==
  ASSUME NEW s, NEW D \in SUBSET Nat, NEW i \in D, \A j \in D : j <= i
  PROVE  LastIn(s, D) = s[i].value
<1>1. \A k \in D : (\A j \in D : j <= k) => k = i
  OBVIOUS
<1>2. i = CHOOSE k \in D : \A j \in D : j <= k
  BY <1>1
<1>. QED BY <1>2 DEF LastIn

LEMMA SettingsBound ==
  ASSUME NEW s \in Seq(Line), NEW key
  PROVE  /\ SettingsOf(s, key) \in SUBSET Nat
         /\ \A i \in SettingsOf(s, key) : i \in 1..Len(s) /\ s[i].value \in Text
<1>1. SettingsOf(s, key) \subseteq 1..Len(s)
  BY DEF SettingsOf
<1>2. \A i \in 1..Len(s) : s[i].value \in Text
  <2>1. \A i \in 1..Len(s) : s[i] \in Line
    BY ElementOfSeq
  <2>. QED BY <2>1 DEF Line
<1>. QED BY <1>1, <1>2

LEMMA DbSetText == ASSUME NEW s \in Seq(Line) PROVE DbSet(s) \in Text \cup {"none"}
<1> DEFINE D == SettingsOf(s, "DBPath")
<1>1. CASE D = {}
  BY <1>1 DEF DbSet
<1>2. CASE D # {}
  <2>1. PICK i \in D : \A j \in D : i <= j
    <3>1. D \in SUBSET Nat
      BY SettingsBound
    <3>. HIDE DEF D
    <3>. QED BY <1>2, <3>1, LeastNat
  <2>. QED BY <1>2, <2>1, SettingsBound, FirstIs DEF DbSet
<1>. QED BY <1>1, <1>2

LEMMA DbSetAppend ==
  ASSUME NEW s \in Seq(Line), NEW l \in Line, NEW t \in Seq(Line), NEW n \in Nat,
         Len(s) = n, Len(t) = n + 1, \A i \in 1..n : t[i] = s[i], t[n + 1] = l,
         "none" \notin Text
  PROVE  DbSet(t) = IF /\ Sets(l, "DBPath") /\ SectionOf(s, n) = "options"
                       /\ ReposOf(s) = {} /\ DbSet(s) = "none"
                    THEN l.value ELSE DbSet(s)
<1> DEFINE D == SettingsOf(s, "DBPath")
           E == SettingsOf(t, "DBPath")
<1>1. E = D \cup (IF Sets(l, "DBPath") /\ SectionOf(s, n) = "options" /\ ReposOf(s) = {}
                  THEN {n + 1} ELSE {})
  BY SettingsAppend DEF Keys
<1>2. D \in SUBSET Nat /\ E \in SUBSET Nat /\ \A i \in D : i \in 1..n /\ s[i].value \in Text
  BY SettingsBound
<1>3. CASE D # {}
  <2>1. PICK i \in D : \A j \in D : i <= j
    <3>. HIDE DEF D
    <3>. QED BY <1>2, <1>3, LeastNat
  <2>2. i \in 1..n /\ i \in E /\ \A j \in E : i <= j
    BY <1>1, <1>2, <2>1
  <2>3. FirstIn(s, D) = s[i].value
    BY <1>2, <2>1, FirstIs
  <2>4. FirstIn(t, E) = t[i].value
    BY <1>2, <2>2, FirstIs
  <2>5. DbSet(s) = s[i].value /\ DbSet(t) = s[i].value /\ s[i].value \in Text
    BY <1>2, <1>3, <2>1, <2>2, <2>3, <2>4 DEF DbSet
  <2>. QED BY <2>5
<1>4. CASE D = {} /\ E # {}
  <2>1. E = {n + 1} /\ Sets(l, "DBPath") /\ SectionOf(s, n) = "options" /\ ReposOf(s) = {}
    BY <1>1, <1>4
  <2>2. FirstIn(t, E) = t[n + 1].value
    <3>1. n + 1 \in E /\ \A j \in E : n + 1 <= j
      BY <2>1
    <3>. QED BY <1>2, <3>1, FirstIs
  <2>. QED BY <1>4, <2>1, <2>2 DEF DbSet
<1>5. CASE D = {} /\ E = {}
  BY <1>1, <1>5 DEF DbSet
<1>. QED BY <1>3, <1>4, <1>5

LEMMA ArchSetText ==
  ASSUME NEW s \in Seq(Line), Machine \in Text PROVE ArchSet(s) \in Text \cup {"none"}
<1> DEFINE D == SettingsOf(s, "Architecture")
<1>1. CASE D = {}
  BY <1>1 DEF ArchSet
<1>2. CASE D # {}
  <2>1. PICK i \in D : \A j \in D : j <= i
    <3>1. D \in SUBSET Nat /\ \A j \in D : j <= Len(s)
      BY SettingsBound
    <3>2. Len(s) \in Nat
      OBVIOUS
    <3>. HIDE DEF D
    <3>. QED BY <1>2, <3>1, <3>2, GreatestNat
  <2>. QED BY <1>2, <2>1, SettingsBound, LastIs DEF ArchSet
<1>. QED BY <1>1, <1>2

LEMMA ArchSetAppend ==
  ASSUME NEW s \in Seq(Line), NEW l \in Line, NEW t \in Seq(Line), NEW n \in Nat,
         Len(s) = n, Len(t) = n + 1, \A i \in 1..n : t[i] = s[i], t[n + 1] = l
  PROVE  ArchSet(t) =
           IF Sets(l, "Architecture") /\ SectionOf(s, n) = "options" /\ ReposOf(s) = {}
           THEN IF l.value = "auto" THEN Machine ELSE l.value
           ELSE ArchSet(s)
<1> DEFINE D == SettingsOf(s, "Architecture")
           E == SettingsOf(t, "Architecture")
           Set == Sets(l, "Architecture") /\ SectionOf(s, n) = "options" /\ ReposOf(s) = {}
<1>1. E = D \cup (IF Set THEN {n + 1} ELSE {})
  BY SettingsAppend DEF Keys
<1>2. D \in SUBSET Nat /\ E \in SUBSET Nat /\ \A i \in D : i \in 1..n /\ s[i].value \in Text
  BY SettingsBound
<1>3. CASE Set
  <2>1. n + 1 \in E /\ \A j \in E : j <= n + 1
    BY <1>1, <1>2, <1>3
  <2>2. LastIn(t, E) = t[n + 1].value
    BY <1>2, <2>1, LastIs
  <2>. QED BY <1>3, <2>1, <2>2 DEF ArchSet
<1>4. CASE ~Set /\ D # {}
  <2>1. PICK i \in D : \A j \in D : j <= i
    <3>1. \A j \in D : j <= n
      BY <1>2
    <3>. HIDE DEF D
    <3>. QED BY <1>2, <1>4, <3>1, GreatestNat
  <2>2. E = D /\ i \in 1..n
    BY <1>1, <1>2, <1>4, <2>1
  <2>3. LastIn(s, D) = s[i].value
    BY <1>2, <2>1, LastIs
  <2>4. LastIn(t, D) = t[i].value
    BY <1>2, <2>1, LastIs
  <2>5. LastIn(t, D) = LastIn(s, D)
    BY <2>2, <2>3, <2>4
  <2>. QED BY <1>4, <2>2, <2>5 DEF ArchSet
<1>5. CASE ~Set /\ D = {}
  BY <1>1, <1>5 DEF ArchSet
<1>. QED BY <1>3, <1>4, <1>5
\* What is chosen, as the properties say it.
LEMMA ChosenIs ==
  ASSUME ConfigFileAssumption, flat \in Seq(Line)
  PROVE  ChosenDbpath = DbChosen(DbSet(flat)) /\ ChosenArch = ArchChosen(ArchSet(flat))
<1>1. Machine \in Text /\ "none" \notin Text
  BY DEF ConfigFileAssumption
<1>2. Settings("DBPath") = SettingsOf(flat, "DBPath")
      /\ Settings("Architecture") = SettingsOf(flat, "Architecture")
  BY OfFlat
<1>3. FirstOf(Settings("DBPath")) = FirstIn(flat, SettingsOf(flat, "DBPath"))
  BY <1>2 DEF FirstOf, FirstIn
<1>4. LastOf(Settings("Architecture")) = LastIn(flat, SettingsOf(flat, "Architecture"))
  BY <1>2 DEF LastOf, LastIn
<1>5. DbSet(flat) \in Text \cup {"none"} /\ ArchSet(flat) \in Text \cup {"none"}
  BY <1>1, DbSetText, ArchSetText
<1>6. DbSet(flat) = "none" <=> SettingsOf(flat, "DBPath") = {}
  <2> DEFINE D == SettingsOf(flat, "DBPath")
  <2>1. CASE D # {}
    <3>1. PICK i \in D : \A j \in D : i <= j
      <4>1. D \in SUBSET Nat
        BY SettingsBound
      <4>. HIDE DEF D
      <4>. QED BY <2>1, <4>1, LeastNat
    <3>2. FirstIn(flat, D) = flat[i].value /\ flat[i].value \in Text
      BY <3>1, SettingsBound, FirstIs
    <3>. QED BY <1>1, <2>1, <3>2 DEF DbSet
  <2>. QED BY <2>1 DEF DbSet
<1>7. ArchSet(flat) = "none" <=> SettingsOf(flat, "Architecture") = {}
  <2> DEFINE D == SettingsOf(flat, "Architecture")
  <2>1. CASE D # {}
    <3>1. PICK i \in D : \A j \in D : j <= i
      <4>1. D \in SUBSET Nat /\ Len(flat) \in Nat /\ \A j \in D : j <= Len(flat)
        BY SettingsBound
      <4>. HIDE DEF D
      <4>. QED BY <2>1, <4>1, GreatestNat
    <3>2. LastIn(flat, D) = flat[i].value /\ flat[i].value \in Text
      BY <3>1, SettingsBound, LastIs
    <3>. QED BY <1>1, <2>1, <3>2 DEF ArchSet
  <2>. QED BY <2>1 DEF ArchSet
<1>8. ChosenDbpath = DbChosen(DbSet(flat))
  BY <1>2, <1>3, <1>6 DEF ChosenDbpath, DbChosen, DbSet
<1>9. ChosenArch = ArchChosen(ArchSet(flat))
  BY <1>2, <1>4, <1>7 DEF ChosenArch, ArchChosen, ArchSet
<1>. QED BY <1>8, <1>9

-----------------------------------------------------------------------------
(***************************************************************************)
(* The variables as a function of the lines read: where the reading        *)
(* stands, what is set and what the handle was made with; then the lists.  *)
(***************************************************************************)
Section == SectionOf(flat, Len(flat))
Failed == cause \in {"init", "register"}

\* Where the reading stands.
PlaceInv ==
  /\ pc \in {"open", "read"} => cause = "none"
  /\ ~Failed => /\ global_opt_parsed <=> ReposOf(flat) # {}
                /\ in_option <=> ~global_opt_parsed /\ Section = "options"
                /\ db = IF reg /\ Section \notin {"none", "options"} THEN Section ELSE "none"

\* What is set before there is a handle, and the handle.
OptionsInv ==
  /\ ~Failed /\ ReposOf(flat) = {} =>
       /\ dbpath = IF given # "none" THEN given ELSE IF reg THEN DbSet(flat) ELSE "none"
       /\ arch = IF reg THEN ArchSet(flat) ELSE "none"
  /\ handle = IF ReposOf(flat) = {} \/ cause = "init" THEN NoHandle
              ELSE [dbpath |-> DbChosen(DbSet(flat)), arch |-> ArchChosen(ArchSet(flat))]

\* The repositories but the one that failed, which is the last, and the servers.
Taken == IF Failed THEN {r \in Repos : \E q \in Repos : r < q} ELSE Repos
Names(s) == [i \in 1..Len(s) |-> s[i].value]
Entries(s, a) == [i \in 1..Len(s) |-> [db |-> SectionOf(s, i), url |-> s[i].value, arch |-> a]]

ListsInv ==
  /\ Lists(repos, Taken, Names(flat))
  /\ IF reg THEN Lists(servers, ServersOf(flat), Entries(flat, ArchChosen(ArchSet(flat))))
     ELSE servers = <<>>

FileInv == ShapeInv /\ PlaceInv /\ OptionsInv /\ ListsInv
\* What one more line adds to what the lines read mean.
Grown ==
  /\ flat \in Seq(Line) /\ flat' \in Seq(Line) /\ line \in Line
  /\ Len(flat) \in Nat /\ Len(flat') = Len(flat) + 1
  /\ \A i \in 1..Len(flat) : flat'[i] = flat[i] /\ SectionOf(flat', i) = SectionOf(flat, i)
  /\ flat'[Len(flat) + 1] = line
  /\ SectionOf(flat', Len(flat')) = IF IsSection(line) THEN line.value ELSE Section
  /\ ReposOf(flat') = ReposOf(flat) \cup (IF IsSection(line) /\ line.value # "options"
                                        THEN {Len(flat) + 1} ELSE {})
  /\ DbSet(flat') = IF /\ Sets(line, "DBPath") /\ Section = "options"
                      /\ ReposOf(flat) = {} /\ DbSet(flat) = "none"
                   THEN line.value ELSE DbSet(flat)
  /\ ArchSet(flat') = IF /\ Sets(line, "Architecture") /\ Section = "options"
                        /\ ReposOf(flat) = {}
                     THEN IF line.value = "auto" THEN Machine ELSE line.value
                     ELSE ArchSet(flat)
  /\ ServersOf(flat') = ServersOf(flat) \cup
       (IF Sets(line, "Server") /\ Section \notin {"none", "options"} THEN {Len(flat) + 1} ELSE {})

LEMMA Grows ==
  ASSUME ConfigFileAssumption, ShapeInv, Reading, flat' = Append(flat, line)
  PROVE  Grown
<1> DEFINE n == Len(flat)
           t == flat'
           l == line
           s == flat
<1>1. flat \in Seq(Line) /\ line \in Line /\ "none" \notin Text
  BY Line1 DEF ShapeInv, TypeOK, ConfigFileAssumption
<1>2. /\ t \in Seq(Line) /\ n \in Nat /\ Len(s) = n /\ Len(t) = n + 1
      /\ \A i \in 1..n : t[i] = s[i]
      /\ t[n + 1] = l /\ l \in Line /\ s \in Seq(Line)
  BY <1>1, AppendProperties
<1>. HIDE DEF n, t, l, s
<1>3. /\ \A i \in 0..n : SectionOf(t, i) = SectionOf(s, i)
      /\ SectionOf(t, n + 1) = IF IsSection(l) THEN l.value ELSE SectionOf(s, n)
      /\ ReposOf(t) = ReposOf(s) \cup (IF IsSection(l) /\ l.value # "options" THEN {n + 1} ELSE {})
  BY <1>2, SectionsAppend
<1>4. \A i \in 1..n : i \in 0..n
  BY <1>2
<1>5. DbSet(t) = IF /\ Sets(l, "DBPath") /\ SectionOf(s, n) = "options"
                    /\ ReposOf(s) = {} /\ DbSet(s) = "none"
                 THEN l.value ELSE DbSet(s)
  BY <1>1, <1>2, DbSetAppend
<1>6. ArchSet(t) = IF Sets(l, "Architecture") /\ SectionOf(s, n) = "options" /\ ReposOf(s) = {}
                   THEN IF l.value = "auto" THEN Machine ELSE l.value
                   ELSE ArchSet(s)
  BY <1>2, ArchSetAppend
<1>7. ServersOf(t) = ServersOf(s) \cup
        (IF Sets(l, "Server") /\ SectionOf(s, n) \notin {"none", "options"} THEN {n + 1} ELSE {})
  BY <1>2, ServersAppend
<1>. QED BY <1>2, <1>3, <1>4, <1>5, <1>6, <1>7 DEF Grown, Section, n, t, l, s

\* A line that is no header, and does not change where the reading stands.
LEMMA PlaceSame ==
  ASSUME Grown, PlaceInv, pc = "read", ~IsSection(line), reg' = reg,
         UNCHANGED statics, pc' = pc, cause' = cause
  PROVE  PlaceInv'
<1>1. Section' = Section /\ ReposOf(flat') = ReposOf(flat)
  BY DEF Grown, Section
<1>. QED BY <1>1 DEF PlaceInv, Failed, statics

\* Where the reading stands after a header.
LEMMA PlaceOptions ==
  ASSUME ShapeInv, Grown, PlaceInv, SectionOptions PROVE PlaceInv'
<1>1. Section' = "options" /\ ReposOf(flat') = ReposOf(flat)
  BY DEF Grown, Section, SectionOptions
<1>2. pc = "read" /\ cause = "none"
  BY Line1 DEF PlaceInv, SectionOptions
<1>3. /\ db' = "none" /\ (in_option' <=> in_option \/ ~global_opt_parsed)
      /\ global_opt_parsed' = global_opt_parsed /\ pc' = pc /\ cause' = cause /\ reg' = reg
  BY DEF SectionOptions, input
<1>. QED BY <1>1, <1>2, <1>3 DEF PlaceInv, Failed

LEMMA PlaceRepo ==
  ASSUME ConfigFileAssumption, ShapeInv, Grown, PlaceInv, NEW initialized \in BOOLEAN,
         SectionRepo(initialized)
  PROVE  PlaceInv'
<1>1. Section' = line.value /\ ReposOf(flat') # {} /\ line.value \notin {"none", "options"}
  <2>1. line.value \in Text /\ "none" \notin Text
    BY DEF Grown, Line, ConfigFileAssumption
  <2>. QED BY <2>1 DEF Grown, Section, SectionRepo
<1>2. /\ in_option' = FALSE /\ global_opt_parsed' = TRUE /\ pc' = pc /\ cause' = cause
      /\ reg' = reg /\ db' = IF reg THEN line.value ELSE "none"
  BY DEF SectionRepo, input
<1>. QED BY <1>1, <1>2 DEF PlaceInv, Failed

LEMMA PlaceFails ==
  ASSUME NEW initialized \in BOOLEAN, SectionFails(initialized) PROVE PlaceInv'
BY DEF SectionFails, InitFails, RegisterFails, ReturnFalse, PlaceInv, Failed

-----------------------------------------------------------------------------
\* A line that sets nothing, before or after the handle.
LEMMA OptionsSame ==
  ASSUME Grown, OptionsInv, PlaceInv, pc = "read",
         ~IsSection(line) \/ line.value = "options",
         Sets(line, "DBPath") \/ Sets(line, "Architecture") =>
           ~(Section = "options" /\ ReposOf(flat) = {}),
         UNCHANGED <<input, options>>, cause' = cause
  PROVE  OptionsInv'
<1>1. /\ ReposOf(flat') = ReposOf(flat) /\ DbSet(flat') = DbSet(flat)
      /\ ArchSet(flat') = ArchSet(flat)
  BY DEF Grown
<1>2. \A d, a : (DbChosen(d) = DbChosen(d)') /\ (ArchChosen(a) = ArchChosen(a)')
  BY DEF DbChosen, ArchChosen, input
<1>. QED BY <1>1, <1>2 DEF OptionsInv, Failed, DbChosen, ArchChosen, input, options
\* In [options], before the first repository, the flags and the lines agree.
LEMMA InOptions ==
  ASSUME PlaceInv, pc = "read"
  PROVE  cause = "none" /\ ~Failed /\ (in_option <=> Section = "options" /\ ReposOf(flat) = {})
BY DEF PlaceInv, Failed

LEMMA OptionsDBPath ==
  ASSUME ShapeInv, Grown, OptionsInv, PlaceInv, DBPath PROVE OptionsInv'
<1>1. /\ pc = "read" /\ Sets(line, "DBPath") /\ UNCHANGED input /\ cause' = cause
      /\ arch' = arch /\ handle' = handle
      /\ dbpath' = IF reg /\ in_option /\ dbpath = "none" THEN line.value ELSE dbpath
  BY Line1 DEF DBPath, Assigns, Sets
<1>2. ~IsSection(line) /\ ~Sets(line, "Architecture")
  BY <1>1 DEF IsSection, Sets
<1>3. CASE in_option
  <2>1. Section = "options" /\ ReposOf(flat) = {} /\ ReposOf(flat') = {} /\ ~Failed
        /\ cause = "none"
    BY <1>1, <1>2, <1>3, InOptions DEF Grown
  <2>2. /\ dbpath = IF given # "none" THEN given ELSE IF reg THEN DbSet(flat) ELSE "none"
        /\ arch = IF reg THEN ArchSet(flat) ELSE "none"
        /\ handle = NoHandle
    BY <2>1 DEF OptionsInv
  <2>3. DbSet(flat') = (IF DbSet(flat) = "none" THEN line.value ELSE DbSet(flat))
        /\ ArchSet(flat') = ArchSet(flat)
    BY <1>1, <1>2, <2>1 DEF Grown
  <2>4. dbpath' = IF given # "none" THEN given ELSE IF reg THEN DbSet(flat') ELSE "none"
    BY <1>1, <1>3, <2>2, <2>3
  <2>. QED BY <1>1, <2>1, <2>2, <2>3, <2>4 DEF OptionsInv, Failed, input
<1>4. CASE ~in_option
  <2>1. UNCHANGED options
    BY <1>1, <1>4 DEF options
  <2>2. ~(Section = "options" /\ ReposOf(flat) = {})
    BY <1>1, <1>4, InOptions
  <2>. QED BY <1>1, <1>2, <2>1, <2>2, OptionsSame
<1>. QED BY <1>3, <1>4

LEMMA OptionsArchitecture ==
  ASSUME ShapeInv, Grown, OptionsInv, PlaceInv, Architecture PROVE OptionsInv'
<1>1. /\ pc = "read" /\ Sets(line, "Architecture") /\ UNCHANGED input /\ cause' = cause
      /\ dbpath' = dbpath /\ handle' = handle
      /\ arch' = IF ~(reg /\ in_option) THEN arch
                 ELSE IF line.value = "auto" THEN Machine ELSE line.value
  BY Line1 DEF Architecture, Assigns, Sets
<1>2. ~IsSection(line) /\ ~Sets(line, "DBPath")
  BY <1>1 DEF IsSection, Sets
<1>3. CASE in_option
  <2>1. Section = "options" /\ ReposOf(flat) = {} /\ ReposOf(flat') = {} /\ ~Failed
        /\ cause = "none"
    BY <1>1, <1>2, <1>3, InOptions DEF Grown
  <2>2. /\ dbpath = IF given # "none" THEN given ELSE IF reg THEN DbSet(flat) ELSE "none"
        /\ arch = IF reg THEN ArchSet(flat) ELSE "none"
        /\ handle = NoHandle
    BY <2>1 DEF OptionsInv
  <2>3. ArchSet(flat') = (IF line.value = "auto" THEN Machine ELSE line.value)
        /\ DbSet(flat') = DbSet(flat)
    BY <1>1, <1>2, <2>1 DEF Grown
  <2>4. arch' = IF reg THEN ArchSet(flat') ELSE "none"
    BY <1>1, <1>3, <2>2, <2>3
  <2>. QED BY <1>1, <2>1, <2>2, <2>3, <2>4 DEF OptionsInv, Failed, input
<1>4. CASE ~in_option
  <2>1. UNCHANGED options
    BY <1>1, <1>4 DEF options
  <2>2. ~(Section = "options" /\ ReposOf(flat) = {})
    BY <1>1, <1>4, InOptions
  <2>. QED BY <1>1, <1>2, <2>1, <2>2, OptionsSame
<1>. QED BY <1>3, <1>4

\* init_alpm: the defaults of what was not set make it what the properties say.
LEMMA InitChosen ==
  ASSUME ConfigFileAssumption, ShapeInv, OptionsInv, ~Failed, ReposOf(flat) = {}
  PROVE  Dbpath = DbChosen(DbSet(flat)) /\ Arch = ArchChosen(ArchSet(flat))
<1>1. /\ dbpath = IF given # "none" THEN given ELSE IF reg THEN DbSet(flat) ELSE "none"
      /\ arch = IF reg THEN ArchSet(flat) ELSE "none"
  BY DEF OptionsInv
<1>. QED BY <1>1 DEF Dbpath, Arch, DbChosen, ArchChosen

LEMMA OptionsRepo ==
  ASSUME ConfigFileAssumption, ShapeInv, Grown, OptionsInv, PlaceInv, NEW initialized \in BOOLEAN,
         SectionRepo(initialized) \/ SectionFails(initialized)
  PROVE  OptionsInv'
<1>1. /\ pc = "read" /\ IsSection(line) /\ line.value # "options" /\ UNCHANGED input
      /\ cause = "none"
  <2>1. Reading /\ IsSection(line) /\ line.value # "options" /\ UNCHANGED input
    BY DEF SectionRepo, SectionFails, InitFails, RegisterFails
  <2>2. pc = "read"
    BY <2>1, Line1
  <2>. QED BY <2>1, <2>2, InOptions
<1>2. ~Sets(line, "DBPath") /\ ~Sets(line, "Architecture")
  BY <1>1 DEF IsSection, Sets
<1>3. /\ ReposOf(flat') # {} /\ DbSet(flat') = DbSet(flat) /\ ArchSet(flat') = ArchSet(flat)
  BY <1>1, <1>2 DEF Grown
<1>4. ~Failed /\ (global_opt_parsed <=> ReposOf(flat) # {})
  BY <1>1 DEF PlaceInv, Failed
<1>5. CASE cause' = "init"
  <2>1. ~global_opt_parsed /\ handle' = handle
    <3>1. InitFails
      BY <1>1, <1>5 DEF SectionRepo, SectionFails, RegisterFails
    <3>. QED BY <3>1 DEF InitFails
  <2>2. handle = NoHandle
    BY <1>4, <2>1 DEF OptionsInv
  <2>. QED BY <1>3, <1>5, <2>1, <2>2 DEF OptionsInv, Failed
<1>6. CASE cause' # "init"
  <2>1. IF global_opt_parsed THEN UNCHANGED options ELSE InitAlpm
    BY <1>6 DEF SectionRepo, SectionFails, InitFails, RegisterFails
  <2>2. handle' = [dbpath |-> DbChosen(DbSet(flat)), arch |-> ArchChosen(ArchSet(flat))]
    <3>1. CASE global_opt_parsed
      BY <1>1, <1>4, <2>1, <3>1 DEF OptionsInv, options
    <3>2. CASE ~global_opt_parsed
      BY <1>4, <2>1, <3>2, InitChosen DEF InitAlpm
    <3>. QED BY <3>1, <3>2
  <2>. QED BY <1>1, <1>3, <1>6, <2>2 DEF OptionsInv, DbChosen, ArchChosen, input
<1>. QED BY <1>5, <1>6

-----------------------------------------------------------------------------
\* The lines before the one read, in the lists of what they mean.
LEMMA NamesGrown ==
  ASSUME Grown
  PROVE  /\ \A i \in 1..Len(flat) : Names(flat')[i] = Names(flat)[i]
         /\ Names(flat')[Len(flat) + 1] = line.value
<1>1. /\ flat \in Seq(Line) /\ Len(flat) \in Nat /\ Len(flat') = Len(flat) + 1
      /\ \A i \in 1..Len(flat) : flat'[i] = flat[i] /\ flat'[Len(flat) + 1] = line
  BY DEF Grown
<1>. QED BY <1>1 DEF Names, Grown
LEMMA EntriesGrown ==
  ASSUME Grown, reg' = reg
  PROVE  /\ \A i \in ServersOf(flat) : Entries(flat, ArchChosen(ArchSet(flat)))'[i] =
                                       Entries(flat, ArchChosen(ArchSet(flat)))[i]
         /\ ~IsSection(line) => Entries(flat, ArchChosen(ArchSet(flat)))'[Len(flat) + 1] =
              [db |-> Section, url |-> line.value, arch |-> ArchChosen(ArchSet(flat))']
<1> DEFINE n == Len(flat)
           a == ArchChosen(ArchSet(flat))
           b == ArchChosen(ArchSet(flat))'
<1>1. /\ flat \in Seq(Line) /\ n \in Nat /\ Len(flat') = n + 1
      /\ \A i \in 1..n : flat'[i] = flat[i] /\ SectionOf(flat', i) = SectionOf(flat, i)
      /\ flat'[n + 1] = line
      /\ ~IsSection(line) => SectionOf(flat', n + 1) = Section
  BY DEF Grown
<1>2. ServersOf(flat) # {} => a = b
  <2>1. SUFFICES ASSUME NEW i \in ServersOf(flat) PROVE ArchSet(flat') = ArchSet(flat)
    BY DEF ArchChosen
  <2>2. i \in 0..Len(flat) /\ SectionOf(flat, i) \notin {"none", "options"}
    BY <1>1 DEF ServersOf
  <2>3. ReposOf(flat) # {}
    BY <1>1, <2>2, RepoSection
  <2>. QED BY <2>3 DEF Grown
<1>3. ServersOf(flat) \subseteq 1..n
  BY DEF ServersOf
<1>4. Entries(flat, ArchChosen(ArchSet(flat)))' = Entries(flat', b)
  BY DEF Entries
<1>. HIDE DEF a, b
<1>5. ASSUME NEW i \in ServersOf(flat) PROVE Entries(flat', b)[i] = Entries(flat, a)[i]
  <2>1. i \in 1..n /\ i \in 1..(n + 1) /\ a = b
    BY <1>1, <1>2, <1>3
  <2>. QED BY <1>1, <2>1 DEF Entries
<1>6. ~IsSection(line) => Entries(flat', b)[n + 1] = [db |-> Section, url |-> line.value, arch |-> b]
  <2>1. n + 1 \in 1..(n + 1)
    BY <1>1
  <2>. QED BY <1>1, <2>1 DEF Entries
<1>. QED BY <1>4, <1>5, <1>6 DEF a, b

\* The repositories, after a line that adds none.
LEMMA ReposSame ==
  ASSUME Grown, ListsInv, ~Failed, ~IsSection(line) \/ line.value = "options",
         repos' = repos, cause' = cause
  PROVE  Lists(repos', Taken', Names(flat'))
<1>1. Taken = ReposOf(flat) /\ Taken' = ReposOf(flat') /\ ReposOf(flat') = ReposOf(flat)
  <2>1. Repos = ReposOf(flat)
    BY OfFlat
  <2>2. Repos' = ReposOf(flat')
    BY DEF Repos, Headers, ReposOf, HeadersOf
  <2>. QED BY <2>1, <2>2 DEF Taken, Failed, Grown
<1>2. ReposOf(flat) \subseteq 1..Len(flat)
  BY DEF ReposOf, HeadersOf
<1>. QED BY <1>1, <1>2, NamesGrown, ListsSame DEF ListsInv

LEMMA ReposMore ==
  ASSUME ShapeInv, Grown, ListsInv, ~Failed, NEW initialized \in BOOLEAN,
         SectionRepo(initialized)
  PROVE  Lists(repos', Taken', Names(flat'))
<1>1. /\ IsSection(line) /\ line.value # "options" /\ repos' = Append(repos, line.value)
      /\ cause' = cause
  BY DEF SectionRepo
<1>2. Taken = ReposOf(flat) /\ Taken' = ReposOf(flat) \cup {Len(flat) + 1}
  <2>1. Repos = ReposOf(flat)
    BY OfFlat
  <2>2. Repos' = ReposOf(flat')
    BY DEF Repos, Headers, ReposOf, HeadersOf
  <2>. QED BY <1>1, <2>1, <2>2 DEF Taken, Failed, Grown
<1>3. ReposOf(flat) \subseteq 1..Len(flat)
  BY DEF ReposOf, HeadersOf
<1>4. /\ Len(flat) \in Nat /\ line.value \in Text /\ repos \in Seq(Text)
      /\ Lists(repos, ReposOf(flat), Names(flat))
  BY <1>2 DEF Grown, Line, ShapeInv, TypeOK, ListsInv
<1>. QED BY <1>1, <1>2, <1>3, <1>4, NamesGrown, ListsAppend

LEMMA ReposFail ==
  ASSUME ShapeInv, Grown, ListsInv, ~Failed, NEW initialized \in BOOLEAN,
         SectionFails(initialized)
  PROVE  Lists(repos', Taken', Names(flat'))
<1>1. /\ IsSection(line) /\ line.value # "options" /\ repos' = repos
      /\ cause' \in {"init", "register"}
  BY DEF SectionFails, InitFails, RegisterFails, output
<1>2. ReposOf(flat) \subseteq 1..Len(flat) /\ Len(flat) \in Nat
  BY DEF ReposOf, HeadersOf, Grown
<1>3. Taken = ReposOf(flat) /\ Taken' = ReposOf(flat)
  <2>1. Repos = ReposOf(flat)
    BY OfFlat
  <2>2. Repos' = ReposOf(flat')
    BY DEF Repos, Headers, ReposOf, HeadersOf
  <2>3. ReposOf(flat') = ReposOf(flat) \cup {Len(flat) + 1}
    BY <1>1 DEF Grown
  <2>4. Taken' = {r \in ReposOf(flat') : \E q \in ReposOf(flat') : r < q}
    BY <1>1, <2>2 DEF Taken, Failed
  <2>5. \A r \in ReposOf(flat) : r < Len(flat) + 1
    BY <1>2
  <2>6. ~(\E q \in ReposOf(flat') : Len(flat) + 1 < q)
    BY <1>2, <2>3
  <2>. QED BY <2>1, <2>3, <2>4, <2>5, <2>6 DEF Taken
<1>. QED BY <1>1, <1>2, <1>3, NamesGrown, ListsSame DEF ListsInv

\* The servers, after a line that adds none.
LEMMA ServersSame ==
  ASSUME Grown, ListsInv, UNCHANGED <<input, servers>>,
         Sets(line, "Server") => Section \in {"none", "options"} \/ ~reg
  PROVE  IF reg' THEN Lists(servers', ServersOf(flat'), Entries(flat, ArchChosen(ArchSet(flat)))')
         ELSE servers' = <<>>
<1>1. reg' = reg /\ servers' = servers
  BY DEF input
<1>2. CASE reg
  <2>1. ServersOf(flat') = ServersOf(flat)
    BY <1>2 DEF Grown
  <2>. QED BY <1>1, <1>2, <2>1, EntriesGrown, ListsSame DEF ListsInv
<1>. QED BY <1>1, <1>2 DEF ListsInv

\* A Server line, in a repository.
LEMMA ServersMore ==
  ASSUME ConfigFileAssumption, ShapeInv, PlaceInv, OptionsInv, Grown, ListsInv, Server, reg,
         Section \notin {"none", "options"}
  PROVE  Lists(servers', ServersOf(flat'), Entries(flat, ArchChosen(ArchSet(flat)))')
<1>1. /\ pc = "read" /\ reg' = reg /\ Sets(line, "Server") /\ ~IsSection(line)
      /\ servers' = IF reg /\ db # "none"
                    THEN Append(servers, [db |-> db, url |-> line.value, arch |-> handle.arch])
                    ELSE servers
  BY Line1 DEF Server, Assigns, Sets, IsSection, input
<1>2. cause = "none" /\ db = Section
  BY <1>1 DEF PlaceInv, Failed
<1>3. ReposOf(flat) # {} /\ ArchSet(flat') = ArchSet(flat)
  <2>1. flat \in Seq(Line) /\ Len(flat) \in 0..Len(flat)
    BY DEF Grown
  <2>2. ReposOf(flat) # {}
    BY <2>1, RepoSection DEF Section
  <2>. QED BY <2>2 DEF Grown
<1>4. handle.arch = ArchChosen(ArchSet(flat)) /\ ArchChosen(ArchSet(flat)) = ArchChosen(ArchSet(flat))'
  BY <1>1, <1>2, <1>3 DEF OptionsInv, ArchChosen
<1> DEFINE x == [db |-> db, url |-> line.value, arch |-> handle.arch]
<1>5. x \in [db : Text, url : Text, arch : Text]
  <2>1. line.value \in Text
    BY DEF Grown, Line
  <2>2. db \in Text
    BY <1>2 DEF ShapeInv, TypeOK
  <2>3. handle.arch \in Text
    BY <1>2 DEF ShapeInv, HandleInv
  <2>. QED BY <2>1, <2>2, <2>3
<1>6. servers' = Append(servers, x)
  BY <1>1, <1>2
<1>7. Entries(flat, ArchChosen(ArchSet(flat)))'[Len(flat) + 1] = x
  BY <1>1, <1>2, <1>4, EntriesGrown
<1>. HIDE DEF x
<1>8. /\ ServersOf(flat') = ServersOf(flat) \cup {Len(flat) + 1}
      /\ ServersOf(flat) \subseteq 1..Len(flat) /\ Len(flat) \in Nat
      /\ servers \in Seq([db : Text, url : Text, arch : Text])
      /\ Lists(servers, ServersOf(flat), Entries(flat, ArchChosen(ArchSet(flat))))
  BY <1>1 DEF Grown, ServersOf, ShapeInv, TypeOK, ListsInv
<1> DEFINE g == Entries(flat, ArchChosen(ArchSet(flat)))
           h == Entries(flat, ArchChosen(ArchSet(flat)))'
<1>9. \A i \in ServersOf(flat) : h[i] = g[i]
  BY <1>1, EntriesGrown
<1>. HIDE DEF g, h
<1>10. Lists(Append(servers, x), ServersOf(flat) \cup {Len(flat) + 1}, h)
  <2>1. Lists(servers, ServersOf(flat), g) /\ h[Len(flat) + 1] = x
    BY <1>7, <1>8 DEF g, h
  <2>2. ServersOf(flat) \in SUBSET (1..Len(flat))
    BY <1>8
  <2>. QED BY <1>5, <1>8, <1>9, <2>1, <2>2, ListsAppend, ZenonT(30)
<1>. QED BY <1>6, <1>8, <1>10 DEF h
-----------------------------------------------------------------------------
\* The two lists, and the three parts of what the lines mean.
LEMMA ListsTogether ==
  ASSUME Lists(repos', Taken', Names(flat')),
         IF reg' THEN Lists(servers', ServersOf(flat'), Entries(flat, ArchChosen(ArchSet(flat)))')
         ELSE servers' = <<>>
  PROVE  ListsInv'
<1>1. Names(flat)' = Names(flat')
  BY DEF Names
<1>2. ServersOf(flat)' = ServersOf(flat')
  BY DEF ServersOf, SectionOf, HeadersOf
<1>. QED BY <1>1, <1>2 DEF ListsInv, Lists

MeaningInv == PlaceInv /\ OptionsInv /\ ListsInv

\* No line is read.
CallStep ==
  OpenFile \/ OpenFails \/ EndOfFile \/ IncludeNext \/ IncludeFails \/ IncludeEnd

LEMMA MeaningSame ==
  ASSUME MeaningInv, UNCHANGED <<input, options, statics, output, flat>>,
         cause' = cause \/ (cause = "none" /\ cause' = "open"),
         pc' \in {"open", "read"} => cause' = "none"
  PROVE  MeaningInv'
<1>1. Failed' <=> Failed
  BY DEF Failed
<1>2. cause' = "init" <=> cause = "init"
  OBVIOUS
<1>3. PlaceInv'
  BY <1>1 DEF MeaningInv, PlaceInv, Section, input, statics
<1>4. OptionsInv'
  BY <1>1, <1>2 DEF MeaningInv, OptionsInv, DbChosen, ArchChosen, input, options
<1>5. Taken' = Taken
  BY <1>1 DEF Taken, Repos, Headers
<1>6. ListsInv'
  BY <1>5 DEF MeaningInv, ListsInv, Lists, ArchChosen, input, output
<1>. QED BY <1>3, <1>4, <1>6 DEF MeaningInv

\* A line that is neither a repository's header nor in a list nor a setting.
LEMMA MeaningRead ==
  ASSUME Grown, MeaningInv, pc = "read", pc' = pc, cause' = cause,
         UNCHANGED <<input, options, output>>, PlaceInv',
         ~IsSection(line) \/ line.value = "options",
         ~Sets(line, "DBPath"), ~Sets(line, "Architecture"), ~Sets(line, "Server")
  PROVE  MeaningInv'
<1>1. cause = "none" /\ ~Failed
  BY DEF MeaningInv, PlaceInv, Failed
<1>2. OptionsInv'
  BY OptionsSame DEF MeaningInv
<1>3. Lists(repos', Taken', Names(flat'))
  BY <1>1, ReposSame DEF MeaningInv, output
<1>4. IF reg' THEN Lists(servers', ServersOf(flat'), Entries(flat, ArchChosen(ArchSet(flat)))')
      ELSE servers' = <<>>
  BY ServersSame DEF MeaningInv, output
<1>. QED BY <1>2, <1>3, <1>4, ListsTogether DEF MeaningInv

LEMMA MeaningCalls ==
  ASSUME MeaningInv, CallStep
  PROVE  MeaningInv'
<1>1. UNCHANGED <<input, options, statics, output, flat>>
  BY DEF CallStep, OpenFile, OpenFails, EndOfFile, IncludeNext, IncludeFails, IncludeEnd,
     ReturnTrue, ReturnFalse
<1>2. pc \in {"open", "read"} => cause = "none"
  BY DEF MeaningInv, PlaceInv
<1>3. cause' = cause \/ (cause = "none" /\ cause' = "open")
  BY <1>2 DEF CallStep, OpenFile, OpenFails, EndOfFile, IncludeNext, IncludeFails, IncludeEnd,
     ReturnTrue, ReturnFalse
<1>4. pc' \in {"open", "read"} => cause' = "none"
  BY <1>2 DEF CallStep, OpenFile, OpenFails, EndOfFile, IncludeNext, IncludeFails, IncludeEnd,
     ReturnTrue, ReturnFalse
<1>. QED BY <1>1, <1>3, <1>4, MeaningSame

LEMMA MeaningPlain ==
  ASSUME ConfigFileAssumption, ShapeInv, MeaningInv, SkipLine \/ Include \/ IncludeNothing \/ OtherKey
  PROVE  MeaningInv'
<1>1. /\ Reading /\ flat' = Append(flat, line) /\ pc' = pc /\ cause' = cause
      /\ UNCHANGED <<input, options, statics, output>>
  BY DEF SkipLine, Include, IncludeNothing, OtherKey, Assigns, ReadLine
<1>2. /\ ~IsSection(line) /\ ~Sets(line, "DBPath") /\ ~Sets(line, "Architecture")
      /\ ~Sets(line, "Server")
  BY DEF SkipLine, Include, IncludeNothing, OtherKey, Assigns, Sets, IsSection
<1>3. Grown /\ pc = "read"
  BY <1>1, Grows, Line1
<1>4. PlaceInv'
  <2>1. reg' = reg
    BY <1>1 DEF input
  <2>. QED BY <1>1, <1>2, <1>3, <2>1, PlaceSame DEF MeaningInv
<1>. QED BY <1>1, <1>2, <1>3, <1>4, MeaningRead

LEMMA MeaningOptions ==
  ASSUME ConfigFileAssumption, ShapeInv, MeaningInv, SectionOptions
  PROVE  MeaningInv'
<1>1. /\ Reading /\ flat' = Append(flat, line) /\ pc' = pc /\ cause' = cause
      /\ UNCHANGED <<input, options, output>> /\ IsSection(line) /\ line.value = "options"
  BY DEF SectionOptions, ReadLine
<1>2. ~Sets(line, "DBPath") /\ ~Sets(line, "Architecture") /\ ~Sets(line, "Server")
  BY <1>1 DEF Sets, IsSection
<1>3. Grown /\ pc = "read"
  BY <1>1, Grows, Line1
<1>4. PlaceInv'
  BY <1>3, PlaceOptions DEF MeaningInv
<1>. QED BY <1>1, <1>2, <1>3, <1>4, MeaningRead

LEMMA MeaningAssign ==
  ASSUME ConfigFileAssumption, ShapeInv, MeaningInv, Architecture \/ DBPath
  PROVE  MeaningInv'
<1>1. /\ Reading /\ flat' = Append(flat, line) /\ pc' = pc /\ cause' = cause
      /\ UNCHANGED <<input, statics, output>>
  BY DEF Architecture, DBPath, Assigns, ReadLine
<1>2. ~IsSection(line) /\ ~Sets(line, "Server")
  BY DEF Architecture, DBPath, Assigns, Sets, IsSection
<1>3. Grown /\ pc = "read"
  BY <1>1, Grows, Line1
<1>4. cause = "none" /\ ~Failed
  BY <1>3 DEF MeaningInv, PlaceInv, Failed
<1>5. PlaceInv'
  <2>1. reg' = reg
    BY <1>1 DEF input
  <2>. QED BY <1>1, <1>2, <1>3, <2>1, PlaceSame DEF MeaningInv
<1>6. OptionsInv'
  BY <1>3, OptionsArchitecture, OptionsDBPath DEF MeaningInv
<1>7. Lists(repos', Taken', Names(flat'))
  BY <1>1, <1>2, <1>3, <1>4, ReposSame DEF MeaningInv, output
<1>8. IF reg' THEN Lists(servers', ServersOf(flat'), Entries(flat, ArchChosen(ArchSet(flat)))')
      ELSE servers' = <<>>
  BY <1>1, <1>2, <1>3, ServersSame DEF MeaningInv, output
<1>. QED BY <1>5, <1>6, <1>7, <1>8, ListsTogether DEF MeaningInv

LEMMA MeaningServer ==
  ASSUME ConfigFileAssumption, ShapeInv, MeaningInv, Server
  PROVE  MeaningInv'
<1>1. /\ Reading /\ flat' = Append(flat, line) /\ pc' = pc /\ cause' = cause
      /\ UNCHANGED <<input, options, statics, repos>>
      /\ servers' = IF reg /\ db # "none"
                    THEN Append(servers, [db |-> db, url |-> line.value, arch |-> handle.arch])
                    ELSE servers
  BY DEF Server, Assigns, ReadLine
<1>2. ~IsSection(line) /\ ~Sets(line, "DBPath") /\ ~Sets(line, "Architecture")
  BY DEF Server, Assigns, Sets, IsSection
<1>3. Grown /\ pc = "read"
  BY <1>1, Grows, Line1
<1>4. cause = "none" /\ ~Failed
      /\ db = IF reg /\ Section \notin {"none", "options"} THEN Section ELSE "none"
  BY <1>3 DEF MeaningInv, PlaceInv, Failed
<1>5. PlaceInv'
  <2>1. reg' = reg
    BY <1>1 DEF input
  <2>. QED BY <1>1, <1>2, <1>3, <2>1, PlaceSame DEF MeaningInv
<1>6. OptionsInv'
  BY <1>1, <1>2, <1>3, OptionsSame DEF MeaningInv
<1>7. Lists(repos', Taken', Names(flat'))
  BY <1>1, <1>2, <1>3, <1>4, ReposSame DEF MeaningInv
<1>8. IF reg' THEN Lists(servers', ServersOf(flat'), Entries(flat, ArchChosen(ArchSet(flat)))')
      ELSE servers' = <<>>
  <2>1. CASE reg /\ Section \notin {"none", "options"}
    <3>1. reg'
      BY <1>1, <2>1 DEF input
    <3>. QED BY <1>3, <2>1, <3>1, ServersMore DEF MeaningInv
  <2>2. CASE ~(reg /\ Section \notin {"none", "options"})
    <3>1. servers' = servers
      BY <1>1, <1>4, <2>2
    <3>. QED BY <1>1, <1>3, <2>2, <3>1, ServersSame DEF MeaningInv
  <2>. QED BY <2>1, <2>2
<1>. QED BY <1>5, <1>6, <1>7, <1>8, ListsTogether DEF MeaningInv

LEMMA MeaningRepo ==
  ASSUME ConfigFileAssumption, ShapeInv, MeaningInv, NEW initialized \in BOOLEAN,
         SectionRepo(initialized) \/ SectionFails(initialized)
  PROVE  MeaningInv'
<1>1. /\ Reading /\ flat' = Append(flat, line) /\ IsSection(line)
      /\ UNCHANGED <<input, servers>>
  BY DEF SectionRepo, SectionFails, InitFails, RegisterFails, ReadLine, output
<1>2. ~Sets(line, "Server")
  BY <1>1 DEF Sets, IsSection
<1>3. Grown /\ pc = "read"
  BY <1>1, Grows, Line1
<1>4. ~Failed
  BY <1>3 DEF MeaningInv, PlaceInv, Failed
<1>5. PlaceInv'
  BY <1>3, PlaceRepo, PlaceFails DEF MeaningInv
<1>6. OptionsInv'
  BY <1>3, OptionsRepo DEF MeaningInv
<1>7. Lists(repos', Taken', Names(flat'))
  BY <1>3, <1>4, ReposMore, ReposFail DEF MeaningInv
<1>8. IF reg' THEN Lists(servers', ServersOf(flat'), Entries(flat, ArchChosen(ArchSet(flat)))')
      ELSE servers' = <<>>
  BY <1>1, <1>2, <1>3, ServersSame DEF MeaningInv
<1>. QED BY <1>5, <1>6, <1>7, <1>8, ListsTogether DEF MeaningInv
LEMMA NextMeaning ==
  ASSUME ConfigFileAssumption, ShapeInv, MeaningInv, [Next]_vars PROVE MeaningInv'
<1>1. CASE CallStep
  BY <1>1, MeaningCalls
<1>2. CASE SkipLine \/ Include \/ IncludeNothing \/ OtherKey
  BY <1>2, MeaningPlain
<1>3. CASE SectionOptions
  BY <1>3, MeaningOptions
<1>4. CASE InitFails \/ \E initialized \in BOOLEAN : SectionRepo(initialized) \/ RegisterFails(initialized)
  BY <1>4, MeaningRepo DEF SectionFails
<1>5. CASE Server
  BY <1>5, MeaningServer
<1>6. CASE Architecture \/ DBPath
  BY <1>6, MeaningAssign
<1>7. CASE UNCHANGED vars
  <2>1. UNCHANGED <<input, options, statics, output, flat>> /\ cause' = cause /\ pc' = pc
    BY <1>7 DEF vars, control
  <2>2. pc' \in {"open", "read"} => cause' = "none"
    BY <2>1 DEF MeaningInv, PlaceInv
  <2>. QED BY <2>1, <2>2, MeaningSame
<1>. QED BY <1>1, <1>2, <1>3, <1>4, <1>5, <1>6, <1>7 DEF Next, CallStep

LEMMA InitMeaning == ASSUME ConfigFileAssumption, Init PROVE MeaningInv
<1>1. /\ flat = <<>> /\ cause = "none" /\ db = "none" /\ in_option = FALSE
      /\ global_opt_parsed = FALSE /\ repos = <<>> /\ servers = <<>> /\ arch = "none"
      /\ dbpath = given /\ handle = NoHandle /\ given \in {"none", "given"} /\ ~Failed
  BY DEF Init, Failed
<1>2. Len(flat) = 0
  BY <1>1
<1>3. HeadersOf(flat, 0) = {} /\ SettingsOf(flat, "DBPath") = {} /\ ServersOf(flat) = {}
      /\ SettingsOf(flat, "Architecture") = {}
  BY <1>2 DEF HeadersOf, SettingsOf, ServersOf
<1>4. ReposOf(flat) = {} /\ Section = "none" /\ DbSet(flat) = "none" /\ ArchSet(flat) = "none"
  BY <1>2, <1>3 DEF ReposOf, Section, SectionOf, DbSet, ArchSet
<1>5. PlaceInv
  BY <1>1, <1>4 DEF PlaceInv
<1>6. OptionsInv
  BY <1>1, <1>4 DEF OptionsInv
<1>7. ListsInv
  <2>1. Cardinality({}) = 0
    BY FS_EmptySet
  <2>2. Taken = {}
    <3>1. Repos = ReposOf(flat)
      BY OfFlat
    <3>. QED BY <1>1, <1>4, <3>1 DEF Taken
  <2>3. Len(repos) = 0 /\ Len(servers) = 0
    BY <1>1
  <2>. QED BY <1>1, <1>3, <2>1, <2>2, <2>3 DEF ListsInv, Lists
<1>. QED BY <1>5, <1>6, <1>7 DEF MeaningInv

LEMMA MeansOptions ==
  ASSUME ConfigFileAssumption, ShapeInv, MeaningInv PROVE HandleFromOptions
<1>1. Repos = ReposOf(flat)
  BY OfFlat
<1>2. ChosenDbpath = DbChosen(DbSet(flat)) /\ ChosenArch = ArchChosen(ArchSet(flat))
  BY ChosenIs DEF ShapeInv, TypeOK
<1>. QED BY <1>1, <1>2 DEF HandleFromOptions, MeaningInv, OptionsInv

LEMMA MeansServers ==
  ASSUME ConfigFileAssumption, ShapeInv, MeaningInv PROVE ServersOfRepos
<1> DEFINE n == Len(flat)
           S == {i \in 1..n : /\ flat[i].what = "Server" /\ IsAssignment(flat[i])
                              /\ SectionAt(i) \notin {"none", "options"}}
<1>1. S = ServersOf(flat)
  BY OfFlat DEF ServersOf, Sets
<1>2. /\ Len(repos) = Cardinality(Taken)
      /\ \A r \in Taken : repos[PlaceIn(Taken, r)] = flat[r].value
  <2>1. Taken \subseteq 1..n
    BY DEF Taken, Repos, Headers
  <2>2. /\ Len(repos) = Cardinality(Taken)
        /\ \A r \in Taken : repos[PlaceIn(Taken, r)] = Names(flat)[r]
    BY DEF MeaningInv, ListsInv, Lists
  <2>3. \A r \in 1..n : Names(flat)[r] = flat[r].value
    BY DEF Names
  <2>. QED BY <2>1, <2>2, <2>3
<1>3. Len(servers) = IF reg THEN Cardinality(S) ELSE 0
  <2>1. CASE reg
    BY <1>1, <2>1 DEF MeaningInv, ListsInv, Lists
  <2>2. CASE ~reg
    BY <2>2 DEF MeaningInv, ListsInv
  <2>. QED BY <2>1, <2>2
<1>4. ASSUME reg, NEW i \in S
      PROVE  servers[PlaceIn(S, i)] =
               [db |-> SectionAt(i), url |-> flat[i].value, arch |-> ChosenArch]
  <2>1. ChosenArch = ArchChosen(ArchSet(flat)) /\ SectionAt(i) = SectionOf(flat, i)
    BY ChosenIs, OfFlat DEF ShapeInv, TypeOK
  <2> DEFINE a == ArchChosen(ArchSet(flat))
  <2>2. servers[PlaceIn(S, i)] = Entries(flat, a)[i]
    BY <1>1, <1>4 DEF MeaningInv, ListsInv, Lists
  <2>3. i \in 1..n
    OBVIOUS
  <2>. HIDE DEF a
  <2>4. Entries(flat, a)[i] = [db |-> SectionOf(flat, i), url |-> flat[i].value, arch |-> a]
    BY <2>3 DEF Entries
  <2>. QED BY <2>1, <2>2, <2>4 DEF a
<1>. QED BY <1>2, <1>3, <1>4 DEF ServersOfRepos, PlaceIn, Taken, Failed

-----------------------------------------------------------------------------
LEMMA FileInvariant == Spec => [](ShapeInv /\ MeaningInv)
<1>1. Init => ShapeInv /\ MeaningInv
  BY ConfigFileAssumption, InitShape, InitMeaning
<1>2. ShapeInv /\ MeaningInv /\ [Next]_vars => (ShapeInv /\ MeaningInv)'
  BY ConfigFileAssumption, NextShape, NextMeaning
<1>. QED BY <1>1, <1>2, PTL DEF Spec

(***************************************************************************)
(* No variable of the parser ever holds what it should not: the arguments  *)
(* of the calls, and never more than MaxOpen files open.                   *)
(***************************************************************************)
THEOREM FileTypes == Spec => []TypeOK
<1>1. ShapeInv => TypeOK
  BY DEF ShapeInv
<1>. QED BY <1>1, FileInvariant, PTL

(***************************************************************************)
(* Whatever the files are, however they include one another and wherever   *)
(* parse_configfile returns: when the first call has returned, every file  *)
(* that was opened is closed and every result of glob is freed; and a file *)
(* meets the limit of open files only if as many calls are nested.         *)
(***************************************************************************)
THEOREM EveryFileClosed == Spec => []FilesClosed
<1>1. ShapeInv => FilesClosed
  BY ConfigFileAssumption, FilesHeld DEF ShapeInv, TypeOK, Frame
<1>. QED BY <1>1, FileInvariant, PTL

(***************************************************************************)
(* libalpm's handle is made, at the first repository that any file has,    *)
(* with the command line, what [options] set before, or the defaults.      *)
(***************************************************************************)
THEOREM HandleAsSet == Spec => []HandleFromOptions
<1>1. ShapeInv /\ MeaningInv => HandleFromOptions
  BY ConfigFileAssumption, MeansOptions
<1>. QED BY <1>1, FileInvariant, PTL

(***************************************************************************)
(* The repositories in the order of their headers, and each Server under   *)
(* the header that was read last, with the architecture of the handle.     *)
(***************************************************************************)
THEOREM ServersAsRead == Spec => []ServersOfRepos
<1>1. ShapeInv /\ MeaningInv => ServersOfRepos
  BY ConfigFileAssumption, MeansServers
<1>. QED BY <1>1, FileInvariant, PTL
=============================================================================
