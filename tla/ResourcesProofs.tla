-------------------------- MODULE ResourcesProofs --------------------------
(***************************************************************************)
(* Whenever the signals come and whatever curl and the formats do: nothing *)
(* is freed twice but what a signal has exposed, the normal end leaves     *)
(* nothing, and a request uses no handle that was freed under it.          *)
(***************************************************************************)
EXTENDS Resources, TLAPS

\* The letters of the formats are the only reason to ask with other flags than
\* a request, and only where the AUR is not reached by https.
Mixed == custom_out /\ ~https

\* All the handles there are were made for requests, so that none is dropped
\* while a request works with it.
HandleInv ==
  Mixed \/ /\ flags \in {RequestFlags, "none"} /\ want \in {RequestFlags, "none"}
           /\ ptr["curl"] = "live" => flags = RequestFlags
           /\ held # "gone" /\ ~stale_curl

\* One cleanup is main()'s own; each of the others has used up a signal.
NestingInv ==
  /\ Len(cleanups) <= 3
  /\ pending # {} => Len(cleanups) <= 2
  /\ pending = Handlers => Len(cleanups) <= 1

\* What is freed and not set is what main() is about to set, what the cleanup
\* that is running is about to set or leaves, or was so when a signal came.
DanglingInv ==
  /\ \A r \in Resource : ptr[r] = "dangling" =>
       \/ r \in exposed
       \/ IF cleanups = <<>> THEN r = busy ELSE r \in Released(Current)
  /\ FreedOnce

\* What main() has yet to set, or to set again.
UnsetInv ==
  /\ busy # "none" => ptr[busy] # "live"
  /\ pc = "options" => busy \in Strings \cup {"none"} /\ ptr["colors"] # "live"
  /\ pc \in {"options", "colors"} => /\ busy \in Strings \cup {"colors", "none"}
                                    /\ ptr["targets"] # "live"
  /\ pc \notin {"search", "request"} => want = "none"

\* Nothing live is at a pointer that is set next, but for a second Architecture.
LostInv ==
  /\ lost \subseteq IF many_archs THEN {"arch"} ELSE {}
  /\ cleanups = <<>> => UnsetInv

\* A cleanup that nothing interrupts has nothing live behind it, and ends at the
\* end of its list.
BehindInv ==
  /\ Len(cleanups) = 1 => \A i \in 1..Len(ReleaseOrder) :
       i < Current.at \/ (i = Current.at /\ Current.freed) => ptr[ReleaseOrder[i]] # "live"
  /\ exited => cleanups # <<>> /\ Current.at > Len(ReleaseOrder)

ResourcesInv == TypeOK /\ NestingInv /\ HandleInv /\ DanglingInv /\ LostInv /\ BehindInv

-----------------------------------------------------------------------------
\* cleanup() releases every resource once.
LEMMA OrderIs ==
  /\ Len(ReleaseOrder) = 10
  /\ \A i \in 1..10 : ReleaseOrder[i] \in Resource
  /\ \A i, j \in 1..10 : ReleaseOrder[i] = ReleaseOrder[j] => i = j
  /\ \A r \in Resource : \E i \in 1..10 : ReleaseOrder[i] = r
<1>1. Len(ReleaseOrder) = 10
  BY DEF ReleaseOrder
<1>2. /\ ReleaseOrder[1] = "handle" /\ ReleaseOrder[2] = "targets"
      /\ ReleaseOrder[3] = "arch" /\ ReleaseOrder[4] = "options"
      /\ ReleaseOrder[5] = "dbpath" /\ ReleaseOrder[6] = "info"
      /\ ReleaseOrder[7] = "local_info" /\ ReleaseOrder[8] = "aur_info"
      /\ ReleaseOrder[9] = "colors" /\ ReleaseOrder[10] = "curl"
  BY DEF ReleaseOrder
<1>3. \A i \in 1..10 : i \in {1, 2, 3, 4, 5, 6, 7, 8, 9, 10}
  OBVIOUS
<1>4. \A i \in 1..10 : ReleaseOrder[i] \in Resource
  BY <1>2, <1>3 DEF Resource, Infos, Strings
<1>5. \A i, j \in 1..10 : ReleaseOrder[i] = ReleaseOrder[j] => i = j
  BY <1>2, <1>3
<1>6. \A r \in Resource : \E i \in 1..10 : ReleaseOrder[i] = r
  BY <1>2 DEF Resource, Infos, Strings
<1>. QED BY <1>1, <1>4, <1>5, <1>6

\* A line without a format asks for no letter that asks the network.
LEMMA LineAsksNothing ==
  ASSUME ~custom_out
  PROVE  AlpmLetters \cap AlpmAsks = {} /\ AurLetters \cap AurAsks = {}
  BY DEF AlpmLetters, AurLetters, AlpmAsks, AurAsks, LineLetters

Frames == [at : 1..(Len(ReleaseOrder) + 1), freed : BOOLEAN]

\* The stack of cleanups when one starts and when the first one moves on.
LEMMA FramesPushed ==
  ASSUME cleanups \in Seq(Frames)
  PROVE  /\ NewCleanup \in Seq(Frames) /\ Len(NewCleanup) = Len(cleanups) + 1
         /\ NewCleanup[1] = [at |-> 1, freed |-> FALSE] /\ NewCleanup # <<>>
<1>1. [at |-> 1, freed |-> FALSE] \in Frames
  BY OrderIs DEF Frames
<1>2. <<[at |-> 1, freed |-> FALSE]>> \in Seq(Frames)
  BY <1>1
<1>. QED BY <1>2 DEF NewCleanup

LEMMA FramesMoved ==
  ASSUME cleanups \in Seq(Frames), cleanups # <<>>, NEW c \in Frames,
         cleanups' = [cleanups EXCEPT ![1] = c]
  PROVE  /\ cleanups' \in Seq(Frames) /\ Len(cleanups') = Len(cleanups)
         /\ cleanups' # <<>> /\ cleanups'[1] = c
<1>1. 1 \in 1..Len(cleanups)
  OBVIOUS
<1>2. cleanups' \in Seq(Frames) /\ Len(cleanups') = Len(cleanups) /\ cleanups'[1] = c
  BY <1>1
<1>. QED BY <1>1, <1>2

\* The three ways in which the cleanup that is running moves on.
LEMMA ReleaseSteps ==
  ASSUME cleanups \in Seq(Frames), Release
  PROVE  /\ cleanups \in Seq(Frames) /\ cleanups # <<>> /\ Current \in Frames
         /\ Current.at \in 1..10 /\ ~Current.freed /\ Place \in Resource
         /\ cleanups' \in Seq(Frames) /\ Len(cleanups') = Len(cleanups) /\ cleanups' # <<>>
         /\ \/ /\ ptr[Place] = "null" /\ ptr' = ptr /\ twice' = twice
               /\ Current' = [at |-> Current.at + 1, freed |-> FALSE]
            \/ /\ ptr[Place] # "null" /\ ptr' = [ptr EXCEPT ![Place] = "dangling"]
               /\ Current' = [at |-> Current.at, freed |-> TRUE]
               /\ twice' = IF ptr[Place] = "dangling" THEN twice \cup {Place} ELSE twice
<1>1. cleanups # <<>> /\ Current \in Frames
  BY DEF Release, Current
<1>2. Current.at \in 1..10 /\ ~Current.freed /\ Place \in Resource
  BY <1>1, OrderIs DEF Release, Frames, Place
<1>3. CASE ptr[Place] = "null"
  <2> DEFINE c == [at |-> Current.at + 1, freed |-> FALSE]
  <2>1. c \in Frames
    BY <1>2, OrderIs DEF Frames
  <2>2. cleanups' = [cleanups EXCEPT ![1] = c]
    BY <1>1, <1>2, <1>3 DEF Release, Current, Frames
  <2>. HIDE DEF c
  <2>3. /\ cleanups' \in Seq(Frames) /\ Len(cleanups') = Len(cleanups)
        /\ cleanups' # <<>> /\ cleanups'[1] = c
    BY <1>1, <2>1, <2>2, FramesMoved
  <2>. QED BY <1>1, <1>2, <1>3, <2>3 DEF Release, Current, c
<1>4. CASE ptr[Place] # "null"
  <2> DEFINE c == [at |-> Current.at, freed |-> TRUE]
  <2>1. c \in Frames
    BY <1>2, OrderIs DEF Frames
  <2>2. cleanups' = [cleanups EXCEPT ![1] = c]
    BY <1>1, <1>2, <1>4 DEF Release, Current, Frames
  <2>. HIDE DEF c
  <2>3. /\ cleanups' \in Seq(Frames) /\ Len(cleanups') = Len(cleanups)
        /\ cleanups' # <<>> /\ cleanups'[1] = c
    BY <1>1, <2>1, <2>2, FramesMoved
  <2>. QED BY <1>1, <1>2, <1>4, <2>3 DEF Release, Current, c
<1>. QED BY <1>3, <1>4

LEMMA ResetSteps ==
  ASSUME cleanups \in Seq(Frames), ResetPointer
  PROVE  /\ cleanups # <<>> /\ Current \in Frames
         /\ Current.at \in 1..10 /\ Current.freed /\ Place \in Resource
         /\ cleanups' \in Seq(Frames) /\ Len(cleanups') = Len(cleanups) /\ cleanups' # <<>>
         /\ Current' = [at |-> Current.at + 1, freed |-> FALSE]
         /\ ptr' = IF Place \in LeftDangling THEN ptr ELSE [ptr EXCEPT ![Place] = "null"]
<1>1. cleanups # <<>> /\ Current \in Frames
  BY DEF ResetPointer, Current
<1>2. Current.at \in 1..10 /\ Current.freed /\ Place \in Resource
  BY <1>1, OrderIs DEF ResetPointer, Frames, Place
<1> DEFINE c == [at |-> Current.at + 1, freed |-> FALSE]
<1>3. c \in Frames
  BY <1>2, OrderIs DEF Frames
<1>4. cleanups' = [cleanups EXCEPT ![1] = c]
  BY <1>1, <1>2 DEF ResetPointer, Current
<1>. HIDE DEF c
<1>5. /\ cleanups' \in Seq(Frames) /\ Len(cleanups') = Len(cleanups)
      /\ cleanups' # <<>> /\ cleanups'[1] = c
  BY <1>1, <1>3, <1>4, FramesMoved
<1>. QED BY <1>1, <1>2, <1>5 DEF ResetPointer, Current, c

-----------------------------------------------------------------------------
(***************************************************************************)
(* Types, and how deep the cleanups nest.                                  *)
(***************************************************************************)
\* The steps of main() other than the call of cleanup().
MainStep ==
  \/ Advance \/ OptDbpath \/ Renew
  \/ Architecture \/ DBPath \/ ForeignTargets
  \/ \E initialized \in BOOLEAN : InitAlpm(initialized)
  \/ \E r \in Resource : Free(r)
  \/ StartRequest \/ CurlSame \/ CurlDrop \/ CurlReset
  \/ \E ok \in BOOLEAN : CurlNew(ok)
  \/ Fetch \/ EndRequest
  \/ LetterMade \/ LetterAsks

CleanupVars == <<cleanups, pending, exited, twice, exposed>>

LEMMA MainIs == MainStep => cleanups = <<>> /\ ~exited /\ UNCHANGED CleanupVars
  BY DEF MainStep, Advance, OptDbpath, Architecture, DBPath, ForeignTargets, InitAlpm, Renew, Free, StartRequest, CurlSame, CurlDrop, CurlReset, CurlNew,
         Fetch, EndRequest, LetterMade, Make, LetterAsks, Ready, Running, CleanupVars

\* What main() does to a pointer.
PtrTypes ==
  /\ ptr \in [Resource -> {"null", "live", "dangling"}]
  /\ pc \in {"options", "list", "colors", "operands", "failed", "search", "request"}
  /\ lost \subseteq Resource
  /\ busy \in Resource \cup {"none"}
  /\ flags \in {"SSL", "NOTHING", "none"} /\ want \in {"SSL", "NOTHING", "none"}
  /\ caller \in {"request", "letter", "none"} /\ held \in {"current", "gone", "none"}

LEMMA MainTypes ==
  ASSUME TypeOK, MainStep
  PROVE  PtrTypes' /\ UNCHANGED inputs /\ stale_curl' \in BOOLEAN
<1>0. PtrTypes /\ stale_curl \in BOOLEAN
  BY DEF TypeOK, PtrTypes
<1>a. ASSUME NEW S \in SUBSET Resource, NEW p \in {"null", "live"}, Assign(S, p)
      PROVE  ptr' \in [Resource -> {"null", "live", "dangling"}] /\ lost' \subseteq Resource
  BY <1>0, <1>a DEF Assign, PtrTypes
<1>b. \A r \in {"colors", "targets", "arch", "dbpath", "handle", "curl"} \cup Infos : r \in Resource
  BY DEF Resource, Strings
<1>c. \A r \in Resource : {r} \in SUBSET Resource
  OBVIOUS
<1>. USE DEF PtrTypes, inputs, curl
<1>1. CASE Advance
  <2>1. /\ \E p \in {"null", "live"}, S \in {{"colors"}, {"targets"}, {}} : Assign(S, p)
        /\ pc' \in {"options", "list", "colors", "operands", "failed", "search", "request"}
        /\ UNCHANGED <<inputs, busy, curl, stale_curl>>
    BY <1>1 DEF Advance
  <2>2. ptr' \in [Resource -> {"null", "live", "dangling"}] /\ lost' \subseteq Resource
    BY <1>a, <1>b, <2>1
  <2>. QED BY <1>0, <2>1, <2>2
<1>2. CASE Renew
  <2>1. /\ \E p \in {"null", "live"} : Assign({busy}, p)
        /\ busy \in Resource /\ busy' = "none"
        /\ UNCHANGED <<inputs, pc, curl, stale_curl>>
    BY <1>0, <1>2 DEF Renew
  <2>2. ptr' \in [Resource -> {"null", "live", "dangling"}] /\ lost' \subseteq Resource
    BY <1>a, <1>c, <2>1
  <2>. QED BY <1>0, <2>1, <2>2
<1>13. CASE OptDbpath \/ Architecture \/ DBPath \/ ForeignTargets
  <2>1. /\ \E r \in {"dbpath", "arch", "targets"} : Assign({r}, "live")
        /\ UNCHANGED <<inputs, pc, busy, curl, stale_curl>>
    BY <1>13 DEF OptDbpath, Architecture, DBPath, ForeignTargets
  <2>2. ptr' \in [Resource -> {"null", "live", "dangling"}] /\ lost' \subseteq Resource
    BY <1>a, <1>b, <2>1
  <2>. QED BY <1>0, <2>1, <2>2
<1>14. ASSUME NEW initialized \in BOOLEAN, InitAlpm(initialized)
       PROVE  PtrTypes' /\ UNCHANGED inputs /\ stale_curl' \in BOOLEAN
  <2>1. /\ \E S \in SUBSET {"dbpath", "arch", "handle"} : Assign(S, "live")
        /\ pc' \in {pc, "failed"} /\ UNCHANGED <<inputs, busy, curl, stale_curl>>
    BY <1>14 DEF InitAlpm, Unset
  <2>2. ptr' \in [Resource -> {"null", "live", "dangling"}] /\ lost' \subseteq Resource
    BY <1>a, <1>b, <2>1
  <2>. QED BY <1>0, <2>1, <2>2
<1>3. ASSUME NEW r \in Resource, Free(r)
      PROVE  PtrTypes' /\ UNCHANGED inputs /\ stale_curl' \in BOOLEAN
  BY <1>0, <1>3 DEF Free
<1>4. CASE StartRequest
  BY <1>0, <1>4 DEF StartRequest, RequestFlags
<1>5. CASE CurlSame
  BY <1>0, <1>5 DEF CurlSame, Got
<1>6. CASE CurlDrop
  BY <1>0, <1>6 DEF CurlDrop, Resource, Strings, Infos
<1>7. CASE CurlReset
  <2>1. ptr' \in [Resource -> {"null", "live", "dangling"}] /\ lost' \subseteq Resource
    BY <1>a, <1>b, <1>7 DEF CurlReset
  <2>. QED BY <1>0, <1>7, <2>1 DEF CurlReset
<1>8. ASSUME NEW ok \in BOOLEAN, CurlNew(ok)
      PROVE  PtrTypes' /\ UNCHANGED inputs /\ stale_curl' \in BOOLEAN
  <2>1. ptr' \in [Resource -> {"null", "live", "dangling"}] /\ lost' \subseteq Resource
    BY <1>0, <1>a, <1>b, <1>8 DEF CurlNew
  <2>. QED BY <1>0, <1>8, <2>1 DEF CurlNew, Got
<1>9. CASE Fetch
  BY <1>0, <1>9 DEF Fetch
<1>10. CASE EndRequest
  BY <1>0, <1>10 DEF EndRequest
<1>11. CASE LetterMade
  <2>1. /\ \E r \in Infos : Assign({r}, "live")
        /\ UNCHANGED <<inputs, pc, busy, curl, stale_curl>>
    BY <1>11 DEF LetterMade, Make, Infos
  <2>2. ptr' \in [Resource -> {"null", "live", "dangling"}] /\ lost' \subseteq Resource
    BY <1>a, <1>b, <2>1
  <2>. QED BY <1>0, <2>1, <2>2
<1>12. CASE LetterAsks
  BY <1>0, <1>12 DEF LetterAsks
<1>. QED BY <1>1, <1>2, <1>3, <1>4, <1>5, <1>6, <1>7, <1>8, <1>9, <1>10, <1>11, <1>12,
            <1>13, <1>14 DEF MainStep

\* What a cleanup and a signal leave alone.
LEMMA CleanupLeaves ==
  Cleanup \/ Release \/ ResetPointer \/ Exit \/ (\E s \in Handlers : Signal(s))
    => UNCHANGED <<inputs, pc, busy, curl, lost, stale_curl>>
  BY DEF Cleanup, Release, ResetPointer, Exit, Signal

LEMMA NextIs ==
  Next <=> \/ MainStep \/ Cleanup \/ Release \/ ResetPointer \/ Exit
           \/ \E s \in Handlers : Signal(s)
  BY DEF Next, MainStep

\* A signal finds at most as many cleanups as its handlers leave room for.
LEMMA SignalNests ==
  ASSUME TypeOK, NestingInv, NEW s \in Handlers, Signal(s)
  PROVE  /\ cleanups' \in Seq(Frames) /\ pending' \subseteq Handlers
         /\ Len(cleanups') = Len(cleanups) + 1 /\ cleanups' # <<>>
         /\ Current' = [at |-> 1, freed |-> FALSE] /\ pending # {} /\ pending' # Handlers
         /\ NestingInv'
<1>1. cleanups' \in Seq(Frames) /\ Len(cleanups') = Len(cleanups) + 1 /\ cleanups' # <<>>
  BY FramesPushed DEF Signal, TypeOK, Frames
<1>2. Current' = [at |-> 1, freed |-> FALSE]
  BY FramesPushed DEF Signal, TypeOK, Frames, Current
<1>3. pending' = pending \ {s} /\ s \in pending /\ pending \subseteq Handlers
  BY DEF Signal, TypeOK
<1>4. pending' # {} => pending = Handlers
  BY <1>3 DEF Handlers
<1>5. Len(cleanups) \in Nat
  BY DEF TypeOK
<1>6. NestingInv'
  BY <1>1, <1>3, <1>4, <1>5 DEF NestingInv
<1>. QED BY <1>1, <1>2, <1>3, <1>6

LEMMA InitTypes == Init => TypeOK /\ NestingInv
<1>. SUFFICES ASSUME Init PROVE TypeOK /\ NestingInv
  OBVIOUS
<1>1. cleanups \in Seq(Frames) /\ Len(cleanups) = 0
  BY DEF Init
<1>2. PtrTypes
  BY DEF Init, PtrTypes
<1>3. https \in BOOLEAN /\ custom_out \in BOOLEAN /\ many_archs \in BOOLEAN /\ exited \in BOOLEAN /\ stale_curl \in BOOLEAN
  BY DEF Init
<1>4. Len(cleanups) <= 3 /\ pending \subseteq Handlers /\ twice \subseteq Resource /\ exposed \subseteq Resource
  BY <1>1 DEF Init
<1>5. TypeOK
  BY <1>1, <1>2, <1>3, <1>4 DEF TypeOK, PtrTypes, Frames
<1>. QED BY <1>1, <1>5 DEF NestingInv

\* The variables keep their types, and at most three cleanups run at a time.
LEMMA NextTypes == TypeOK /\ NestingInv /\ [Next]_vars => TypeOK' /\ NestingInv'
<1>. SUFFICES ASSUME TypeOK, NestingInv, [Next]_vars PROVE TypeOK' /\ NestingInv'
  OBVIOUS
<1> DEFINE Rest == /\ https \in BOOLEAN /\ custom_out \in BOOLEAN /\ many_archs \in BOOLEAN
                   /\ cleanups \in Seq(Frames) /\ Len(cleanups) <= 3
                   /\ pending \subseteq Handlers /\ exited \in BOOLEAN
                   /\ twice \subseteq Resource /\ exposed \subseteq Resource
                   /\ stale_curl \in BOOLEAN
<1>0. TypeOK <=> PtrTypes /\ Rest
  BY DEF TypeOK, PtrTypes, Frames
<1>a. TypeOK' <=> PtrTypes' /\ Rest'
  BY DEF TypeOK, PtrTypes, Frames
<1>1. CASE MainStep
  <2>1. PtrTypes' /\ Rest'
    BY <1>0, <1>1, MainTypes, MainIs DEF CleanupVars, inputs
  <2>. QED BY <1>a, <1>1, <2>1, MainIs DEF NestingInv, CleanupVars
<1>2. CASE Cleanup
  <2>1. cleanups' \in Seq(Frames) /\ Len(cleanups') = 1
    BY <1>0, <1>2, FramesPushed DEF Cleanup, Ready, Running
  <2>2. PtrTypes'
    BY <1>0, <1>2 DEF Cleanup, PtrTypes, curl
  <2>3. Rest'
    BY <1>0, <1>2, <2>1 DEF Cleanup, inputs
  <2>. QED BY <1>a, <2>1, <2>2, <2>3 DEF NestingInv
<1>3. CASE Release
  <2>1. /\ cleanups' \in Seq(Frames) /\ Len(cleanups') = Len(cleanups)
        /\ ptr' \in [Resource -> {"null", "live", "dangling"}] /\ twice' \subseteq Resource
    BY <1>0, <1>3, ReleaseSteps DEF PtrTypes
  <2>2. UNCHANGED <<inputs, pc, busy, curl, lost, stale_curl, pending, exited, exposed>>
    BY <1>3 DEF Release
  <2>3. PtrTypes'
    BY <1>0, <2>1, <2>2 DEF PtrTypes, curl
  <2>4. Rest'
    BY <1>0, <2>1, <2>2 DEF inputs
  <2>. QED BY <1>a, <2>1, <2>2, <2>3, <2>4 DEF NestingInv
<1>4. CASE ResetPointer
  <2>1. /\ cleanups' \in Seq(Frames) /\ Len(cleanups') = Len(cleanups)
        /\ ptr' \in [Resource -> {"null", "live", "dangling"}]
    BY <1>0, <1>4, ResetSteps DEF PtrTypes
  <2>2. UNCHANGED <<inputs, pc, busy, curl, lost, stale_curl, pending, exited, exposed, twice>>
    BY <1>4 DEF ResetPointer
  <2>3. PtrTypes'
    BY <1>0, <2>1, <2>2 DEF PtrTypes, curl
  <2>4. Rest'
    BY <1>0, <2>1, <2>2 DEF inputs
  <2>. QED BY <1>a, <2>1, <2>2, <2>3, <2>4 DEF NestingInv
<1>5. CASE Exit
  <2>1. PtrTypes' /\ Rest'
    BY <1>0, <1>5 DEF Exit, PtrTypes, inputs, curl
  <2>. QED BY <1>a, <1>5, <2>1 DEF Exit, NestingInv
<1>6. ASSUME NEW s \in Handlers, Signal(s) PROVE TypeOK' /\ NestingInv'
  <2>1. UNCHANGED <<inputs, pc, busy, curl, lost, stale_curl, ptr, exited, twice>>
    BY <1>6 DEF Signal
  <2>2. exposed' \subseteq Resource
    <3>1. \A c : Released(c) \subseteq Resource
      BY OrderIs DEF Released
    <3>. QED BY <1>0, <1>6, <3>1 DEF Signal, PtrTypes
  <2>3. PtrTypes'
    BY <1>0, <2>1 DEF PtrTypes, curl
  <2>4. cleanups' \in Seq(Frames) /\ pending' \subseteq Handlers /\ NestingInv'
    BY <1>6, SignalNests
  <2>5. Rest'
    BY <1>0, <2>1, <2>2, <2>4 DEF inputs, NestingInv
  <2>. QED BY <1>a, <2>3, <2>4, <2>5
<1>7. CASE UNCHANGED vars
  BY <1>7 DEF vars, inputs, curl, TypeOK, NestingInv
<1>. QED BY <1>1, <1>2, <1>3, <1>4, <1>5, <1>6, <1>7, NextIs

-----------------------------------------------------------------------------
(***************************************************************************)
(* The handle of curl.                                                     *)
(***************************************************************************)
\* Only a call with other flags than those of the handle drops it.
LEMMA NextHandle == TypeOK /\ HandleInv /\ [Next]_vars => HandleInv'
<1>. SUFFICES ASSUME TypeOK, HandleInv, [Next]_vars PROVE HandleInv'
  OBVIOUS
<1>0. UNCHANGED inputs
  BY NextIs, MainTypes, CleanupLeaves DEF vars
<1>1. CASE Mixed
  BY <1>0, <1>1 DEF Mixed, HandleInv, inputs
<1>2. ASSUME ~Mixed
      PROVE  HandleInv'
  <2>1. /\ flags \in {RequestFlags, "none"} /\ want \in {RequestFlags, "none"}
        /\ ptr["curl"] = "live" => flags = RequestFlags
        /\ held # "gone" /\ ~stale_curl
        /\ ptr \in [Resource -> {"null", "live", "dangling"}] /\ "curl" \in Resource
    BY <1>2 DEF HandleInv, TypeOK, Resource, Strings, Infos
  <2>2. RequestFlags' = RequestFlags /\ RequestFlags # "none"
    BY <1>0 DEF RequestFlags, inputs
  <2> DEFINE OfRequests == /\ flags' \in {RequestFlags, "none"} /\ want' \in {RequestFlags, "none"}
                           /\ ptr'["curl"] = "live" => flags' = RequestFlags
                           /\ held' # "gone" /\ ~stale_curl'
  <2>. SUFFICES OfRequests
    BY <2>2 DEF HandleInv
  <2>. USE DEF curl
  <2>3. CASE Advance
    BY <2>1, <2>3 DEF Advance, Assign
  <2>4. CASE Renew
    BY <2>1, <2>4 DEF Renew, Assign
  <2>21. CASE OptDbpath \/ Architecture \/ DBPath \/ ForeignTargets
    BY <2>1, <2>21 DEF OptDbpath, Architecture, DBPath, ForeignTargets, Assign
  <2>22. ASSUME NEW initialized \in BOOLEAN, InitAlpm(initialized)
         PROVE  OfRequests
    BY <2>1, <2>22 DEF InitAlpm, Assign, Unset
  <2>5. ASSUME NEW r \in Resource, Free(r)
        PROVE  OfRequests
    BY <2>1, <2>5 DEF Free
  <2>6. CASE StartRequest
    BY <2>1, <2>6 DEF StartRequest
  <2>7. CASE CurlSame
    BY <2>1, <2>7 DEF CurlSame, Got
  <2>8. CASE CurlDrop
    BY <2>1, <2>8 DEF CurlDrop
  <2>9. CASE CurlReset
    BY <2>1, <2>9 DEF CurlReset, Assign
  <2>10. ASSUME NEW ok \in BOOLEAN, CurlNew(ok)
         PROVE  OfRequests
    BY <2>1, <2>10 DEF CurlNew, Got, Assign
  <2>11. CASE Fetch
    BY <2>1, <2>11 DEF Fetch
  <2>12. CASE EndRequest
    BY <2>1, <2>12 DEF EndRequest
  <2>13. CASE LetterMade
    BY <2>1, <2>13 DEF LetterMade, Make, Assign
  <2>14. CASE LetterAsks
    <3>1. https
      BY <1>2, <2>14, LineAsksNothing DEF Mixed, LetterAsks
    <3>. QED BY <2>1, <2>14, <3>1 DEF LetterAsks, RequestFlags
  <2>15. CASE Cleanup
    BY <2>1, <2>15 DEF Cleanup
  <2>c. cleanups \in Seq(Frames)
    BY DEF TypeOK, Frames
  <2>16. CASE Release
    <3>1. ptr'["curl"] = "live" => ptr["curl"] = "live"
      BY <2>1, <2>c, <2>16, ReleaseSteps
    <3>. QED BY <2>1, <2>16, <3>1, CleanupLeaves
  <2>17. CASE ResetPointer
    <3>1. ptr'["curl"] = "live" => ptr["curl"] = "live"
      BY <2>1, <2>c, <2>17, ResetSteps
    <3>. QED BY <2>1, <2>17, <3>1, CleanupLeaves
  <2>18. CASE Exit
    BY <2>1, <2>18 DEF Exit
  <2>19. ASSUME NEW s \in Handlers, Signal(s)
         PROVE  OfRequests
    BY <2>1, <2>19 DEF Signal
  <2>20. CASE UNCHANGED vars
    BY <2>1, <2>20 DEF vars
  <2>. QED BY <2>3, <2>4, <2>5, <2>6, <2>7, <2>8, <2>9, <2>10, <2>11, <2>12, <2>13, <2>14, <2>15,
              <2>16, <2>17, <2>18, <2>19, <2>20, <2>21, <2>22 DEF Next
<1>. QED BY <1>1, <1>2

-----------------------------------------------------------------------------
(***************************************************************************)
(* What is freed.                                                          *)
(***************************************************************************)
LEMMA ReleasedIs ==
  ASSUME NEW c, NEW r \in Resource
  PROVE  r \in Released(c) <=>
           \E j \in 1..10 : /\ ReleaseOrder[j] = r
                            /\ (j = c.at /\ c.freed) \/ (j < c.at /\ r \in LeftDangling)
  BY OrderIs DEF Released

\* main() works on one pointer at a time.
LEMMA MainDangling ==
  ASSUME TypeOK, DanglingInv, MainStep
  PROVE  DanglingInv'
<1>1. cleanups = <<>> /\ cleanups' = <<>> /\ exposed' = exposed /\ twice' = twice
  BY MainIs DEF CleanupVars
<1>2. /\ ptr \in [Resource -> {"null", "live", "dangling"}] /\ "curl" \in Resource
      /\ busy \in Resource \cup {"none"}
      /\ \A r \in Resource : r # "none" /\ (ptr[r] = "dangling" => r \in exposed \/ r = busy)
  BY <1>1 DEF TypeOK, DanglingInv, Resource, Infos, Strings
<1> DEFINE OneAtATime == \A r \in Resource : ptr'[r] = "dangling" => r \in exposed \/ r = busy'
<1>. SUFFICES OneAtATime
  BY <1>1 DEF DanglingInv, FreedOnce
<1>a. ASSUME NEW S, NEW p \in {"null", "live"}, Assign(S, p)
      PROVE  \A r \in Resource : ptr'[r] = "dangling" => ptr[r] = "dangling" /\ r \notin S
  BY <1>a DEF Assign
<1>3. CASE Advance
  <2>1. \E p \in {"null", "live"} : \E S : Assign(S, p)
    BY <1>3 DEF Advance
  <2>. QED BY <1>2, <1>3, <1>a, <2>1 DEF Advance
<1>4. CASE Renew
  <2>1. \E p \in {"null", "live"} : Assign({busy}, p)
    BY <1>2, <1>4 DEF Renew
  <2>. QED BY <1>2, <1>4, <1>a, <2>1
<1>15. CASE OptDbpath \/ Architecture \/ DBPath \/ ForeignTargets
  <2>1. \E S : Assign(S, "live") /\ busy' = busy
    BY <1>15 DEF OptDbpath, Architecture, DBPath, ForeignTargets
  <2>. QED BY <1>2, <1>a, <2>1
<1>16. ASSUME NEW initialized \in BOOLEAN, InitAlpm(initialized) PROVE OneAtATime
  <2>1. \E S : Assign(S, "live") /\ busy' = busy
    BY <1>16 DEF InitAlpm
  <2>. QED BY <1>2, <1>a, <2>1
<1>5. ASSUME NEW r \in Resource, Free(r) PROVE OneAtATime
  BY <1>2, <1>5 DEF Free, Ready
<1>6. CASE StartRequest
  BY <1>2, <1>6 DEF StartRequest
<1>7. CASE CurlSame
  BY <1>2, <1>7 DEF CurlSame
<1>8. CASE CurlDrop
  BY <1>2, <1>8 DEF CurlDrop
<1>9. CASE CurlReset
  <2>1. Assign({"curl"}, "null") /\ busy = "curl"
    BY <1>9 DEF CurlReset
  <2>. QED BY <1>2, <1>a, <2>1
<1>10. ASSUME NEW ok \in BOOLEAN, CurlNew(ok) PROVE OneAtATime
  BY <1>2, <1>10 DEF CurlNew, Assign
<1>11. CASE Fetch
  BY <1>2, <1>11 DEF Fetch
<1>12. CASE EndRequest
  BY <1>2, <1>12 DEF EndRequest
<1>13. CASE LetterMade
  BY <1>2, <1>13 DEF LetterMade, Make, Assign
<1>14. CASE LetterAsks
  BY <1>2, <1>14 DEF LetterAsks
<1>. QED BY <1>3, <1>4, <1>5, <1>6, <1>7, <1>8, <1>9, <1>10, <1>11, <1>12, <1>13,
            <1>14, <1>15, <1>16 DEF MainStep

LEMMA NextDangling == TypeOK /\ NestingInv /\ DanglingInv /\ [Next]_vars => DanglingInv'
<1>. SUFFICES ASSUME TypeOK, NestingInv, DanglingInv, [Next]_vars PROVE DanglingInv'
  OBVIOUS
<1>0. /\ ptr \in [Resource -> {"null", "live", "dangling"}]
      /\ busy \in Resource \cup {"none"} /\ cleanups \in Seq(Frames)
      /\ \A r \in Resource : r # "none"
  BY DEF TypeOK, Frames, Resource, Infos, Strings
<1>1. CASE MainStep
  BY <1>1, MainDangling
<1>2. CASE Cleanup
  <2>1. ptr' = ptr /\ exposed' = exposed /\ twice' = twice /\ cleanups = <<>> /\ busy = "none"
    BY <1>2 DEF Cleanup, Ready, Running
  <2>. QED BY <1>0, <2>1 DEF DanglingInv, FreedOnce
<1>3. CASE Release
  <2>1. UNCHANGED <<busy, exposed>> /\ cleanups # <<>> /\ cleanups' # <<>>
    BY <1>0, <1>3, ReleaseSteps DEF Release
  <2>2. ASSUME NEW r \in Resource, r \in Released(Current) PROVE r # Place /\ r \in Released(Current')
    <3>1. Current.at \in 1..10 /\ ~Current.freed
      BY <1>0, <1>3, ReleaseSteps
    <3>2. PICK j \in 1..10 : ReleaseOrder[j] = r /\ j < Current.at /\ r \in LeftDangling
      BY <2>2, <3>1, ReleasedIs
    <3>3. r # Place
      BY <3>1, <3>2, OrderIs DEF Place
    <3>4. Current'.at \in {Current.at, Current.at + 1}
      BY <1>0, <1>3, ReleaseSteps
    <3>5. j < Current'.at
      BY <3>1, <3>2, <3>4
    <3>. QED BY <3>2, <3>3, <3>5, ReleasedIs
  <2>3. CASE ptr[Place] = "null" /\ ptr' = ptr /\ twice' = twice
    BY <2>1, <2>2, <2>3 DEF DanglingInv, FreedOnce
  <2>4. CASE /\ ptr[Place] # "null" /\ ptr' = [ptr EXCEPT ![Place] = "dangling"]
             /\ Current' = [at |-> Current.at, freed |-> TRUE]
             /\ twice' = IF ptr[Place] = "dangling" THEN twice \cup {Place} ELSE twice
    <3>1. Place \in Resource /\ Current.at \in 1..10
      BY <1>0, <1>3, ReleaseSteps
    <3>2. Place \in Released(Current')
      <4>1. Current'.at = Current.at /\ Current'.freed /\ ReleaseOrder[Current.at] = Place
        BY <2>4 DEF Place
      <4>. QED BY <3>1, <4>1, ReleasedIs
    <3>3. ptr[Place] = "dangling" => Place \in exposed
      BY <2>1, <2>2, <3>1 DEF DanglingInv
    <3>4. twice' \subseteq exposed
      BY <2>4, <3>3 DEF DanglingInv, FreedOnce
    <3>5. ASSUME NEW r \in Resource, ptr'[r] = "dangling"
          PROVE  r \in exposed \/ r \in Released(Current')
      <4>1. r = Place \/ ptr[r] = "dangling"
        BY <1>0, <2>4, <3>5
      <4>. QED BY <2>1, <2>2, <3>2, <4>1 DEF DanglingInv
    <3>. QED BY <2>1, <3>4, <3>5 DEF DanglingInv, FreedOnce
  <2>. QED BY <1>0, <1>3, <2>3, <2>4, ReleaseSteps
<1>4. CASE ResetPointer
  <2>1. UNCHANGED <<busy, exposed, twice>> /\ cleanups # <<>> /\ cleanups' # <<>>
    BY <1>0, <1>4, ResetSteps DEF ResetPointer
  <2>2. /\ Current.at \in 1..10 /\ Current.freed /\ Place \in Resource
        /\ Current'.at = Current.at + 1
        /\ ptr' = IF Place \in LeftDangling THEN ptr ELSE [ptr EXCEPT ![Place] = "null"]
    BY <1>0, <1>4, ResetSteps
  <2>3. ASSUME NEW r \in Resource, ptr'[r] = "dangling"
        PROVE  r \in exposed \/ r \in Released(Current')
    <3>1. ptr[r] = "dangling" /\ (r = Place => r \in LeftDangling)
      BY <1>0, <2>2, <2>3
    <3>2. CASE r \in exposed
      BY <3>2
    <3>3. CASE r \in Released(Current)
      <4>1. PICK j \in 1..10 : /\ ReleaseOrder[j] = r
                               /\ j = Current.at \/ (j < Current.at /\ r \in LeftDangling)
        BY <3>3, ReleasedIs
      <4>2. r \in LeftDangling
        BY <3>1, <4>1 DEF Place
      <4>3. j < Current'.at
        BY <2>2, <4>1
      <4>. QED BY <4>1, <4>2, <4>3, ReleasedIs
    <3>. QED BY <2>1, <3>1, <3>2, <3>3 DEF DanglingInv
  <2>. QED BY <2>1, <2>3 DEF DanglingInv, FreedOnce
<1>5. CASE Exit
  BY <1>5 DEF Exit, DanglingInv, FreedOnce, Current
<1>6. ASSUME NEW s \in Handlers, Signal(s) PROVE DanglingInv'
  <2>1. /\ ptr' = ptr /\ twice' = twice /\ cleanups' # <<>>
        /\ exposed' = exposed \cup ({busy} \ {"none"})
                              \cup UNION {Released(cleanups[i]) : i \in 1..Len(cleanups)}
    BY <1>6, SignalNests DEF Signal
  <2>2. cleanups # <<>> => 1 \in 1..Len(cleanups)
    BY <1>0
  <2>3. ASSUME NEW r \in Resource, ptr[r] = "dangling" PROVE r \in exposed'
    <3>1. cleanups # <<>> => Released(Current) \subseteq exposed'
      BY <2>1, <2>2 DEF Current
    <3>. QED BY <1>0, <2>1, <2>3, <3>1 DEF DanglingInv
  <2>. QED BY <2>1, <2>3 DEF DanglingInv, FreedOnce
<1>7. CASE UNCHANGED vars
  BY <1>7 DEF vars, DanglingInv, FreedOnce, Current
<1>. QED BY <1>1, <1>2, <1>3, <1>4, <1>5, <1>6, <1>7, NextIs

-----------------------------------------------------------------------------
(***************************************************************************)
(* What is left.                                                           *)
(***************************************************************************)
\* What a step of main() sets has nothing live behind it.
LEMMA MainLost ==
  ASSUME TypeOK, LostInv, MainStep
  PROVE  LostInv'
<1>1. /\ cleanups = <<>> /\ cleanups' = <<>> /\ many_archs' = many_archs
      /\ lost \subseteq IF many_archs THEN {"arch"} ELSE {}
      /\ UnsetInv
  BY MainIs, MainTypes DEF LostInv, CleanupVars, inputs
<1>2. /\ ptr \in [Resource -> {"null", "live", "dangling"}] /\ busy \in Resource \cup {"none"}
      /\ {"colors", "targets", "arch", "dbpath", "handle", "curl"} \subseteq Resource
      /\ "none" \notin Resource /\ Infos \subseteq Resource
      /\ {"colors", "targets"} \cap Strings = {} /\ Strings \subseteq Resource
  BY DEF TypeOK, Resource, Infos, Strings
<1> DEFINE Found == lost' \subseteq IF many_archs THEN {"arch"} ELSE {}
           Goal == Found /\ UnsetInv'
<1>. SUFFICES Goal
  BY <1>1 DEF LostInv
<1>a. ASSUME NEW S, NEW p, Assign(S, p), \A r \in S : ptr[r] # "live"
      PROVE  Found
  BY <1>1, <1>a DEF Assign
<1>b. ASSUME NEW S, NEW p, Assign(S, p)
      PROVE  \A r \in Resource : ptr'[r] = IF r \in S THEN p ELSE ptr[r]
  BY <1>b DEF Assign
<1>c. lost' = lost => Found
  BY <1>1
<1>. HIDE DEF Found
<1>3. CASE Advance
  <2>1. busy = "none" /\ busy' = "none" /\ want = "none" /\ want' = "none"
    BY <1>3 DEF Advance, Ready, curl
  <2>2. ASSUME NEW p \in {"null", "live"}, pc = "options", pc' = "colors", Assign({"colors"}, p)
        PROVE  Goal
    <3>1. ptr'["targets"] = ptr["targets"]
      BY <1>2, <1>b, <2>2
    <3>. QED BY <1>1, <1>a, <2>1, <2>2, <3>1 DEF UnsetInv
  <2>3. ASSUME NEW p \in {"null", "live"}, pc = "colors", pc' = "operands", Assign({"targets"}, p)
        PROVE  Goal
    BY <1>1, <1>a, <2>1, <2>3 DEF UnsetInv
  <2>4. ASSUME NEW p \in {"null", "live"}, pc' \in {"list", "search"}, Assign({}, p)
        PROVE  Goal
    BY <1>1, <1>a, <2>1, <2>4 DEF UnsetInv
  <2>. QED BY <1>3, <2>2, <2>3, <2>4 DEF Advance
<1>4. CASE OptDbpath
  <2>1. /\ pc' = pc /\ busy' = "none" /\ busy = "none" /\ want' = want
        /\ ptr["dbpath"] = "null" /\ Assign({"dbpath"}, "live") /\ pc = "options"
    BY <1>4 DEF OptDbpath, Ready, curl
  <2>2. ptr'["colors"] = ptr["colors"] /\ ptr'["targets"] = ptr["targets"]
    BY <1>2, <1>b, <2>1
  <2>. QED BY <1>1, <1>a, <2>1, <2>2 DEF UnsetInv
<1>5. CASE Architecture
  <2>1. /\ pc' = "operands" /\ busy' = "none" /\ want' = "none"
        /\ ptr["arch"] = "null" \/ many_archs
        /\ lost' = lost \cup {r \in {"arch"} : ptr[r] = "live"}
    BY <1>5 DEF Architecture, Ready, Assign, curl
  <2>. QED BY <1>1, <2>1 DEF UnsetInv, Found
<1>6. CASE DBPath
  <2>1. /\ pc' = "operands" /\ busy' = "none" /\ want' = "none"
        /\ ptr["dbpath"] = "null" /\ Assign({"dbpath"}, "live")
    BY <1>6 DEF DBPath, Ready, curl
  <2>. QED BY <1>1, <1>a, <2>1 DEF UnsetInv
<1>7. CASE ForeignTargets
  <2>1. /\ pc' = "search" /\ busy' = "none"
        /\ ptr["targets"] = "null" /\ Assign({"targets"}, "live")
    BY <1>7 DEF ForeignTargets, Ready
  <2>. QED BY <1>1, <1>a, <2>1 DEF UnsetInv
<1>8. ASSUME NEW initialized \in BOOLEAN, InitAlpm(initialized) PROVE Goal
  <2>1. /\ pc' \in {"list", "operands", "failed"} /\ busy' = "none" /\ want' = "none"
        /\ \E S \in SUBSET {"dbpath", "arch", "handle"} :
             Assign(S, "live") /\ \A r \in S : ptr[r] = "null"
    BY <1>8 DEF InitAlpm, Unset, Ready, curl
  <2>. QED BY <1>1, <1>a, <2>1 DEF UnsetInv
<1>9. CASE Renew
  <2>1. PICK p : Assign({busy}, p)
    BY <1>9 DEF Renew
  <2>2. busy # "none" /\ busy' = "none" /\ pc' = pc /\ want' = want
    BY <1>9 DEF Renew, curl
  <2>3. Found
    BY <1>1, <1>a, <2>1, <2>2 DEF UnsetInv
  <2>4. \A r \in Resource : r # busy => ptr'[r] = ptr[r]
    BY <1>b, <2>1
  <2>5. pc = "options" => busy # "colors" /\ busy # "targets"
    BY <1>1, <1>2, <2>2 DEF UnsetInv
  <2>6. pc = "colors" => busy # "targets"
    BY <1>1, <1>2, <2>2 DEF UnsetInv
  <2>. QED BY <1>1, <1>2, <2>2, <2>3, <2>4, <2>5, <2>6 DEF UnsetInv
<1>10. ASSUME NEW r \in Resource, Free(r) PROVE Goal
  <2>1. /\ Replaces(r) /\ lost' = lost /\ ptr' = [ptr EXCEPT ![r] = "dangling"] /\ busy' = r
        /\ pc' = pc /\ want' = want
    BY <1>10 DEF Free, curl
  <2>2. \A q \in Resource : ptr'[q] = "live" => ptr[q] = "live" /\ q # r
    BY <1>2, <2>1
  <2>3. (pc = "options" => r \in Strings) /\ (pc = "colors" => r = "colors")
    BY <2>1 DEF Replaces
  <2>. QED BY <1>1, <1>2, <1>c, <2>1, <2>2, <2>3 DEF UnsetInv
<1>11. CASE StartRequest \/ Fetch \/ EndRequest \/ LetterAsks
  <2>1. lost' = lost /\ ptr' = ptr /\ busy' = "none" /\ pc' \in {"search", "request"}
    BY <1>11 DEF StartRequest, Fetch, EndRequest, LetterAsks, Ready
  <2>. QED BY <1>c, <2>1 DEF UnsetInv
<1>12. want # "none" => pc \in {"search", "request"}
  BY <1>1 DEF UnsetInv
<1>13. CASE CurlSame
  <2>1. lost' = lost /\ ptr' = ptr /\ busy' = busy /\ pc' \in {"search", "request"}
    BY <1>12, <1>13 DEF CurlSame, Got
  <2>. QED BY <1>1, <1>c, <2>1 DEF UnsetInv
<1>14. CASE CurlDrop
  <2>1. lost' = lost /\ ptr'["curl"] = "dangling" /\ busy' = "curl" /\ pc' \in {"search", "request"}
    BY <1>2, <1>12, <1>14 DEF CurlDrop
  <2>. QED BY <1>c, <2>1 DEF UnsetInv
<1>15. CASE CurlReset
  <2>1. /\ busy = "curl" /\ Assign({"curl"}, "null") /\ busy' = "none"
        /\ pc' \in {"search", "request"}
    BY <1>12, <1>15 DEF CurlReset
  <2>2. ptr["curl"] # "live"
    BY <1>1, <2>1 DEF UnsetInv
  <2>. QED BY <1>a, <2>1, <2>2 DEF UnsetInv
<1>16. ASSUME NEW ok \in BOOLEAN, CurlNew(ok) PROVE Goal
  <2>1. /\ busy' = "none" /\ pc' \in {"search", "request"} /\ ptr["curl"] # "live"
        /\ Assign({"curl"}, "live") \/ lost' = lost
    BY <1>12, <1>16 DEF CurlNew, Got
  <2>. QED BY <1>a, <1>c, <2>1 DEF UnsetInv
<1>17. CASE LetterMade
  <2>1. /\ \E r \in Infos : Assign({r}, "live") /\ ptr[r] = "null"
        /\ busy' = "none" /\ pc' \in {"search", "request"}
    BY <1>17 DEF LetterMade, Make, Ready, Infos
  <2>. QED BY <1>a, <2>1 DEF UnsetInv
<1>. QED BY <1>3, <1>4, <1>5, <1>6, <1>7, <1>8, <1>9, <1>10, <1>11, <1>13, <1>14, <1>15, <1>16, <1>17
         DEF MainStep

LEMMA NextLost == TypeOK /\ LostInv /\ [Next]_vars => LostInv'
<1>. SUFFICES ASSUME TypeOK, LostInv, [Next]_vars PROVE LostInv'
  OBVIOUS
<1>0. cleanups \in Seq(Frames)
  BY DEF TypeOK, Frames
<1>1. CASE MainStep
  BY <1>1, MainLost
<1>2. CASE Cleanup \/ Release \/ ResetPointer \/ Exit \/ \E s \in Handlers : Signal(s)
  <2>1. lost' = lost /\ many_archs' = many_archs
    BY <1>2, CleanupLeaves DEF inputs
  <2>2. cleanups' # <<>>
    <3>1. CASE Cleanup \/ \E s \in Handlers : Signal(s)
      BY <1>0, <3>1, FramesPushed DEF Cleanup, Signal
    <3>2. CASE Release \/ ResetPointer
      BY <1>0, <3>2, ReleaseSteps, ResetSteps
    <3>3. CASE Exit
      BY <3>3 DEF Exit
    <3>. QED BY <1>2, <3>1, <3>2, <3>3
  <2>. QED BY <2>1, <2>2 DEF LostInv
<1>3. CASE UNCHANGED vars
  BY <1>3 DEF vars, inputs, curl, LostInv, UnsetInv
<1>. QED BY <1>1, <1>2, <1>3, NextIs

LEMMA NextBehind == TypeOK /\ NestingInv /\ BehindInv /\ [Next]_vars => BehindInv'
<1>. SUFFICES ASSUME TypeOK, NestingInv, BehindInv, [Next]_vars PROVE BehindInv'
  OBVIOUS
<1>0. /\ ptr \in [Resource -> {"null", "live", "dangling"}] /\ cleanups \in Seq(Frames)
      /\ Len(ReleaseOrder) = 10
  BY OrderIs DEF TypeOK, Frames
<1>1. CASE MainStep
  BY <1>0, <1>1, MainIs DEF BehindInv, CleanupVars
<1>2. CASE Cleanup
  <2>1. Current' = [at |-> 1, freed |-> FALSE] /\ ~exited'
    BY <1>0, <1>2, FramesPushed DEF Cleanup, Ready, Running, Current
  <2>2. \A i \in 1..10 : ~(i < 1)
    OBVIOUS
  <2>. QED BY <1>0, <2>1, <2>2 DEF BehindInv
<1>3. CASE Release
  <2>1. /\ Current.at \in 1..10 /\ ~Current.freed /\ Place \in Resource /\ ~exited'
        /\ Len(cleanups') = Len(cleanups) /\ Place = ReleaseOrder[Current.at]
    BY <1>0, <1>3, ReleaseSteps DEF Release, Place
  <2>2. \/ /\ ptr[Place] = "null" /\ ptr' = ptr
           /\ Current' = [at |-> Current.at + 1, freed |-> FALSE]
        \/ /\ ptr' = [ptr EXCEPT ![Place] = "dangling"]
           /\ Current' = [at |-> Current.at, freed |-> TRUE]
    BY <1>0, <1>3, ReleaseSteps
  <2>3. ptr'[Place] # "live" /\ \A r \in Resource : ptr'[r] = "live" => ptr[r] = "live"
    BY <1>0, <2>1, <2>2
  <2>4. ASSUME Len(cleanups') = 1, NEW i \in 1..10,
               i < Current'.at \/ (i = Current'.at /\ Current'.freed)
        PROVE  ptr'[ReleaseOrder[i]] # "live"
    <3>1. i < Current.at \/ i = Current.at
      BY <2>1, <2>2, <2>4
    <3>. QED BY <1>0, <2>1, <2>3, <2>4, <3>1, OrderIs DEF BehindInv
  <2>. QED BY <1>0, <2>1, <2>4 DEF BehindInv
<1>4. CASE ResetPointer
  <2>1. /\ Current.at \in 1..10 /\ Current.freed /\ Place \in Resource /\ ~exited'
        /\ Len(cleanups') = Len(cleanups) /\ Current'.at = Current.at + 1 /\ ~Current'.freed
        /\ ptr' = IF Place \in LeftDangling THEN ptr ELSE [ptr EXCEPT ![Place] = "null"]
    BY <1>0, <1>4, ResetSteps DEF ResetPointer
  <2>2. \A r \in Resource : ptr'[r] = "live" => ptr[r] = "live"
    BY <1>0, <2>1
  <2>3. ASSUME Len(cleanups') = 1, NEW i \in 1..10, i < Current'.at
        PROVE  ptr'[ReleaseOrder[i]] # "live"
    <3>1. i < Current.at \/ i = Current.at
      BY <2>1, <2>3
    <3>. QED BY <1>0, <2>1, <2>2, <2>3, <3>1, OrderIs DEF BehindInv
  <2>. QED BY <1>0, <2>1, <2>3 DEF BehindInv
<1>5. CASE Exit
  BY <1>0, <1>5 DEF Exit, BehindInv, Current
<1>6. ASSUME NEW s \in Handlers, Signal(s) PROVE BehindInv'
  <2>1. Current' = [at |-> 1, freed |-> FALSE] /\ ~exited'
    BY <1>6, SignalNests DEF Signal
  <2>2. \A i \in 1..10 : ~(i < 1)
    OBVIOUS
  <2>. QED BY <1>0, <2>1, <2>2 DEF BehindInv
<1>7. CASE UNCHANGED vars
  BY <1>7 DEF vars, BehindInv, Current
<1>. QED BY <1>1, <1>2, <1>3, <1>4, <1>5, <1>6, <1>7, NextIs

-----------------------------------------------------------------------------
LEMMA InitResources == Init => ResourcesInv
<1>. SUFFICES ASSUME Init PROVE ResourcesInv
  OBVIOUS
<1>1. HandleInv
  BY DEF Init, HandleInv, Resource, Strings, Infos
<1>2. DanglingInv
  BY DEF Init, DanglingInv, FreedOnce
<1>3. BehindInv
  BY DEF Init, BehindInv
<1>4. LostInv
  BY DEF Init, LostInv, UnsetInv, Resource, Strings, Infos
<1>. QED BY <1>1, <1>2, <1>3, <1>4, InitTypes DEF ResourcesInv

LEMMA ResourcesInductive == Spec => []ResourcesInv
<1>1. ResourcesInv /\ [Next]_vars => ResourcesInv'
  BY NextTypes, NextHandle, NextDangling, NextLost, NextBehind DEF ResourcesInv
<1>. QED BY <1>1, InitResources, PTL DEF Spec

\* In every reachable state the variables have their types, and at most three
\* calls of cleanup are running: main()'s own and those of the two handlers.
THEOREM ResourceTypes == Spec => []TypeOK
<1>1. ResourcesInv => TypeOK
  BY DEF ResourcesInv
<1>. QED BY <1>1, ResourcesInductive, PTL

\* Whenever the signals come, nothing is freed twice but what main() or a cleanup
\* had freed and not set when one came.
THEOREM NeverFreedTwice == Spec => []FreedOnce
<1>1. ResourcesInv => FreedOnce
  BY DEF ResourcesInv, DanglingInv
<1>. QED BY <1>1, ResourcesInductive, PTL

\* Wherever main() ends: without a signal it exits with all freed that there is a
\* pointer to, and nothing else was there but what a second Architecture replaced.
THEOREM AllFreed == Spec => []NothingLeft
<1>1. ResourcesInv => NothingLeft
  <2>. SUFFICES ASSUME ResourcesInv, exited, pending = Handlers, NEW r \in Resource
                PROVE  ptr[r] # "live"
    BY DEF NothingLeft, ResourcesInv, LostInv
  <2>a. cleanups \in Seq(Frames) /\ cleanups # <<>> /\ Len(cleanups) <= 1
    BY DEF ResourcesInv, NestingInv, BehindInv, TypeOK, Frames
  <2>b. Len(cleanups) = 1 /\ Current \in Frames
    <3>1. Len(cleanups) \in Nat /\ Len(cleanups) # 0
      BY <2>a
    <3>2. \A n \in Nat : n # 0 /\ n <= 1 => n = 1
      OBVIOUS
    <3>3. Len(cleanups) = 1
      BY <2>a, <3>1, <3>2
    <3>. QED BY <2>a, <3>3 DEF Current
  <2>1. Current.at > 10 /\ Current.at \in Nat
    BY <2>b, OrderIs DEF ResourcesInv, BehindInv, Frames
  <2>2. PICK i \in 1..10 : ReleaseOrder[i] = r
    BY OrderIs
  <2>3. i < Current.at
    BY <2>1, <2>2
  <2>. QED BY <2>b, <2>2, <2>3, OrderIs DEF ResourcesInv, BehindInv
<1>. QED BY <1>1, ResourcesInductive, PTL

\* No request works with a handle of curl that another caller of curl_init has
\* dropped, unless --format asks for %a of an AUR that is not reached by https.
THEOREM HandleStays == Spec => []HandleInUse
<1>1. ResourcesInv => HandleInUse
  BY DEF ResourcesInv, HandleInv, HandleInUse, Mixed
<1>. QED BY <1>1, ResourcesInductive, PTL
=============================================================================
