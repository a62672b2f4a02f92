------------------------------- MODULE JustOne -------------------------------
(***************************************************************************)
(* What --just-one promises of a lookup, whatever is searched and in which *)
(* order: a target is answered once, by one package, and that answer       *)
(* stays; every package that answers some target is printed once, for one  *)
(* of the targets it answers; the exit status tells whether any was.       *)
(***************************************************************************)
VARIABLES
  asked,   \* the targets, never changed
  answer,  \* the answers given: pairs of a target and a package
  screen,  \* those of them that were printed
  status   \* "running", or "found" or "nothing" when the program has ended

TargetsOf(pairs) == {a[1] : a \in pairs}
PackagesOf(pairs) == {a[2] : a \in pairs}

Init ==
  /\ answer = {} /\ screen = {} /\ status = "running"

\* Some targets that had none get an answer, and the packages that were not yet
\* on the screen appear there.
Answer ==
  LET hits == answer' \ answer
      new  == screen' \ screen
  IN /\ status = "running"
     /\ answer \subseteq answer' /\ screen \subseteq screen'
     /\ TargetsOf(hits) \subseteq asked \ TargetsOf(answer)
     /\ \A a, b \in hits : a[1] = b[1] => a = b
     /\ new \subseteq hits
     /\ PackagesOf(new) = PackagesOf(hits) \ PackagesOf(screen)
     /\ \A a, b \in new : a[2] = b[2] => a = b
     /\ UNCHANGED <<asked, status>>

Finish ==
  /\ status = "running"
  /\ status' = IF screen = {} THEN "nothing" ELSE "found"
  /\ UNCHANGED <<asked, answer, screen>>

Next == Answer \/ Finish

Spec == Init /\ [][Next]_<<asked, answer, screen, status>>
=============================================================================
