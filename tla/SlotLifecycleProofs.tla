------------------------ MODULE SlotLifecycleProofs ------------------------
(***************************************************************************)
(* What is proved of SlotLifecycle for any slots, sessions, threads and    *)
(* mishaps: its types, that one close or one worker owns every running     *)
(* reset, what follows from it, and that it implements SlotService.  In    *)
(* orderly use a session leaves the next one nothing.                      *)
(***************************************************************************)
EXTENDS SlotLifecycle, TLAPS

(* The inductive invariant, in named parts. *)

Closing(t) == pc[t] \in {"marked", "asked"}
Working(x) == worker[x] # "none"

\* SLOT_CHOICE is held by the one open that chooses.
ChoiceHeld ==
    \A t \in Threads : choice = t <=> pc[t] \in {"choosing", "chosen"}

\* Whose request a thread handles, and whether its row exists yet.
Busy ==
    \A t \in Threads :
        /\ pc[t] # "idle" => sess[t] \in Sessions
        /\ pc[t] \in {"choosing", "chosen"} => status[sess[t]] = "unborn"
        /\ pc[t] \notin {"idle", "choosing", "chosen"} => status[sess[t]] # "unborn"

Placed ==
    /\ \A x \in Sessions : status[x] # "unborn" => place[x] \in Slots
    /\ \A t \in Threads : pc[t] = "chosen" => Where(t) \in Slots

\* What an open has in hand stays free until it gives SLOT_CHOICE back.
ChoiceStaysFree ==
    \A t \in Threads :
        /\ pc[t] = "choosing" => \A x \in OpenSessions : place[x] \notin offered[t]
        /\ pc[t] = "chosen" =>
               /\ \A x \in OpenSessions : place[x] # Where(t)
               /\ reset[Where(t)] = "idle"

\* An owner's session is closed and its slot's reset runs.
OwnersHold ==
    /\ \A t \in Threads : Closing(t) =>
           /\ claimed[t]
           /\ status[sess[t]] = "closed"
           /\ reset[Where(t)] = "running"
    /\ \A x \in Sessions : Working(x) =>
           /\ status[x] = "closed"
           /\ reset[place[x]] = "running"

OwnersApart ==
    /\ \A t, u \in Threads : Closing(t) /\ Closing(u) /\ Where(t) = Where(u) => t = u
    /\ \A x, y \in Sessions : Working(x) /\ Working(y) /\ place[x] = place[y] => x = y
    /\ \A t \in Threads, x \in Sessions : Closing(t) /\ Working(x) => place[x] # Where(t)

RunningIsOwned ==
    \A s \in Slots : reset[s] = "running" =>
        \/ \E t \in Threads : Closing(t) /\ Where(t) = s
        \/ \E x \in Sessions : Working(x) /\ place[x] = s

Ownership ==
    /\ ChoiceHeld
    /\ Busy
    /\ Placed
    /\ ChoiceStaysFree
    /\ OwnersHold
    /\ OwnersApart
    /\ RunningIsOwned
    /\ OneOpenSessionPerSlot
    /\ OpenSlotIsNotReset

\* The worker holds its slot's turn, and Nova cannot be asked for another
\* rebuild under it.
TurnHeld ==
    \A x \in Sessions :
        /\ worker[x] = "holding" => turn[place[x]] = x
        /\ worker[x] \in {"none", "begun"} => ~seen[x]
        /\ worker[x] = "holding" /\ seen[x] => vm[place[x]] # "asked"
-----------------------------------------------------------------------------
(* Types. *)

LEMMA TypeInit == Init => TypeOK
  BY SlotAssumption DEF Init, TypeOK, PCs, Parts, Groups

Contents == [Parts -> Sessions \cup {None}]

\* Whatever is written to one slot, if it is that slot's content, the range
\* still holds contents.
LEMMA EditsContents ==
  ASSUME leftover \in [Slots -> Contents], NEW s, NEW edit,
         s \in Slots => edit \in Contents,
         leftover' = [leftover EXCEPT ![s] = edit]
  PROVE  leftover' \in [Slots -> Contents]
  OBVIOUS

LEMMA AskType ==
  ASSUME TypeOK, NEW s, NEW groups \in SUBSET Groups, AskNova(s, groups)
  PROVE  /\ vm' \in [Slots -> {"active", "asked", "rebuilding"}]
         /\ scope' \in [Slots -> SUBSET Groups]
  BY DEF TypeOK, AskNova

LEMMA PlantType ==
  ASSUME TypeOK, NEW t \in Threads, MayPlant(t)
  PROVE  leftover' \in [Slots -> Contents]
<1>1. PICK data \in Sessions \cup {None} \cup {leftover[Where(t)]["target"]} :
        leftover' = [leftover EXCEPT ![Where(t)]["target"] = data]
  BY DEF MayPlant, TypeOK
<1>2. ASSUME Where(t) \in Slots PROVE data \in Sessions \cup {None}
  BY <1>2 DEF TypeOK, Parts
<1>3. CASE Where(t) \in Slots
  BY <1>1, <1>2, <1>3 DEF TypeOK, Contents, Parts
<1>4. CASE Where(t) \notin Slots
  BY <1>1, <1>4 DEF TypeOK, Contents
<1> QED
  BY <1>3, <1>4

LEMMA PostureType ==
  ASSUME TypeOK, NEW t \in Threads, OpenPrepares(t)
  PROVE  leftover' \in [Slots -> Contents]
<1>1. PICK posture \in {{}, {"waf"}, {"waf", "rules"}} :
        leftover' = [leftover EXCEPT ![Where(t)] =
                        [p \in Parts |-> IF p \in posture THEN sess[t] ELSE @[p]]]
  BY DEF OpenPrepares
<1> QED
  BY <1>1, EditsContents DEF TypeOK, Contents

LEMMA TypeNext == TypeOK /\ [Next]_vars => TypeOK'
<1> SUFFICES ASSUME TypeOK, [Next]_vars PROVE TypeOK'
  OBVIOUS
<1> USE DEF books, threads, workers, range, PCs, Parts, Groups, Steps, Contents, Where
<1>1. ASSUME NEW t \in Threads, NEW x \in Sessions, OpenBegins(t, x) PROVE TypeOK'
  BY <1>1 DEF TypeOK, OpenBegins
<1>2. ASSUME NEW t \in Threads, NEW s \in Slots, OpenChecks(t, s) PROVE TypeOK'
  BY <1>2 DEF TypeOK, OpenChecks
<1>3. ASSUME NEW t \in Threads, OpenRefused(t) PROVE TypeOK'
  BY <1>3 DEF TypeOK, OpenRefused, Return
<1>4. ASSUME NEW t \in Threads, OpenCreates(t) PROVE TypeOK'
  BY <1>4 DEF TypeOK, OpenCreates
<1>5. ASSUME NEW t \in Threads, OpenPrepares(t) PROVE TypeOK'
  <2>1. leftover' \in [Slots -> Contents]
    BY <1>5, PostureType
  <2> QED
    BY <1>5, <2>1 DEF TypeOK, OpenPrepares
<1>6. ASSUME NEW t \in Threads, OpenReadies(t) PROVE TypeOK'
  <2>1. leftover' \in [Slots -> Contents]
    BY <1>6, PlantType DEF OpenReadies, TypeOK
  <2> QED
    BY <1>6, <2>1 DEF TypeOK, OpenReadies
<1>31. ASSUME NEW t \in Threads, OpenEnds(t) PROVE TypeOK'
  <2>1. leftover' \in [Slots -> Contents]
    BY <1>31, PlantType DEF OpenEnds, TypeOK
  <2> QED
    BY <1>31, <2>1 DEF TypeOK, OpenEnds, Return
<1>7. ASSUME NEW t \in Threads, OpenFails(t) PROVE TypeOK'
  BY <1>7 DEF TypeOK, OpenFails, Return
<1>8. ASSUME NEW t \in Threads, NEW x \in Sessions, CloseBegins(t, x) PROVE TypeOK'
  BY <1>8 DEF TypeOK, CloseBegins
<1>9. ASSUME NEW t \in Threads, CloseMarks(t) PROVE TypeOK'
  BY <1>9 DEF TypeOK, CloseMarks
<1>10. ASSUME NEW t \in Threads, CloseAsks(t) PROVE TypeOK'
  BY <1>10 DEF TypeOK, CloseAsks, AskNova
<1>11. ASSUME NEW t \in Threads, CloseBreaks(t) PROVE TypeOK'
  <2>1. UNCHANGED <<vm, scope>> \/ AskNova(Where(t), {"shells"})
    BY <1>11 DEF CloseBreaks
  <2>2. reset' \in [Slots -> {"idle", "running", "failed"}]
    BY <1>11 DEF TypeOK, CloseBreaks
  <2>3. /\ vm' \in [Slots -> {"active", "asked", "rebuilding"}]
        /\ scope' \in [Slots -> SUBSET Groups]
    BY <2>1, AskType DEF TypeOK, Groups
  <2>4. Return(t) /\ UNCHANGED <<status, place, choice, workers, conf, leftover>>
    BY <1>11 DEF CloseBreaks
  <2> QED
    BY <2>2, <2>3, <2>4 DEF TypeOK, Return
<1>12. ASSUME NEW t \in Threads, CloseHandsOver(t) PROVE TypeOK'
  BY <1>12 DEF TypeOK, CloseHandsOver, Return
<1>13. ASSUME NEW t \in Threads, NEW x \in Sessions, NEW p \in Parts,
              WriteBegins(t, x, p)
       PROVE  TypeOK'
  BY <1>13 DEF TypeOK, WriteBegins
<1>14. ASSUME NEW t \in Threads, WriteLands(t) PROVE TypeOK'
  <2>1. PICK data \in Sessions \cup {None} :
          leftover' = [leftover EXCEPT ![Where(t)][part[t]] = data]
    BY <1>14 DEF WriteLands, TypeOK
  <2>2. leftover' \in [Slots -> Contents]
    BY <2>1 DEF TypeOK
  <2> QED
    BY <1>14, <2>2 DEF TypeOK, WriteLands, Return
<1>15. ASSUME NEW t \in Threads, WriteFails(t) PROVE TypeOK'
  BY <1>15 DEF TypeOK, WriteFails, Return
<1>16. ASSUME NEW x \in Sessions, WorkerStarts(x) PROVE TypeOK'
  BY <1>16 DEF TypeOK, WorkerStarts
<1>17. ASSUME NEW x \in Sessions, WorkerClears(x) PROVE TypeOK'
  <2>2. leftover' \in [Slots -> Contents]
    BY <1>17, EditsContents DEF TypeOK, WorkerClears
  <2> QED
    BY <1>17, <2>2 DEF TypeOK, WorkerClears
<1>18. ASSUME NEW x \in Sessions, WorkerRestarts(x) PROVE TypeOK'
  BY <1>18 DEF TypeOK, WorkerRestarts
<1>19. ASSUME NEW x \in Sessions, InPlaceFails(x) PROVE TypeOK'
  <2>1. PICK kept \in SUBSET {"rules", "target"} :
          leftover' = [leftover EXCEPT ![place[x]] =
                          [p \in Parts |-> IF p \in kept \cup {"waf"} THEN @[p] ELSE None]]
    BY <1>19 DEF InPlaceFails
  <2>2. leftover' \in [Slots -> Contents]
    BY <2>1, EditsContents DEF TypeOK
  <2> QED
    BY <1>19, <2>2 DEF TypeOK, InPlaceFails
<1>20. ASSUME NEW x \in Sessions, WorkerSees(x) PROVE TypeOK'
  BY <1>20 DEF TypeOK, WorkerSees
<1>21. ASSUME NEW x \in Sessions, WorkerConfigures(x) PROVE TypeOK'
  BY <1>21 DEF TypeOK, WorkerConfigures
<1>22. ASSUME NEW x \in Sessions, RebuildFails(x) PROVE TypeOK'
  BY <1>22 DEF TypeOK, RebuildFails
<1>23. ASSUME NEW x \in Sessions, WorkerLetsGo(x) PROVE TypeOK'
  BY <1>23 DEF TypeOK, WorkerLetsGo
<1>24. ASSUME NEW x \in Sessions, WorkerReports(x) PROVE TypeOK'
  BY <1>24 DEF TypeOK, WorkerReports
<1>25. ASSUME NEW s \in Slots, NovaBegins(s) PROVE TypeOK'
  BY <1>25 DEF TypeOK, NovaBegins
<1>26. ASSUME NEW s \in Slots, NovaEnds(s) PROVE TypeOK'
  BY <1>26 DEF TypeOK, NovaEnds
<1>27. ASSUME NEW s \in Slots, OperatorRebuilds(s) PROVE TypeOK'
  BY <1>27 DEF TypeOK, OperatorRebuilds, AskNova
<1>28. ASSUME NEW s \in Slots, OperatorConfigures(s) PROVE TypeOK'
  BY <1>28 DEF TypeOK, OperatorConfigures
<1>29. CASE Restart
  BY <1>29 DEF TypeOK, Restart
<1>30. CASE UNCHANGED vars
  BY <1>30 DEF TypeOK, vars, books, threads, workers, range
<1> QED
  BY <1>1, <1>2, <1>3, <1>4, <1>5, <1>6, <1>7, <1>8, <1>9, <1>10, <1>11,
     <1>12, <1>13, <1>14, <1>15, <1>16, <1>17, <1>18, <1>19, <1>20, <1>21,
     <1>22, <1>23, <1>24, <1>25, <1>26, <1>27, <1>28, <1>29, <1>30, <1>31
     DEF Next, OpenStep, CloseStep, CloseGoesOn, WriteStep, WorkerStep, NovaStep, OperatorStep

\* Every variable of the platform and of its range keeps its type.
THEOREM TypeCorrect == Spec => []TypeOK
  BY TypeInit, TypeNext, PTL DEF Spec

-----------------------------------------------------------------------------
(* One owner for every running reset. *)

LEMMA OwnershipInit == Init => Ownership
  BY SlotAssumption DEF Init, Ownership, ChoiceHeld, Busy, Placed, ChoiceStaysFree,
     OwnersHold, OwnersApart, RunningIsOwned, OneOpenSessionPerSlot,
     OpenSlotIsNotReset, OpenSessions, IsOpen, Closing, Working, Where

\* Steps of the range, and a worker's steps between its start and its report,
\* disturb nobody's ownership.
LEMMA OwnershipFrame ==
  ASSUME Ownership,
         UNCHANGED <<books, choice, pc, sess, offered, claimed>>,
         \A x \in Sessions : Working(x)' = Working(x)
  PROVE  Ownership'
  BY DEF Ownership, ChoiceHeld, Busy, Placed, ChoiceStaysFree, OwnersHold,
     OwnersApart, RunningIsOwned, OneOpenSessionPerSlot, OpenSlotIsNotReset,
     OpenSessions, IsOpen, Closing, Where, books

\* A step that starts no reset and keeps every owner keeps every reset owned.
LEMMA OwnersStay ==
  ASSUME RunningIsOwned,
         \A s \in Slots : reset'[s] = "running" => reset[s] = "running",
         \A t \in Threads : Closing(t) => Closing(t)' /\ Where(t)' = Where(t),
         \A x \in Sessions : Working(x) => Working(x)' /\ place'[x] = place[x]
  PROVE  RunningIsOwned'
  <1> SUFFICES ASSUME NEW s \in Slots, reset'[s] = "running"
               PROVE  \/ \E t \in Threads : Closing(t)' /\ Where(t)' = s
                      \/ \E x \in Sessions : Working(x)' /\ place'[x] = s
    BY DEF RunningIsOwned
  <1>1. \/ \E t \in Threads : Closing(t) /\ Where(t) = s
        \/ \E x \in Sessions : Working(x) /\ place[x] = s
    BY DEF RunningIsOwned
  <1> QED
    BY <1>1

LEMMA OpenKeepsOwnership ==
  ASSUME TypeOK, Ownership, NEW t \in Threads, OpenStep(t)
  PROVE  Ownership'
<1> USE SlotAssumption DEF TypeOK, PCs, Where, OpenSessions, IsOpen, Closing, Working
<1>1. ASSUME NEW x \in Sessions, OpenBegins(t, x) PROVE Ownership'
  <2>1. ChoiceHeld' /\ Busy' /\ Placed'
    BY <1>1 DEF OpenBegins, Ownership, ChoiceHeld, Busy, Placed, books, workers
  <2>2. ChoiceStaysFree'
    BY <1>1 DEF OpenBegins, Ownership, ChoiceStaysFree, ChoiceHeld, Busy, Held, books
  <2>3. OwnersHold' /\ OwnersApart'
    BY <1>1
       DEF OpenBegins, Ownership, OwnersHold, OwnersApart, Busy, Placed,
           OpenSlotIsNotReset, books, workers
  <2>4. RunningIsOwned'
    BY <1>1, OwnersStay DEF OpenBegins, Ownership, Busy, books, workers
  <2>5. OneOpenSessionPerSlot' /\ OpenSlotIsNotReset'
    BY <1>1
       DEF OpenBegins, Ownership, OneOpenSessionPerSlot, OpenSlotIsNotReset,
           ChoiceStaysFree, Busy, Placed, OwnersHold, books, workers
  <2> QED
    BY <2>1, <2>2, <2>3, <2>4, <2>5 DEF Ownership
<1>2. ASSUME NEW s \in Slots, OpenChecks(t, s) PROVE Ownership'
  <2>1. ChoiceHeld' /\ Busy' /\ Placed'
    BY <1>2 DEF OpenChecks, Ownership, ChoiceHeld, Busy, Placed, books, workers
  <2>2. ChoiceStaysFree'
    BY <1>2
       DEF OpenChecks, Ownership, ChoiceStaysFree, ChoiceHeld, Busy, OwnersHold, books,
           workers
  <2>3. OwnersHold' /\ OwnersApart'
    BY <1>2
       DEF OpenChecks, Ownership, OwnersHold, OwnersApart, Busy, Placed,
           OpenSlotIsNotReset, books, workers
  <2>4. RunningIsOwned'
    BY <1>2, OwnersStay DEF OpenChecks, Ownership, OwnersHold, Busy, workers
  <2>5. OneOpenSessionPerSlot' /\ OpenSlotIsNotReset'
    BY <1>2
       DEF OpenChecks, Ownership, OneOpenSessionPerSlot, OpenSlotIsNotReset,
           ChoiceStaysFree, Busy, Placed, OwnersHold, books, workers
  <2> QED
    BY <2>1, <2>2, <2>3, <2>4, <2>5 DEF Ownership
<1>3. ASSUME OpenRefused(t) PROVE Ownership'
  <2>1. ChoiceHeld' /\ Busy' /\ Placed'
    BY <1>3 DEF OpenRefused, Return, Ownership, ChoiceHeld, Busy, Placed, books, workers
  <2>2. ChoiceStaysFree'
    BY <1>3
       DEF OpenRefused, Return, Ownership, ChoiceStaysFree, ChoiceHeld, Busy,
           OwnersHold, books, workers
  <2>3. OwnersHold' /\ OwnersApart'
    BY <1>3
       DEF OpenRefused, Return, Ownership, OwnersHold, OwnersApart, Busy, Placed,
           OpenSlotIsNotReset, books, workers
  <2>4. RunningIsOwned'
    BY <1>3, OwnersStay DEF OpenRefused, Return, Ownership, Busy, books, workers
  <2>5. OneOpenSessionPerSlot' /\ OpenSlotIsNotReset'
    BY <1>3
       DEF OpenRefused, Return, Ownership, OneOpenSessionPerSlot, OpenSlotIsNotReset,
           ChoiceStaysFree, Busy, Placed, OwnersHold, books, workers
  <2> QED
    BY <2>1, <2>2, <2>3, <2>4, <2>5 DEF Ownership
<1>4. ASSUME OpenCreates(t) PROVE Ownership'
  <2>1. ChoiceHeld' /\ Busy' /\ Placed'
    BY <1>4 DEF OpenCreates, Ownership, ChoiceHeld, Busy, Placed, books, workers
  <2>2. ChoiceStaysFree'
    BY <1>4
       DEF OpenCreates, Ownership, ChoiceStaysFree, ChoiceHeld, Busy, OwnersHold,
           books, workers
  <2>3. OwnersHold' /\ OwnersApart'
    BY <1>4
       DEF OpenCreates, Ownership, OwnersHold, OwnersApart, Busy, Placed,
           OpenSlotIsNotReset, books, workers
  <2>4. RunningIsOwned'
    BY <1>4, OwnersStay DEF OpenCreates, Ownership, Busy, books, workers
  <2>5. OneOpenSessionPerSlot' /\ OpenSlotIsNotReset'
    BY <1>4
       DEF OpenCreates, Ownership, OneOpenSessionPerSlot, OpenSlotIsNotReset,
           ChoiceStaysFree, Busy, Placed, OwnersHold, books, workers
  <2> QED
    BY <2>1, <2>2, <2>3, <2>4, <2>5 DEF Ownership
<1>5. ASSUME OpenPrepares(t) PROVE Ownership'
  <2>1. ChoiceHeld' /\ Busy' /\ Placed'
    BY <1>5 DEF OpenPrepares, Ownership, ChoiceHeld, Busy, Placed, books, workers
  <2>2. ChoiceStaysFree'
    BY <1>5
       DEF OpenPrepares, Ownership, ChoiceStaysFree, ChoiceHeld, Busy, OwnersHold,
           books, workers
  <2>3. OwnersHold' /\ OwnersApart'
    BY <1>5
       DEF OpenPrepares, Ownership, OwnersHold, OwnersApart, Busy, Placed,
           OpenSlotIsNotReset, books, workers
  <2>4. RunningIsOwned'
    BY <1>5, OwnersStay DEF OpenPrepares, Ownership, Busy, books, workers
  <2>5. OneOpenSessionPerSlot' /\ OpenSlotIsNotReset'
    BY <1>5
       DEF OpenPrepares, Ownership, OneOpenSessionPerSlot, OpenSlotIsNotReset,
           ChoiceStaysFree, Busy, Placed, OwnersHold, books, workers
  <2> QED
    BY <2>1, <2>2, <2>3, <2>4, <2>5 DEF Ownership
<1>6. ASSUME OpenReadies(t) PROVE Ownership'
  <2>1. ChoiceHeld' /\ Busy' /\ Placed'
    BY <1>6 DEF OpenReadies, Ownership, ChoiceHeld, Busy, Placed, books, workers
  <2>2. ChoiceStaysFree'
    BY <1>6
       DEF OpenReadies, Ownership, ChoiceStaysFree, ChoiceHeld, Busy, OwnersHold,
           books, workers
  <2>3. OwnersHold' /\ OwnersApart'
    BY <1>6
       DEF OpenReadies, Ownership, OwnersHold, OwnersApart, Busy, Placed,
           OpenSlotIsNotReset, books, workers
  <2>4. RunningIsOwned'
    BY <1>6, OwnersStay DEF OpenReadies, Ownership, Busy, books, workers
  <2>5. OneOpenSessionPerSlot' /\ OpenSlotIsNotReset'
    BY <1>6
       DEF OpenReadies, Ownership, OneOpenSessionPerSlot, OpenSlotIsNotReset,
           ChoiceStaysFree, Busy, Placed, OwnersHold, books, workers
  <2> QED
    BY <2>1, <2>2, <2>3, <2>4, <2>5 DEF Ownership
<1>8. ASSUME OpenEnds(t) PROVE Ownership'
  <2>1. ChoiceHeld' /\ Busy' /\ Placed'
    BY <1>8 DEF OpenEnds, Return, Ownership, ChoiceHeld, Busy, Placed, books, workers
  <2>2. ChoiceStaysFree'
    BY <1>8
       DEF OpenEnds, Return, Ownership, ChoiceStaysFree, ChoiceHeld, Busy, OwnersHold,
           books, workers
  <2>3. OwnersHold' /\ OwnersApart'
    BY <1>8
       DEF OpenEnds, Return, Ownership, OwnersHold, OwnersApart, Busy, Placed,
           OpenSlotIsNotReset, books, workers
  <2>4. RunningIsOwned'
    BY <1>8, OwnersStay DEF OpenEnds, Return, Ownership, Busy, books, workers
  <2>5. OneOpenSessionPerSlot' /\ OpenSlotIsNotReset'
    BY <1>8
       DEF OpenEnds, Return, Ownership, OneOpenSessionPerSlot, OpenSlotIsNotReset,
           ChoiceStaysFree, Busy, Placed, OwnersHold, books, workers
  <2> QED
    BY <2>1, <2>2, <2>3, <2>4, <2>5 DEF Ownership
<1>7. ASSUME OpenFails(t) PROVE Ownership'
  <2>1. ChoiceHeld' /\ Busy' /\ Placed'
    BY <1>7 DEF OpenFails, Return, Ownership, ChoiceHeld, Busy, Placed, books, workers
  <2>2. ChoiceStaysFree'
    BY <1>7
       DEF OpenFails, Return, Ownership, ChoiceStaysFree, ChoiceHeld, Busy, OwnersHold,
           books, workers
  <2>3. OwnersHold' /\ OwnersApart'
    BY <1>7
       DEF OpenFails, Return, Ownership, OwnersHold, OwnersApart, Busy, Placed,
           OpenSlotIsNotReset, books, workers
  <2>4. RunningIsOwned'
    BY <1>7, OwnersStay DEF OpenFails, Return, Ownership, Busy, books, workers
  <2>5. OneOpenSessionPerSlot' /\ OpenSlotIsNotReset'
    BY <1>7
       DEF OpenFails, Return, Ownership, OneOpenSessionPerSlot, OpenSlotIsNotReset,
           ChoiceStaysFree, Busy, Placed, OwnersHold, books, workers
  <2> QED
    BY <2>1, <2>2, <2>3, <2>4, <2>5 DEF Ownership
<1> QED
  BY <1>1, <1>2, <1>3, <1>4, <1>5, <1>6, <1>7, <1>8 DEF OpenStep

LEMMA CloseKeepsOwnership ==
  ASSUME TypeOK, Ownership, NEW t \in Threads, CloseStep(t)
  PROVE  Ownership'
<1> USE SlotAssumption DEF TypeOK, PCs, Where, OpenSessions, IsOpen, Closing, Working
<1>1. ASSUME NEW x \in Sessions, CloseBegins(t, x) PROVE Ownership'
  <2>1. ChoiceHeld' /\ Busy' /\ Placed'
    BY <1>1 DEF CloseBegins, Ownership, ChoiceHeld, Busy, Placed, books, workers
  <2>2. ChoiceStaysFree'
    BY <1>1
       DEF CloseBegins, Ownership, ChoiceStaysFree, ChoiceHeld, Busy, OwnersHold,
           books, workers
  <2>3. OwnersHold' /\ OwnersApart'
    BY <1>1
       DEF CloseBegins, Ownership, OwnersHold, OwnersApart, Busy, Placed,
           OpenSlotIsNotReset, books, workers
  <2>4. RunningIsOwned'
    BY <1>1, OwnersStay DEF CloseBegins, Ownership, Busy, books, workers
  <2>5. OneOpenSessionPerSlot' /\ OpenSlotIsNotReset'
    BY <1>1
       DEF CloseBegins, Ownership, OneOpenSessionPerSlot, OpenSlotIsNotReset,
           ChoiceStaysFree, Busy, Placed, OwnersHold, books, workers
  <2> QED
    BY <2>1, <2>2, <2>3, <2>4, <2>5 DEF Ownership
<1>2. ASSUME CloseMarks(t) PROVE Ownership'
  <2>1. ChoiceHeld' /\ Busy' /\ Placed'
    BY <1>2 DEF CloseMarks, Ownership, ChoiceHeld, Busy, Placed, books, workers
  <2>2. ChoiceStaysFree'
    BY <1>2
       DEF CloseMarks, Ownership, ChoiceStaysFree, ChoiceHeld, Busy, OwnersHold, books,
           workers
  <2>3. OwnersHold' /\ OwnersApart'
    <3>1. CASE IsOpen(sess[t])
      <4>1. reset[Where(t)] = "idle"
        BY <1>2, <3>1 DEF CloseMarks, Ownership, Busy, OpenSlotIsNotReset
      <4>2. /\ \A u \in Threads : Closing(u) => Where(u) # Where(t)
            /\ \A x \in Sessions : Working(x) => place[x] # Where(t)
        BY <4>1 DEF Ownership, OwnersHold
      <4>3. OwnersHold'
        <5>1. claimed'[t] /\ status'[sess[t]] = "closed" /\ reset'[Where(t)] = "running"
          BY <1>2, <3>1, <4>1 DEF CloseMarks, Ownership, Busy, Placed
        <5>2. /\ \A u \in Threads : u # t /\ claimed[u] => claimed'[u]
              /\ \A s \in Slots : reset[s] = "running" => reset'[s] = "running"
              /\ \A x \in Sessions : status[x] = "closed" => status'[x] = "closed"
              /\ sess' = sess /\ place' = place /\ worker' = worker
              /\ \A u \in Threads : u # t => pc'[u] = pc[u]
          BY <1>2, <3>1 DEF CloseMarks, Ownership, Busy, workers
        <5>3. ASSUME NEW u \in Threads, Closing(u)', u # t
              PROVE  claimed'[u] /\ status'[sess'[u]] = "closed" /\ reset'[Where(u)'] = "running"
          BY <5>2, <5>3 DEF Ownership, Busy, Placed, OwnersHold
        <5>4. ASSUME NEW x \in Sessions, Working(x)'
              PROVE  status'[x] = "closed" /\ reset'[place'[x]] = "running"
          BY <5>2, <5>4 DEF Ownership, Placed, OwnersHold
        <5> QED
          BY <5>1, <5>2, <5>3, <5>4 DEF OwnersHold
      <4>4. OwnersApart'
        BY <1>2, <3>1, <4>2 DEF CloseMarks, Ownership, Busy, OwnersApart, workers
      <4> QED
        BY <4>3, <4>4
    <3>2. CASE ~IsOpen(sess[t])
      <4>1. \A u \in Threads : Closing(u)' => u # t /\ Closing(u) /\ Where(u)' = Where(u)
        BY <1>2, <3>2 DEF CloseMarks
      <4>2. \A s \in Slots : reset[s] = "running" => reset'[s] = "running"
        BY <1>2, <3>2 DEF CloseMarks
      <4> QED
        BY <1>2, <3>2, <4>1, <4>2
           DEF CloseMarks, Ownership, Busy, Placed, OwnersHold, OwnersApart, workers
    <3> QED
      BY <3>1, <3>2
  <2>4. RunningIsOwned'
    <3> SUFFICES ASSUME NEW s \in Slots, reset'[s] = "running"
                 PROVE  \/ \E u \in Threads : Closing(u)' /\ Where(u)' = s
                        \/ \E x \in Sessions : Working(x)' /\ place'[x] = s
      BY DEF RunningIsOwned
    <3>1. CASE IsOpen(sess[t]) /\ s = Where(t)
      BY <1>2, <3>1 DEF CloseMarks
    <3>2. CASE ~(IsOpen(sess[t]) /\ s = Where(t))
      <4>1. reset[s] = "running"
        BY <1>2, <3>2 DEF CloseMarks
      <4>2. \/ \E u \in Threads : Closing(u) /\ Where(u) = s
            \/ \E x \in Sessions : Working(x) /\ place[x] = s
        BY <4>1 DEF Ownership, RunningIsOwned
      <4> QED
        BY <1>2, <4>2 DEF CloseMarks, workers
    <3> QED
      BY <3>1, <3>2
  <2>5. OneOpenSessionPerSlot' /\ OpenSlotIsNotReset'
    BY <1>2
       DEF CloseMarks, Ownership, OneOpenSessionPerSlot, OpenSlotIsNotReset,
           ChoiceStaysFree, Busy, Placed, OwnersHold, books, workers
  <2> QED
    BY <2>1, <2>2, <2>3, <2>4, <2>5 DEF Ownership
<1>3. ASSUME CloseAsks(t) PROVE Ownership'
  <2>1. ChoiceHeld' /\ Busy' /\ Placed'
    BY <1>3 DEF CloseAsks, Ownership, ChoiceHeld, Busy, Placed, books, workers
  <2>2. ChoiceStaysFree'
    BY <1>3
       DEF CloseAsks, Ownership, ChoiceStaysFree, ChoiceHeld, Busy, OwnersHold, books,
           workers
  <2>3. OwnersHold' /\ OwnersApart'
    BY <1>3
       DEF CloseAsks, Ownership, OwnersHold, OwnersApart, Busy, Placed,
           OpenSlotIsNotReset, books, workers
  <2>4. RunningIsOwned'
    BY <1>3, OwnersStay DEF CloseAsks, Ownership, Busy, books, workers
  <2>5. OneOpenSessionPerSlot' /\ OpenSlotIsNotReset'
    BY <1>3
       DEF CloseAsks, Ownership, OneOpenSessionPerSlot, OpenSlotIsNotReset,
           ChoiceStaysFree, Busy, Placed, OwnersHold, books, workers
  <2> QED
    BY <2>1, <2>2, <2>3, <2>4, <2>5 DEF Ownership
<1>4. ASSUME CloseBreaks(t) PROVE Ownership'
  <2>1. ChoiceHeld' /\ Busy' /\ Placed'
    BY <1>4 DEF CloseBreaks, Return, Ownership, ChoiceHeld, Busy, Placed, books, workers
  <2>2. ChoiceStaysFree'
    BY <1>4
       DEF CloseBreaks, Return, Ownership, ChoiceStaysFree, ChoiceHeld, Busy,
           OwnersHold, books, workers
  <2>3. OwnersHold' /\ OwnersApart'
    BY <1>4
       DEF CloseBreaks, Return, Ownership, OwnersHold, OwnersApart, Busy, Placed,
           OpenSlotIsNotReset, books, workers
  <2>4. RunningIsOwned'
    <3> SUFFICES ASSUME NEW s \in Slots, reset'[s] = "running"
                 PROVE  \/ \E u \in Threads : Closing(u)' /\ Where(u)' = s
                        \/ \E x \in Sessions : Working(x)' /\ place'[x] = s
      BY DEF RunningIsOwned
    <3>1. reset[s] = "running" /\ s # Where(t)
      BY <1>4 DEF CloseBreaks, Ownership, OwnersHold
    <3>2. \/ \E u \in Threads : Closing(u) /\ Where(u) = s
          \/ \E x \in Sessions : Working(x) /\ place[x] = s
      BY <3>1 DEF Ownership, RunningIsOwned
    <3> QED
      BY <1>4, <3>1, <3>2 DEF CloseBreaks, Return, workers
  <2>5. OneOpenSessionPerSlot' /\ OpenSlotIsNotReset'
    BY <1>4
       DEF CloseBreaks, Return, Ownership, OneOpenSessionPerSlot, OpenSlotIsNotReset,
           ChoiceStaysFree, Busy, Placed, OwnersHold, books, workers
  <2> QED
    BY <2>1, <2>2, <2>3, <2>4, <2>5 DEF Ownership
<1>5. ASSUME CloseHandsOver(t) PROVE Ownership'
  <2>1. ChoiceHeld' /\ Busy' /\ Placed'
    BY <1>5
       DEF CloseHandsOver, Return, Ownership, ChoiceHeld, Busy, Placed, books, workers
  <2>2. ChoiceStaysFree'
    BY <1>5
       DEF CloseHandsOver, Return, Ownership, ChoiceStaysFree, ChoiceHeld, Busy,
           OwnersHold, books, workers
  <2>3. OwnersHold' /\ OwnersApart'
    BY <1>5
       DEF CloseHandsOver, Return, Ownership, OwnersHold, OwnersApart, Busy, Placed,
           OpenSlotIsNotReset, books, workers
  <2>4. RunningIsOwned'
    <3> SUFFICES ASSUME NEW s \in Slots, reset'[s] = "running"
                 PROVE  \/ \E u \in Threads : Closing(u)' /\ Where(u)' = s
                        \/ \E x \in Sessions : Working(x)' /\ place'[x] = s
      BY DEF RunningIsOwned
    <3>1. CASE s = Where(t)
      <4>1. sess[t] \in Sessions /\ worker'[sess[t]] = "begun"
        BY <1>5 DEF CloseHandsOver, Ownership, Busy, OwnersHold
      <4> QED
        BY <1>5, <3>1, <4>1 DEF CloseHandsOver, books
    <3>2. CASE s # Where(t)
      <4>1. \/ \E u \in Threads : Closing(u) /\ Where(u) = s
            \/ \E x \in Sessions : Working(x) /\ place[x] = s
        BY <1>5 DEF CloseHandsOver, books, Ownership, RunningIsOwned
      <4> QED
        BY <1>5, <3>2, <4>1 DEF CloseHandsOver, Return, books
    <3> QED
      BY <3>1, <3>2
  <2>5. OneOpenSessionPerSlot' /\ OpenSlotIsNotReset'
    BY <1>5
       DEF CloseHandsOver, Return, Ownership, OneOpenSessionPerSlot,
           OpenSlotIsNotReset, ChoiceStaysFree, Busy, Placed, OwnersHold, books, workers
  <2> QED
    BY <2>1, <2>2, <2>3, <2>4, <2>5 DEF Ownership
<1> QED
  BY <1>1, <1>2, <1>3, <1>4, <1>5 DEF CloseStep, CloseGoesOn

LEMMA WriteKeepsOwnership ==
  ASSUME TypeOK, Ownership, NEW t \in Threads, WriteStep(t)
  PROVE  Ownership'
<1> USE SlotAssumption DEF TypeOK, PCs, Where, OpenSessions, IsOpen, Closing, Working
<1>1. ASSUME NEW x \in Sessions, NEW p \in Parts, WriteBegins(t, x, p) PROVE Ownership'
  <2>1. ChoiceHeld' /\ Busy' /\ Placed'
    BY <1>1 DEF WriteBegins, Ownership, ChoiceHeld, Busy, Placed, books, workers
  <2>2. ChoiceStaysFree'
    BY <1>1
       DEF WriteBegins, Ownership, ChoiceStaysFree, ChoiceHeld, Busy, OwnersHold,
           books, workers
  <2>3. OwnersHold' /\ OwnersApart'
    BY <1>1
       DEF WriteBegins, Ownership, OwnersHold, OwnersApart, Busy, Placed,
           OpenSlotIsNotReset, books, workers
  <2>4. RunningIsOwned'
    BY <1>1, OwnersStay DEF WriteBegins, Ownership, Busy, books, workers
  <2>5. OneOpenSessionPerSlot' /\ OpenSlotIsNotReset'
    BY <1>1
       DEF WriteBegins, Ownership, OneOpenSessionPerSlot, OpenSlotIsNotReset,
           ChoiceStaysFree, Busy, Placed, OwnersHold, books, workers
  <2> QED
    BY <2>1, <2>2, <2>3, <2>4, <2>5 DEF Ownership
<1>2. ASSUME WriteLands(t) PROVE Ownership'
  <2>1. ChoiceHeld' /\ Busy' /\ Placed'
    BY <1>2 DEF WriteLands, Return, Ownership, ChoiceHeld, Busy, Placed, books, workers
  <2>2. ChoiceStaysFree'
    BY <1>2
       DEF WriteLands, Return, Ownership, ChoiceStaysFree, ChoiceHeld, Busy,
           OwnersHold, books, workers
  <2>3. OwnersHold' /\ OwnersApart'
    BY <1>2
       DEF WriteLands, Return, Ownership, OwnersHold, OwnersApart, Busy, Placed,
           OpenSlotIsNotReset, books, workers
  <2>4. RunningIsOwned'
    BY <1>2, OwnersStay DEF WriteLands, Return, Ownership, Busy, books, workers
  <2>5. OneOpenSessionPerSlot' /\ OpenSlotIsNotReset'
    BY <1>2
       DEF WriteLands, Return, Ownership, OneOpenSessionPerSlot, OpenSlotIsNotReset,
           ChoiceStaysFree, Busy, Placed, OwnersHold, books, workers
  <2> QED
    BY <2>1, <2>2, <2>3, <2>4, <2>5 DEF Ownership
<1>3. ASSUME WriteFails(t) PROVE Ownership'
  <2>1. ChoiceHeld' /\ Busy' /\ Placed'
    BY <1>3 DEF WriteFails, Return, Ownership, ChoiceHeld, Busy, Placed, books, workers
  <2>2. ChoiceStaysFree'
    BY <1>3
       DEF WriteFails, Return, Ownership, ChoiceStaysFree, ChoiceHeld, Busy,
           OwnersHold, books, workers
  <2>3. OwnersHold' /\ OwnersApart'
    BY <1>3
       DEF WriteFails, Return, Ownership, OwnersHold, OwnersApart, Busy, Placed,
           OpenSlotIsNotReset, books, workers
  <2>4. RunningIsOwned'
    BY <1>3, OwnersStay DEF WriteFails, Return, Ownership, Busy, books, workers
  <2>5. OneOpenSessionPerSlot' /\ OpenSlotIsNotReset'
    BY <1>3
       DEF WriteFails, Return, Ownership, OneOpenSessionPerSlot, OpenSlotIsNotReset,
           ChoiceStaysFree, Busy, Placed, OwnersHold, books, workers
  <2> QED
    BY <2>1, <2>2, <2>3, <2>4, <2>5 DEF Ownership
<1> QED
  BY <1>1, <1>2, <1>3 DEF WriteStep

\* Of a worker's steps only the report ends an ownership.
LEMMA WorkerKeepsOwnership ==
  ASSUME TypeOK, Ownership, NEW x \in Sessions, WorkerStep(x)
  PROVE  Ownership'
<1> USE SlotAssumption DEF TypeOK, PCs, Where, OpenSessions, IsOpen, Closing, Working
<1>1. CASE WorkerReports(x)
  <2>1. ChoiceHeld' /\ Busy' /\ Placed'
    BY <1>1 DEF WorkerReports, Ownership, ChoiceHeld, Busy, Placed, threads
  <2>2. ChoiceStaysFree'
    <3>1. reset[place[x]] = "running"
      BY <1>1 DEF WorkerReports, Ownership, OwnersHold
    <3>2. \A t \in Threads : pc[t] = "chosen" => reset'[Where(t)] = "idle"
      BY <1>1, <3>1 DEF WorkerReports, Ownership, ChoiceStaysFree, Placed
    <3> QED
      BY <1>1, <3>2 DEF WorkerReports, Ownership, ChoiceStaysFree, threads
  <2>3. OwnersHold' /\ OwnersApart'
    BY <1>1 DEF WorkerReports, Ownership, OwnersHold, OwnersApart, Busy, Placed, threads
  <2>4. RunningIsOwned'
    <3> SUFFICES ASSUME NEW s \in Slots, reset'[s] = "running"
                 PROVE  \/ \E u \in Threads : Closing(u)' /\ Where(u)' = s
                        \/ \E y \in Sessions : Working(y)' /\ place'[y] = s
      BY DEF RunningIsOwned
    <3>1. reset[s] = "running" /\ s # place[x]
      BY <1>1 DEF WorkerReports
    <3>2. \/ \E u \in Threads : Closing(u) /\ Where(u) = s
          \/ \E y \in Sessions : Working(y) /\ place[y] = s
      BY <3>1 DEF Ownership, RunningIsOwned
    <3> QED
      BY <1>1, <3>1, <3>2 DEF WorkerReports, threads
  <2>5. OneOpenSessionPerSlot' /\ OpenSlotIsNotReset'
    BY <1>1 DEF WorkerReports, Ownership, OneOpenSessionPerSlot, OpenSlotIsNotReset,
       OwnersHold, threads
  <2> QED
    BY <2>1, <2>2, <2>3, <2>4, <2>5 DEF Ownership
<1>2. CASE WorkerStarts(x) \/ WorkerLetsGo(x)
  BY <1>2, OwnershipFrame DEF WorkerStarts, WorkerLetsGo, threads
<1>3. CASE \/ WorkerClears(x) \/ WorkerRestarts(x) \/ InPlaceFails(x)
           \/ WorkerSees(x) \/ WorkerConfigures(x) \/ RebuildFails(x)
  <2>1. UNCHANGED <<books, threads, worker>>
    BY <1>3 DEF WorkerClears, WorkerRestarts, InPlaceFails, WorkerSees,
       WorkerConfigures, RebuildFails
  <2> QED
    BY <2>1, OwnershipFrame DEF threads
<1> QED
  BY <1>1, <1>2, <1>3 DEF WorkerStep

LEMMA RangeKeepsOwnership ==
  ASSUME TypeOK, Ownership, NEW s \in Slots, NovaStep(s) \/ OperatorStep(s)
  PROVE  Ownership'
<1> USE SlotAssumption DEF TypeOK, PCs, Where, OpenSessions, IsOpen, Closing, Working
<1>1. CASE OperatorConfigures(s)
  <2>1. ChoiceHeld' /\ Busy' /\ Placed'
    BY <1>1 DEF OperatorConfigures, Ownership, ChoiceHeld, Busy, Placed, threads
  <2>2. ChoiceStaysFree'
    BY <1>1 DEF OperatorConfigures, Ownership, ChoiceStaysFree, threads
  <2>3. OwnersHold' /\ OwnersApart'
    BY <1>1 DEF OperatorConfigures, Ownership, OwnersHold, OwnersApart, Busy, Placed,
       threads, workers
  <2>4. RunningIsOwned'
    BY <1>1, OwnersStay DEF OperatorConfigures, Ownership, threads, workers
  <2>5. OneOpenSessionPerSlot' /\ OpenSlotIsNotReset'
    BY <1>1 DEF OperatorConfigures, Ownership, OneOpenSessionPerSlot,
       OpenSlotIsNotReset, Placed, threads
  <2> QED
    BY <2>1, <2>2, <2>3, <2>4, <2>5 DEF Ownership
<1>2. CASE NovaStep(s) \/ OperatorRebuilds(s)
  <2>1. UNCHANGED <<books, threads, workers>>
    BY <1>2 DEF NovaStep, NovaBegins, NovaEnds, OperatorRebuilds
  <2> QED
    BY <2>1, OwnershipFrame DEF threads, workers
<1> QED
  BY <1>1, <1>2 DEF OperatorStep

LEMMA RestartKeepsOwnership ==
  ASSUME TypeOK, Ownership, Restart
  PROVE  Ownership'
  BY SlotAssumption DEF Restart, TypeOK, Ownership, ChoiceHeld, Busy, Placed,
     ChoiceStaysFree, OwnersHold, OwnersApart, RunningIsOwned,
     OneOpenSessionPerSlot, OpenSlotIsNotReset, OpenSessions, IsOpen, Closing,
     Working, Where

LEMMA OwnershipNext == TypeOK /\ Ownership /\ [Next]_vars => Ownership'
<1> SUFFICES ASSUME TypeOK, Ownership, [Next]_vars PROVE Ownership'
  OBVIOUS
<1>1. ASSUME NEW t \in Threads, OpenStep(t) \/ CloseStep(t) \/ WriteStep(t)
      PROVE  Ownership'
  BY <1>1, OpenKeepsOwnership, CloseKeepsOwnership, WriteKeepsOwnership
<1>2. ASSUME NEW x \in Sessions, WorkerStep(x) PROVE Ownership'
  BY <1>2, WorkerKeepsOwnership
<1>3. ASSUME NEW s \in Slots, NovaStep(s) \/ OperatorStep(s) PROVE Ownership'
  BY <1>3, RangeKeepsOwnership
<1>4. CASE Restart
  BY <1>4, RestartKeepsOwnership
<1>5. CASE UNCHANGED vars
  BY <1>5, OwnershipFrame DEF vars, threads, workers, Working
<1> QED
  BY <1>1, <1>2, <1>3, <1>4, <1>5 DEF Next

THEOREM OwnershipCorrect == Spec => []Ownership
  BY OwnershipInit, OwnershipNext, TypeCorrect, PTL DEF Spec

\* Every running reset has one owner, the close or the worker that will end it,
\* for any number of slots, sessions and threads and any mishaps.
THEOREM ResetHasOneOwner == Spec => []OneOwnerPerReset
<1>1. TypeOK /\ Ownership => OneOwnerPerReset
  <2> SUFFICES ASSUME TypeOK, Ownership, NEW s \in Slots
               PROVE  /\ \A o, p \in Owners(s) : o = p
                      /\ reset[s] = "running" <=> Owners(s) # {}
    BY DEF OneOwnerPerReset
  <2>1. \A o, p \in Owners(s) : o = p
    BY DEF Owners, Ownership, OwnersApart, Closing, Working
  <2>2. reset[s] = "running" => Owners(s) # {}
    BY DEF Owners, Ownership, RunningIsOwned, OwnersHold, Closing, Working
  <2>3. Owners(s) # {} => reset[s] = "running"
    BY DEF Owners, Ownership, OwnersHold, Closing, Working
  <2> QED
    BY <2>1, <2>2, <2>3
<1> QED
  BY <1>1, TypeCorrect, OwnershipCorrect, PTL

\* No two open sessions share a slot: the database's constraint never fires.
THEOREM OpenSessionsApart == Spec => []OneOpenSessionPerSlot
  BY OwnershipCorrect, PTL DEF Ownership

\* A slot with an open session is neither being reset nor marked as failed.
THEOREM NoResetUnderASession == Spec => []OpenSlotIsNotReset
  BY OwnershipCorrect, PTL DEF Ownership

\* The close that ended a session holds the slot's reset.
THEOREM EndingCloseOwnsTheReset == Spec => []EndingCloseHoldsTheReset
<1>1. Ownership => EndingCloseHoldsTheReset
  BY DEF Ownership, OwnersHold, Closing, EndingCloseHoldsTheReset
<1> QED
  BY <1>1, OwnershipCorrect, PTL

-----------------------------------------------------------------------------
(* The worker configures the rebuilt VMs only. *)

LEMMA TurnInit == Init => TurnHeld
  BY DEF Init, TurnHeld

\* Steps that give no turn away, start no worker and ask Nova for nothing.
LEMMA TurnFrame ==
  ASSUME TypeOK, Ownership, TurnHeld,
         UNCHANGED <<turn, worker, seen, vm>>,
         \A x \in Sessions : status[x] # "unborn" => place'[x] = place[x]
  PROVE  TurnHeld'
<1>1. \A x \in Sessions : worker[x] = "holding" => place'[x] = place[x]
  BY DEF Ownership, OwnersHold, Working
<1> QED
  BY <1>1 DEF TurnHeld

\* Nova is asked in the slot's turn, so under no worker.
LEMMA TurnWhenAsked ==
  ASSUME TypeOK, Ownership, TurnHeld, NEW s, NEW groups, AskNova(s, groups),
         UNCHANGED <<place, turn, worker, seen>>
  PROVE  TurnHeld'
<1>1. \A x \in Sessions : worker[x] = "holding" => place[x] # s
  BY SlotAssumption DEF AskNova, TurnHeld
<1> QED
  BY <1>1 DEF AskNova, TypeOK, TurnHeld

LEMMA TurnNext == TypeOK /\ Ownership /\ TurnHeld /\ [Next]_vars => TurnHeld'
<1> SUFFICES ASSUME TypeOK, Ownership, TurnHeld, [Next]_vars PROVE TurnHeld'
  OBVIOUS
<1>1. ASSUME NEW t \in Threads, OpenStep(t) PROVE TurnHeld'
  <2>1. UNCHANGED <<turn, worker, seen, vm>>
    BY <1>1 DEF OpenStep, OpenBegins, OpenChecks, OpenRefused, OpenCreates,
       OpenPrepares, OpenReadies, OpenEnds, OpenFails, workers, range
  <2>2. \A x \in Sessions : status[x] # "unborn" => place'[x] = place[x]
    <3>1. CASE \E s \in Slots : OpenChecks(t, s)
      BY <3>1 DEF OpenChecks, TypeOK, Ownership, Busy
    <3>2. CASE ~\E s \in Slots : OpenChecks(t, s)
      BY <1>1, <3>2 DEF OpenStep, OpenBegins, OpenRefused, OpenCreates, OpenPrepares,
         OpenReadies, OpenEnds, OpenFails, books
    <3> QED
      BY <3>1, <3>2
  <2> QED
    BY <2>1, <2>2, TurnFrame
<1>2. ASSUME NEW t \in Threads, CloseStep(t) PROVE TurnHeld'
  <2>1. CASE CloseMarks(t) \/ \E x \in Sessions : CloseBegins(t, x)
    BY <2>1 DEF CloseMarks, CloseBegins, books, workers, range, TurnHeld
  <2>2. CASE CloseAsks(t)
    BY <2>2, TurnWhenAsked DEF CloseAsks, books, workers
  <2>3. CASE CloseBreaks(t)
    <3>1. CASE AskNova(Where(t), {"shells"})
      BY <2>3, <3>1, TurnWhenAsked DEF CloseBreaks, workers
    <3>2. CASE UNCHANGED <<vm, scope>>
      BY <2>3, <3>2 DEF CloseBreaks, workers, TurnHeld
    <3> QED
      BY <2>3, <3>1, <3>2 DEF CloseBreaks
  <2>4. CASE CloseHandsOver(t)
    <3>1. sess[t] \in Sessions /\ worker[sess[t]] = "none"
      BY <2>4 DEF CloseHandsOver, Ownership, Busy, OwnersApart, Closing, Working, Where
    <3> QED
      BY <2>4, <3>1 DEF CloseHandsOver, books, range, TypeOK, TurnHeld
  <2> QED
    BY <1>2, <2>1, <2>2, <2>3, <2>4 DEF CloseStep, CloseGoesOn
<1>3. ASSUME NEW t \in Threads, WriteStep(t) PROVE TurnHeld'
  BY <1>3 DEF WriteStep, WriteBegins, WriteLands, WriteFails, books, workers, range,
     TurnHeld
<1>4. ASSUME NEW x \in Sessions, WorkerStep(x) PROVE TurnHeld'
  <2>1. CASE WorkerStarts(x)
    BY <2>1, SlotAssumption
       DEF WorkerStarts, books, range, TypeOK, Ownership, Placed, OwnersHold, Working, TurnHeld
  <2>2. CASE WorkerSees(x)
    BY <2>2 DEF WorkerSees, books, range, TypeOK, TurnHeld
  <2>3. CASE WorkerLetsGo(x)
    <3>1. \A y \in Sessions : y # x /\ worker[y] = "holding" => place[y] # place[x]
      BY <2>3 DEF WorkerLetsGo, Ownership, OwnersApart, Working
    <3> QED
      BY <2>3, <3>1 DEF WorkerLetsGo, books, range, TypeOK, TurnHeld
  <2>4. CASE WorkerReports(x)
    BY <2>4 DEF WorkerReports, range, TypeOK, TurnHeld
  <2>5. CASE \/ WorkerClears(x) \/ WorkerRestarts(x) \/ InPlaceFails(x)
             \/ WorkerConfigures(x) \/ RebuildFails(x)
    BY <2>5 DEF WorkerClears, WorkerRestarts, InPlaceFails, WorkerConfigures,
       RebuildFails, books, range, TurnHeld
  <2> QED
    BY <1>4, <2>1, <2>2, <2>3, <2>4, <2>5 DEF WorkerStep
<1>5. ASSUME NEW s \in Slots, NovaStep(s) PROVE TurnHeld'
  <2>1. UNCHANGED <<place, turn, worker, seen>>
    BY <1>5 DEF NovaStep, NovaBegins, NovaEnds, books, workers
  <2>2. \A r \in Slots : vm[r] # "asked" => vm'[r] # "asked"
    BY <1>5 DEF NovaStep, NovaBegins, NovaEnds, TypeOK
  <2> QED
    BY <2>1, <2>2 DEF Ownership, OwnersHold, Placed, Working, TurnHeld
<1>6. ASSUME NEW s \in Slots, OperatorStep(s) PROVE TurnHeld'
  <2>1. CASE OperatorRebuilds(s)
    BY <2>1, TurnWhenAsked DEF OperatorRebuilds, books, workers
  <2>2. CASE OperatorConfigures(s)
    BY <2>2 DEF OperatorConfigures, workers, TurnHeld
  <2> QED
    BY <1>6, <2>1, <2>2 DEF OperatorStep
<1>7. CASE Restart
  BY <1>7 DEF Restart, TurnHeld
<1>8. CASE UNCHANGED vars
  BY <1>8 DEF vars, books, workers, range, TurnHeld
<1> QED
  BY <1>1, <1>2, <1>3, <1>4, <1>5, <1>6, <1>7, <1>8 DEF Next

\* The configure after a close never reaches a VM from before its rebuild.
THEOREM RebuiltBeforeConfigured == Spec => ConfiguresOnlyRebuiltVMs
<1>1. ASSUME TypeOK, Ownership, TurnHeld, NEW x \in Sessions, WorkerConfigures(x)
      PROVE  vm[place[x]] = "active"
  <2>1. place[x] \in Slots
    BY <1>1 DEF WorkerConfigures, Ownership, OwnersHold, Placed, Working
  <2> QED
    BY <1>1, <2>1 DEF WorkerConfigures, ShowsActive, TypeOK, TurnHeld
<1>2. TypeOK /\ Ownership /\ TurnHeld /\ [Next]_vars
        => [\A x \in Sessions : WorkerConfigures(x) => vm[place[x]] = "active"]_vars
  BY <1>1
<1> QED
  BY <1>2, TurnInit, TurnNext, TypeCorrect, OwnershipCorrect, PTL
     DEF Spec, ConfiguresOnlyRebuiltVMs

-----------------------------------------------------------------------------
(* An opened session finds nothing of another one, while resets succeed and *)
(* nothing outlives its session: of the mishaps, with `configure` alone.    *)

Orderly == Mishaps \subseteq {"configure"}

\* What session y left in part p is to go: its close is under way, or its
\* worker has yet to clear the part, or to configure the rebuilt VM.
Leaving(y, p) ==
    \/ \E t \in Threads : Closing(t) /\ sess[t] = y
    \/ Working(y) /\ (IF p = "waf" THEN "configure" ELSE "clear") \in todo[y]

\* Data is of a session of its slot, which is open or being reset.
DataIsOfItsSlot(s, p) ==
    leftover[s][p] # None =>
        /\ place[leftover[s][p]] = s
        /\ IsOpen(leftover[s][p]) \/ Leaving(leftover[s][p], p)

\* The WAF of a closed session waits for the rebuild, or for the close to ask.
WafGoes(s) ==
    leftover[s]["waf"] # None /\ ~IsOpen(leftover[s]["waf"]) =>
        \/ vm[s] # "active"
        \/ \E t \in Threads : pc[t] = "marked" /\ sess[t] = leftover[s]["waf"]

\* A rebuild is the one a close asked for, and that its worker waits for.
RebuildIsOwned(s) ==
    vm[s] # "active" =>
        /\ scope[s] = {"shells"}
        /\ \/ \E t \in Threads : pc[t] = "asked" /\ Where(t) = s
           \/ \E x \in Sessions : Working(x) /\ place[x] = s /\ "configure" \in todo[x]

WorkIsDone == \A x \in Sessions : worker[x] = "finished" => todo[x] = {}

DataGoes ==
    /\ \A s \in Slots : WafGoes(s) /\ RebuildIsOwned(s) /\ \A p \in Parts : DataIsOfItsSlot(s, p)
    /\ WorkIsDone

LEMMA DataGoesInit == Init => DataGoes
  BY DEF Init, DataGoes, WafGoes, RebuildIsOwned, DataIsOfItsSlot, WorkIsDone, Parts

\* A closed session, or one a close or a worker is about, stays where it was.
LEMMA LeavingIsClosed ==
  ASSUME TypeOK, Ownership, NEW y \in Sessions, NEW p, Leaving(y, p)
  PROVE  status[y] = "closed" /\ reset[place[y]] = "running"
  BY DEF Ownership, OwnersHold, Leaving, Where

\* Steps that add only what an open session writes, and end no close or worker.
LEMMA DataFrame ==
  ASSUME TypeOK, Ownership, DataGoes, UNCHANGED <<vm, scope, worker, todo>>,
         \A t \in Threads : Closing(t) => pc'[t] = pc[t] /\ sess'[t] = sess[t],
         \A x \in Sessions : IsOpen(x) => IsOpen(x)',
         \A x \in Sessions : status[x] # "unborn" => place'[x] = place[x],
         \A s \in Slots, p \in Parts :
            \/ leftover'[s][p] = None
            \/ leftover'[s][p] = leftover[s][p]
            \/ \E x \in Sessions : leftover'[s][p] = x /\ IsOpen(x)' /\ place'[x] = s
  PROVE  DataGoes'
<1>1. ASSUME NEW s \in Slots, NEW p \in Parts PROVE DataIsOfItsSlot(s, p)'
  <2>1. CASE leftover'[s][p] = leftover[s][p] /\ leftover[s][p] # None
    <3>1. PICK y \in Sessions : y = leftover[s][p]
      BY <2>1 DEF TypeOK
    <3>2. place[y] = s /\ (IsOpen(y) \/ Leaving(y, p))
      BY <2>1, <3>1 DEF DataGoes, DataIsOfItsSlot
    <3>3. place'[y] = s
      BY <3>2, LeavingIsClosed DEF IsOpen
    <3>4. IsOpen(y)' \/ Leaving(y, p)'
      BY <3>2 DEF Leaving, Closing, Working
    <3> QED BY <2>1, <3>1, <3>3, <3>4 DEF DataIsOfItsSlot
  <2>2. CASE leftover'[s][p] = None
    BY <2>2 DEF DataIsOfItsSlot
  <2>3. CASE \E x \in Sessions : leftover'[s][p] = x /\ IsOpen(x)' /\ place'[x] = s
    BY <2>3 DEF DataIsOfItsSlot
  <2> QED BY <2>1, <2>2, <2>3
<1>2. ASSUME NEW s \in Slots PROVE WafGoes(s)'
  <2>1. "waf" \in Parts
    BY DEF Parts
  <2>2. CASE leftover'[s]["waf"] = leftover[s]["waf"] /\ leftover[s]["waf"] # None
    <3>1. PICK y \in Sessions : y = leftover[s]["waf"]
      BY <2>1, <2>2 DEF TypeOK
    <3>2. ~IsOpen(y) => vm[s] # "active" \/ \E t \in Threads : pc[t] = "marked" /\ sess[t] = y
      BY <2>2, <3>1 DEF DataGoes, WafGoes
    <3>3. ~IsOpen(y)' => vm'[s] # "active" \/ \E t \in Threads : pc'[t] = "marked" /\ sess'[t] = y
      BY <3>2 DEF Closing
    <3> QED BY <2>2, <3>1, <3>3 DEF WafGoes
  <2>3. CASE leftover'[s]["waf"] = None
    BY <2>3 DEF WafGoes
  <2>4. CASE \E x \in Sessions : leftover'[s]["waf"] = x /\ IsOpen(x)' /\ place'[x] = s
    BY <2>4 DEF WafGoes
  <2> QED BY <2>1, <2>2, <2>3, <2>4
<1>3. ASSUME NEW s \in Slots PROVE RebuildIsOwned(s)'
  <2>1. SUFFICES ASSUME vm[s] # "active"
                 PROVE  /\ scope[s] = {"shells"}
                        /\ \/ \E t \in Threads : pc'[t] = "asked" /\ Where(t)' = s
                           \/ \E x \in Sessions : /\ Working(x) /\ place'[x] = s
                                                  /\ "configure" \in todo[x]
    BY DEF RebuildIsOwned, Working
  <2>2. /\ scope[s] = {"shells"}
        /\ \/ \E t \in Threads : pc[t] = "asked" /\ Where(t) = s
           \/ \E x \in Sessions : Working(x) /\ place[x] = s /\ "configure" \in todo[x]
    BY <2>1 DEF DataGoes, RebuildIsOwned
  <2>3. \A x \in Sessions : Working(x) => place'[x] = place[x]
    BY DEF Ownership, OwnersHold
  <2>4. \A t \in Threads : pc[t] = "asked" => pc'[t] = "asked" /\ Where(t)' = Where(t)
    BY DEF Closing, Ownership, OwnersHold, Busy, Where
  <2> QED BY <2>2, <2>3, <2>4
<1>4. WorkIsDone'
  BY DEF DataGoes, WorkIsDone
<1> QED BY <1>1, <1>2, <1>3, <1>4 DEF DataGoes

LEMMA OpenKeepsData ==
  ASSUME TypeOK, Ownership, DataGoes, Orderly, NEW t \in Threads, OpenStep(t)
  PROVE  DataGoes'
<1> USE DEF PCs
<1>1. UNCHANGED <<vm, scope, worker, todo>>
  BY DEF OpenStep, OpenBegins, OpenChecks, OpenRefused, OpenCreates, OpenPrepares,
     OpenReadies, OpenEnds, OpenFails, workers, range
<1>2. \A u \in Threads : Closing(u) => pc'[u] = pc[u] /\ sess'[u] = sess[u]
  BY DEF OpenStep, OpenBegins, OpenChecks, OpenRefused, OpenCreates, OpenPrepares,
     OpenReadies, OpenEnds, OpenFails, Return, Closing, TypeOK
<1>3. \A x \in Sessions : status[x] # "unborn" => place'[x] = place[x]
  <2>1. CASE \E s \in Slots : OpenChecks(t, s)
    BY <2>1 DEF OpenChecks, TypeOK, Ownership, Busy
  <2>2. CASE ~\E s \in Slots : OpenChecks(t, s)
    BY <2>2 DEF OpenStep, OpenBegins, OpenRefused, OpenCreates, OpenPrepares,
       OpenReadies, OpenEnds, OpenFails, books
  <2> QED BY <2>1, <2>2
<1>4. \A x \in Sessions : IsOpen(x) => IsOpen(x)'
  <2>1. CASE OpenCreates(t) \/ OpenReadies(t)
    BY <2>1 DEF OpenCreates, OpenReadies, IsOpen, TypeOK
  <2>2. CASE OpenFails(t)
    <3>1. ~IsOpen(sess[t])
      BY <2>2 DEF OpenFails, Orderly
    <3> QED BY <2>2, <3>1 DEF OpenFails, IsOpen, TypeOK
  <2>3. CASE UNCHANGED status
    BY <2>3 DEF IsOpen
  <2> QED BY <2>1, <2>2, <2>3 DEF OpenStep, OpenBegins, OpenChecks, OpenRefused, OpenPrepares,
             OpenEnds, books
<1>5. ASSUME NEW s \in Slots, NEW p \in Parts
      PROVE  \/ leftover'[s][p] = None
             \/ leftover'[s][p] = leftover[s][p]
             \/ \E x \in Sessions : leftover'[s][p] = x /\ IsOpen(x)' /\ place'[x] = s
  <2>1. CASE OpenPrepares(t)
    <3>1. sess[t] \in Sessions /\ IsOpen(sess[t]) /\ status[sess[t]] # "unborn"
      BY <2>1 DEF OpenPrepares, Ownership, Busy, Orderly, IsOpen
    <3>2. leftover'[s][p] = leftover[s][p] \/ (s = Where(t) /\ leftover'[s][p] = sess[t])
      BY <2>1 DEF OpenPrepares, TypeOK, Parts
    <3> QED BY <1>3, <1>4, <3>1, <3>2 DEF Where
  <2>2. CASE OpenReadies(t) \/ OpenEnds(t)
    <3>1. sess[t] \in Sessions /\ IsOpen(sess[t]) /\ status[sess[t]] # "unborn"
      BY <2>2 DEF OpenReadies, OpenEnds, MayPlant, Ownership, Busy, Orderly, IsOpen
    <3>2. leftover'[s][p] = leftover[s][p] \/ (s = Where(t) /\ leftover'[s][p] = sess[t])
      BY <2>2 DEF OpenReadies, OpenEnds, MayPlant, TypeOK, Parts
    <3> QED BY <1>3, <1>4, <3>1, <3>2 DEF Where
  <2>3. CASE UNCHANGED leftover
    BY <2>3
  <2> QED BY <2>1, <2>2, <2>3 DEF OpenStep, OpenBegins, OpenChecks, OpenRefused, OpenCreates,
             OpenFails, range
<1> QED BY <1>1, <1>2, <1>3, <1>4, <1>5, DataFrame

LEMMA WriteKeepsData ==
  ASSUME TypeOK, Ownership, DataGoes, Orderly, NEW t \in Threads, WriteStep(t)
  PROVE  DataGoes'
<1>1. UNCHANGED <<vm, scope, worker, todo, status, place>>
  BY DEF WriteStep, WriteBegins, WriteLands, WriteFails, books, workers, range
<1>2. \A u \in Threads : Closing(u) => pc'[u] = pc[u] /\ sess'[u] = sess[u]
  BY DEF WriteStep, WriteBegins, WriteLands, WriteFails, Return, Closing, TypeOK
<1>3. ASSUME NEW s \in Slots, NEW p \in Parts
      PROVE  \/ leftover'[s][p] = None
             \/ leftover'[s][p] = leftover[s][p]
             \/ \E x \in Sessions : leftover'[s][p] = x /\ IsOpen(x)' /\ place'[x] = s
  <2>1. CASE WriteLands(t)
    <3>1. sess[t] \in Sessions /\ IsOpen(sess[t])
      BY <2>1 DEF WriteLands, Ownership, Busy, Orderly
    <3>2. \/ leftover'[s][p] \in {leftover[s][p], None}
          \/ s = Where(t) /\ leftover'[s][p] = sess[t]
      BY <2>1 DEF WriteLands, TypeOK
    <3> QED BY <1>1, <3>1, <3>2 DEF Where, IsOpen
  <2>2. CASE UNCHANGED leftover
    BY <2>2
  <2> QED BY <2>1, <2>2 DEF WriteStep, WriteBegins, WriteFails, range
<1> QED BY <1>1, <1>2, <1>3, DataFrame DEF IsOpen

LEMMA CloseKeepsData ==
  ASSUME TypeOK, Ownership, DataGoes, Orderly, NEW t \in Threads, CloseStep(t)
  PROVE  DataGoes'
<1>1. ASSUME NEW x \in Sessions, CloseBegins(t, x) PROVE DataGoes'
  <2>1. \A u \in Threads : Closing(u) => pc'[u] = pc[u] /\ sess'[u] = sess[u]
    BY <1>1 DEF CloseBegins, Closing, TypeOK
  <2> QED BY <1>1, <2>1, DataFrame DEF CloseBegins, books, workers, range, IsOpen
<1>2. ASSUME CloseMarks(t), ~IsOpen(sess[t]) PROVE DataGoes'
  <2>1. \A u \in Threads : Closing(u) => pc'[u] = pc[u] /\ sess'[u] = sess[u]
    BY <1>2 DEF CloseMarks, Closing, TypeOK
  <2>2. UNCHANGED <<vm, scope, worker, todo, place, leftover>>
    BY <1>2 DEF CloseMarks, workers, range
  <2>3. \A x \in Sessions : IsOpen(x) => IsOpen(x)'
    BY <1>2 DEF CloseMarks, IsOpen, TypeOK
  <2> QED BY <2>1, <2>2, <2>3, DataFrame
<1>3. ASSUME CloseMarks(t), IsOpen(sess[t]) PROVE DataGoes'
  <2>1. PICK z \in Sessions : z = sess[t]
    BY <1>3 DEF CloseMarks, Ownership, Busy
  <2>2. /\ UNCHANGED <<vm, scope, worker, todo, place, leftover, sess>>
        /\ pc' = [pc EXCEPT ![t] = "marked"] /\ pc[t] = "closing"
        /\ \A x \in Sessions : x # z /\ IsOpen(x) => IsOpen(x)'
    BY <1>3, <2>1 DEF CloseMarks, workers, range, IsOpen, TypeOK
  <2>3. /\ pc'[t] = "marked" /\ \A u \in Threads : Closing(u) => pc'[u] = pc[u]
    BY <2>2 DEF Closing, TypeOK
  <2>4. ASSUME NEW s \in Slots, NEW p \in Parts PROVE DataIsOfItsSlot(s, p)'
    <3>1. CASE leftover[s][p] = z
      BY <2>1, <2>2, <2>3, <3>1 DEF DataIsOfItsSlot, DataGoes, Leaving, Closing
    <3>2. CASE leftover[s][p] # None /\ leftover[s][p] # z
      <4>1. PICK y \in Sessions : y = leftover[s][p]
        BY <3>2 DEF TypeOK
      <4>2. place[y] = s /\ (IsOpen(y) \/ Leaving(y, p))
        BY <3>2, <4>1 DEF DataGoes, DataIsOfItsSlot
      <4>3. IsOpen(y)' \/ Leaving(y, p)'
        BY <2>2, <2>3, <3>2, <4>1, <4>2 DEF Leaving, Closing, Working
      <4> QED BY <2>2, <4>1, <4>2, <4>3 DEF DataIsOfItsSlot
    <3>3. CASE leftover[s][p] = None
      BY <2>2, <3>3 DEF DataIsOfItsSlot
    <3> QED BY <3>1, <3>2, <3>3
  <2>5. ASSUME NEW s \in Slots PROVE WafGoes(s)'
    <3>1. CASE leftover[s]["waf"] = z
      BY <2>1, <2>2, <2>3, <3>1 DEF WafGoes
    <3>2. CASE leftover[s]["waf"] # None /\ leftover[s]["waf"] # z
      <4>1. PICK y \in Sessions : y = leftover[s]["waf"]
        BY <3>2 DEF TypeOK, Parts
      <4>2. ~IsOpen(y) => vm[s] # "active" \/ \E u \in Threads : pc[u] = "marked" /\ sess[u] = y
        BY <3>2, <4>1 DEF DataGoes, WafGoes
      <4> QED BY <2>2, <2>3, <3>2, <4>1, <4>2 DEF WafGoes, Closing
    <3>3. CASE leftover[s]["waf"] = None
      BY <2>2, <3>3 DEF WafGoes
    <3> QED BY <3>1, <3>2, <3>3
  <2>6. ASSUME NEW s \in Slots PROVE RebuildIsOwned(s)'
    BY <2>2, <2>3 DEF DataGoes, RebuildIsOwned, Closing, Working, Where
  <2>7. WorkIsDone'
    BY <2>2 DEF DataGoes, WorkIsDone
  <2> QED BY <2>4, <2>5, <2>6, <2>7 DEF DataGoes
<1>4. ASSUME CloseAsks(t) PROVE DataGoes'
  <2>1. /\ sess[t] \in Sessions /\ Where(t) \in Slots /\ Closing(t)
        /\ UNCHANGED <<worker, todo, status, place, leftover, sess>>
        /\ vm' = [vm EXCEPT ![Where(t)] = "asked"]
        /\ scope' = [scope EXCEPT ![Where(t)] = {"shells"}]
        /\ pc' = [pc EXCEPT ![t] = "asked"] /\ pc[t] = "marked"
    BY <1>4 DEF CloseAsks, AskNova, Ownership, Busy, Placed, Closing, Where, books, workers
  <2>2. /\ pc'[t] = "asked" /\ \A u \in Threads : u # t => pc'[u] = pc[u]
        /\ vm'[Where(t)] = "asked" /\ scope'[Where(t)] = {"shells"}
        /\ \A s \in Slots : s # Where(t) => vm'[s] = vm[s] /\ scope'[s] = scope[s]
    BY <2>1 DEF TypeOK
  <2>3. ASSUME NEW s \in Slots, NEW p \in Parts PROVE DataIsOfItsSlot(s, p)'
    BY <2>1, <2>2 DEF DataGoes, DataIsOfItsSlot, Leaving, Closing, Working, IsOpen
  <2>4. ASSUME NEW s \in Slots PROVE WafGoes(s)'
    <3>1. CASE s = Where(t)
      BY <2>2, <3>1 DEF WafGoes
    <3>2. CASE s # Where(t) /\ leftover[s]["waf"] # None
      <4>1. leftover[s]["waf"] # sess[t]
        BY <3>2 DEF DataGoes, DataIsOfItsSlot, Where, Parts
      <4> QED BY <2>1, <2>2, <3>2, <4>1 DEF DataGoes, WafGoes, IsOpen
    <3>3. CASE leftover[s]["waf"] = None
      BY <2>1, <3>3 DEF WafGoes
    <3> QED BY <3>1, <3>2, <3>3
  <2>5. ASSUME NEW s \in Slots PROVE RebuildIsOwned(s)'
    <3>1. CASE s = Where(t)
      BY <2>1, <2>2, <3>1 DEF RebuildIsOwned, Where
    <3>2. CASE s # Where(t)
      BY <2>1, <2>2, <3>2 DEF DataGoes, RebuildIsOwned, Where, Working
    <3> QED BY <3>1, <3>2
  <2>6. WorkIsDone'
    BY <2>1 DEF DataGoes, WorkIsDone
  <2> QED BY <2>3, <2>4, <2>5, <2>6 DEF DataGoes
<1>5. ASSUME CloseBreaks(t) PROVE DataGoes'
  <2>1. vm[Where(t)] # "active" /\ pc[t] = "marked" /\ Where(t) \in Slots
    BY <1>5 DEF CloseBreaks, Orderly, Ownership, Busy, Placed, Where
  <2>2. \/ \E u \in Threads : pc[u] = "asked" /\ Where(u) = Where(t)
        \/ \E x \in Sessions : Working(x) /\ place[x] = Where(t)
    BY <2>1 DEF DataGoes, RebuildIsOwned
  <2> QED BY <2>1, <2>2 DEF Ownership, OwnersApart, Closing
<1>6. ASSUME CloseHandsOver(t) PROVE DataGoes'
  <2>1. PICK z \in Sessions : z = sess[t] /\ claimed[t] /\ status[z] = "closed" /\ place[z] \in Slots
    BY <1>6 DEF CloseHandsOver, Ownership, Busy, OwnersHold, Placed, Closing
  <2>2. /\ worker' = [worker EXCEPT ![z] = "begun"] /\ todo' = [todo EXCEPT ![z] = Steps]
        /\ UNCHANGED <<vm, scope, status, place, leftover>> /\ pc[t] = "asked"
        /\ \A u \in Threads : u # t => pc'[u] = pc[u] /\ sess'[u] = sess[u]
    BY <1>6, <2>1 DEF CloseHandsOver, Return, books, range, TypeOK
  <2>3. /\ Working(z)' /\ worker'[z] = "begun" /\ todo'[z] = Steps
        /\ \A x \in Sessions : x # z => worker'[x] = worker[x] /\ todo'[x] = todo[x]
    BY <2>2 DEF Working, TypeOK
  <2>4. \A y \in Sessions, p \in Parts : Leaving(y, p) => Leaving(y, p)'
    BY <2>1, <2>2, <2>3 DEF Leaving, Closing, Working, Steps
  <2>5. ASSUME NEW s \in Slots, NEW p \in Parts PROVE DataIsOfItsSlot(s, p)'
    BY <2>2, <2>4 DEF DataGoes, DataIsOfItsSlot, IsOpen, TypeOK
  <2>6. ASSUME NEW s \in Slots PROVE WafGoes(s)'
    <3>1. \A u \in Threads : pc[u] = "marked" => pc'[u] = "marked" /\ sess'[u] = sess[u]
      BY <2>2
    <3> QED BY <2>2, <3>1 DEF DataGoes, WafGoes, IsOpen
  <2>7. ASSUME NEW s \in Slots PROVE RebuildIsOwned(s)'
    BY <2>1, <2>2, <2>3 DEF DataGoes, RebuildIsOwned, Where, Working, Steps
  <2>8. WorkIsDone'
    BY <2>3 DEF DataGoes, WorkIsDone
  <2> QED BY <2>5, <2>6, <2>7, <2>8 DEF DataGoes
<1> QED BY <1>1, <1>2, <1>3, <1>4, <1>5, <1>6 DEF CloseStep, CloseGoesOn


\* Steps of a worker: it clears what was left, or has it rebuilt, before it is
\* done; and the range is rebuilt only for it.
LEMMA WorkerKeepsData ==
  ASSUME TypeOK, Ownership, TurnHeld, DataGoes, Orderly, NEW x \in Sessions, WorkerStep(x)
  PROVE  DataGoes'
<1>1. /\ UNCHANGED <<status, place, pc, sess, vm, scope>>
      /\ \A s \in Slots : vm'[s] = vm[s] /\ scope'[s] = scope[s]
  BY DEF WorkerStep, WorkerStarts, WorkerClears, WorkerRestarts, InPlaceFails, WorkerSees,
     WorkerConfigures, RebuildFails, WorkerLetsGo, WorkerReports, books, threads, range
<1>2. place[x] \in Slots /\ Working(x) /\ status[x] = "closed"
  BY DEF WorkerStep, WorkerStarts, WorkerClears, WorkerRestarts, InPlaceFails, WorkerSees,
     WorkerConfigures, RebuildFails, WorkerLetsGo, WorkerReports, Ownership, OwnersHold,
     Placed, Working
<1>3. ~InPlaceFails(x)
  BY DEF InPlaceFails, Orderly
<1>4. ASSUME NEW y \in Sessions, NEW p \in Parts, Leaving(y, p),
             y = x => Leaving(x, p)'
      PROVE  Leaving(y, p)'
  <2>1. CASE y = x
    BY <1>4, <2>1
  <2>2. CASE y # x
    <3>1. worker'[y] = worker[y] /\ todo'[y] = todo[y]
      BY <2>2 DEF WorkerStep, WorkerStarts, WorkerClears, WorkerRestarts, InPlaceFails,
         WorkerSees, WorkerConfigures, RebuildFails, WorkerLetsGo, WorkerReports, TypeOK
    <3> QED BY <1>1, <1>4, <3>1 DEF Leaving, Closing, Working
  <2> QED BY <2>1, <2>2
<1>5. ASSUME \A s \in Slots, p \in Parts : leftover'[s][p] \in {leftover[s][p], None},
             \A s \in Slots, p \in Parts :
               leftover'[s][p] = x /\ Leaving(x, p) => Leaving(x, p)',
             \A s \in Slots : vm[s] # "active" /\ place[x] = s /\ "configure" \in todo[x] =>
               Working(x)' /\ "configure" \in todo'[x],
             worker'[x] = "finished" => todo'[x] = {}
      PROVE  DataGoes'
  <2>1. ASSUME NEW s \in Slots, NEW p \in Parts PROVE DataIsOfItsSlot(s, p)'
    <3>1. CASE leftover'[s][p] = None
      BY <3>1 DEF DataIsOfItsSlot
    <3>2. CASE leftover'[s][p] # None
      <4>1. PICK y \in Sessions : y = leftover[s][p] /\ y = leftover'[s][p]
        BY <1>5, <3>2 DEF TypeOK
      <4>2. place[y] = s /\ (IsOpen(y) \/ Leaving(y, p))
        BY <1>5, <3>2, <4>1 DEF DataGoes, DataIsOfItsSlot
      <4>3. IsOpen(y)' \/ Leaving(y, p)'
        BY <1>1, <1>4, <1>5, <4>1, <4>2 DEF IsOpen
      <4> QED BY <1>1, <4>1, <4>2, <4>3 DEF DataIsOfItsSlot
    <3> QED BY <3>1, <3>2
  <2>2. ASSUME NEW s \in Slots PROVE WafGoes(s)'
    <3>1. leftover'[s]["waf"] \in {leftover[s]["waf"], None}
      BY <1>5 DEF Parts
    <3> QED BY <1>1, <3>1 DEF DataGoes, WafGoes, IsOpen
  <2>3. \A y \in Sessions : y # x => worker'[y] = worker[y] /\ todo'[y] = todo[y]
    BY DEF WorkerStep, WorkerStarts, WorkerClears, WorkerRestarts, InPlaceFails,
       WorkerSees, WorkerConfigures, RebuildFails, WorkerLetsGo, WorkerReports, TypeOK
  <2>4. ASSUME NEW s \in Slots PROVE RebuildIsOwned(s)'
    BY <1>1, <1>5, <2>3 DEF DataGoes, RebuildIsOwned, Where, Working
  <2>5. WorkIsDone'
    BY <1>5, <2>3 DEF DataGoes, WorkIsDone
  <2> QED BY <2>1, <2>2, <2>4, <2>5 DEF DataGoes
<1>6. CASE WorkerStarts(x) \/ WorkerSees(x)
  <2>1. UNCHANGED <<todo, leftover, vm>> /\ Working(x)' /\ worker'[x] # "finished"
    BY <1>6 DEF WorkerStarts, WorkerSees, range, TypeOK, Working
  <2> QED BY <1>1, <1>5, <2>1 DEF Leaving, Closing
<1>7. CASE WorkerClears(x) \/ WorkerRestarts(x)
  <2>1. /\ worker' = worker /\ worker[x] = "holding" /\ Working(x)'
        /\ todo'[x] \subseteq todo[x] /\ ("configure" \in todo[x] => "configure" \in todo'[x])
        /\ "clear" \in todo[x] /\ "clear" \notin todo'[x] => WorkerClears(x)
    BY <1>7 DEF WorkerClears, WorkerRestarts, TypeOK, Working
  <2>2. \A s \in Slots, p \in Parts : leftover'[s][p] \in {leftover[s][p], None}
    <3>1. CASE WorkerRestarts(x)
      BY <3>1 DEF WorkerRestarts
    <3>2. CASE WorkerClears(x)
      <4> SUFFICES ASSUME NEW s \in Slots, NEW p \in Parts
                   PROVE  leftover'[s][p] \in {leftover[s][p], None}
        OBVIOUS
      <4>1. leftover' = [leftover EXCEPT ![place[x]] =
                            [q \in Parts |-> IF q = "waf" THEN @[q] ELSE None]]
        BY <3>2 DEF WorkerClears
      <4>2. CASE s = place[x]
        BY <4>1, <4>2 DEF TypeOK
      <4>3. CASE s # place[x]
        BY <4>1, <4>3 DEF TypeOK
      <4> QED BY <4>2, <4>3
    <3> QED BY <1>7, <3>1, <3>2
  <2>3. ASSUME NEW s \in Slots, NEW p \in Parts, leftover'[s][p] = x, Leaving(x, p)
        PROVE  Leaving(x, p)'
    <3>1. CASE p # "waf" /\ WorkerClears(x)
      <4>1. leftover'[place[x]][p] = None
        BY <1>2, <3>1 DEF WorkerClears, TypeOK
      <4>2. leftover[s][p] = x /\ s # place[x]
        BY <2>2, <2>3, <4>1, SlotAssumption
      <4> QED BY <4>2, SlotAssumption DEF DataGoes, DataIsOfItsSlot
    <3>2. CASE p = "waf" \/ ~WorkerClears(x)
      BY <1>1, <2>1, <2>3, <3>2 DEF Leaving, Closing, Working
    <3> QED BY <3>1, <3>2
  <2> QED BY <1>5, <2>1, <2>2, <2>3
<1>8. CASE WorkerConfigures(x) \/ RebuildFails(x)
  <2>1. vm[place[x]] = "active"
    BY <1>2, <1>8 DEF WorkerConfigures, RebuildFails, ShowsActive, TypeOK, TurnHeld, Orderly
  <2>2. /\ worker' = worker /\ worker[x] = "holding" /\ Working(x)' /\ leftover' = leftover
        /\ todo'[x] = todo[x] \ {"configure"}
    BY <1>8 DEF WorkerConfigures, RebuildFails, TypeOK, Working, range
  <2>3. ASSUME NEW s \in Slots, NEW p \in Parts, leftover'[s][p] = x, Leaving(x, p)
        PROVE  Leaving(x, p)'
    <3>1. CASE p = "waf"
      <4>1. place[x] = s /\ ~IsOpen(x) /\ vm[s] = "active"
        BY <1>2, <2>1, <2>2, <2>3, SlotAssumption DEF DataGoes, DataIsOfItsSlot, IsOpen
      <4>2. \E t \in Threads : pc[t] = "marked" /\ sess[t] = x
        BY <2>2, <2>3, <3>1, <4>1, SlotAssumption DEF DataGoes, WafGoes
      <4> QED BY <1>1, <4>2 DEF Leaving, Closing
    <3>2. CASE p # "waf"
      BY <1>1, <2>2, <2>3, <3>2 DEF Leaving, Closing, Working
    <3> QED BY <3>1, <3>2
  <2> QED BY <1>5, <2>1, <2>2, <2>3
<1>9. CASE WorkerLetsGo(x)
  <2>1. todo[x] = {} /\ todo' = todo /\ leftover' = leftover
    BY <1>9 DEF WorkerLetsGo, range
  <2> QED BY <1>1, <1>5, <2>1 DEF Leaving, Closing
<1>10. CASE WorkerReports(x)
  <2>1. todo[x] = {} /\ todo' = todo /\ leftover' = leftover /\ worker'[x] # "finished"
    BY <1>10 DEF WorkerReports, range, DataGoes, WorkIsDone, TypeOK
  <2> QED BY <1>1, <1>5, <2>1 DEF Leaving, Closing
<1> QED BY <1>3, <1>6, <1>7, <1>8, <1>9, <1>10 DEF WorkerStep

LEMMA RangeKeepsData ==
  ASSUME TypeOK, Ownership, DataGoes, Orderly, NEW s \in Slots, NovaStep(s) \/ OperatorStep(s)
  PROVE  DataGoes'
<1>1. CASE NovaBegins(s)
  <2>1. /\ UNCHANGED <<status, place, pc, sess, worker, todo, scope, leftover>>
        /\ \A r \in Slots : vm'[r] # "active" <=> vm[r] # "active"
    BY <1>1 DEF NovaBegins, books, threads, workers, TypeOK
  <2> QED BY <2>1 DEF DataGoes, DataIsOfItsSlot, WafGoes, RebuildIsOwned, WorkIsDone, Leaving,
             IsOpen, Closing, Working, Where
<1>2. CASE NovaEnds(s)
  <2>1. /\ UNCHANGED <<status, place, pc, sess, worker, todo>>
        /\ vm'[s] = "active" /\ \A r \in Slots : r # s => vm'[r] = vm[r] /\ scope'[r] = scope[r]
    BY <1>2 DEF NovaEnds, books, threads, workers, TypeOK
  <2>2. scope[s] = {"shells"}
    BY <1>2 DEF NovaEnds, DataGoes, RebuildIsOwned
  <2>3. \A r \in Slots, p \in Parts :
          leftover'[r][p] = IF r = s /\ p = "waf" THEN None ELSE leftover[r][p]
    BY <1>2, <2>2 DEF NovaEnds, TypeOK, PartsOf, Parts
  <2>4. ASSUME NEW r \in Slots, NEW p \in Parts PROVE DataIsOfItsSlot(r, p)'
    BY <2>1, <2>3 DEF DataGoes, DataIsOfItsSlot, Leaving, IsOpen, Closing, Working
  <2>5. ASSUME NEW r \in Slots PROVE WafGoes(r)'
    <3>1. "waf" \in Parts
      BY DEF Parts
    <3>2. leftover'[r]["waf"] = IF r = s THEN None ELSE leftover[r]["waf"]
      BY <2>3, <3>1
    <3> QED BY <2>1, <3>2 DEF DataGoes, WafGoes, IsOpen
  <2>6. ASSUME NEW r \in Slots PROVE RebuildIsOwned(r)'
    BY <2>1 DEF DataGoes, RebuildIsOwned, Where, Working
  <2>7. WorkIsDone'
    BY <2>1 DEF DataGoes, WorkIsDone
  <2> QED BY <2>4, <2>5, <2>6, <2>7 DEF DataGoes
<1>3. CASE OperatorRebuilds(s)
  BY <1>3 DEF OperatorRebuilds, Orderly
<1>4. CASE OperatorConfigures(s)
  <2>1. UNCHANGED <<status, place, pc, sess, vm, scope, worker, todo>>
    BY <1>4 DEF OperatorConfigures, threads, workers
  <2>2. \A r \in Slots, p \in Parts : leftover'[r][p] \in {leftover[r][p], None}
    BY <1>4 DEF OperatorConfigures, TypeOK
  <2> QED BY <2>1, <2>2, DataFrame DEF IsOpen
<1> QED BY <1>1, <1>2, <1>3, <1>4 DEF NovaStep, OperatorStep

\* The inductive invariant of a slot's data, in orderly use.
THEOREM DataGoesWithItsSession == ASSUME Orderly PROVE Spec => []DataGoes
<1>1. TypeOK /\ Ownership /\ TurnHeld /\ DataGoes /\ [Next]_vars => DataGoes'
  <2> SUFFICES ASSUME TypeOK, Ownership, TurnHeld, DataGoes, [Next]_vars PROVE DataGoes'
    OBVIOUS
  <2>1. ASSUME NEW t \in Threads, OpenStep(t) \/ CloseStep(t) \/ WriteStep(t) PROVE DataGoes'
    BY <2>1, OpenKeepsData, CloseKeepsData, WriteKeepsData
  <2>2. ASSUME NEW x \in Sessions, WorkerStep(x) PROVE DataGoes'
    BY <2>2, WorkerKeepsData
  <2>3. ASSUME NEW s \in Slots, NovaStep(s) \/ OperatorStep(s) PROVE DataGoes'
    BY <2>3, RangeKeepsData
  <2>4. ~Restart
    BY DEF Restart, Orderly
  <2>5. CASE UNCHANGED vars
    BY <2>5 DEF vars, books, threads, workers, range, DataGoes, DataIsOfItsSlot, WafGoes,
       RebuildIsOwned, WorkIsDone, Leaving, IsOpen, Closing, Working, Where
  <2> QED BY <2>1, <2>2, <2>3, <2>4, <2>5 DEF Next
<1> QED
  BY <1>1, DataGoesInit, TypeCorrect, OwnershipCorrect, TurnInit, TurnNext, PTL DEF Spec

\* "A session therefore leaves the next one no edited rule or planted data."
\* (docs/ARCHITECTURE.md), when resets succeed, nothing outlives its session and
\* the operator at most configures by hand.
THEOREM NothingIsLeft == ASSUME Orderly PROVE Spec => []LeavesNothing
<1>1. TypeOK /\ Ownership /\ DataGoes => LeavesNothing
  <2> SUFFICES ASSUME TypeOK, Ownership, DataGoes, NEW x \in Sessions, NEW p \in Parts,
                      status[x] = "ready", leftover[place[x]][p] # None
               PROVE  leftover[place[x]][p] = x
    BY DEF LeavesNothing
  <2>1. place[x] \in Slots /\ reset[place[x]] = "idle"
    BY DEF Ownership, Placed, OpenSlotIsNotReset, OpenSessions, IsOpen
  <2>2. PICK y \in Sessions : y = leftover[place[x]][p]
    BY <2>1 DEF TypeOK
  <2>3. place[y] = place[x] /\ (IsOpen(y) \/ Leaving(y, p))
    BY <2>1, <2>2 DEF DataGoes, DataIsOfItsSlot
  <2>4. IsOpen(y)
    BY <2>1, <2>3, LeavingIsClosed
  <2> QED BY <2>2, <2>3, <2>4 DEF Ownership, OneOpenSessionPerSlot, OpenSessions, IsOpen
<1> QED BY <1>1, DataGoesWithItsSession, TypeCorrect, OwnershipCorrect, PTL

-----------------------------------------------------------------------------
(* SlotLifecycle implements SlotService. *)

LEMMA ServiceInit == Init => Service!SInit
  BY DEF Init, Service!SInit, OpenSessions, IsOpen

\* Steps that leave the books alone are steps of nobody's service.
LEMMA ServiceFrame ==
  ASSUME UNCHANGED books
  PROVE  UNCHANGED Service!svars
  BY DEF books, Service!svars, OpenSessions, IsOpen

LEMMA ServiceStays ==
  ASSUME UNCHANGED <<reset, place>>, OpenSessions' = OpenSessions,
         \A x \in Sessions : status'[x] = "unborn" <=> status[x] = "unborn"
  PROVE  UNCHANGED Service!svars
  BY DEF Service!svars

LEMMA OpenServes ==
  ASSUME TypeOK, Ownership, NEW t \in Threads, OpenStep(t)
  PROVE  Service!SNext \/ UNCHANGED Service!svars
<1>1. CASE \E s \in Slots : OpenChecks(t, s)
  <2>1. \A x \in OpenSessions : place'[x] = place[x]
    BY <1>1 DEF OpenChecks, Ownership, Busy, OpenSessions, IsOpen, TypeOK
  <2> QED
    BY <1>1, <2>1 DEF OpenChecks, Service!svars, OpenSessions, IsOpen
<1>2. CASE OpenCreates(t)
  <2>1. PICK x \in Sessions, s \in Slots :
          sess[t] = x /\ place[x] = s /\ status[x] = "unborn" /\ reset[s] = "idle"
    BY <1>2 DEF OpenCreates, Ownership, Busy, Placed, ChoiceStaysFree, Where
  <2>2. \A y \in OpenSessions : place[y] # s
    BY <1>2, <2>1 DEF OpenCreates, Ownership, ChoiceStaysFree, Where
  <2>3. OpenSessions' = OpenSessions \cup {x}
    BY <1>2, <2>1 DEF OpenCreates, OpenSessions, IsOpen, TypeOK
  <2>4. {y \in Sessions : status'[y] # "unborn"}
          = {y \in Sessions : status[y] # "unborn"} \cup {x}
    BY <1>2, <2>1 DEF OpenCreates, TypeOK
  <2>5. UNCHANGED <<reset, place>>
    BY <1>2 DEF OpenCreates
  <2>6. Service!Take(x, s)
    BY <2>1, <2>2, <2>3, <2>4, <2>5 DEF Service!Take
  <2> QED
    BY <2>6 DEF Service!SNext
<1>3. CASE OpenReadies(t)
  <2>1. /\ OpenSessions' = OpenSessions /\ UNCHANGED <<reset, place>>
        /\ \A x \in Sessions : status'[x] = "unborn" <=> status[x] = "unborn"
    BY <1>3 DEF OpenReadies, OpenSessions, IsOpen, TypeOK
  <2> QED
    BY <2>1 DEF Service!svars
<1>4. CASE OpenFails(t)
  <2>1. PICK x \in Sessions, s \in Slots :
          sess[t] = x /\ place[x] = s /\ status[x] # "unborn"
    BY <1>4 DEF OpenFails, Ownership, Busy, Placed
  <2>2. /\ OpenSessions' = OpenSessions \ {x} /\ UNCHANGED <<reset, place>>
        /\ \A y \in Sessions : status'[y] = "unborn" <=> status[y] = "unborn"
    BY <1>4, <2>1 DEF OpenFails, OpenSessions, IsOpen, TypeOK
  <2>3. CASE x \in OpenSessions
    <3>1. Service!Drop(x, s)
      BY <2>1, <2>2, <2>3 DEF Service!Drop
    <3> QED
      BY <3>1 DEF Service!SNext
  <2>4. CASE x \notin OpenSessions
    BY <2>2, <2>4 DEF Service!svars
  <2> QED
    BY <2>3, <2>4
<1>5. CASE \/ OpenRefused(t) \/ OpenPrepares(t) \/ OpenEnds(t)
           \/ \E x \in Sessions : OpenBegins(t, x)
  BY <1>5, ServiceFrame DEF OpenRefused, OpenPrepares, OpenEnds, OpenBegins
<1> QED
  BY <1>1, <1>2, <1>3, <1>4, <1>5 DEF OpenStep

\* A reset state that changes at one slot is the service's end of a reset or
\* its forgiveness of a failure, as long as the sessions stay.
LEMMA ResetServes ==
  ASSUME TypeOK, NEW s \in Slots, NEW end \in {"idle", "failed"},
         reset' = [reset EXCEPT ![s] = end],
         reset[s] = "running" \/ end = "idle",
         UNCHANGED place, OpenSessions' = OpenSessions,
         \A x \in Sessions : status'[x] = "unborn" <=> status[x] = "unborn"
  PROVE  Service!SNext \/ UNCHANGED Service!svars
<1>1. CASE reset[s] = "running"
  <2>1. Service!ResetEnds(s)
    BY <1>1 DEF Service!ResetEnds, TypeOK
  <2> QED
    BY <2>1 DEF Service!SNext
<1>2. CASE reset[s] = "failed"
  <2>1. Service!Forgive(s)
    BY <1>2 DEF Service!Forgive, TypeOK
  <2> QED
    BY <2>1 DEF Service!SNext
<1>3. CASE reset[s] = "idle"
  <2>1. reset' = reset
    BY <1>3 DEF TypeOK
  <2> QED
    BY <2>1, ServiceStays
<1> QED
  BY <1>1, <1>2, <1>3 DEF TypeOK

LEMMA CloseServes ==
  ASSUME TypeOK, Ownership, NEW t \in Threads, CloseStep(t)
  PROVE  Service!SNext \/ UNCHANGED Service!svars
<1>1. CASE CloseMarks(t)
  <2>1. PICK x \in Sessions, s \in Slots :
          sess[t] = x /\ place[x] = s /\ status[x] # "unborn"
    BY <1>1 DEF CloseMarks, Ownership, Busy, Placed
  <2>2. CASE IsOpen(x)
    <3>1. reset[s] = "idle" /\ x \in OpenSessions
      BY <2>1, <2>2 DEF Ownership, OpenSlotIsNotReset, OpenSessions
    <3>2. /\ OpenSessions' = OpenSessions \ {x}
          /\ \A y \in Sessions : status'[y] = "unborn" <=> status[y] = "unborn"
      BY <1>1, <2>1, <2>2 DEF CloseMarks, OpenSessions, IsOpen, TypeOK
    <3>3. reset' = [reset EXCEPT ![s] = "running"] /\ UNCHANGED place
      BY <1>1, <2>1, <2>2 DEF CloseMarks, Where
    <3>4. <<x, s>> \in {<<y, place[y]>> : y \in OpenSessions}
      BY <2>1, <3>1
    <3>5. {<<y, place'[y]>> : y \in OpenSessions'}
            = {<<y, place[y]>> : y \in OpenSessions} \ {<<x, s>>}
      BY <2>1, <3>2, <3>3
    <3>6. {y \in Sessions : status'[y] # "unborn"} = {y \in Sessions : status[y] # "unborn"}
      BY <3>2
    <3>7. Service!GiveBack(x, s)
      BY <3>1, <3>3, <3>4, <3>5, <3>6 DEF Service!GiveBack, TypeOK
    <3> QED
      BY <3>7 DEF Service!SNext
  <2>3. CASE ~IsOpen(x)
    <3>1. /\ OpenSessions' = OpenSessions /\ UNCHANGED place
          /\ \A y \in Sessions : status'[y] = "unborn" <=> status[y] = "unborn"
      BY <1>1, <2>1, <2>3 DEF CloseMarks, OpenSessions, IsOpen, TypeOK
    <3>2. CASE reset[s] = "running"
      <4>1. UNCHANGED reset
        BY <1>1, <2>1, <2>3, <3>2 DEF CloseMarks, Where, TypeOK
      <4> QED
        BY <3>1, <4>1 DEF Service!svars
    <3>3. CASE reset[s] # "running"
      <4>1. reset' = [reset EXCEPT ![s] = "idle"]
        BY <1>1, <2>1, <2>3, <3>3 DEF CloseMarks, Where
      <4> QED
        BY <3>1, <4>1, ResetServes
    <3> QED
      BY <3>2, <3>3
  <2> QED
    BY <2>2, <2>3
<1>2. CASE CloseBreaks(t)
  <2>1. PICK s \in Slots : Where(t) = s /\ reset[s] = "running" /\ claimed[t]
    BY <1>2 DEF CloseBreaks, Ownership, Busy, Placed, OwnersHold, Closing, Where
  <2>2. reset' = [reset EXCEPT ![s] = "idle"] /\ UNCHANGED <<place, status>>
    BY <1>2, <2>1 DEF CloseBreaks
  <2>3. OpenSessions' = OpenSessions
    BY <2>2 DEF OpenSessions, IsOpen
  <2> QED
    BY <2>1, <2>2, <2>3, ResetServes
<1>3. CASE \/ CloseAsks(t) \/ CloseHandsOver(t)
           \/ \E x \in Sessions : CloseBegins(t, x)
  BY <1>3, ServiceFrame DEF CloseAsks, CloseHandsOver, CloseBegins
<1> QED
  BY <1>1, <1>2, <1>3 DEF CloseStep, CloseGoesOn

LEMMA WorkerServes ==
  ASSUME TypeOK, Ownership, NEW x \in Sessions, WorkerStep(x)
  PROVE  Service!SNext \/ UNCHANGED Service!svars
<1>1. CASE WorkerReports(x)
  <2>1. PICK s \in Slots : place[x] = s /\ reset[s] = "running"
    BY <1>1 DEF WorkerReports, Ownership, Placed, OwnersHold, Working
  <2>2. PICK end \in {"idle", "failed"} : reset' = [reset EXCEPT ![s] = end]
    BY <1>1, <2>1 DEF WorkerReports
  <2>3. UNCHANGED <<place, status>> /\ OpenSessions' = OpenSessions
    BY <1>1 DEF WorkerReports, OpenSessions, IsOpen
  <2> QED
    BY <2>1, <2>2, <2>3, ResetServes
<1>2. CASE ~WorkerReports(x)
  BY <1>2, ServiceFrame
     DEF WorkerStep, WorkerStarts, WorkerClears, WorkerRestarts, InPlaceFails,
         WorkerSees, WorkerConfigures, RebuildFails, WorkerLetsGo
<1> QED
  BY <1>1, <1>2

LEMMA OperatorServes ==
  ASSUME TypeOK, NEW s \in Slots, OperatorStep(s)
  PROVE  Service!SNext \/ UNCHANGED Service!svars
<1>1. CASE OperatorConfigures(s)
  <2>1. UNCHANGED <<place, status>> /\ OpenSessions' = OpenSessions
    BY <1>1 DEF OperatorConfigures, OpenSessions, IsOpen
  <2>2. CASE reset[s] = "failed"
    <3>1. reset' = [reset EXCEPT ![s] = "idle"]
      BY <1>1, <2>2 DEF OperatorConfigures
    <3> QED
      BY <2>1, <3>1, ResetServes
  <2>3. CASE reset[s] # "failed"
    <3>1. UNCHANGED reset
      BY <1>1, <2>3 DEF OperatorConfigures, TypeOK
    <3> QED
      BY <2>1, <3>1, ServiceFrame DEF books
  <2> QED
    BY <2>2, <2>3
<1>2. CASE OperatorRebuilds(s)
  BY <1>2, ServiceFrame DEF OperatorRebuilds
<1> QED
  BY <1>1, <1>2 DEF OperatorStep

LEMMA RestartServes ==
  ASSUME TypeOK, Restart
  PROVE  Service!SNext
<1>1. /\ OpenSessions' = OpenSessions /\ UNCHANGED status
      /\ \A x \in OpenSessions : place'[x] = place[x]
      /\ reset' = [s \in Slots |-> "idle"]
  BY DEF Restart, OpenSessions, IsOpen, TypeOK
<1>2. Service!Forget
  BY <1>1 DEF Service!Forget
<1> QED
  BY <1>2 DEF Service!SNext

LEMMA ServiceNext ==
  TypeOK /\ Ownership /\ [Next]_vars => [Service!SNext]_(Service!svars)
<1> SUFFICES ASSUME TypeOK, Ownership, [Next]_vars
             PROVE  Service!SNext \/ UNCHANGED Service!svars
  OBVIOUS
<1>1. ASSUME NEW t \in Threads, OpenStep(t) \/ CloseStep(t)
      PROVE  Service!SNext \/ UNCHANGED Service!svars
  BY <1>1, OpenServes, CloseServes
<1>2. ASSUME NEW t \in Threads, WriteStep(t) PROVE UNCHANGED Service!svars
  BY <1>2, ServiceFrame DEF WriteStep, WriteBegins, WriteLands, WriteFails
<1>3. ASSUME NEW x \in Sessions, WorkerStep(x)
      PROVE  Service!SNext \/ UNCHANGED Service!svars
  BY <1>3, WorkerServes
<1>4. ASSUME NEW s \in Slots, NovaStep(s) PROVE UNCHANGED Service!svars
  BY <1>4, ServiceFrame DEF NovaStep, NovaBegins, NovaEnds
<1>5. ASSUME NEW s \in Slots, OperatorStep(s)
      PROVE  Service!SNext \/ UNCHANGED Service!svars
  BY <1>5, OperatorServes
<1>6. CASE Restart
  BY <1>6, RestartServes
<1>7. CASE UNCHANGED vars
  BY <1>7, ServiceFrame DEF vars
<1> QED
  BY <1>1, <1>2, <1>3, <1>4, <1>5, <1>6, <1>7 DEF Next

\* Threads, locks, workers and failures, together, implement the plain service:
\* one session per slot, each served once, no slot served during its reset.
THEOREM ServiceImplemented == Spec => ImplementsService
  BY ServiceInit, ServiceNext, TypeCorrect, OwnershipCorrect, PTL
     DEF Spec, ImplementsService, Service!SSpec

=============================================================================
