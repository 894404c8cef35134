------------------------ MODULE ScenarioEngineProofs ------------------------
(***************************************************************************)
(* What the engine keeps, for any plan, clock, pool and number of windows  *)
(* and restarts, while requests wait for resume(): an attack is fired once *)
(* at a time, and a window is judged on settled attacks of every case; the *)
(* engine implements what VerificationService promises a learner.          *)
(***************************************************************************)
EXTENDS ScenarioEngine, FiniteSetTheorems, SequenceTheorems, TLAPS

-----------------------------------------------------------------------------
(* The schedule and its windows. *)

\* A finite set, enumerated: each of its elements has its place.
LEMMA EnumeratesTheSet ==
    ASSUME NEW S, IsFiniteSet(S)
    PROVE  /\ SetToSeq(S) \in [1..Cardinality(S) -> S]
           /\ \A x \in S : \E i \in 1..Cardinality(S) : SetToSeq(S)[i] = x
           /\ \A i, j \in 1..Cardinality(S) : SetToSeq(S)[i] = SetToSeq(S)[j] => i = j
<1>1. PICK f : f \in Bijection(1..Cardinality(S), S)
  BY FS_CardinalityType DEF ExistsBijection
<1>2. f \in [1..Cardinality(S) -> S] /\ IsInjective(f)
  BY <1>1 DEF Bijection, Injection
<1>3. SetToSeq(S) \in [1..Cardinality(S) -> S] /\ IsInjective(SetToSeq(S))
  BY <1>2 DEF SetToSeq
<1>4. SetToSeq(S) \in Injection(1..Cardinality(S), S)
  BY <1>3 DEF Injection
<1>5. Cardinality(S) \in Nat
  BY FS_CardinalityType
<1>6. Cardinality(1..Cardinality(S)) = Cardinality(S)
  BY <1>5, FS_Interval
<1>7. SetToSeq(S) \in Surjection(1..Cardinality(S), S)
  BY <1>4, <1>6, FS_Injection
<1> QED BY <1>3, <1>7 DEF Surjection, IsInjective

\* A place between the two ends of a window.
LEMMA PlacesAreInside ==
    ASSUME NEW L \in Nat \ {0}, NEW k \in Nat, NEW i \in 1..k
    PROVE  (L * i) \div (k + 1) \in Nat /\ (L * i) \div (k + 1) < L
<1>1. L * i \in Nat /\ L * i < L * (k + 1)
  OBVIOUS
<1> QED BY <1>1

LEMMA CasesAreFew ==
    ASSUME ScenarioAssumption
    PROVE  IsFiniteSet(Cases) /\ Cardinality(Cases) <= Len(Plan)
<1> DEFINE f == [i \in DOMAIN Plan |-> Plan[i].case]
<1>1. f \in Surjection(DOMAIN Plan, Cases)
  BY DEF Surjection, Cases
<1>2. IsFiniteSet(DOMAIN Plan) /\ Cardinality(DOMAIN Plan) = Len(Plan)
  <2>1. DOMAIN Plan = 1..Len(Plan) /\ Len(Plan) \in Nat BY DEF ScenarioAssumption
  <2> DEFINE n == Len(Plan)
  <2> HIDE DEF n
  <2>2. n \in Nat BY <2>1 DEF n
  <2>3. IsFiniteSet(1..n) BY <2>2, FS_Interval
  <2>4. Cardinality(1..n) = n BY <2>2, FS_Interval
  <2> QED BY <2>1, <2>3, <2>4 DEF n
<1> QED BY <1>1, <1>2, FS_Surjection

LEMMA CasesAreFinite == ASSUME ScenarioAssumption PROVE IsFiniteSet(Cases)
  BY CasesAreFew

LEMMA WindowsLast == ASSUME ScenarioAssumption PROVE Length \in Nat \ {0}
  BY CasesAreFinite, FS_CardinalityType DEF ScenarioAssumption

\* What a new window adds to the schedule: attacks that are due inside it, and
\* one of each case that nothing inside it fires.
LEMMA WindowAttacksAreInside ==
    ASSUME ScenarioAssumption, NEW window, window.start \in Nat, window.end = window.start + Length
    PROVE  LET added == WindowAttacks(window)
           IN  /\ added \in Seq(Entries)
               /\ \A i \in DOMAIN added :
                    /\ added[i].state = "due" /\ added[i].outcome = "none"
                    /\ window.start <= added[i].due /\ added[i].due < window.end
               /\ \A case \in Missing(window) : \E i \in DOMAIN added : added[i].case = case
<1> DEFINE S == Missing(window)
           cases == SetToSeq(S)
           k == Cardinality(S)
           added == WindowAttacks(window)
<1>1. IsFiniteSet(S) /\ S \subseteq Cases
  BY CasesAreFinite, FS_Subset DEF Missing
<1>2. k \in Nat /\ cases \in [1..k -> S] /\ \A x \in S : \E i \in 1..k : cases[i] = x
  BY <1>1, EnumeratesTheSet, FS_CardinalityType
<1>3. Len(cases) = k /\ DOMAIN cases = 1..k
  BY <1>2
<1>4. added = [i \in 1..k |-> Entry(cases[i], window.start + (Length * i) \div (k + 1))]
  BY <1>3 DEF WindowAttacks
<1>5. ASSUME NEW i \in 1..k
      PROVE  /\ added[i] \in Entries /\ added[i].case = cases[i]
             /\ added[i].state = "due" /\ added[i].outcome = "none"
             /\ window.start <= added[i].due /\ added[i].due < window.end
  <2> DEFINE place == (Length * i) \div (k + 1)
  <2>1. place \in Nat /\ place < Length
    BY <1>2, WindowsLast, PlacesAreInside
  <2>2. added[i] = Entry(cases[i], window.start + place)
    BY <1>4
  <2>3. cases[i] \in Cases /\ window.start + place \in Nat
    BY <1>1, <1>2, <2>1
  <2> HIDE DEF place
  <2>4. window.start <= window.start + place /\ window.start + place < window.end
    BY <2>1, WindowsLast
  <2> QED BY <2>2, <2>3, <2>4 DEF Entry, Entries
<1>6. added \in Seq(Entries)
  <2> HIDE DEF added
  <2>1. added \in [1..k -> Entries]
    BY <1>4, <1>5
  <2> QED BY <1>2, <2>1, SeqDef
<1>7. DOMAIN added = 1..k
  BY <1>4
<1> HIDE DEF added
<1>8. \A case \in S : \E i \in DOMAIN added : added[i].case = case
  BY <1>2, <1>5, <1>7
<1> QED BY <1>5, <1>6, <1>7, <1>8 DEF added

-----------------------------------------------------------------------------
(* The inductive invariant. *)

\* Until resume() is through nothing of the engine runs, and nobody asks.
NothingBeforeResume ==
    resume # "done" => engine = "off" /\ queue = <<>> /\ running = {} /\ ~ asking

FiredTold ==
    \A n \in DOMAIN schedule :
        schedule[n].state = "fired" => schedule[n].outcome \in {"held", "leaked"}

NoneCancelled == closing = "open" => \A n \in DOMAIN schedule : schedule[n].state # "cancelled"

\* Each window holds an attack of each case.
EveryCaseInside ==
    closing = "open" =>
        \A i \in DOMAIN windows : \A case \in Cases :
            \E n \in Inside(schedule, windows[i]) : schedule[n].case = case

AllHeld(entries, window) ==
    \A n \in Inside(entries, window) :
        entries[n].state = "cancelled" \/ (entries[n].state = "fired" /\ entries[n].outcome = "held")

PassedHeld == \A i \in DOMAIN windows : windows[i].result = "passed" => AllHeld(schedule, windows[i])

ScheduleInv == FiredTold /\ NoneCancelled

WindowsInv ==
    /\ JudgedWindowsAreSettled /\ WindowsFollowOneAnother
    /\ EveryCaseInside /\ PassedHeld

\* What the tick read and relies on when it goes on.
TickTells ==
    /\ engine = "window" => windows = <<>> \/ Unjudged
    /\ engine = "keep" =>
         /\ Unjudged /\ verdict \in Verdicts
         /\ Last(windows).end <= now
         /\ \A n \in Inside(schedule, Last(windows)) : schedule[n].state \in Settled
         /\ verdict = "passed" => AllHeld(schedule, Last(windows))

EngineInv ==
    /\ TypeOK /\ NothingBeforeResume /\ FiredOnceAtATime
    /\ ScheduleInv /\ WindowsInv /\ TickTells

-----------------------------------------------------------------------------
(* How the schedule moves. *)

\* An entry keeps its case and its time, and is settled for good.
ScheduleMoves ==
    /\ schedule' \in Seq(Entries) /\ Len(schedule') = Len(schedule)
    /\ \A n \in DOMAIN schedule :
         /\ schedule'[n].case = schedule[n].case /\ schedule'[n].due = schedule[n].due
         /\ schedule[n].state \in Settled => schedule'[n] = schedule[n]
         /\ schedule'[n].state = "fired" => schedule'[n].outcome \in {"held", "leaked"}
         /\ schedule'[n].state = "cancelled" => schedule[n].state = "cancelled" \/ closing' # "open"

\* The types of the sequences, one by one.
LEMMA SequencesAreTyped ==
    ASSUME TypeOK
    PROVE  /\ schedule \in Seq(Entries) /\ Len(schedule) \in Nat
           /\ DOMAIN schedule = 1..Len(schedule)
           /\ \A n \in DOMAIN schedule : schedule[n] \in Entries
           /\ queue \in Seq(DOMAIN schedule) /\ Len(queue) \in Nat /\ DOMAIN queue = 1..Len(queue)
           /\ \A i \in DOMAIN queue : queue[i] \in DOMAIN schedule
           /\ windows \in Seq(Windows) /\ Len(windows) \in Nat /\ DOMAIN windows = 1..Len(windows)
           /\ \A i \in DOMAIN windows : windows[i] \in Windows
           /\ running \subseteq DOMAIN schedule /\ todo \subseteq DOMAIN schedule
           /\ now \in Nat /\ tickAt \in Nat /\ tickAt <= now
<1>1. schedule \in Seq(Entries) /\ queue \in Seq(DOMAIN schedule) /\ windows \in Seq(Windows)
  BY DEF TypeOK
<1>2. running \subseteq DOMAIN schedule /\ todo \subseteq DOMAIN schedule
  BY DEF TypeOK
<1>3. now \in Nat /\ tickAt \in Nat /\ tickAt <= now
  BY DEF TypeOK
<1>4. /\ Len(schedule) \in Nat /\ DOMAIN schedule = 1..Len(schedule)
      /\ \A n \in DOMAIN schedule : schedule[n] \in Entries
  BY <1>1, LenProperties, ElementOfSeq
<1>5. /\ Len(queue) \in Nat /\ DOMAIN queue = 1..Len(queue)
      /\ \A i \in DOMAIN queue : queue[i] \in DOMAIN schedule
  BY <1>1, LenProperties, ElementOfSeq
<1>6. /\ Len(windows) \in Nat /\ DOMAIN windows = 1..Len(windows)
      /\ \A i \in DOMAIN windows : windows[i] \in Windows
  BY <1>1, LenProperties, ElementOfSeq
<1> QED BY <1>1, <1>2, <1>3, <1>4, <1>5, <1>6

LEMMA OneEntryMoves ==
    ASSUME TypeOK, FiredTold, NEW n \in DOMAIN schedule, NEW e \in Entries,
           schedule' = [schedule EXCEPT ![n] = e],
           e.case = schedule[n].case, e.due = schedule[n].due, schedule[n].state \notin Settled,
           e.state = "fired" => e.outcome \in {"held", "leaked"},
           e.state = "cancelled" => closing' # "open"
    PROVE  ScheduleMoves
<1>1. schedule \in Seq(Entries) /\ n \in 1..Len(schedule) /\ DOMAIN schedule = 1..Len(schedule)
  BY SequencesAreTyped
<1>2. /\ schedule' \in Seq(Entries) /\ Len(schedule') = Len(schedule)
      /\ \A j \in 1..Len(schedule) : schedule'[j] = IF j = n THEN e ELSE schedule[j]
  BY <1>1, ExceptSeq
<1> QED BY <1>1, <1>2 DEF ScheduleMoves, FiredTold

LEMMA EntriesMove ==
    ASSUME TypeOK, FiredTold, NEW from, NEW to \in {"due", "cancelled"},
           from \in {"due", "firing"}, to = "cancelled" => closing' # "open",
           schedule' = [n \in DOMAIN schedule |->
                           IF schedule[n].state = from
                           THEN [schedule[n] EXCEPT !.state = to] ELSE schedule[n]]
    PROVE  ScheduleMoves
<1>1. schedule \in Seq(Entries) /\ Len(schedule) \in Nat /\ DOMAIN schedule = 1..Len(schedule)
  BY SequencesAreTyped
<1>2. ASSUME NEW n \in 1..Len(schedule)
      PROVE  /\ schedule'[n] \in Entries
             /\ schedule'[n].case = schedule[n].case /\ schedule'[n].due = schedule[n].due
             /\ schedule[n].state \in Settled => schedule'[n] = schedule[n]
             /\ schedule'[n].state = "fired" => schedule'[n].outcome \in {"held", "leaked"}
             /\ schedule'[n].state = "cancelled" => schedule[n].state = "cancelled" \/ closing' # "open"
  <2>1. schedule[n] \in Entries
    BY <1>1, SequencesAreTyped
  <2>2. CASE schedule[n].state = from
    <3>1. schedule'[n] = [schedule[n] EXCEPT !.state = to]
      BY <1>1, <2>2
    <3>2. schedule'[n] \in Entries /\ schedule'[n].state = to
          /\ schedule'[n].case = schedule[n].case /\ schedule'[n].due = schedule[n].due
      BY <2>1, <3>1 DEF Entries, Settled
    <3> QED BY <2>2, <3>2 DEF Settled
  <2>3. CASE schedule[n].state # from
    <3>1. schedule'[n] = schedule[n]
      BY <1>1, <2>3
    <3> QED BY <1>1, <2>1, <3>1 DEF FiredTold
  <2> QED BY <2>2, <2>3
<1>3. schedule' \in [1..Len(schedule) -> Entries]
  BY <1>1, <1>2
<1>4. schedule' \in Seq(Entries) /\ Len(schedule') = Len(schedule)
  BY <1>1, <1>3, SeqDef
<1> QED BY <1>1, <1>2, <1>4 DEF ScheduleMoves

LEMMA NoEntryMoves ==
    ASSUME TypeOK, FiredTold, UNCHANGED schedule
    PROVE  ScheduleMoves
  BY SequencesAreTyped DEF FiredTold, ScheduleMoves

\* The steps that open no window.
OpensNothing ==
    \/ VerifyBegins \/ TickBegins \/ (\E n \in todo : TickClaims(n)) \/ TickJudges \/ JudgeKeeps
    \/ PoolStep \/ CloseMarks \/ CloseCancels \/ TimePasses \/ Restart \/ ResumeLists \/ Resumes

LEMMA ClaimsMove ==
    ASSUME TypeOK, FiredTold, NEW n \in todo, TickClaims(n)
    PROVE  ScheduleMoves
<1>1. n \in DOMAIN schedule /\ schedule[n] \in Entries
  BY SequencesAreTyped
<1>2. CASE schedule[n].state = "due"
  <2> DEFINE e == [schedule[n] EXCEPT !.state = "firing"]
  <2>1. e \in Entries /\ e.state = "firing" /\ e.case = schedule[n].case /\ e.due = schedule[n].due
    BY <1>1 DEF Entries
  <2>2. schedule' = [schedule EXCEPT ![n] = e]
    BY <1>2 DEF TickClaims
  <2> HIDE DEF e
  <2> QED BY <1>1, <1>2, <2>1, <2>2, OneEntryMoves DEF Settled
<1>3. CASE schedule[n].state # "due"
  BY <1>3, NoEntryMoves DEF TickClaims
<1> QED BY <1>2, <1>3

LEMMA PoolMoves ==
    ASSUME TypeOK, FiredTold, FiredOnceAtATime, PoolStep
    PROVE  ScheduleMoves
<1>1. CASE FireBegins
  <2> DEFINE n == Head(queue)
             e == [schedule[n] EXCEPT !.state = "cancelled"]
  <2>1. n = queue[1] /\ 1 \in DOMAIN queue /\ n \in DOMAIN schedule
    <3>1. queue # <<>>
      BY <1>1 DEF FireBegins
    <3> QED BY <3>1, SequencesAreTyped
  <2>2. schedule[n].state = "firing"
    BY <2>1 DEF FiredOnceAtATime
  <2>3. schedule[n] \in Entries
    BY <2>1, SequencesAreTyped
  <2>4. e \in Entries /\ e.state = "cancelled" /\ e.case = schedule[n].case /\ e.due = schedule[n].due
    BY <2>3 DEF Entries, Settled
  <2>5. CASE closing = "open"
    BY <1>1, <2>5, NoEntryMoves DEF FireBegins
  <2>6. CASE closing # "open"
    <3>1. schedule' = [schedule EXCEPT ![n] = e] /\ closing' # "open"
      BY <1>1, <2>6 DEF FireBegins
    <3> HIDE DEF n, e
    <3> QED BY <2>1, <2>2, <2>4, <3>1, OneEntryMoves DEF Settled
  <2> QED BY <2>5, <2>6
<1>2. ASSUME NEW n \in running, FireEnds(n)
      PROVE  ScheduleMoves
  <2>1. n \in DOMAIN schedule /\ schedule[n] \in Entries /\ schedule[n].state = "firing"
    BY SequencesAreTyped DEF FiredOnceAtATime
  <2>2. PICK e \in Entries :
          /\ schedule' = [schedule EXCEPT ![n] = e]
          /\ e.case = schedule[n].case /\ e.due = schedule[n].due
          /\ e.state # "cancelled" /\ (e.state = "fired" => e.outcome \in {"held", "leaked"})
    <3>1. CASE \E outcome \in {"held", "leaked"} :
                 schedule' = [schedule EXCEPT ![n].state = "fired", ![n].outcome = outcome]
      <4>1. PICK outcome \in {"held", "leaked"} :
              schedule' = [schedule EXCEPT ![n].state = "fired", ![n].outcome = outcome]
        BY <3>1
      <4> DEFINE e == [schedule[n] EXCEPT !.state = "fired", !.outcome = outcome]
      <4>2. /\ e \in Entries /\ e.state = "fired" /\ e.outcome = outcome
            /\ e.case = schedule[n].case /\ e.due = schedule[n].due
        BY <2>1 DEF Entries, Settled
      <4>3. schedule' = [schedule EXCEPT ![n] = e]
        BY <2>1, <4>1
      <4> HIDE DEF e
      <4> QED BY <4>2, <4>3
    <3>2. CASE schedule' = [schedule EXCEPT ![n].state = "failed"]
      <4> DEFINE e == [schedule[n] EXCEPT !.state = "failed"]
      <4>1. /\ e \in Entries /\ e.state = "failed"
            /\ e.case = schedule[n].case /\ e.due = schedule[n].due
        BY <2>1 DEF Entries, Settled
      <4>2. schedule' = [schedule EXCEPT ![n] = e]
        BY <2>1, <3>2
      <4> HIDE DEF e
      <4> QED BY <4>1, <4>2
    <3> QED BY <1>2, <3>1, <3>2 DEF FireEnds
  <2> QED BY <2>1, <2>2, OneEntryMoves DEF Settled
<1> QED BY <1>1, <1>2 DEF PoolStep

LEMMA StepsMoveTheSchedule ==
    ASSUME TypeOK, FiredTold, FiredOnceAtATime, OpensNothing
    PROVE  ScheduleMoves
<1>1. CASE \E n \in todo : TickClaims(n)
  BY <1>1, ClaimsMove
<1>2. CASE PoolStep
  BY <1>2, PoolMoves
<1>3. CASE CloseCancels
  BY <1>3, EntriesMove DEF CloseCancels
<1>4. CASE Resumes
  BY <1>4, EntriesMove DEF Resumes
<1>5. CASE \/ VerifyBegins \/ TickBegins \/ TickJudges \/ JudgeKeeps
           \/ CloseMarks \/ TimePasses \/ Restart \/ ResumeLists
  <2>1. UNCHANGED schedule
    BY <1>5 DEF VerifyBegins, TickBegins, TickJudges, JudgeKeeps, CloseMarks, TimePasses,
                Restart, ResumeLists, state
  <2> QED BY <2>1, NoEntryMoves
<1> QED BY <1>1, <1>2, <1>3, <1>4, <1>5 DEF OpensNothing

-----------------------------------------------------------------------------
(* The windows, while the schedule moves. *)

LEMMA MovesKeepTheSchedule ==
    ASSUME TypeOK, ScheduleInv, ScheduleMoves, closing' = "open" => closing = "open"
    PROVE  /\ ScheduleInv' /\ DOMAIN schedule' = DOMAIN schedule
           /\ \A window : Inside(schedule', window) = Inside(schedule, window)
           /\ \A window : AllHeld(schedule, window) => AllHeld(schedule', window)
<1>1. DOMAIN schedule' = DOMAIN schedule
  BY SequencesAreTyped, LenProperties DEF ScheduleMoves
<1>2. ScheduleInv'
  BY <1>1 DEF ScheduleInv, ScheduleMoves, FiredTold, NoneCancelled
<1>3. ASSUME NEW window
      PROVE  Inside(schedule', window) = Inside(schedule, window)
  BY <1>1 DEF ScheduleMoves, Inside
<1>4. ASSUME NEW window, AllHeld(schedule, window)
      PROVE  AllHeld(schedule', window)
  <2>1. ASSUME NEW n \in Inside(schedule', window)
        PROVE  schedule'[n] = schedule[n] /\ n \in Inside(schedule, window)
    <3>1. n \in Inside(schedule, window) /\ n \in DOMAIN schedule
      BY <1>3 DEF Inside
    <3>2. schedule[n].state \in Settled
      BY <1>4, <3>1 DEF AllHeld, Settled
    <3> QED BY <3>1, <3>2 DEF ScheduleMoves
  <2> QED BY <1>4, <2>1 DEF AllHeld
<1> QED BY <1>1, <1>2, <1>3, <1>4

LEMMA MovesKeepTheWindows ==
    ASSUME TypeOK, ScheduleInv, WindowsInv, ScheduleMoves, UNCHANGED windows,
           now' \in Nat, now <= now', closing' = "open" => closing = "open"
    PROVE  WindowsInv'
<1>1. /\ DOMAIN schedule' = DOMAIN schedule
      /\ \A window : Inside(schedule', window) = Inside(schedule, window)
      /\ \A window : AllHeld(schedule, window) => AllHeld(schedule', window)
  BY MovesKeepTheSchedule
<1>2. JudgedWindowsAreSettled'
  <2>1. ASSUME NEW i \in DOMAIN windows, windows[i].result # "none"
        PROVE  /\ windows[i].end <= now'
               /\ \A n \in Inside(schedule', windows[i]) : schedule'[n].state \in Settled
    <3>1. /\ windows[i].end <= now
          /\ \A n \in Inside(schedule, windows[i]) : schedule[n].state \in Settled
      BY <2>1 DEF WindowsInv, JudgedWindowsAreSettled
    <3>2. windows[i].end \in Nat /\ now \in Nat
      BY SequencesAreTyped DEF Windows
    <3>3. ASSUME NEW n \in Inside(schedule', windows[i])
          PROVE  schedule'[n].state \in Settled
      <4>1. n \in Inside(schedule, windows[i]) /\ n \in DOMAIN schedule
        BY <1>1 DEF Inside
      <4> QED BY <3>1, <4>1 DEF ScheduleMoves
    <3> QED BY <3>1, <3>2, <3>3
  <2> QED BY <2>1 DEF JudgedWindowsAreSettled
<1>3. WindowsFollowOneAnother'
  BY DEF WindowsInv, WindowsFollowOneAnother
<1>4. EveryCaseInside'
  <2>1. ASSUME closing' = "open", NEW i \in DOMAIN windows, NEW case \in Cases
        PROVE  \E n \in Inside(schedule', windows[i]) : schedule'[n].case = case
    <3>1. PICK n \in Inside(schedule, windows[i]) : schedule[n].case = case
      BY <2>1 DEF WindowsInv, EveryCaseInside
    <3>2. n \in Inside(schedule', windows[i]) /\ n \in DOMAIN schedule
      BY <1>1, <3>1 DEF Inside
    <3> QED BY <3>1, <3>2 DEF ScheduleMoves
  <2> QED BY <2>1 DEF EveryCaseInside
<1>5. PassedHeld'
  BY <1>1 DEF WindowsInv, PassedHeld
<1> QED BY <1>2, <1>3, <1>4, <1>5 DEF WindowsInv

-----------------------------------------------------------------------------
(* A window opens. *)

\* What StartWindow leaves: one window more, and its attacks.
LEMMA WindowsOpen ==
    ASSUME ScenarioAssumption, TypeOK, NEW at \in Nat, StartWindow(at)
    PROVE  LET window == [start |-> at, end |-> at + Length, result |-> "none"]
               added == DOMAIN schedule' \ DOMAIN schedule
           IN  /\ window \in Windows /\ ~ Unjudged
               /\ windows' \in Seq(Windows) /\ Len(windows') = Len(windows) + 1
               /\ DOMAIN windows' = 1..(Len(windows) + 1)
               /\ windows'[Len(windows) + 1] = window
               /\ \A i \in DOMAIN windows : windows'[i] = windows[i]
               /\ schedule' \in Seq(Entries) /\ DOMAIN schedule \subseteq DOMAIN schedule'
               /\ \A n \in DOMAIN schedule : schedule'[n] = schedule[n]
               /\ \A n \in added : /\ schedule'[n].state = "due" /\ schedule'[n].outcome = "none"
                                   /\ at <= schedule'[n].due /\ schedule'[n].due < at + Length
               /\ \A case \in Missing(window) : \E n \in added : schedule'[n].case = case
<1> DEFINE window == [start |-> at, end |-> at + Length, result |-> "none"]
           new == WindowAttacks(window)
           added == DOMAIN schedule' \ DOMAIN schedule
<1>1. Length \in Nat /\ window \in Windows
  BY WindowsLast DEF Windows
<1>2. windows \in Seq(Windows) /\ schedule \in Seq(Entries)
  BY SequencesAreTyped
<1>3. ~ Unjudged /\ windows' = Append(windows, window) /\ schedule' = schedule \o new
  BY DEF StartWindow
<1>4. /\ windows' \in Seq(Windows) /\ Len(windows') = Len(windows) + 1
      /\ windows'[Len(windows) + 1] = window
      /\ \A i \in 1..Len(windows) : windows'[i] = windows[i]
  <2> HIDE DEF window
  <2> QED BY <1>1, <1>2, <1>3, AppendProperties
<1>5. DOMAIN windows' = 1..(Len(windows) + 1) /\ DOMAIN windows = 1..Len(windows)
  BY <1>2, <1>4, LenProperties
<1>6. /\ new \in Seq(Entries)
      /\ \A i \in DOMAIN new : /\ new[i].state = "due" /\ new[i].outcome = "none"
                               /\ at <= new[i].due /\ new[i].due < at + Length
      /\ \A case \in Missing(window) : \E i \in DOMAIN new : new[i].case = case
  <2>1. window.start = at /\ window.end = at + Length
    OBVIOUS
  <2> HIDE DEF window
  <2> QED BY <2>1, WindowAttacksAreInside
<1> HIDE DEF window, new
<1>7. /\ Len(schedule) \in Nat /\ DOMAIN schedule = 1..Len(schedule)
      /\ Len(new) \in Nat /\ DOMAIN new = 1..Len(new)
  BY <1>2, <1>6, LenProperties
<1>8. /\ schedule' \in Seq(Entries) /\ DOMAIN schedule' = 1..(Len(schedule) + Len(new))
      /\ \A i \in 1..(Len(schedule) + Len(new)) :
            schedule'[i] = IF i <= Len(schedule) THEN schedule[i] ELSE new[i - Len(schedule)]
  BY <1>2, <1>3, <1>6, ConcatProperties, LenProperties
<1>9. \A n \in DOMAIN schedule : n \in DOMAIN schedule' /\ schedule'[n] = schedule[n]
  BY <1>7, <1>8
<1>10. ASSUME NEW n \in added
       PROVE  /\ schedule'[n].state = "due" /\ schedule'[n].outcome = "none"
              /\ at <= schedule'[n].due /\ schedule'[n].due < at + Length
  <2>1. n - Len(schedule) \in DOMAIN new /\ schedule'[n] = new[n - Len(schedule)]
    BY <1>7, <1>8
  <2> QED BY <1>6, <2>1
<1>11. ASSUME NEW case \in Missing(window)
       PROVE  \E n \in added : schedule'[n].case = case
  <2>1. PICK i \in DOMAIN new : new[i].case = case
    BY <1>6
  <2>2. Len(schedule) + i \in added /\ schedule'[Len(schedule) + i] = new[i]
    BY <1>7, <1>8
  <2> QED BY <2>1, <2>2
<1> QED BY <1>1, <1>3, <1>4, <1>5, <1>8, <1>9, <1>10, <1>11 DEF window

LEMMA OpeningKeepsTheWindows ==
    ASSUME ScenarioAssumption, TypeOK, ScheduleInv, WindowsInv, NEW at \in Nat, StartWindow(at),
           at <= now, windows = <<>> \/ at = now, UNCHANGED <<now, closing>>
    PROVE  ScheduleInv' /\ WindowsInv'
<1> DEFINE window == [start |-> at, end |-> at + Length, result |-> "none"]
           added == DOMAIN schedule' \ DOMAIN schedule
           last == Len(windows) + 1
<1>1. /\ window \in Windows /\ ~ Unjudged
      /\ DOMAIN windows' = 1..last /\ windows'[last] = window /\ Len(windows') = last
      /\ \A i \in DOMAIN windows : windows'[i] = windows[i]
      /\ DOMAIN schedule \subseteq DOMAIN schedule'
      /\ \A n \in DOMAIN schedule : schedule'[n] = schedule[n]
      /\ \A n \in added : /\ schedule'[n].state = "due" /\ schedule'[n].outcome = "none"
                          /\ at <= schedule'[n].due /\ schedule'[n].due < at + Length
      /\ \A case \in Missing(window) : \E n \in added : schedule'[n].case = case
      /\ schedule' \in Seq(Entries)
  BY WindowsOpen
<1>2. /\ Len(windows) \in Nat /\ DOMAIN windows = 1..Len(windows)
      /\ \A i \in DOMAIN windows : windows[i] \in Windows /\ windows[i].end \in Nat
      /\ now \in Nat
  BY SequencesAreTyped DEF Windows
<1>3. window.start = at /\ window.end = at + Length /\ window.result = "none"
  OBVIOUS
<1> HIDE DEF window
<1>4. \A n \in DOMAIN schedule' : schedule'[n] \in Entries /\ schedule'[n].due \in Nat
  <2>1. \A n \in DOMAIN schedule' : schedule'[n] \in Entries
    BY <1>1, LenProperties, ElementOfSeq
  <2> QED BY <2>1 DEF Entries
<1>5. ScheduleInv'
  <2>1. ASSUME NEW n \in DOMAIN schedule'
        PROVE  /\ schedule'[n].state = "fired" => schedule'[n].outcome \in {"held", "leaked"}
               /\ closing' = "open" => schedule'[n].state # "cancelled"
    <3>1. CASE n \in DOMAIN schedule
      BY <1>1, <3>1 DEF ScheduleInv, FiredTold, NoneCancelled
    <3>2. CASE n \in added
      BY <1>1, <3>2
    <3> QED BY <3>1, <3>2
  <2> QED BY <2>1 DEF ScheduleInv, FiredTold, NoneCancelled
<1>6. ASSUME NEW i \in DOMAIN windows, windows[i].result # "none"
      PROVE  \A n \in Inside(schedule', windows[i]) :
                n \in Inside(schedule, windows[i]) /\ schedule'[n] = schedule[n]
  <2> SUFFICES ASSUME NEW n \in Inside(schedule', windows[i])
               PROVE  n \in Inside(schedule, windows[i]) /\ schedule'[n] = schedule[n]
    OBVIOUS
  <2>1. n \in DOMAIN schedule' /\ schedule'[n].due < windows[i].end
        /\ windows[i].start <= schedule'[n].due
    BY DEF Inside
  <2>2. windows[i].end <= now
    BY <1>6 DEF WindowsInv, JudgedWindowsAreSettled
  <2>3. at = now
    BY <1>2
  <2>4. n \notin added
    BY <1>1, <1>2, <1>4, <2>1, <2>2, <2>3
  <2>5. n \in DOMAIN schedule /\ schedule'[n] = schedule[n]
    BY <1>1, <2>1, <2>4
  <2> QED BY <2>1, <2>5 DEF Inside
<1>7. JudgedWindowsAreSettled'
  <2>1. ASSUME NEW i \in 1..last, windows'[i].result # "none"
        PROVE  /\ windows'[i].end <= now
               /\ \A n \in Inside(schedule', windows'[i]) : schedule'[n].state \in Settled
    <3>1. i \in DOMAIN windows /\ windows'[i] = windows[i]
      BY <1>1, <1>2, <1>3, <2>1
    <3>2. /\ windows[i].end <= now
          /\ \A n \in Inside(schedule, windows[i]) : schedule[n].state \in Settled
      BY <2>1, <3>1 DEF WindowsInv, JudgedWindowsAreSettled
    <3> QED BY <1>6, <2>1, <3>1, <3>2
  <2> QED BY <1>1, <2>1 DEF JudgedWindowsAreSettled
<1>8. WindowsFollowOneAnother'
  <2>1. ASSUME NEW i \in 1..last, i < last
        PROVE  windows'[i].result # "none" /\ windows'[i].end <= windows'[i + 1].start
    <3>1. i \in DOMAIN windows /\ windows'[i] = windows[i]
      BY <1>1, <1>2, <2>1
    <3>2. CASE i < Len(windows)
      <4>1. i + 1 \in DOMAIN windows
        BY <1>2, <2>1, <3>2
      <4> QED BY <1>1, <3>1, <3>2, <4>1 DEF WindowsInv, WindowsFollowOneAnother
    <3>3. CASE i = Len(windows)
      <4>1. windows # <<>> /\ at = now
        BY <1>2, <3>1
      <4>2. windows[i].result # "none"
        BY <1>1, <3>3, <4>1 DEF Unjudged, Last
      <4>3. windows[i].end <= now
        BY <3>1, <4>2 DEF WindowsInv, JudgedWindowsAreSettled
      <4> QED BY <1>1, <1>3, <3>1, <3>3, <4>1, <4>2, <4>3
    <3> QED BY <1>2, <2>1, <3>2, <3>3
  <2> QED BY <1>1, <2>1 DEF WindowsFollowOneAnother
<1>9. EveryCaseInside'
  <2>1. ASSUME closing = "open", NEW i \in 1..last, NEW case \in Cases
        PROVE  \E n \in Inside(schedule', windows'[i]) : schedule'[n].case = case
    <3>1. CASE i \in DOMAIN windows
      <4>1. PICK n \in Inside(schedule, windows[i]) : schedule[n].case = case
        BY <2>1, <3>1 DEF WindowsInv, EveryCaseInside
      <4>2. n \in Inside(schedule', windows[i]) /\ schedule'[n] = schedule[n]
        BY <1>1, <4>1 DEF Inside
      <4> QED BY <1>1, <3>1, <4>1, <4>2
    <3>2. CASE i = last /\ case \in Missing(window)
      <4>1. PICK n \in added : schedule'[n].case = case
        BY <1>1, <3>2
      <4>2. n \in Inside(schedule', window)
        BY <1>1, <1>3, <4>1 DEF Inside
      <4> QED BY <1>1, <3>2, <4>1, <4>2
    <3>3. CASE i = last /\ case \notin Missing(window)
      <4>1. PICK n \in Inside(schedule, window) : schedule[n].case = case
        BY <3>3 DEF Missing
      <4>2. n \in Inside(schedule', window) /\ schedule'[n] = schedule[n]
        BY <1>1, <4>1 DEF Inside
      <4> QED BY <1>1, <3>3, <4>1, <4>2
    <3> QED BY <1>2, <3>1, <3>2, <3>3
  <2> QED BY <1>1, <2>1 DEF EveryCaseInside
<1>10. PassedHeld'
  <2>1. ASSUME NEW i \in 1..last, windows'[i].result = "passed"
        PROVE  AllHeld(schedule', windows'[i])
    <3>1. i \in DOMAIN windows /\ windows'[i] = windows[i]
      BY <1>1, <1>2, <1>3, <2>1
    <3>2. AllHeld(schedule, windows[i])
      BY <2>1, <3>1 DEF WindowsInv, PassedHeld
    <3> QED BY <1>6, <2>1, <3>1, <3>2 DEF AllHeld
  <2> QED BY <1>1, <2>1 DEF PassedHeld
<1> QED BY <1>5, <1>7, <1>8, <1>9, <1>10 DEF WindowsInv

\* The result is written to the window it was worked out for.
LEMMA JudgingKeepsTheWindows ==
    ASSUME TypeOK, WindowsInv, TickTells, JudgeKeeps
    PROVE  WindowsInv' /\ windows' \in Seq(Windows)
<1> DEFINE last == Len(windows)
<1>1. /\ windows \in Seq(Windows) /\ last \in Nat /\ DOMAIN windows = 1..last
      /\ \A i \in DOMAIN windows : windows[i] \in Windows
  BY SequencesAreTyped
<1>2. /\ Unjudged /\ verdict \in Verdicts /\ windows[last].end <= now
      /\ \A n \in Inside(schedule, windows[last]) : schedule[n].state \in Settled
      /\ verdict = "passed" => AllHeld(schedule, windows[last])
  BY DEF JudgeKeeps, TickTells, Last
<1>3. last \in DOMAIN windows
  BY <1>1, <1>2 DEF Unjudged
<1> DEFINE judged == [windows[last] EXCEPT !.result = verdict]
<1>4. judged \in Windows /\ judged.start = windows[last].start /\ judged.end = windows[last].end
      /\ judged.result = verdict
  BY <1>1, <1>2, <1>3 DEF Windows
<1>5. windows' = [windows EXCEPT ![last] = judged]
  BY <1>3 DEF JudgeKeeps
<1> HIDE DEF judged
<1>6. /\ windows' \in Seq(Windows) /\ DOMAIN windows' = DOMAIN windows /\ Len(windows') = last
      /\ windows'[last] = judged
      /\ \A i \in DOMAIN windows : i # last => windows'[i] = windows[i]
  BY <1>1, <1>3, <1>4, <1>5, ExceptSeq
<1>7. \A i \in DOMAIN windows : /\ windows'[i].start = windows[i].start
                                /\ windows'[i].end = windows[i].end
  BY <1>4, <1>6
<1>8. \A i \in DOMAIN windows : Inside(schedule, windows'[i]) = Inside(schedule, windows[i])
  BY <1>7 DEF Inside
<1>9. UNCHANGED <<schedule, now, closing>>
  BY DEF JudgeKeeps
<1>10. JudgedWindowsAreSettled'
  <2>1. ASSUME NEW i \in DOMAIN windows, windows'[i].result # "none"
        PROVE  /\ windows'[i].end <= now
               /\ \A n \in Inside(schedule, windows'[i]) : schedule[n].state \in Settled
    <3>1. CASE i = last
      BY <1>2, <1>7, <1>8, <3>1
    <3>2. CASE i # last
      BY <1>6, <2>1, <3>2 DEF WindowsInv, JudgedWindowsAreSettled
    <3> QED BY <3>1, <3>2
  <2> QED BY <1>6, <1>9, <2>1 DEF JudgedWindowsAreSettled
<1>11. WindowsFollowOneAnother'
  <2>1. ASSUME NEW i \in DOMAIN windows, i < last
        PROVE  windows'[i].result # "none" /\ windows'[i].end <= windows'[i + 1].start
    <3>1. i + 1 \in DOMAIN windows /\ i # last
      BY <1>1, <2>1
    <3> QED BY <1>6, <1>7, <2>1, <3>1 DEF WindowsInv, WindowsFollowOneAnother
  <2> QED BY <1>6, <2>1 DEF WindowsFollowOneAnother
<1>12. EveryCaseInside'
  BY <1>6, <1>8, <1>9 DEF WindowsInv, EveryCaseInside
<1>13. PassedHeld'
  <2>1. ASSUME NEW i \in DOMAIN windows, windows'[i].result = "passed"
        PROVE  AllHeld(schedule, windows'[i])
    <3>1. AllHeld(schedule, windows[i])
      BY <1>2, <1>4, <1>6, <2>1 DEF WindowsInv, PassedHeld
    <3> QED BY <1>8, <3>1 DEF AllHeld
  <2> QED BY <1>6, <1>9, <2>1 DEF PassedHeld
<1> QED BY <1>6, <1>10, <1>11, <1>12, <1>13 DEF WindowsInv

-----------------------------------------------------------------------------
(* The engine's tick, the pool and the process. *)

\* An engine that goes on finds what it relied on as it was.
LEMMA TicksGoOn ==
    ASSUME EngineInv, ScheduleMoves, UNCHANGED <<windows, verdict>>, engine' = engine,
           now' \in Nat, now <= now', closing' = "open" => closing = "open"
    PROVE  TickTells'
<1>1. /\ DOMAIN schedule' = DOMAIN schedule
      /\ \A window : Inside(schedule', window) = Inside(schedule, window)
      /\ \A window : AllHeld(schedule, window) => AllHeld(schedule', window)
  BY MovesKeepTheSchedule DEF EngineInv
<1>2. CASE engine = "keep"
  <2>1. /\ Unjudged /\ verdict \in Verdicts
        /\ Last(windows).end <= now
        /\ \A n \in Inside(schedule, Last(windows)) : schedule[n].state \in Settled
        /\ verdict = "passed" => AllHeld(schedule, Last(windows))
    BY <1>2 DEF EngineInv, TickTells
  <2>2. \A n \in Inside(schedule', Last(windows)) : schedule'[n].state \in Settled
    <3>1. ASSUME NEW n \in Inside(schedule', Last(windows))
          PROVE  schedule'[n].state \in Settled
      <4>1. n \in Inside(schedule, Last(windows)) /\ n \in DOMAIN schedule
        BY <1>1 DEF Inside
      <4> QED BY <2>1, <4>1 DEF ScheduleMoves
    <3> QED BY <3>1
  <2>3. Last(windows).end <= now'
    <3>1. windows # <<>>
      BY <2>1 DEF Unjudged
    <3>2. Last(windows) \in Windows
      BY <3>1, SequencesAreTyped DEF EngineInv, Last
    <3>3. Last(windows).end \in Nat /\ now \in Nat
      BY <3>2, SequencesAreTyped DEF EngineInv, Windows
    <3> QED BY <2>1, <3>3
  <2>4. Unjudged' /\ Last(windows)' = Last(windows)
    BY <2>1 DEF Unjudged, Last
  <2> QED BY <1>1, <1>2, <2>1, <2>2, <2>3, <2>4 DEF TickTells
<1>3. CASE engine # "keep"
  BY <1>3 DEF EngineInv, TickTells, Unjudged, Last
<1> QED BY <1>2, <1>3

\* What judge_window works out is true of the window.
LEMMA JudgementsAreTrue ==
    ASSUME EngineInv, TickJudges
    PROVE  TickTells'
<1>1. CASE engine' = "keep"
  <2>1. /\ Unjudged /\ ReadyToJudge(Last(windows), tickAt) /\ verdict' \in Judged(Last(windows))
        /\ UNCHANGED <<now, schedule, windows>>
    BY <1>1 DEF TickJudges, state
  <2>2. verdict' \in Verdicts
    BY <2>1 DEF Judged, Verdicts
  <2>3. Last(windows).end \in Nat /\ tickAt \in Nat /\ now \in Nat /\ tickAt <= now
    <3>1. windows # <<>>
      BY <2>1 DEF Unjudged
    <3>2. Last(windows) \in Windows
      BY <3>1, SequencesAreTyped DEF EngineInv, Last
    <3>3. tickAt \in Nat /\ now \in Nat /\ tickAt <= now
      BY SequencesAreTyped DEF EngineInv
    <3> QED BY <3>2, <3>3 DEF Windows
  <2>4. Last(windows).end <= now
    BY <2>1, <2>3 DEF ReadyToJudge
  <2>5. \A n \in Inside(schedule, Last(windows)) : schedule[n].state \in Settled
    BY <2>1 DEF ReadyToJudge
  <2>6. verdict' = "passed" => AllHeld(schedule, Last(windows))
    <3>1. ASSUME verdict' = "passed", NEW n \in Inside(schedule, Last(windows)),
                 schedule[n].state # "cancelled"
          PROVE  schedule[n].state = "fired" /\ schedule[n].outcome = "held"
      <4>1. schedule[n].state = "fired" /\ schedule[n].outcome # "leaked"
        BY <2>1, <3>1 DEF Judged
      <4>2. n \in DOMAIN schedule
        BY DEF Inside
      <4> QED BY <4>1, <4>2 DEF EngineInv, ScheduleInv, FiredTold
    <3> QED BY <3>1 DEF AllHeld
  <2>7. Unjudged' /\ Last(windows)' = Last(windows)
    BY <2>1 DEF Unjudged, Last
  <2> QED BY <1>1, <2>1, <2>2, <2>4, <2>5, <2>6, <2>7 DEF TickTells
<1>2. engine' \in {"keep", "asleep"}
  BY DEF TickJudges
<1> QED BY <1>1, <1>2 DEF TickTells

LEMMA TicksTellOn ==
    ASSUME ScenarioAssumption, EngineInv, Next
    PROVE  TickTells'
<1>1. CASE VerifyStarts
  <2>1. CASE Unjudged /\ UNCHANGED <<schedule, windows>>
    <3>1. UNCHANGED <<now, engine, verdict>> \/ engine' = "asleep"
      BY <1>1, <2>1 DEF VerifyStarts, tick
    <3> QED BY <2>1, <3>1 DEF EngineInv, TickTells, Unjudged, Last
  <2>2. CASE StartWindow(now)
    <3>1. Unjudged' /\ engine' # "keep"
      <4>1. now \in Nat /\ TypeOK /\ Len(windows) \in Nat
        BY SequencesAreTyped DEF EngineInv
      <4>2. /\ ~ Unjudged /\ Len(windows') = Len(windows) + 1
            /\ windows'[Len(windows) + 1].result = "none"
        <5> DEFINE window == [start |-> now, end |-> now + Length, result |-> "none"]
        <5>1. /\ ~ Unjudged /\ Len(windows') = Len(windows) + 1
              /\ windows'[Len(windows) + 1] = window
          BY <2>2, <4>1, WindowsOpen
        <5>2. window.result = "none"
          OBVIOUS
        <5> QED BY <5>1, <5>2
      <4>3. windows' # <<>> /\ Last(windows') = windows'[Len(windows) + 1]
        BY <4>1, <4>2 DEF Last
      <4>4. engine # "keep"
        BY <4>2 DEF EngineInv, TickTells
      <4> QED BY <1>1, <4>2, <4>3, <4>4 DEF VerifyStarts, Unjudged
    <3> QED BY <3>1 DEF TickTells
  <2> QED BY <1>1, <2>1, <2>2 DEF VerifyStarts
<1>2. CASE TickOpens
  BY <1>2 DEF TickOpens, TickTells
<1>3. CASE TickBegins
  BY <1>3 DEF TickBegins, TickTells, state
<1>4. CASE TickJudges
  BY <1>4, JudgementsAreTrue
<1>5. CASE JudgeKeeps \/ Restart
  BY <1>5 DEF JudgeKeeps, Restart, TickTells
<1>6. CASE ResumeLists \/ Resumes
  <2>1. engine = "off" /\ engine' \in {"off", "asleep"}
    BY <1>6 DEF ResumeLists, Resumes, EngineInv, NothingBeforeResume
  <2> QED BY <2>1 DEF TickTells
<1>7. CASE \/ VerifyBegins \/ (\E n \in todo : TickClaims(n)) \/ PoolStep
           \/ CloseMarks \/ CloseCancels \/ TimePasses
  <2>1. /\ UNCHANGED <<windows, verdict, engine>>
        /\ now' \in {now, now + 1}
        /\ closing' = "open" => closing = "open"
    BY <1>7 DEF VerifyBegins, TickClaims, PoolStep, FireBegins, FireEnds, CloseMarks, CloseCancels,
                TimePasses, state, tick
  <2>2. now \in Nat
    BY SequencesAreTyped DEF EngineInv
  <2>3. ScheduleMoves
    BY <1>7, StepsMoveTheSchedule DEF EngineInv, ScheduleInv, OpensNothing
  <2> QED BY <2>1, <2>2, <2>3, TicksGoOn
<1> QED
  BY <1>1, <1>2, <1>3, <1>4, <1>5, <1>6, <1>7 DEF Next, EngineStep

\* Requests and the engine wait for resume.
LEMMA ResumeComesFirst ==
    ASSUME EngineInv, ~ EarlyRequests, Next
    PROVE  NothingBeforeResume'
<1> USE DEF NothingBeforeResume
<1>1. CASE resume # "done"
  <2>1. engine = "off" /\ queue = <<>> /\ running = {} /\ ~ asking
    BY <1>1 DEF EngineInv
  <2>2. ~ (EngineStep \/ PoolStep \/ VerifyBegins \/ VerifyStarts)
    BY <1>1, <2>1 DEF EngineStep, PoolStep, FireBegins, VerifyBegins, VerifyStarts, TickBegins,
                      TickOpens, TickJudges, JudgeKeeps, TickClaims
  <2>3. CASE CloseMarks \/ CloseCancels \/ TimePasses
    BY <2>1, <2>3 DEF CloseMarks, CloseCancels, TimePasses, tick, pool, process, state
  <2>4. CASE Restart \/ ResumeLists \/ Resumes
    BY <2>1, <2>4 DEF Restart, ResumeLists, Resumes, pool
  <2> QED BY <2>2, <2>3, <2>4 DEF Next
<1>2. CASE resume = "done"
  <2>1. CASE Restart
    BY <2>1 DEF Restart
  <2>2. CASE ~ Restart
    BY <1>2, <2>2 DEF Next, VerifyBegins, VerifyStarts, EngineStep, TickBegins, TickOpens, TickClaims,
                      TickJudges, JudgeKeeps, PoolStep, FireBegins, FireEnds, CloseMarks,
                      CloseCancels, TimePasses, ResumeLists, Resumes, process
  <2> QED BY <2>1, <2>2
<1> QED BY <1>1, <1>2

-----------------------------------------------------------------------------
(* What the pool holds. *)

\* Nothing in the pool changes its state but by the pool.
LEMMA ThePoolWaits ==
    ASSUME FiredOnceAtATime, UNCHANGED pool,
           \A n \in running \cup {queue[i] : i \in DOMAIN queue} : schedule'[n].state = schedule[n].state
    PROVE  FiredOnceAtATime'
  BY DEF FiredOnceAtATime, pool, IsInjective

\* One taken from the head of the queue leaves the rest of it as it is.
LEMMA TheRestOfTheQueue ==
    ASSUME NEW S, NEW q \in Seq(S), q # <<>>, IsInjective(q)
    PROVE  /\ Tail(q) \in Seq(S) /\ IsInjective(Tail(q))
           /\ \A i \in DOMAIN Tail(q) : Tail(q)[i] # Head(q)
           /\ \A i \in DOMAIN Tail(q) : \E j \in DOMAIN q : Tail(q)[i] = q[j]
           /\ Head(q) = q[1] /\ 1 \in DOMAIN q
<1>1. /\ Len(q) \in Nat \ {0} /\ DOMAIN q = 1..Len(q)
      /\ Tail(q) \in Seq(S) /\ Len(Tail(q)) = Len(q) - 1 /\ DOMAIN Tail(q) = 1..(Len(q) - 1)
      /\ Head(q) = q[1]
      /\ \A i \in 1..(Len(q) - 1) : Tail(q)[i] = q[i + 1]
  BY EmptySeq, LenProperties
<1>2. \A i \in DOMAIN Tail(q) : i + 1 \in DOMAIN q /\ i + 1 # 1 /\ Tail(q)[i] = q[i + 1]
  BY <1>1
<1>3. 1 \in DOMAIN q
  BY <1>1
<1>4. IsInjective(Tail(q))
  BY <1>1, <1>2 DEF IsInjective
<1>5. \A i \in DOMAIN Tail(q) : Tail(q)[i] # Head(q)
  BY <1>1, <1>2, <1>3 DEF IsInjective
<1> QED BY <1>1, <1>2, <1>3, <1>4, <1>5

LEMMA ClaimsQueueOnce ==
    ASSUME EngineInv, NEW n \in todo, TickClaims(n)
    PROVE  FiredOnceAtATime'
<1>1. CASE schedule[n].state # "due"
  <2>1. UNCHANGED <<schedule, pool>>
    BY <1>1 DEF TickClaims, pool
  <2> QED BY <2>1, ThePoolWaits DEF EngineInv
<1>2. CASE schedule[n].state = "due"
  <2>1. /\ queue \in Seq(DOMAIN schedule) /\ Len(queue) \in Nat /\ DOMAIN queue = 1..Len(queue)
        /\ n \in DOMAIN schedule /\ DOMAIN schedule = 1..Len(schedule)
        /\ schedule \in Seq(Entries)
    BY SequencesAreTyped DEF EngineInv
  <2>2. /\ queue' = Append(queue, n) /\ UNCHANGED running
        /\ schedule' = [schedule EXCEPT ![n].state = "firing"]
    BY <1>2 DEF TickClaims
  <2>3. /\ DOMAIN queue' = 1..(Len(queue) + 1) /\ queue'[Len(queue) + 1] = n
        /\ \A i \in DOMAIN queue : queue'[i] = queue[i]
    BY <2>1, <2>2, AppendProperties, LenProperties
  <2>4. n \notin running /\ \A i \in DOMAIN queue : queue[i] # n
    BY <1>2 DEF EngineInv, FiredOnceAtATime
  <2>5. IsInjective(queue')
    BY <2>1, <2>3, <2>4 DEF EngineInv, FiredOnceAtATime, IsInjective
  <2>6. \A i \in DOMAIN queue' : queue'[i] \notin running
    BY <2>1, <2>3, <2>4 DEF EngineInv, FiredOnceAtATime
  <2>7. ASSUME NEW m \in running \cup {queue'[i] : i \in DOMAIN queue'}
        PROVE  schedule'[m].state = "firing"
    <3>1. CASE m = n
      BY <2>1, <2>2, <3>1
    <3>2. CASE m # n
      <4>1. m \in running \cup {queue[i] : i \in DOMAIN queue}
        BY <2>1, <2>3, <3>2
      <4>2. schedule[m].state = "firing"
        BY <4>1 DEF EngineInv, FiredOnceAtATime
      <4>3. schedule'[m] = schedule[m]
        <5>1. m \in DOMAIN schedule
          BY <4>1, SequencesAreTyped DEF EngineInv
        <5> QED BY <2>1, <2>2, <3>2, <5>1
      <4> QED BY <4>2, <4>3
    <3> QED BY <3>1, <3>2
  <2> QED BY <2>2, <2>5, <2>6, <2>7 DEF FiredOnceAtATime
<1> QED BY <1>1, <1>2

LEMMA ThreadsFireOnce ==
    ASSUME EngineInv, PoolStep
    PROVE  FiredOnceAtATime'
<1>1. /\ queue \in Seq(DOMAIN schedule) /\ running \subseteq DOMAIN schedule
      /\ \A i \in DOMAIN queue : queue[i] \in DOMAIN schedule
      /\ \A i \in DOMAIN queue : queue[i] \notin running
      /\ IsInjective(queue)
      /\ \A n \in running \cup {queue[i] : i \in DOMAIN queue} : schedule[n].state = "firing"
  BY SequencesAreTyped DEF EngineInv, FiredOnceAtATime
<1>2. CASE FireBegins
  <2> DEFINE n == Head(queue)
  <2>1. queue # <<>> /\ queue' = Tail(queue)
    BY <1>2 DEF FireBegins
  <2>2. /\ IsInjective(queue') /\ n = queue[1] /\ 1 \in DOMAIN queue
        /\ \A i \in DOMAIN queue' : queue'[i] # n
        /\ \A i \in DOMAIN queue' : \E j \in DOMAIN queue : queue'[i] = queue[j]
    BY <1>1, <2>1, TheRestOfTheQueue
  <2>3. n \notin running /\ schedule[n].state = "firing" /\ n \in DOMAIN schedule
    BY <1>1, <2>2
  <2> HIDE DEF n
  <2>4. CASE running' = running \cup {n} /\ UNCHANGED schedule
    BY <1>1, <2>2, <2>3, <2>4 DEF FiredOnceAtATime
  <2>5. CASE schedule' = [schedule EXCEPT ![n].state = "cancelled"] /\ UNCHANGED running
    <3>1. \A m \in running \cup {queue'[i] : i \in DOMAIN queue'} :
            m # n /\ m \in DOMAIN schedule /\ schedule[m].state = "firing"
      BY <1>1, <2>2, <2>3
    <3>2. \A m \in running \cup {queue'[i] : i \in DOMAIN queue'} : schedule'[m].state = "firing"
      BY <2>5, <3>1
    <3> QED BY <1>1, <2>2, <2>5, <3>2 DEF FiredOnceAtATime
  <2> QED BY <1>2, <2>4, <2>5 DEF FireBegins, n
<1>3. ASSUME NEW n \in running, FireEnds(n)
      PROVE  FiredOnceAtATime'
  <2>1. running' = running \ {n} /\ UNCHANGED queue
    BY <1>3 DEF FireEnds
  <2>2. \A m \in DOMAIN schedule \ {n} : schedule'[m] = schedule[m]
    BY <1>3 DEF FireEnds
  <2>3. \A m \in running' \cup {queue[i] : i \in DOMAIN queue} :
          m \in DOMAIN schedule \ {n} /\ schedule[m].state = "firing"
    BY <1>1, <2>1
  <2> QED BY <1>1, <2>1, <2>2, <2>3 DEF FiredOnceAtATime
<1> QED BY <1>2, <1>3 DEF PoolStep

LEMMA StillFiredOnce ==
    ASSUME ScenarioAssumption, EngineInv, ~ EarlyRequests, Next
    PROVE  FiredOnceAtATime'
<1> DEFINE held == running \cup {queue[i] : i \in DOMAIN queue}
<1>1. /\ held \subseteq DOMAIN schedule /\ FiredOnceAtATime /\ TypeOK
      /\ \A n \in held : schedule[n].state = "firing"
  BY SequencesAreTyped DEF EngineInv, FiredOnceAtATime
<1>2. CASE Restart
  <2>1. queue' = <<>> /\ running' = {}
    BY <1>2 DEF Restart
  <2>2. DOMAIN queue' = {}
    BY <2>1, EmptySeq
  <2> QED BY <2>1, <2>2 DEF FiredOnceAtATime, IsInjective
<1>3. CASE PoolStep
  BY <1>3, ThreadsFireOnce
<1>4. CASE \E n \in todo : TickClaims(n)
  BY <1>4, ClaimsQueueOnce
<1>5. CASE Resumes
  <2>1. held = {} /\ UNCHANGED pool
    BY <1>5 DEF Resumes, EngineInv, NothingBeforeResume
  <2> QED BY <1>1, <2>1, ThePoolWaits
<1>6. CASE CloseCancels
  <2>1. UNCHANGED pool /\ \A n \in held : schedule'[n] = schedule[n]
    BY <1>1, <1>6 DEF CloseCancels
  <2> QED BY <1>1, <2>1, ThePoolWaits
<1>7. CASE VerifyStarts \/ TickOpens
  <2>1. UNCHANGED pool
    BY <1>7 DEF VerifyStarts, TickOpens
  <2>2. now \in Nat /\ tickAt \in Nat
    BY SequencesAreTyped DEF EngineInv
  <2>3. StartWindow(now) \/ StartWindow(tickAt) \/ UNCHANGED schedule
    BY <1>7 DEF VerifyStarts, TickOpens
  <2>4. \A n \in DOMAIN schedule : schedule'[n] = schedule[n]
    BY <1>1, <2>2, <2>3, WindowsOpen
  <2> QED BY <1>1, <2>1, <2>4, ThePoolWaits
<1>8. CASE VerifyBegins \/ TickBegins \/ TickJudges \/ JudgeKeeps \/ CloseMarks \/ TimePasses \/ ResumeLists
  <2>1. UNCHANGED <<pool, schedule>>
    BY <1>8 DEF VerifyBegins, TickBegins, TickJudges, JudgeKeeps, CloseMarks, TimePasses,
                ResumeLists, state
  <2> QED BY <1>1, <2>1, ThePoolWaits
<1> QED
  BY <1>2, <1>3, <1>4, <1>5, <1>6, <1>7, <1>8 DEF Next, EngineStep

-----------------------------------------------------------------------------
(* Types. *)

LEMMA SchedulesStayTyped ==
    ASSUME ScenarioAssumption, EngineInv, Next
    PROVE  /\ schedule' \in Seq(Entries) /\ DOMAIN schedule \subseteq DOMAIN schedule'
           /\ windows' \in Seq(Windows)
<1>1. /\ now \in Nat /\ tickAt \in Nat /\ TypeOK /\ DOMAIN schedule = 1..Len(schedule)
      /\ schedule \in Seq(Entries) /\ windows \in Seq(Windows)
  BY SequencesAreTyped DEF EngineInv
<1>2. CASE OpensNothing
  <2>1. ScheduleMoves
    BY <1>2, StepsMoveTheSchedule DEF EngineInv, ScheduleInv
  <2>2. windows' \in Seq(Windows)
    <3>1. CASE JudgeKeeps
      BY <3>1, JudgingKeepsTheWindows DEF EngineInv
    <3>2. CASE ~ JudgeKeeps
      <4>1. UNCHANGED windows
        BY <1>2, <3>2 DEF OpensNothing, VerifyBegins, TickBegins, TickClaims, TickJudges, PoolStep,
                          FireBegins, FireEnds, CloseMarks, CloseCancels, TimePasses, Restart,
                          ResumeLists, Resumes, state
      <4> QED BY <1>1, <4>1
    <3> QED BY <3>1, <3>2
  <2>3. DOMAIN schedule' = 1..Len(schedule')
    BY <2>1, LenProperties DEF ScheduleMoves
  <2> QED BY <1>1, <2>1, <2>2, <2>3 DEF ScheduleMoves
<1>3. CASE VerifyStarts \/ TickOpens
  <2>1. StartWindow(now) \/ StartWindow(tickAt) \/ UNCHANGED <<schedule, windows>>
    BY <1>3 DEF VerifyStarts, TickOpens
  <2> QED BY <1>1, <2>1, WindowsOpen
<1> QED BY <1>2, <1>3 DEF Next, EngineStep, OpensNothing

\* A thread that takes an attack adds one at most to those being fired.
LEMMA OneMoreElement ==
    ASSUME NEW S, IsFiniteSet(S), NEW x
    PROVE  Cardinality(S \cup {x}) <= Cardinality(S) + 1
<1>1. Cardinality(S) \in Nat
  BY FS_CardinalityType
<1>2. CASE x \in S
  <2>1. S \cup {x} = S
    BY <1>2
  <2> QED BY <1>1, <2>1
<1>3. CASE x \notin S
  <2>1. Cardinality(S \cup {x}) = Cardinality(S) + 1
    BY <1>3, FS_AddElement
  <2> QED BY <1>1, <2>1
<1> QED BY <1>2, <1>3

\* The pool fires no more attacks than it has threads.
LEMMA ThePoolHasItsSize ==
    ASSUME ScenarioAssumption, EngineInv, Next
    PROVE  /\ queue' \in Seq(DOMAIN schedule') /\ running' \subseteq DOMAIN schedule'
           /\ Cardinality(running') <= PoolSize
<1>1. /\ queue \in Seq(DOMAIN schedule) /\ running \subseteq DOMAIN schedule
      /\ todo \subseteq DOMAIN schedule /\ DOMAIN schedule \subseteq DOMAIN schedule'
      /\ \A i \in DOMAIN queue : queue[i] \in DOMAIN schedule
      /\ Len(schedule) \in Nat /\ DOMAIN schedule = 1..Len(schedule)
  BY SequencesAreTyped, SchedulesStayTyped DEF EngineInv
<1>2. queue \in Seq(DOMAIN schedule')
  BY <1>1, SeqMonotonic
<1>3. IsFiniteSet(running)
  <2>1. IsFiniteSet(1..Len(schedule))
    BY <1>1, FS_Interval
  <2> QED BY <1>1, <2>1, FS_Subset
<1>4. Cardinality(running) \in Nat /\ Cardinality(running) <= PoolSize /\ PoolSize \in Nat
  BY <1>3, FS_CardinalityType DEF EngineInv, TypeOK, ScenarioAssumption
<1>5. CASE UNCHANGED pool
  BY <1>1, <1>2, <1>4, <1>5 DEF pool
<1>6. CASE Restart
  <2>1. queue' = <<>> /\ running' = {}
    BY <1>6 DEF Restart
  <2>2. queue' \in Seq(DOMAIN schedule')
    BY <2>1, EmptySeq
  <2>3. Cardinality({}) = 0
    BY FS_EmptySet
  <2>4. Cardinality(running') <= PoolSize
    BY <1>4, <2>1, <2>3
  <2> QED BY <2>1, <2>2, <2>4
<1>7. CASE \E n \in todo : TickClaims(n)
  <2>1. PICK n \in todo : TickClaims(n)
    BY <1>7
  <2>2. UNCHANGED running /\ (queue' = queue \/ queue' = Append(queue, n))
    BY <2>1 DEF TickClaims
  <2>3. n \in DOMAIN schedule'
    BY <1>1
  <2> QED BY <1>1, <1>2, <1>4, <2>2, <2>3, AppendProperties
<1>8. CASE FireBegins
  <2>1. queue # <<>> /\ queue' = Tail(queue) /\ Cardinality(running) < PoolSize
        /\ (running' = running \cup {Head(queue)} \/ UNCHANGED running)
    BY <1>8 DEF FireBegins
  <2>2. Tail(queue) \in Seq(DOMAIN schedule') /\ Head(queue) \in DOMAIN schedule'
    BY <1>2, <2>1, HeadTailProperties
  <2>3. Cardinality(running \cup {Head(queue)}) <= Cardinality(running) + 1
    BY <1>3, <1>4, OneMoreElement
  <2>4. Cardinality(running') <= PoolSize
    <3>1. CASE UNCHANGED running
      BY <1>4, <3>1
    <3>2. CASE running' = running \cup {Head(queue)}
      <4>1. Cardinality(running \cup {Head(queue)}) \in Nat
        BY <1>3, FS_AddElement, FS_CardinalityType
      <4> QED BY <1>4, <2>1, <2>3, <3>2, <4>1
    <3> QED BY <2>1, <3>1, <3>2
  <2> QED BY <1>1, <2>1, <2>2, <2>4
<1>9. CASE \E n \in running : FireEnds(n)
  <2>1. PICK n \in running : FireEnds(n)
    BY <1>9
  <2>2. running' = running \ {n} /\ UNCHANGED queue
    BY <2>1 DEF FireEnds
  <2>3. Cardinality(running \ {n}) = Cardinality(running) - 1
    BY <1>3, FS_RemoveElement
  <2> QED BY <1>1, <1>2, <1>4, <2>2, <2>3
<1>10. \/ UNCHANGED pool \/ Restart \/ (\E n \in todo : TickClaims(n))
       \/ FireBegins \/ (\E n \in running : FireEnds(n))
  BY DEF Next, EngineStep, PoolStep, VerifyBegins, VerifyStarts, TickBegins, TickOpens, TickJudges,
         JudgeKeeps, CloseMarks, CloseCancels, TimePasses, ResumeLists, Resumes
<1> QED BY <1>5, <1>6, <1>7, <1>8, <1>9, <1>10

LEMMA TheTickIsTyped ==
    ASSUME ScenarioAssumption, EngineInv, Next
    PROVE  /\ now' \in Nat /\ tickAt' \in Nat /\ tickAt' <= now' /\ now <= now'
           /\ todo' \subseteq DOMAIN schedule' /\ verdict' \in Verdicts \cup {"none"}
           /\ engine' \in {"off", "asleep", "window", "claim", "keep"}
<1>1. now \in Nat /\ tickAt \in Nat /\ tickAt <= now /\ todo \subseteq DOMAIN schedule
  BY SequencesAreTyped DEF EngineInv
<1>2. verdict \in Verdicts \cup {"none"} /\ engine \in {"off", "asleep", "window", "claim", "keep"}
  BY DEF EngineInv, TypeOK
<1>3. DOMAIN schedule \subseteq DOMAIN schedule'
  BY SchedulesStayTyped
<1>4. now' \in {now, now + 1} /\ tickAt' \in {0, now, tickAt}
  BY DEF Next, EngineStep, PoolStep, VerifyBegins, VerifyStarts, TickBegins, TickOpens, TickClaims,
         TickJudges, JudgeKeeps, FireBegins, FireEnds, CloseMarks, CloseCancels, TimePasses,
         Restart, ResumeLists, Resumes, tick
<1>5. \/ todo' \subseteq todo \/ todo' = DueNow(schedule, now) \/ todo' = DueNow(schedule', tickAt)
  BY DEF Next, EngineStep, PoolStep, VerifyBegins, VerifyStarts, TickBegins, TickOpens, TickClaims,
         TickJudges, JudgeKeeps, FireBegins, FireEnds, CloseMarks, CloseCancels, TimePasses,
         Restart, ResumeLists, Resumes, tick
<1>6. verdict' \in {verdict, "none"} \/ verdict' \in Judged(Last(windows))
  BY DEF Next, EngineStep, PoolStep, VerifyBegins, VerifyStarts, TickBegins, TickOpens, TickClaims,
         TickJudges, JudgeKeeps, FireBegins, FireEnds, CloseMarks, CloseCancels, TimePasses,
         Restart, ResumeLists, Resumes, tick
<1>7. engine' \in {engine, "off", "asleep", "window", "claim", "keep"}
  BY DEF Next, EngineStep, PoolStep, VerifyBegins, VerifyStarts, TickBegins, TickOpens, TickClaims,
         TickJudges, JudgeKeeps, FireBegins, FireEnds, CloseMarks, CloseCancels, TimePasses,
         Restart, ResumeLists, Resumes, tick
<1>8. todo' \subseteq DOMAIN schedule'
  BY <1>1, <1>3, <1>5 DEF DueNow
<1>9. verdict' \in Verdicts \cup {"none"}
  BY <1>2, <1>6 DEF Judged, Verdicts
<1> QED BY <1>1, <1>2, <1>4, <1>7, <1>8, <1>9

LEMMA TheRestIsTyped ==
    ASSUME ScenarioAssumption, EngineInv, Next
    PROVE  /\ closing' \in {"open", "marked", "cancelled", "cut short"} /\ asking' \in BOOLEAN
           /\ resume' \in {"to do", "listed", "done"} /\ restarts' \in 0..MaxRestarts
           /\ closing' = "open" => closing = "open"
<1>1. /\ closing \in {"open", "marked", "cancelled", "cut short"} /\ asking \in BOOLEAN
      /\ resume \in {"to do", "listed", "done"} /\ restarts \in 0..MaxRestarts
  BY DEF EngineInv, TypeOK
<1>2. closing' \in {closing, "marked", "cancelled", "cut short"}
  BY DEF Next, EngineStep, PoolStep, VerifyBegins, VerifyStarts, TickBegins, TickOpens, TickClaims,
         TickJudges, JudgeKeeps, FireBegins, FireEnds, CloseMarks, CloseCancels, TimePasses,
         Restart, ResumeLists, Resumes, state
<1>3. resume' \in {resume, "to do", "listed", "done"}
  BY DEF Next, EngineStep, PoolStep, VerifyBegins, VerifyStarts, TickBegins, TickOpens, TickClaims,
         TickJudges, JudgeKeeps, FireBegins, FireEnds, CloseMarks, CloseCancels, TimePasses,
         Restart, ResumeLists, Resumes, process
<1>4. asking' \in BOOLEAN
  BY <1>1 DEF Next, EngineStep, PoolStep, VerifyBegins, VerifyStarts, TickBegins, TickOpens, TickClaims,
         TickJudges, JudgeKeeps, FireBegins, FireEnds, CloseMarks, CloseCancels, TimePasses,
         Restart, ResumeLists, Resumes
<1>5. UNCHANGED restarts \/ (restarts < MaxRestarts /\ restarts' = restarts + 1)
  BY DEF Next, EngineStep, PoolStep, VerifyBegins, VerifyStarts, TickBegins, TickOpens, TickClaims,
         TickJudges, JudgeKeeps, FireBegins, FireEnds, CloseMarks, CloseCancels, TimePasses,
         Restart, ResumeLists, Resumes, process
<1>6. restarts' \in 0..MaxRestarts
  <2>1. MaxRestarts \in Nat /\ restarts \in Nat /\ restarts <= MaxRestarts
    <3>1. MaxRestarts \in Nat
      BY DEF ScenarioAssumption
    <3>2. restarts \in 0..MaxRestarts
      BY <1>1
    <3> QED BY <3>1, <3>2
  <2>2. CASE UNCHANGED restarts
    BY <1>1, <2>2
  <2>3. CASE restarts < MaxRestarts /\ restarts' = restarts + 1
    BY <2>1, <2>3
  <2> QED BY <1>5, <2>2, <2>3
<1> QED BY <1>1, <1>2, <1>3, <1>4, <1>6

-----------------------------------------------------------------------------
(* The invariant holds. *)

LEMMA EngineBeginsSo == ASSUME ScenarioAssumption, Init PROVE EngineInv
<1>1. schedule = [i \in DOMAIN Plan |-> Entry(Plan[i].case, Plan[i].at)]
  BY DEF Init
<1>2. Len(Plan) \in Nat /\ DOMAIN Plan = 1..Len(Plan) /\ \A i \in DOMAIN Plan : Plan[i].at \in Nat
  BY DEF ScenarioAssumption
<1>3. ASSUME NEW i \in 1..Len(Plan)
      PROVE  schedule[i] \in Entries /\ schedule[i].state = "due"
  <2>1. schedule[i] = Entry(Plan[i].case, Plan[i].at) /\ Plan[i].case \in Cases
    BY <1>1, <1>2 DEF Cases
  <2> QED BY <1>2, <2>1 DEF Entry, Entries
<1>4. schedule \in [1..Len(Plan) -> Entries]
  BY <1>1, <1>2, <1>3
<1>5. schedule \in Seq(Entries) /\ DOMAIN schedule = 1..Len(Plan)
  BY <1>2, <1>4, SeqDef
<1>6. /\ now = 0 /\ closing = "open" /\ windows = <<>> /\ asking = FALSE /\ engine = "asleep"
      /\ tickAt = 0 /\ todo = {} /\ verdict = "none" /\ queue = <<>> /\ running = {}
      /\ resume = "done" /\ restarts = 0
  BY DEF Init
<1>7. windows \in Seq(Windows) /\ queue \in Seq(DOMAIN schedule) /\ DOMAIN windows = {} /\ DOMAIN queue = {}
  BY <1>6, EmptySeq
<1>8. Cardinality(running) <= PoolSize /\ restarts \in 0..MaxRestarts
  BY <1>6, FS_EmptySet DEF ScenarioAssumption
<1>9. TypeOK
  <2>1. now \in Nat /\ tickAt \in Nat /\ tickAt <= now
    <3>1. now = 0 /\ tickAt = 0
      BY <1>6
    <3> QED BY <3>1
  <2>3. verdict \in Verdicts \cup {"none"} /\ asking \in BOOLEAN
    <3>1. verdict = "none" /\ asking = FALSE
      BY <1>6
    <3> QED BY <3>1
  <2>2. /\ todo \subseteq DOMAIN schedule /\ running \subseteq DOMAIN schedule
        /\ closing \in {"open", "marked", "cancelled", "cut short"}
        /\ engine \in {"off", "asleep", "window", "claim", "keep"}
        /\ resume \in {"to do", "listed", "done"}
    BY <1>6
  <2> QED BY <1>5, <1>7, <1>8, <2>1, <2>2, <2>3 DEF TypeOK
<1>10. FiredOnceAtATime /\ NothingBeforeResume
  BY <1>6, <1>7 DEF FiredOnceAtATime, NothingBeforeResume, IsInjective
<1>11. ScheduleInv
  BY <1>3, <1>5 DEF ScheduleInv, FiredTold, NoneCancelled
<1>12. WindowsInv
  BY <1>7 DEF WindowsInv, JudgedWindowsAreSettled, WindowsFollowOneAnother, EveryCaseInside, PassedHeld
<1>13. TickTells
  BY <1>6 DEF TickTells
<1> QED BY <1>9, <1>10, <1>11, <1>12, <1>13 DEF EngineInv

LEMMA WindowsStaySo ==
    ASSUME ScenarioAssumption, EngineInv, Next
    PROVE  ScheduleInv' /\ WindowsInv'
<1>1. /\ now \in Nat /\ tickAt \in Nat /\ tickAt <= now
      /\ TypeOK /\ ScheduleInv /\ WindowsInv /\ TickTells /\ FiredOnceAtATime
  BY SequencesAreTyped DEF EngineInv
<1>2. /\ now' \in Nat /\ now <= now' /\ (closing' = "open" => closing = "open")
  BY TheTickIsTyped, TheRestIsTyped
<1>3. CASE OpensNothing
  <2>1. ScheduleMoves
    BY <1>1, <1>3, StepsMoveTheSchedule DEF ScheduleInv
  <2>2. ScheduleInv'
    BY <1>1, <1>2, <2>1, MovesKeepTheSchedule
  <2>3. CASE JudgeKeeps
    BY <1>1, <2>2, <2>3, JudgingKeepsTheWindows
  <2>4. CASE ~ JudgeKeeps
    <3>1. UNCHANGED windows
      BY <1>3, <2>4 DEF OpensNothing, VerifyBegins, TickBegins, TickClaims, TickJudges, PoolStep,
                        FireBegins, FireEnds, CloseMarks, CloseCancels, TimePasses, Restart,
                        ResumeLists, Resumes, state
    <3> QED BY <1>1, <1>2, <2>1, <2>2, <3>1, MovesKeepTheWindows
  <2> QED BY <2>3, <2>4
<1>4. CASE VerifyStarts \/ TickOpens
  <2>1. UNCHANGED <<now, closing>>
    BY <1>4 DEF VerifyStarts, TickOpens
  <2>2. CASE StartWindow(now)
    BY <1>1, <2>1, <2>2, OpeningKeepsTheWindows
  <2>3. CASE engine = "window" /\ StartWindow(tickAt)
    <3>1. windows = <<>>
      BY <1>1, <2>3 DEF TickTells, StartWindow
    <3> QED BY <1>1, <2>1, <2>3, <3>1, OpeningKeepsTheWindows
  <2>4. CASE UNCHANGED <<schedule, windows>>
    <3>1. ScheduleMoves
      BY <1>1, <2>4, NoEntryMoves DEF ScheduleInv
    <3> QED BY <1>1, <1>2, <2>4, <3>1, MovesKeepTheSchedule, MovesKeepTheWindows
  <2> QED BY <1>4, <2>2, <2>3, <2>4 DEF VerifyStarts, TickOpens
<1> QED BY <1>3, <1>4 DEF Next, EngineStep, OpensNothing

LEMMA EngineStaysSo ==
    ASSUME ScenarioAssumption, ~ EarlyRequests, EngineInv, [Next]_vars
    PROVE  EngineInv'
<1>1. CASE Next
  <2>1. TypeOK'
    BY <1>1, SchedulesStayTyped, ThePoolHasItsSize, TheTickIsTyped, TheRestIsTyped DEF TypeOK
  <2> QED
    BY <1>1, <2>1, ResumeComesFirst, StillFiredOnce, WindowsStaySo, TicksTellOn DEF EngineInv
<1>2. CASE UNCHANGED vars
  <2>1. UNCHANGED <<now, closing, schedule, windows, asking, engine, tickAt, todo, verdict, queue,
                    running, resume, restarts>>
    BY <1>2 DEF vars, state, tick, pool, process
  <2>2. TypeOK' /\ NothingBeforeResume' /\ FiredOnceAtATime'
    BY <2>1 DEF EngineInv, TypeOK, NothingBeforeResume, FiredOnceAtATime
  <2>3. ScheduleInv' /\ WindowsInv'
    BY <2>1 DEF EngineInv, ScheduleInv, WindowsInv, FiredTold, NoneCancelled, JudgedWindowsAreSettled,
                WindowsFollowOneAnother, EveryCaseInside, PassedHeld, AllHeld, Inside
  <2>4. TickTells'
    BY <2>1 DEF EngineInv, TickTells, Unjudged, Last, AllHeld, Inside
  <2> QED BY <2>2, <2>3, <2>4 DEF EngineInv
<1> QED BY <1>1, <1>2

\* The inductive invariant of a scenario session.
THEOREM EngineInvariant ==
    ASSUME ScenarioAssumption, ~ EarlyRequests
    PROVE  Spec => []EngineInv
<1>1. Init => EngineInv
  BY EngineBeginsSo
<1>2. EngineInv /\ [Next]_vars => EngineInv'
  BY EngineStaysSo
<1> QED BY <1>1, <1>2, PTL DEF Spec

\* Every variable keeps its type, and no more attacks are fired at once than
\* the pool has threads.
THEOREM TypeCorrect ==
    ASSUME ScenarioAssumption, ~ EarlyRequests
    PROVE  Spec => []TypeOK
<1>1. EngineInv => TypeOK
  BY DEF EngineInv
<1> QED BY <1>1, EngineInvariant, PTL

\* No attack is fired twice at once, whatever ticks, closes and restarts
\* interleave.
THEOREM AttacksFireOnce ==
    ASSUME ScenarioAssumption, ~ EarlyRequests
    PROVE  Spec => []FiredOnceAtATime
<1>1. EngineInv => FiredOnceAtATime
  BY DEF EngineInv
<1> QED BY <1>1, EngineInvariant, PTL

\* A judged window has ended, all that was due inside it is settled, and nothing
\* is added to it later.
THEOREM JudgementsAreFinal ==
    ASSUME ScenarioAssumption, ~ EarlyRequests
    PROVE  Spec => []JudgedWindowsAreSettled
<1>1. EngineInv => JudgedWindowsAreSettled
  BY DEF EngineInv, WindowsInv
<1> QED BY <1>1, EngineInvariant, PTL

\* Windows follow one another and only the last one waits for its result, so a
\* result is written to the window it was worked out for (scenario_run.py tick).
THEOREM WindowsComeInTurn ==
    ASSUME ScenarioAssumption, ~ EarlyRequests
    PROVE  Spec => []WindowsFollowOneAnother
<1>1. EngineInv => WindowsFollowOneAnother
  BY DEF EngineInv, WindowsInv
<1> QED BY <1>1, EngineInvariant, PTL

\* While the session is open, a window that passed held an attack of each
\* declared case, fired and held.
THEOREM PassingMeansHolding ==
    ASSUME ScenarioAssumption, ~ EarlyRequests
    PROVE  Spec => []PassedHeldEveryCase
<1>1. EngineInv => PassedHeldEveryCase
  <2> SUFFICES ASSUME EngineInv, NEW i \in DOMAIN windows, windows[i].result = "passed",
                      closing = "open", NEW case \in Cases
               PROVE  \E n \in Inside(schedule, windows[i]) :
                         /\ schedule[n].case = case
                         /\ schedule[n].state = "fired" /\ schedule[n].outcome = "held"
    BY DEF PassedHeldEveryCase
  <2>1. PICK n \in Inside(schedule, windows[i]) : schedule[n].case = case
    BY DEF EngineInv, WindowsInv, EveryCaseInside
  <2>2. schedule[n].state # "cancelled"
    BY DEF EngineInv, ScheduleInv, NoneCancelled, Inside
  <2>3. schedule[n].state = "fired" /\ schedule[n].outcome = "held"
    BY <2>2 DEF EngineInv, WindowsInv, PassedHeld, AllHeld
  <2> QED BY <2>1, <2>3
<1> QED BY <1>1, EngineInvariant, PTL

-----------------------------------------------------------------------------
(* The engine implements VerificationService. *)

\* What is seen of an entry.
LEMMA SeenEntry ==
    ASSUME NEW entry \in Entries
    PROVE  /\ Seen(entry).case = entry.case /\ Seen(entry).due = entry.due
           /\ Seen(entry).outcome = entry.outcome
           /\ Seen(entry).state = IF entry.state \in Settled THEN entry.state ELSE "pending"
           /\ Seen(entry) \in [case : Cases, due : Nat, state : {"pending"} \cup Settled,
                               outcome : {"none", "held", "leaked"}]
<1>1. PICK s \in {"pending"} \cup Settled : s = IF entry.state \in Settled THEN entry.state ELSE "pending"
  OBVIOUS
<1>2. Seen(entry) = [entry EXCEPT !.state = s] BY <1>1 DEF Seen
<1> QED BY <1>1, <1>2 DEF Entries, Settled

LEMMA ShownEntries ==
    ASSUME TypeOK
    PROVE  /\ DOMAIN Shown = DOMAIN schedule /\ DOMAIN schedule = 1..Len(schedule)
           /\ \A n \in DOMAIN schedule :
                 /\ Shown[n] = Seen(schedule[n]) /\ schedule[n] \in Entries
                 /\ Shown[n].case = schedule[n].case /\ Shown[n].due = schedule[n].due
                 /\ Shown[n].outcome = schedule[n].outcome
                 /\ Shown[n].state = IF schedule[n].state \in Settled THEN schedule[n].state ELSE "pending"
           /\ \A window : Verification!Within(window) = Inside(schedule, window)
<1>1. DOMAIN schedule = 1..Len(schedule) /\ \A n \in DOMAIN schedule : schedule[n] \in Entries
  BY SequencesAreTyped
<1>2. DOMAIN Shown = DOMAIN schedule /\ \A n \in DOMAIN schedule : Shown[n] = Seen(schedule[n])
  BY DEF Shown
<1>3. \A n \in DOMAIN schedule :
        /\ Shown[n].case = schedule[n].case /\ Shown[n].due = schedule[n].due
        /\ Shown[n].outcome = schedule[n].outcome
        /\ Shown[n].state = IF schedule[n].state \in Settled THEN schedule[n].state ELSE "pending"
  BY <1>1, <1>2, SeenEntry
<1>4. \A window : Verification!Within(window) = Inside(schedule, window)
  BY <1>2, <1>3 DEF Verification!Within, Inside
<1> QED BY <1>1, <1>2, <1>3, <1>4

\* A step that moves entries between due and firing is not seen.
LEMMA NotSeen ==
    ASSUME UNCHANGED <<now, windows>>, closing' # "open" <=> closing # "open",
           DOMAIN schedule' = DOMAIN schedule,
           \A n \in DOMAIN schedule : Seen(schedule'[n]) = Seen(schedule[n])
    PROVE  UNCHANGED Verification!vvars
<1>1. Shown' = [n \in DOMAIN schedule |-> Seen(schedule[n])] BY DEF Shown
<1> QED BY <1>1 DEF Shown, Verification!vvars

LEMMA PendingAlike ==
    ASSUME NEW entry \in Entries, entry.state \in {"due", "firing"}, NEW s \in {"due", "firing"}
    PROVE  Seen([entry EXCEPT !.state = s]) = Seen(entry)
BY DEF Seen, Entries, Settled

LEMMA VerificationInit == ASSUME ScenarioAssumption, Init PROVE Verification!VInit
<1>1. \A i \in DOMAIN Plan : Seen(Entry(Plan[i].case, Plan[i].at))
                              = Verification!Pending(Plan[i].case, Plan[i].at)
  BY DEF Seen, Entry, Settled, Verification!Pending
<1>2. Shown = [i \in DOMAIN Plan |-> Verification!Pending(Plan[i].case, Plan[i].at)]
  BY <1>1 DEF Init, Shown
<1> QED BY <1>2 DEF Init, Verification!VInit

-----------------------------------------------------------------------------

LEMMA StepsNotSeen ==
    ASSUME EngineInv,
           \/ VerifyBegins \/ TickBegins \/ (\E n \in todo : TickClaims(n)) \/ TickJudges
           \/ Restart \/ ResumeLists \/ Resumes
    PROVE  UNCHANGED Verification!vvars
<1>1. TypeOK /\ \A n \in DOMAIN schedule : schedule[n] \in Entries
  BY SequencesAreTyped DEF EngineInv
<1>2. CASE VerifyBegins \/ TickBegins \/ TickJudges \/ Restart \/ ResumeLists
  <2>1. UNCHANGED <<now, windows, schedule>> /\ (closing' # "open" <=> closing # "open")
    BY <1>2 DEF VerifyBegins, TickBegins, TickJudges, Restart, ResumeLists, state
  <2> QED BY <2>1, NotSeen
<1>3. ASSUME NEW n \in todo, TickClaims(n) PROVE UNCHANGED Verification!vvars
  <2>1. UNCHANGED <<now, windows, closing>> /\ n \in DOMAIN schedule
    BY <1>1, <1>3 DEF TickClaims, TypeOK
  <2>2. CASE schedule[n].state = "due"
    <3>1. schedule' = [schedule EXCEPT ![n] = [schedule[n] EXCEPT !.state = "firing"]]
      BY <1>3, <2>2 DEF TickClaims
    <3>2. Seen([schedule[n] EXCEPT !.state = "firing"]) = Seen(schedule[n])
      BY <1>1, <2>1, <2>2, PendingAlike
    <3> QED BY <2>1, <3>1, <3>2, NotSeen
  <2>3. CASE schedule[n].state # "due"
    BY <1>3, <2>1, <2>3, NotSeen DEF TickClaims
  <2> QED BY <2>2, <2>3
<1>4. CASE Resumes
  <2>1. /\ UNCHANGED <<now, windows, closing>> /\ DOMAIN schedule' = DOMAIN schedule
        /\ \A n \in DOMAIN schedule :
              schedule'[n] = IF schedule[n].state = "firing"
                             THEN [schedule[n] EXCEPT !.state = "due"] ELSE schedule[n]
    BY <1>4 DEF Resumes
  <2>2. \A n \in DOMAIN schedule : Seen(schedule'[n]) = Seen(schedule[n])
    BY <1>1, <2>1, PendingAlike
  <2> QED BY <2>1, <2>2, NotSeen
<1> QED BY <1>2, <1>3, <1>4

\* An attack of a closed session is cancelled before it is fired, alone or with
\* all that is due.
LEMMA CancellingIsSeen ==
    ASSUME EngineInv, UNCHANGED <<now, windows>>, closing # "open", closing' # "open",
           NEW some \in SUBSET {n \in DOMAIN schedule : schedule[n].state \in {"due", "firing"}},
           schedule' = [n \in DOMAIN schedule |->
                           IF n \in some THEN [schedule[n] EXCEPT !.state = "cancelled"] ELSE schedule[n]]
    PROVE  Verification!VNext
<1>1. TypeOK BY DEF EngineInv
<1>2. some \in SUBSET {n \in DOMAIN Shown : Shown[n].state = "pending"}
  BY <1>1, ShownEntries DEF Settled
<1>3. ASSUME NEW n \in DOMAIN schedule
      PROVE  Seen(schedule'[n]) = IF n \in some THEN [Shown[n] EXCEPT !.state = "cancelled"] ELSE Shown[n]
  <2>1. schedule[n] \in Entries /\ Shown[n] = Seen(schedule[n]) BY <1>1, ShownEntries
  <2>2. CASE n \in some
    <3>1. Seen([schedule[n] EXCEPT !.state = "cancelled"]) = [Seen(schedule[n]) EXCEPT !.state = "cancelled"]
      BY <2>1 DEF Seen, Entries, Settled
    <3> QED BY <2>1, <2>2, <3>1
  <2>3. CASE n \notin some BY <2>1, <2>3
  <2> QED BY <2>2, <2>3
<1>4. Shown' = [n \in DOMAIN Shown |->
                   IF n \in some THEN [Shown[n] EXCEPT !.state = "cancelled"] ELSE Shown[n]]
  BY <1>1, <1>3, ShownEntries DEF Shown
<1>5. Verification!Cancels BY <1>2, <1>4 DEF Verification!Cancels
<1> QED BY <1>5 DEF Verification!VNext

LEMMA FiringIsSeen ==
    ASSUME EngineInv, NEW n \in running, FireEnds(n)
    PROVE  Verification!VNext
<1>1. TypeOK /\ n \in DOMAIN schedule /\ schedule[n] \in Entries /\ schedule[n].state = "firing"
  BY SequencesAreTyped DEF EngineInv, FiredOnceAtATime
<1>2. /\ DOMAIN Shown = DOMAIN schedule /\ Shown[n].state = "pending" /\ Shown[n] = Seen(schedule[n])
  BY <1>1, ShownEntries DEF Settled
<1>3. UNCHANGED <<now, closing, windows>> BY <1>1 DEF FireEnds
<1>4. ASSUME NEW e, schedule' = [schedule EXCEPT ![n] = e] PROVE Shown' = [Shown EXCEPT ![n] = Seen(e)]
  BY <1>1, <1>4 DEF Shown
<1>5. CASE \E outcome \in {"held", "leaked"} :
             schedule' = [schedule EXCEPT ![n].state = "fired", ![n].outcome = outcome]
  <2>1. PICK outcome \in {"held", "leaked"} :
          schedule' = [schedule EXCEPT ![n].state = "fired", ![n].outcome = outcome]
    BY <1>5
  <2> DEFINE e == [schedule[n] EXCEPT !.state = "fired", !.outcome = outcome]
  <2>2. Seen(e) = [Seen(schedule[n]) EXCEPT !.state = "fired", !.outcome = outcome]
    BY <1>1 DEF Seen, Entries, Settled
  <2>3. schedule' = [schedule EXCEPT ![n] = e] BY <1>1, <2>1
  <2> HIDE DEF e
  <2>4. Shown' = [Shown EXCEPT ![n] = Seen(e)] BY <1>4, <2>3
  <2>5. Shown' = [Shown EXCEPT ![n].state = "fired", ![n].outcome = outcome]
    BY <1>1, <1>2, <2>2, <2>4
  <2> QED BY <1>1, <1>2, <1>3, <2>5 DEF Verification!Fires, Verification!VNext
<1>6. CASE schedule' = [schedule EXCEPT ![n].state = "failed"]
  <2> DEFINE e == [schedule[n] EXCEPT !.state = "failed"]
  <2>1. Seen(e) = [Seen(schedule[n]) EXCEPT !.state = "failed"]
    BY <1>1 DEF Seen, Entries, Settled
  <2>2. schedule' = [schedule EXCEPT ![n] = e] BY <1>1, <1>6
  <2> HIDE DEF e
  <2>3. Shown' = [Shown EXCEPT ![n] = Seen(e)] BY <1>4, <2>2
  <2>4. Shown' = [Shown EXCEPT ![n].state = "failed"] BY <1>1, <1>2, <2>1, <2>3
  <2> QED BY <1>1, <1>2, <1>3, <2>4 DEF Verification!Fires, Verification!VNext
<1> QED BY <1>5, <1>6 DEF FireEnds

LEMMA ThePoolIsSeen ==
    ASSUME EngineInv, PoolStep
    PROVE  Verification!VNext \/ UNCHANGED Verification!vvars
<1>1. CASE FireBegins
  <2>1. UNCHANGED <<now, closing, windows>> BY <1>1 DEF FireBegins
  <2>2. CASE closing = "open" BY <1>1, <2>1, <2>2, NotSeen DEF FireBegins
  <2>3. CASE closing # "open"
    <3> DEFINE head == Head(queue)
    <3>1. head = queue[1] /\ 1 \in DOMAIN queue /\ head \in DOMAIN schedule
      <4>1. queue # <<>> /\ TypeOK BY <1>1 DEF FireBegins, EngineInv
      <4> QED BY <4>1, SequencesAreTyped
    <3>2. schedule[head].state = "firing" BY <3>1 DEF EngineInv, FiredOnceAtATime
    <3>3. schedule' = [schedule EXCEPT ![head].state = "cancelled"] BY <1>1, <2>3 DEF FireBegins
    <3> HIDE DEF head
    <3>4. {head} \in SUBSET {n \in DOMAIN schedule : schedule[n].state \in {"due", "firing"}}
      BY <3>1, <3>2
    <3>5. schedule' = [n \in DOMAIN schedule |->
                          IF n \in {head} THEN [schedule[n] EXCEPT !.state = "cancelled"] ELSE schedule[n]]
      BY <3>1, <3>3
    <3> QED BY <2>1, <2>3, <3>4, <3>5, CancellingIsSeen
  <2> QED BY <2>2, <2>3
<1>2. CASE \E n \in running : FireEnds(n) BY <1>2, FiringIsSeen
<1> QED BY <1>1, <1>2 DEF PoolStep

LEMMA JudgingIsSeen ==
    ASSUME EngineInv, JudgeKeeps
    PROVE  Verification!VNext
<1>1. /\ TypeOK /\ Unjudged /\ verdict \in {"passed", "failed"} /\ Last(windows).end <= now
      /\ \A n \in Inside(schedule, Last(windows)) : schedule[n].state \in Settled
      /\ verdict = "passed" => AllHeld(schedule, Last(windows))
  BY DEF EngineInv, TickTells, JudgeKeeps, Verdicts
<1>2. Last(windows) = Verification!LastWindow /\ Verification!Waits
  BY <1>1 DEF Unjudged, Last, Verification!LastWindow, Verification!Waits
<1>3. \A n \in Verification!Within(Verification!LastWindow) : Shown[n].state # "pending"
  BY <1>1, <1>2, ShownEntries DEF Settled, Inside
<1>4. verdict = "passed" => Verification!Holds(Verification!LastWindow)
  BY <1>1, <1>2, ShownEntries DEF Settled, Inside, AllHeld, Verification!Holds
<1>5. UNCHANGED <<now, closing, Shown>> /\ windows' = [windows EXCEPT ![Len(windows)].result = verdict]
  BY DEF JudgeKeeps, Shown
<1>6. Verification!Judges(verdict)
  BY <1>1, <1>2, <1>3, <1>4, <1>5 DEF Verification!Judges
<1> QED BY <1>1, <1>6 DEF Verification!VNext

\* The attacks of a new window, as the service adds them: one of each case it
\* lacks, in this order, due at these times.
AddedAs(window, k, order, dues) ==
    /\ order \in [1..k -> Missing(window)]
    /\ dues \in [1..k -> window.start..(window.end - 1)]
    /\ \A case \in Missing(window) : \E i \in 1..k : order[i] = case
    /\ \A i, j \in 1..k : order[i] = order[j] => i = j
    /\ WindowAttacks(window) = [i \in 1..k |-> Entry(order[i], dues[i])]

LEMMA AddedInOrder ==
    ASSUME ScenarioAssumption, NEW window, window.start \in Nat, window.end = window.start + Length
    PROVE  \E k \in 0..Len(Plan) : \E order, dues : AddedAs(window, k, order, dues)
<1> DEFINE lacks == Missing(window)
           new == WindowAttacks(window)
           order == SetToSeq(lacks)
           k == Cardinality(lacks)
           dues == [i \in 1..k |-> window.start + (Length * i) \div (k + 1)]
<1>1. k \in 0..Len(Plan) /\ IsFiniteSet(lacks)
  <2>1. IsFiniteSet(Cases) /\ Cardinality(Cases) <= Len(Plan) BY CasesAreFew
  <2>2. IsFiniteSet(lacks) /\ k <= Cardinality(Cases) BY <2>1, FS_Subset DEF Missing
  <2>3. k \in Nat /\ Cardinality(Cases) \in Nat /\ Len(Plan) \in Nat
    BY <2>1, <2>2, FS_CardinalityType DEF ScenarioAssumption
  <2> HIDE DEF k, lacks
  <2> QED BY <2>1, <2>2, <2>3
<1>2. /\ order \in [1..k -> lacks]
      /\ \A case \in lacks : \E i \in 1..k : order[i] = case
      /\ \A i, j \in 1..k : order[i] = order[j] => i = j
  BY <1>1, EnumeratesTheSet
<1>3. dues \in [1..k -> window.start..(window.end - 1)]
  <2>1. ASSUME NEW i \in 1..k
        PROVE  window.start + (Length * i) \div (k + 1) \in window.start..(window.end - 1)
    <3> DEFINE place == (Length * i) \div (k + 1)
    <3>1. k \in Nat /\ Length \in Nat \ {0} BY <1>1, WindowsLast
    <3>2. place \in Nat /\ place < Length
      <4> HIDE DEF k
      <4> QED BY <3>1, PlacesAreInside
    <3> HIDE DEF place
    <3>3. window.start + place \in window.start..(window.end - 1) BY <3>1, <3>2
    <3> QED BY <3>3 DEF place
  <2> QED BY <2>1
<1>4. new = [i \in 1..k |-> Entry(order[i], dues[i])]
  <2>1. DOMAIN order = 1..k /\ Len(order) = k /\ k \in Nat BY <1>1, <1>2
  <2>2. new = [i \in 1..k |-> Entry(order[i], window.start + (Length * i) \div (k + 1))]
    BY <2>1 DEF WindowAttacks
  <2> QED BY <2>2
<1>5. AddedAs(window, k, order, dues)
  <2> HIDE DEF k, order, dues
  <2> QED BY <1>2, <1>3, <1>4 DEF AddedAs
<1> HIDE DEF k, order, dues
<1> QED BY <1>1, <1>5

\* A function on 1..n is a sequence of n elements, and a sequence such a function.
LEMMA LengthOfMap ==
    ASSUME NEW S, NEW n \in Nat, NEW f \in [1..n -> S]
    PROVE  f \in Seq(S) /\ Len(f) = n
<1>1. f \in Seq(S) BY SeqDef
<1>2. DOMAIN f = 1..n /\ DOMAIN f = 1..Len(f) /\ Len(f) \in Nat BY <1>1, LenProperties
<1> DEFINE m == Len(f)
<1> HIDE DEF m
<1>3. 1..n = 1..m /\ m \in Nat BY <1>2 DEF m
<1>4. m <= n
  <2>1. CASE m = 0 BY <2>1
  <2>2. CASE m # 0
    <3>1. m \in 1..m BY <1>3, <2>2
    <3> QED BY <1>3, <3>1
  <2> QED BY <2>1, <2>2
<1>5. n <= m
  <2>1. CASE n = 0 BY <1>3, <2>1
  <2>2. CASE n # 0
    <3>1. n \in 1..n BY <2>2
    <3> QED BY <1>3, <3>1
  <2> QED BY <2>1, <2>2
<1>6. m = n BY <1>3, <1>4, <1>5
<1> QED BY <1>1, <1>6 DEF m

LEMMA SeqIsMap ==
    ASSUME NEW S, NEW s \in Seq(S), NEW n, DOMAIN s = 1..n
    PROVE  s = [i \in 1..n |-> s[i]]
<1>1. s \in [1..Len(s) -> S] BY LenProperties
<1> QED BY <1>1

\* What is shown of two schedules, one after the other.
LEMMA ShownJoined ==
    ASSUME TypeOK, NEW k \in Nat, NEW new \in Seq(Entries), new = [i \in 1..k |-> new[i]],
           schedule' = schedule \o new
    PROVE  Shown' = Shown \o [i \in 1..k |-> Seen(new[i])]
<1>1. schedule \in Seq(Entries) /\ DOMAIN schedule = 1..Len(schedule) /\ Len(schedule) \in Nat
  BY SequencesAreTyped
<1>2. DOMAIN new = 1..k /\ Len(new) = k BY LenProperties
<1>3. /\ DOMAIN schedule' = 1..(Len(schedule) + k)
      /\ \A i \in 1..(Len(schedule) + k) :
            schedule'[i] = IF i <= Len(schedule) THEN schedule[i] ELSE new[i - Len(schedule)]
  BY <1>1, <1>2, ConcatProperties, LenProperties
<1> DEFINE seen == [i \in 1..k |-> Seen(new[i])]
           Entry2 == {Seen(entry) : entry \in Entries}
<1>4. Shown \in Seq(Entry2) /\ seen \in Seq(Entry2) /\ Len(Shown) = Len(schedule) /\ Len(seen) = k
  <2>1. \A n \in 1..Len(schedule) : schedule[n] \in Entries BY <1>1, SequencesAreTyped
  <2>2. Shown \in [1..Len(schedule) -> Entry2] BY <1>1, <2>1 DEF Shown
  <2>3. \A i \in 1..k : new[i] \in Entries BY <1>2, ElementOfSeq
  <2>4. seen \in [1..k -> Entry2] BY <2>3
  <2> HIDE DEF Entry2, seen
  <2> QED BY <1>1, <2>2, <2>4, LengthOfMap
<1>5. \A i \in 1..k : seen[i] = Seen(new[i]) OBVIOUS
<1> HIDE DEF seen, Entry2
<1>6. /\ DOMAIN (Shown \o seen) = 1..(Len(schedule) + k)
      /\ \A i \in 1..(Len(schedule) + k) :
            (Shown \o seen)[i] = IF i <= Len(schedule) THEN Shown[i] ELSE seen[i - Len(schedule)]
      /\ Shown \o seen \in Seq(Entry2)
  BY <1>1, <1>4, ConcatProperties, LenProperties
<1>7. Shown' = [i \in 1..(Len(schedule) + k) |-> Seen(schedule'[i])] BY <1>3 DEF Shown
<1>8. ASSUME NEW i \in 1..(Len(schedule) + k) PROVE (Shown \o seen)[i] = Seen(schedule'[i])
  <2>1. CASE i <= Len(schedule)
    <3>1. i \in 1..Len(schedule) BY <1>1, <2>1
    <3> QED BY <1>1, <1>3, <1>6, <2>1, <3>1 DEF Shown
  <2>2. CASE ~ (i <= Len(schedule))
    <3>1. i - Len(schedule) \in 1..k BY <1>1, <2>2
    <3> QED BY <1>3, <1>5, <1>6, <2>2, <3>1
  <2> QED BY <2>1, <2>2
<1>9. Shown \o seen = [i \in 1..(Len(schedule) + k) |-> (Shown \o seen)[i]]
  BY <1>6, SeqIsMap
<1> QED BY <1>7, <1>8, <1>9 DEF seen

LEMMA OpeningIsSeen ==
    ASSUME ScenarioAssumption, EngineInv, NEW at \in Nat, at <= now, windows = <<>> \/ at = now,
           StartWindow(at), UNCHANGED <<now, closing>>
    PROVE  Verification!VNext
<1> DEFINE window == [start |-> at, end |-> at + Length, result |-> "none"]
<1>1. /\ TypeOK /\ ~Unjudged /\ windows' = Append(windows, window)
      /\ schedule' = schedule \o WindowAttacks(window)
      /\ window.start = at /\ window.end = at + Length
  BY DEF EngineInv, StartWindow
<1> HIDE DEF window
<1>2. ~Verification!Waits BY <1>1 DEF Unjudged, Last, Verification!LastWindow, Verification!Waits
<1>3. windows # <<>> => Verification!LastWindow.end <= at
  <2> SUFFICES ASSUME windows # <<>> PROVE windows[Len(windows)].end <= now
    BY DEF Verification!LastWindow
  <2>1. Len(windows) \in DOMAIN windows BY <1>1, SequencesAreTyped
  <2>2. windows[Len(windows)].result # "none" BY <1>1 DEF Unjudged, Last
  <2> QED BY <2>1, <2>2 DEF EngineInv, WindowsInv, JudgedWindowsAreSettled
<1>4. Verification!Lacks(window) = Missing(window)
  <2>1. Verification!Declared = Cases BY DEF Verification!Declared, Cases
  <2>2. \A n \in Inside(schedule, window) :
          /\ Shown[n].case = schedule[n].case
          /\ Shown[n].state = "cancelled" <=> schedule[n].state = "cancelled"
    BY <1>1, ShownEntries DEF Inside, Settled
  <2>3. Verification!Within(window) = Inside(schedule, window) BY <1>1, ShownEntries
  <2> QED BY <2>1, <2>2, <2>3 DEF Verification!Lacks, Missing
<1>5. PICK k \in 0..Len(Plan) : \E order, dues : AddedAs(window, k, order, dues)
  BY <1>1, AddedInOrder
<1>6. PICK order, dues : AddedAs(window, k, order, dues)
  BY <1>5
<1>7. Shown' = Shown \o [i \in 1..k |-> Verification!Pending(order[i], dues[i])]
  <2> DEFINE new == WindowAttacks(window)
  <2>1. new \in Seq(Entries) BY <1>1, WindowAttacksAreInside
  <2>2. new = [i \in 1..k |-> Entry(order[i], dues[i])] /\ k \in Nat BY <1>5, <1>6 DEF AddedAs
  <2>3. \A i \in 1..k : Seen(new[i]) = Verification!Pending(order[i], dues[i])
    BY <2>2 DEF Seen, Entry, Settled, Verification!Pending
  <2>4. schedule' = schedule \o new BY <1>1
  <2> HIDE DEF new
  <2>5. new = [i \in 1..k |-> new[i]] BY <2>2
  <2>6. Shown' = Shown \o [i \in 1..k |-> Seen(new[i])] BY <1>1, <2>1, <2>2, <2>4, <2>5, ShownJoined
  <2> QED BY <2>3, <2>6
<1>8. Verification!Opens(at)
  <2> DEFINE lacks == Verification!Lacks(window)
  <2>1. /\ order \in [1..k -> lacks] /\ dues \in [1..k -> at..(window.end - 1)]
        /\ \A case \in lacks : \E i \in 1..k : order[i] = case
        /\ \A i, j \in 1..k : order[i] = order[j] => i = j
    BY <1>1, <1>4, <1>6 DEF AddedAs
  <2> HIDE DEF lacks
  <2>2. \E l \in 0..Len(Plan) :
          \E o \in [1..l -> lacks], d \in [1..l -> at..(window.end - 1)] :
             /\ \A case \in lacks : \E i \in 1..l : o[i] = case
             /\ \A i, j \in 1..l : o[i] = o[j] => i = j
             /\ Shown' = Shown \o [i \in 1..l |-> Verification!Pending(o[i], d[i])]
    <3> WITNESS k \in 0..Len(Plan)
    <3>1. order \in [1..k -> lacks] BY <2>1
    <3>2. dues \in [1..k -> at..(window.end - 1)] BY <2>1
    <3> WITNESS order \in [1..k -> lacks], dues \in [1..k -> at..(window.end - 1)]
    <3> QED BY <1>7, <2>1
  <2>3. UNCHANGED <<now, closing>> OBVIOUS
  <2> QED BY <1>1, <1>2, <1>3, <2>2, <2>3, Zenon DEF Verification!Opens, window, lacks
<1>9. at \in 0..now BY <1>1, SequencesAreTyped
<1> QED BY <1>8, <1>9 DEF Verification!VNext

LEMMA EachStepIsSeen ==
    ASSUME ScenarioAssumption, EngineInv, [Next]_vars
    PROVE  [Verification!VNext]_Verification!vvars
<1>1. TypeOK /\ tickAt \in Nat /\ tickAt <= now /\ now \in Nat
  BY SequencesAreTyped DEF EngineInv
<1>2. CASE VerifyStarts \/ TickOpens
  <2>1. UNCHANGED <<now, closing>> BY <1>2 DEF VerifyStarts, TickOpens
  <2>2. CASE StartWindow(now) BY <1>1, <2>1, <2>2, OpeningIsSeen
  <2>3. CASE engine = "window" /\ StartWindow(tickAt)
    <3>1. windows = <<>> BY <2>3 DEF EngineInv, TickTells, StartWindow
    <3> QED BY <1>1, <2>1, <2>3, <3>1, OpeningIsSeen
  <2>4. CASE UNCHANGED <<schedule, windows>> BY <2>1, <2>4, NotSeen
  <2> QED BY <1>2, <2>2, <2>3, <2>4 DEF VerifyStarts, TickOpens
<1>3. CASE \/ VerifyBegins \/ TickBegins \/ (\E n \in todo : TickClaims(n)) \/ TickJudges
           \/ Restart \/ ResumeLists \/ Resumes
  BY <1>3, StepsNotSeen
<1>4. CASE PoolStep BY <1>4, ThePoolIsSeen
<1>5. CASE JudgeKeeps BY <1>5, JudgingIsSeen
<1>6. CASE CloseMarks
  <2>1. closing = "open" /\ closing' # "open" /\ UNCHANGED <<now, schedule, windows>>
    BY <1>6 DEF CloseMarks
  <2>2. Verification!Closes BY <2>1 DEF Verification!Closes, Shown
  <2> QED BY <2>2 DEF Verification!VNext
<1>7. CASE CloseCancels
  <2>1. /\ closing # "open" /\ closing' # "open" /\ UNCHANGED <<now, windows>>
        /\ schedule' = [n \in DOMAIN schedule |->
                           IF n \in {m \in DOMAIN schedule : schedule[m].state = "due"}
                           THEN [schedule[n] EXCEPT !.state = "cancelled"] ELSE schedule[n]]
    BY <1>7 DEF CloseCancels
  <2> QED BY <2>1, CancellingIsSeen
<1>8. CASE TimePasses
  <2>1. now' = now + 1 /\ UNCHANGED <<closing, schedule, windows>> BY <1>8 DEF TimePasses, state
  <2>2. Verification!TimeGoesOn BY <2>1 DEF Verification!TimeGoesOn, Shown
  <2> QED BY <2>2 DEF Verification!VNext
<1>9. CASE UNCHANGED vars
  BY <1>9 DEF vars, state, Shown, Verification!vvars
<1> QED BY <1>2, <1>3, <1>4, <1>5, <1>6, <1>7, <1>8, <1>9 DEF Next, EngineStep

\* Whatever ticks, claims, threads, closes and restarts interleave, a learner
\* sees what VerificationService promises: windows in turn, an attack of every
\* case in each, none settled twice, and one judgement on settled attacks.
THEOREM VerificationImplemented ==
    ASSUME ScenarioAssumption, ~ EarlyRequests
    PROVE  Spec => ImplementsVerification
<1>1. Init => Verification!VInit BY VerificationInit
<1>2. EngineInv /\ [Next]_vars => [Verification!VNext]_Verification!vvars BY EachStepIsSeen
<1> QED BY <1>1, <1>2, EngineInvariant, PTL DEF Spec, ImplementsVerification, Verification!VSpec
=============================================================================
