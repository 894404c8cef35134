--------------------------- MODULE ScenarioEngine ---------------------------
(***************************************************************************)
(* A scenario session: the engine thread of platform/api/scenario_run.py   *)
(* fires the scheduled attacks on a pool of threads, opens the final       *)
(* verification window and judges it, while the learner asks for a window  *)
(* of their own, the session is closed and the process restarts.           *)
(*                                                                         *)
(* Every _update of the session's JSON state is one transaction under      *)
(* STATE, and one step here; what the engine read before it is kept in     *)
(* tickAt and todo.  A window is judged for a completion that asks for     *)
(* held attacks; what else may fail it (blocked customers, verdicts,       *)
(* thresholds) is one choice.  Hints, triage and the observation of        *)
(* customers and WAF are left out: they touch other keys of the state.     *)
(***************************************************************************)
EXTENDS Naturals, Sequences, FiniteSets, SequencesExt

CONSTANTS
    Plan,       \* the declared attacks, [case, at], ordered by `at`
    WindowAt,   \* when the final window opens by itself
    Length,     \* window_minutes
    PoolSize,   \* the threads of FIRING
    Horizon,    \* the clock stops here unless a window is open
    MaxWindows, \* how many windows the learner may ask for
    MaxRestarts,\* how often the process restarts
    EarlyRequests \* requests are served before resume() is through

Cases == {Plan[i].case : i \in DOMAIN Plan}

ASSUME ScenarioAssumption ==
    /\ Len(Plan) \in Nat /\ DOMAIN Plan = 1..Len(Plan)
    /\ \A i \in DOMAIN Plan : Plan[i].at \in Nat
    /\ WindowAt \in Nat /\ Horizon \in Nat
    /\ Length \in Nat /\ Length > Cardinality(Cases)
    /\ PoolSize \in Nat \ {0} /\ MaxWindows \in Nat /\ MaxRestarts \in Nat
    /\ EarlyRequests \in BOOLEAN

VARIABLES
    now,        \* the clock
    closing,    \* how far the session's close got
    schedule,   \* scenario_state["schedule"]
    windows,    \* scenario_state["windows"]
    asking,     \* a verify-window request was let through
    engine,     \* where the engine thread is in its tick
    tickAt,     \* the tick's own `now`
    todo,       \* the due entries the tick still has to claim
    verdict,    \* what judge_window worked out
    queue,      \* what the pool was given
    running,    \* what its threads fire
    resume,     \* how far resume() got since the process started
    restarts

state  == <<closing, schedule, windows>>
tick   == <<engine, tickAt, todo, verdict>>
pool   == <<queue, running>>
process == <<resume, restarts>>
vars   == <<now, state, asking, tick, pool, process>>

Settled == {"fired", "failed", "cancelled"}
Verdicts == {"passed", "failed"}
Entries == [case : Cases, due : Nat, state : {"due", "firing"} \cup Settled,
            outcome : {"none", "held", "leaked"}]
Windows == [start : Nat, end : Nat, result : Verdicts \cup {"none"}]

TypeOK ==
    /\ now \in Nat
    /\ closing \in {"open", "marked", "cancelled", "cut short"}
    /\ schedule \in Seq(Entries)
    /\ windows \in Seq(Windows)
    /\ asking \in BOOLEAN
    /\ engine \in {"off", "asleep", "window", "claim", "keep"}
    /\ tickAt \in Nat /\ tickAt <= now
    /\ todo \subseteq DOMAIN schedule
    /\ verdict \in Verdicts \cup {"none"}
    /\ queue \in Seq(DOMAIN schedule)
    /\ running \subseteq DOMAIN schedule /\ Cardinality(running) <= PoolSize
    /\ resume \in {"to do", "listed", "done"}
    /\ restarts \in 0..MaxRestarts

Entry(case, due) == [case |-> case, due |-> due, state |-> "due", outcome |-> "none"]

Init ==
    /\ now = 0
    /\ closing = "open"
    /\ schedule = [i \in DOMAIN Plan |-> Entry(Plan[i].case, Plan[i].at)]
    /\ windows = <<>>
    /\ asking = FALSE
    /\ engine = "asleep" /\ tickAt = 0 /\ todo = {} /\ verdict = "none"
    /\ queue = <<>> /\ running = {}
    /\ resume = "done" /\ restarts = 0

-----------------------------------------------------------------------------
(* platform/scenarios.py *)

Inside(entries, window) ==
    {n \in DOMAIN entries : window.start <= entries[n].due /\ entries[n].due < window.end}

DueNow(entries, at) == {n \in DOMAIN entries : entries[n].state = "due" /\ entries[n].due <= at}

Unjudged == windows # <<>> /\ Last(windows).result = "none"

\* (Mutant: an attack that is scheduled anywhere is not added.)
MissingSomewhere(window) ==
    {case \in Cases : \A n \in DOMAIN schedule : schedule[n].case # case}

\* The declared cases that nothing inside the window fires.
Missing(window) ==
    {case \in Cases : \A n \in Inside(schedule, window) :
        schedule[n].case = case => schedule[n].state = "cancelled"}

\* One entry per missing case, spread over the window.
WindowAttacks(window) ==
    LET cases == SetToSeq(Missing(window))
    IN  [i \in DOMAIN cases |->
            Entry(cases[i], window.start + (Length * i) \div (Len(cases) + 1))]

ReadyToJudge(window, at) ==
    at >= window.end /\ \A n \in Inside(schedule, window) : schedule[n].state \in Settled

\* judged_window: what was cancelled does not count.
Judged(window) ==
    LET attacks == {n \in Inside(schedule, window) : schedule[n].state # "cancelled"}
    IN  IF \A n \in attacks : schedule[n].state = "fired" /\ schedule[n].outcome # "leaked"
        THEN Verdicts ELSE {"failed"}

-----------------------------------------------------------------------------
(* Windows: the learner's request, the engine's tick. *)

\* start_window, once no window is waiting for its result.
StartWindow(at) ==
    LET window == [start |-> at, end |-> at + Length, result |-> "none"]
    IN  /\ ~Unjudged
        /\ windows' = Append(windows, window)
        /\ schedule' = schedule \o WindowAttacks(window)

\* POST .../verify-window/: _refuse_closed lets the request through.
VerifyBegins ==
    /\ ~asking /\ closing = "open"
    /\ EarlyRequests \/ resume = "done"
    /\ now < Horizon /\ Len(windows) < MaxWindows
    /\ asking' = TRUE
    /\ UNCHANGED <<now, state, tick, pool, process>>

\* The window opens, or a 409; an engine that is not running is started.
VerifyStarts ==
    /\ asking
    /\ \/ StartWindow(now)
       \/ Unjudged /\ UNCHANGED <<schedule, windows>>
    /\ asking' = FALSE
    /\ engine' = IF engine = "off" /\ ~Unjudged THEN "asleep" ELSE engine
    /\ UNCHANGED <<now, closing, tickAt, todo, verdict, pool, process>>

\* tick: the sessions not ended are listed with their state.
TickBegins ==
    /\ engine = "asleep" /\ closing = "open"
    /\ tickAt' = now
    /\ IF windows = <<>> /\ now >= WindowAt
       THEN engine' = "window" /\ todo' = {}
       ELSE engine' = "claim" /\ todo' = DueNow(schedule, now)
    /\ UNCHANGED <<now, state, asking, verdict, pool, process>>

\* (Mutant: the window is opened whether the learner has opened one or not.)
TickOpensAgain ==
    LET window == [start |-> tickAt, end |-> tickAt + Length, result |-> "none"]
    IN  /\ engine = "window"
        /\ windows' = Append(windows, window)
        /\ schedule' = schedule \o WindowAttacks(window)
        /\ todo' = DueNow(schedule', tickAt)
        /\ engine' = "claim"
        /\ UNCHANGED <<now, closing, asking, tickAt, verdict, pool, process>>

\* The window's time has come and the state listed had none: it opens, or the
\* learner's came first and the Conflict ends the tick.
TickOpens ==
    /\ engine = "window"
    /\ \/ /\ StartWindow(tickAt)
          /\ todo' = DueNow(schedule', tickAt)
          /\ engine' = "claim"
       \/ /\ Unjudged
          /\ engine' = "asleep"
          /\ UNCHANGED <<schedule, windows, todo>>
    /\ UNCHANGED <<now, closing, asking, tickAt, verdict, pool, process>>

\* (Mutant: the claim is not written back.)
TickClaimsUnseen(n) ==
    /\ engine = "claim" /\ n \in todo
    /\ todo' = todo \ {n}
    /\ queue' = IF schedule[n].state = "due" THEN Append(queue, n) ELSE queue
    /\ UNCHANGED <<now, state, asking, engine, tickAt, verdict, running, process>>

\* _claim, and _submit of what was claimed.
TickClaims(n) ==
    /\ engine = "claim" /\ n \in todo
    /\ todo' = todo \ {n}
    /\ IF schedule[n].state = "due"
       THEN /\ schedule' = [schedule EXCEPT ![n].state = "firing"]
            /\ queue' = Append(queue, n)
       ELSE UNCHANGED <<schedule, queue>>
    /\ UNCHANGED <<now, closing, windows, asking, engine, tickAt, verdict, running, process>>

\* (Mutant: the window's end is enough.)
TickJudgesAtTheEnd ==
    /\ engine = "claim" /\ todo = {}
    /\ IF Unjudged /\ tickAt >= Last(windows).end
       THEN engine' = "keep" /\ verdict' \in Judged(Last(windows))
       ELSE engine' = "asleep" /\ UNCHANGED verdict
    /\ UNCHANGED <<now, state, asking, tickAt, todo, pool, process>>

\* The state is read again; judge_window works out a result ...
TickJudges ==
    /\ engine = "claim" /\ todo = {}
    /\ IF Unjudged /\ ReadyToJudge(Last(windows), tickAt)
       THEN engine' = "keep" /\ verdict' \in Judged(Last(windows))
       ELSE engine' = "asleep" /\ UNCHANGED verdict
    /\ UNCHANGED <<now, state, asking, tickAt, todo, pool, process>>

\* ... and writes it to the last window.
JudgeKeeps ==
    /\ engine = "keep"
    /\ windows' = [windows EXCEPT ![Len(windows)].result = verdict]
    /\ engine' = "asleep"
    /\ verdict' = "none"
    /\ UNCHANGED <<now, closing, schedule, asking, tickAt, todo, pool, process>>

-----------------------------------------------------------------------------
(* fire_entry, on a thread of the pool. *)

\* (Mutant: the pool starts one thread too many.)
FireBeginsOnceMore ==
    /\ queue # <<>> /\ Cardinality(running) <= PoolSize
    /\ queue' = Tail(queue)
    /\ running' = running \cup {Head(queue)}
    /\ UNCHANGED <<now, state, asking, tick, process>>

\* The session is read; an ended one cancels the attack.
FireBegins ==
    /\ queue # <<>> /\ Cardinality(running) < PoolSize
    /\ queue' = Tail(queue)
    /\ IF closing = "open"
       THEN running' = running \cup {Head(queue)} /\ UNCHANGED schedule
       ELSE /\ schedule' = [schedule EXCEPT ![Head(queue)].state = "cancelled"]
            /\ UNCHANGED running
    /\ UNCHANGED <<now, closing, windows, asking, tick, process>>

FireEnds(n) ==
    /\ n \in running
    /\ running' = running \ {n}
    /\ \/ \E outcome \in {"held", "leaked"} :
              schedule' = [schedule EXCEPT ![n].state = "fired", ![n].outcome = outcome]
       \/ schedule' = [schedule EXCEPT ![n].state = "failed"]
    /\ UNCHANGED <<now, closing, windows, asking, tick, queue, process>>

-----------------------------------------------------------------------------
(* The close, the clock and the process. *)

CloseMarks ==
    /\ closing = "open"
    /\ closing' = "marked"
    /\ UNCHANGED <<now, schedule, windows, asking, tick, pool, process>>

\* scenario_run.end: what is still due is cancelled.
CloseCancels ==
    /\ closing = "marked"
    /\ closing' = "cancelled"
    /\ schedule' = [n \in DOMAIN schedule |->
                       IF schedule[n].state = "due"
                       THEN [schedule[n] EXCEPT !.state = "cancelled"] ELSE schedule[n]]
    /\ UNCHANGED <<now, windows, asking, tick, pool, process>>

TimePasses ==
    /\ now < Horizon \/ (Unjudged /\ now < Last(windows).end)
    /\ now' = now + 1
    /\ UNCHANGED <<state, asking, tick, pool, process>>

\* The process stops: the engine, the pool, the requests and a close are gone.
Restart ==
    /\ restarts < MaxRestarts
    /\ restarts' = restarts + 1
    /\ resume' = "to do"
    /\ engine' = "off" /\ tickAt' = 0 /\ todo' = {} /\ verdict' = "none"
    /\ queue' = <<>> /\ running' = {}
    /\ asking' = FALSE
    /\ closing' = IF closing = "marked" THEN "cut short" ELSE closing
    /\ UNCHANGED <<now, schedule, windows>>

\* resume() lists the sessions not ended; without one only the engine starts.
ResumeLists ==
    /\ resume = "to do"
    /\ IF closing = "open"
       THEN resume' = "listed" /\ UNCHANGED engine
       ELSE resume' = "done" /\ engine' = IF engine = "off" THEN "asleep" ELSE engine
    /\ UNCHANGED <<now, state, asking, tickAt, todo, verdict, pool, restarts>>

\* (Mutant: what was firing is left as it is.)
ResumesAsIs ==
    /\ resume = "listed"
    /\ resume' = "done"
    /\ engine' = IF engine = "off" THEN "asleep" ELSE engine
    /\ UNCHANGED <<now, state, asking, tickAt, todo, verdict, pool, restarts>>

\* What was firing is due again, and the engine starts.
Resumes ==
    /\ resume = "listed"
    /\ resume' = "done"
    /\ engine' = IF engine = "off" THEN "asleep" ELSE engine
    /\ schedule' = [n \in DOMAIN schedule |->
                       IF schedule[n].state = "firing"
                       THEN [schedule[n] EXCEPT !.state = "due"] ELSE schedule[n]]
    /\ UNCHANGED <<now, closing, windows, asking, tickAt, todo, verdict, pool, restarts>>

-----------------------------------------------------------------------------
EngineStep ==
    \/ TickBegins \/ TickOpens \/ TickJudges \/ JudgeKeeps
    \/ \E n \in todo : TickClaims(n)

PoolStep == FireBegins \/ \E n \in running : FireEnds(n)

Next ==
    \/ VerifyBegins \/ VerifyStarts
    \/ EngineStep \/ PoolStep
    \/ CloseMarks \/ CloseCancels \/ TimePasses
    \/ Restart \/ ResumeLists \/ Resumes

Spec == Init /\ [][Next]_vars

\* The engine's thread, the pool and resume go on, an attack ends, and time
\* passes; nobody has to ask for a window, close or restart.
FairSpec ==
    /\ Spec
    /\ WF_vars(EngineStep) /\ WF_vars(FireBegins) /\ WF_vars(TimePasses)
    /\ WF_vars(ResumeLists \/ Resumes)
    /\ WF_vars(\E n \in running : FireEnds(n))

-----------------------------------------------------------------------------
(* Properties. *)

\* An attack the pool holds is marked firing and is held once: no attack is
\* fired twice at once, whatever ticks, closes and restarts interleave.
FiredOnceAtATime ==
    /\ IsInjective(queue)
    /\ \A i \in DOMAIN queue : queue[i] \notin running
    /\ \A n \in running \cup {queue[i] : i \in DOMAIN queue} : schedule[n].state = "firing"

\* "It judges an open window once the window has ended and every attack due
\* inside it has fired or failed" (docs/ARCHITECTURE.md), and nothing is added
\* to a judged window later.
JudgedWindowsAreSettled ==
    \A i \in DOMAIN windows :
        windows[i].result # "none" =>
            /\ windows[i].end <= now
            /\ \A n \in Inside(schedule, windows[i]) : schedule[n].state \in Settled

\* Windows follow one another: at most the last one waits for its result, so a
\* result is never written to another window than the one it was worked out for.
WindowsFollowOneAnother ==
    \A i \in DOMAIN windows :
        i < Len(windows) => windows[i].result # "none" /\ windows[i].end <= windows[i + 1].start

\* "held: every attack inside the window fired and was held": while the session
\* is open a window passes only if each declared case fired in it and was held.
PassedHeldEveryCase ==
    \A i \in DOMAIN windows :
        windows[i].result = "passed" /\ closing = "open" =>
            \A case \in Cases : \E n \in Inside(schedule, windows[i]) :
                /\ schedule[n].case = case
                /\ schedule[n].state = "fired" /\ schedule[n].outcome = "held"

\* What a learner sees of an entry: who holds it, and how often it was given to
\* the pool, does not show before it is settled.
Seen(entry) == [entry EXCEPT !.state = IF @ \in Settled THEN @ ELSE "pending"]
Shown == [n \in DOMAIN schedule |-> Seen(schedule[n])]

\* The ticks, claims, threads and restarts implement the windows of
\* VerificationService: each step is one of its steps or is not seen.
Verification == INSTANCE VerificationService WITH
    time <- now,
    over <- closing # "open",
    attacks <- Shown

ImplementsVerification == Verification!VSpec

\* A window that opened is judged, unless the session is closed: no attack, tick
\* or restart leaves it waiting for good.
WindowsAreJudged == Unjudged ~> (~Unjudged \/ closing # "open")
=============================================================================
