----------------------------- MODULE Objectives -----------------------------
(***************************************************************************)
(* How the objectives of a session are credited: attacks run, overlapping  *)
(* or not (_fire), the target's own rows prove what they reached, in the   *)
(* log of corp-db (_observe_objectives, api/effect.py) or in the loot that *)
(* is handed in (_credit_loot, api/loot.py), and scoreboard.attribute names *)
(* the attack whose detection then counts (platform/api/views.py).         *)
(*                                                                         *)
(* Time is a count of ticks, Second of them to the second.  corp-db's log  *)
(* holds the second of a change by corp-db's clock, which is Skew ticks    *)
(* fast or slow at most; the platform keeps the tick.  What an attack did  *)
(* is looked for from Skew ticks before its start to as many after its end.*)
(***************************************************************************)
EXTENDS Integers, FiniteSets

CONSTANTS
    Attacks,     \* the malicious cases, each of which may reach an objective
    Keys,        \* the objectives
    Second,
    Skew,        \* CLOCK_SKEW: 100 ms
    Attribution, \* how long before its hand-in loot may have been taken
    MaxTime

ObjectivesAssumption ==
    /\ Second \in Nat /\ Second > 0 /\ MaxTime \in Nat
    /\ Skew \in Nat /\ Attribution \in Nat

VARIABLES
    model,       \* how the wargame's objectives are proved: "effect" or "loot"
    replays,     \* the attacks that are a lesson's replays: they prove nothing
    time,
    runs,        \* when each attack started and ended, and whether it is recorded
    changes,     \* what the target did: which objective, when by its log, by whom
    objectives,  \* the Objective rows: the window each was reached in
    observing    \* what each attack's observation read and has not written

objectiveVars == <<model, replays, time, runs, changes, objectives, observing>>

Times == 0..MaxTime

\* The times of another clock and of a widened window, which may be before 0.
Instants == (0 - Skew - Second - Attribution)..(MaxTime + Skew)

Changes == [key : Keys, at : Instants, by : Attacks]
Windows == [earliest : Instants, latest : Instants, proof : Changes]

ObjectivesTypeOK ==
    /\ model \in {"effect", "loot"} /\ replays \subseteq Attacks /\ time \in Times
    /\ runs \in [Attacks -> [phase : {"ready", "running", "ended", "recorded"},
                             started : Times, ended : Times]]
    /\ changes \subseteq Changes
    /\ objectives \in [Keys -> SUBSET Windows]
    /\ observing \in [Attacks -> SUBSET Windows]

ObjectivesInit ==
    /\ model \in {"effect", "loot"} /\ replays \in SUBSET Attacks /\ time = 0
    /\ runs = [a \in Attacks |-> [phase |-> "ready", started |-> 0, ended |-> 0]]
    /\ changes = {}
    /\ objectives = [k \in Keys |-> {}] /\ observing = [a \in Attacks |-> {}]

Tick ==
    /\ time < MaxTime /\ time' = time + 1
    /\ UNCHANGED <<model, replays, runs, changes, objectives, observing>>

-----------------------------------------------------------------------------
(* The attacks. *)

Recorded == {a \in Attacks : runs[a].phase = "recorded"}
Proving == Recorded \ replays

Fire(a) ==
    /\ runs[a].phase = "ready"
    /\ runs' = [runs EXCEPT ![a] = [phase |-> "running", started |-> time, ended |-> time]]
    /\ UNCHANGED <<model, replays, time, changes, objectives, observing>>

\* What the log says of a moment.
Logged(moment) == (moment \div Second) * Second

\* While it runs the target commits a change, or gives its secret away.
Reaches(a, key) ==
    /\ runs[a].phase = "running"
    /\ ~ \E change \in changes : change.key = key /\ change.by = a
    /\ \E moment \in (time - Skew)..(time + Skew) :
           changes' = changes \cup {[key |-> key, at |-> Logged(moment), by |-> a]}
    /\ UNCHANGED <<model, replays, time, runs, objectives, observing>>

Returns(a) ==
    /\ runs[a].phase = "running"
    /\ runs' = [runs EXCEPT ![a] = [@ EXCEPT !.phase = "ended", !.ended = time]]
    /\ UNCHANGED <<model, replays, time, changes, objectives, observing>>

RecordAttempt(a) ==
    /\ runs[a].phase = "ended"
    /\ runs' = [runs EXCEPT ![a].phase = "recorded"]
    /\ UNCHANGED <<model, replays, time, changes, objectives, observing>>

-----------------------------------------------------------------------------
(* The effects. *)

\* Of some attacks, the ones that started last.
Latest(attacks) == {a \in attacks : \A b \in attacks : runs[b].started <= runs[a].started}

\* An attack's run, widened by what the clocks may differ.
From(a) == runs[a].started - Skew
Until(a) == runs[a].ended + Skew

\* (Mutant: an attack need not have been running still.)
EffectWindowSinceTheStart(at) == Latest({a \in Proving : From(a) <= at})

EffectWindow(at) == Latest({a \in Proving : From(a) <= at /\ at <= Until(a)})

Observed ==
    UNION {{[earliest |-> From(a), latest |-> Until(a), proof |-> change] :
                a \in EffectWindow(change.at)} : change \in changes}

\* A row is kept for an objective that has none: the first of them.
Inserts(windows) ==
    objectives' \in {kept \in [Keys -> SUBSET (windows \cup UNION {objectives[k] : k \in Keys})] :
        \A k \in Keys :
            LET of == {w \in windows : w.proof.key = k}
            IN  IF objectives[k] # {} \/ of = {} THEN kept[k] = objectives[k]
                ELSE \E w \in of : /\ kept[k] = {w}
                                   /\ \A v \in of : w.proof.at <= v.proof.at}

\* A log that cannot be read proves nothing this time.
ObserveReads(a) ==
    /\ model = "effect" /\ a \in Recorded
    /\ Observed # {} /\ observing' = [observing EXCEPT ![a] = Observed]
    /\ UNCHANGED <<model, replays, time, runs, changes, objectives>>

ObserveWrites(a) ==
    /\ observing[a] # {}
    /\ Inserts(observing[a])
    /\ observing' = [observing EXCEPT ![a] = {}]
    /\ UNCHANGED <<model, replays, time, runs, changes>>

-----------------------------------------------------------------------------
(* The loot. *)

\* The named case's run, or the time before the hand-in when there is no such
\* case (yet).
LootWindow(proof, named) ==
    IF named \in Recorded
    THEN [earliest |-> From(named), latest |-> Until(named), proof |-> proof]
    ELSE [earliest |-> time - Attribution, latest |-> time + Skew, proof |-> proof]

\* Whoever attacked at all is credited with what matches the ground truth.
HandsIn(key) ==
    /\ model = "loot" /\ Recorded # {}
    /\ \E proof \in changes, named \in Attacks \cup {"none"} :
         /\ proof.key = key
         /\ Inserts({LootWindow(proof, named)})
    /\ UNCHANGED <<model, replays, time, runs, changes, observing>>

-----------------------------------------------------------------------------

\* scoreboard.attribute: of the attacks that overlap the window, the last.  The
\* window is the widened one, the attacks' own runs are not.
Attribute(window) ==
    Latest({a \in Proving : runs[a].started <= window.latest /\ window.earliest <= runs[a].ended})

ObjectivesNext ==
    \/ Tick
    \/ \E a \in Attacks : \/ Fire(a) \/ Returns(a) \/ RecordAttempt(a)
                          \/ ObserveReads(a) \/ ObserveWrites(a)
                          \/ \E k \in Keys : Reaches(a, k)
    \/ \E k \in Keys : HandsIn(k)

ObjectivesSpec == ObjectivesInit /\ [][ObjectivesNext]_objectiveVars

-----------------------------------------------------------------------------
(* Properties. *)

\* Two attacks are apart when no second of the log holds both, by whichever clock.
Apart(a, b) ==
    LET second(t) == t \div Second
    IN  second(Until(a)) < second(From(b)) \/ second(Until(b)) < second(From(a))

\* Once all attacks are recorded, an objective counts for the detection of the
\* attack that reached it, and no other's, if the attacks were apart; with
\* loot, only if its case was recorded when it was handed in.
CreditStaysWithItsAttack ==
    \A k \in Keys : \A window \in objectives[k] :
        LET by == window.proof.by
        IN  /\ \A a \in Attacks : runs[a].phase \in {"ready", "recorded"}
            /\ \A a \in Recorded \ {by} : Apart(a, by)
            /\ model = "loot" => window.earliest = From(by) /\ window.latest = Until(by)
            => Attribute(window) = {by} \ replays
=============================================================================
