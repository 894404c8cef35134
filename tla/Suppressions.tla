---------------------------- MODULE Suppressions ----------------------------
(***************************************************************************)
(* One detection rule on the sensors of one slot: learners silence it for  *)
(* a while (POST /api/rules/suppressions/), lift the suppression by hand,  *)
(* edit the rule file, and every listing and every ingest lifts what has   *)
(* expired.  Sessions follow one another on the slot; a close marks what   *)
(* the rebuild lifts, the reset worker puts the baseline file back.        *)
(*                                                                         *)
(* A rule file is abstracted to the lines of one sid: the text that is     *)
(* active, if any, and the commented copies, each named by the record      *)
(* whose expiry its marker line carries.  suppress.py finds a copy by its  *)
(* text alone, so two copies of one text are alike to it.                  *)
(*                                                                         *)
(* What runs in the slot's turn is one action: nothing else that writes    *)
(* rule files runs meanwhile, and whether and where it broke off is part   *)
(* of its outcome, as it is of a seeding.  The seeding of a posture as a   *)
(* session opens takes no turn; it is one action too (SlotLifecycle        *)
(* interleaves it).  A reset cut short by a restart is one that fails.     *)
(***************************************************************************)
EXTENDS Naturals, FiniteSets

CONSTANTS
    N,          \* how many sensors the slot has
    Records,    \* the suppressions that may ever be asked for
    Sessions,   \* the sessions that may ever be opened
    Threads,    \* the request threads
    Texts,      \* the wordings of the rule
    Baseline,   \* the wording in the starting rule set
    None,       \* no wording, record or session
    Ways        \* which of the following a behaviour may contain

AllWays ==
    {"edit",         \* the rule editor applies a file
     "blind",        \* ... without saying which version it was loaded from
     "posture",      \* a whole rule set replaces the file while a session runs
     "opening",      \* ... while none of its rules is silenced
     "late",         \* a request goes on although its session was closed
     "unreachable",  \* a sensor stops answering in the middle of a change
     "unloaded",     \* a sensor that answers does not load what it is seeded with
     "gone",         \* ... before the lift of an ended session's record
     "restart"}      \* the process restarts

ASSUME SuppressionAssumption ==
    /\ N \in Nat /\ N > 0
    /\ IsFiniteSet(Records)
    /\ Baseline \in Texts
    /\ None \notin Texts \cup Records \cup Sessions
    /\ Ways \subseteq AllWays

\* Sensor 1 is the one whose file is read.
Sensors == 1..N

VARIABLES
    files,      \* the rule file of each sensor
    torn,       \* a change or a seeding broke off, and none reached all since
    state,      \* a record: absent, kept (restored_at unset), restored
    session,    \* Suppression.session
    original,   \* Suppression.original
    due,        \* the kept records whose expires_at has passed
    fresh,      \* the records created after the last closed_at
    open,       \* the session open on the slot
    ended,      \* the sessions that were closed
    phase,      \* how far the last close got
    pc,         \* where each thread is in its handler
    list,       \* what _restore_expired has left to visit
    about,      \* the session or record the request names
    copy        \* the file an editor holds, and the version it was loaded from

rules    == <<files, torn>>
records  == <<state, session, original, due, fresh>>
slot     == <<open, ended, phase>>
requests == <<pc, list, about, copy>>
vars     == <<rules, records, slot, requests>>

Kept == {r \in Records : state[r] = "kept"}

Files == [active : Texts \cup {None}, marks : SUBSET Records]
Starting == [active |-> Baseline, marks |-> {}]

TypeOK ==
    /\ files \in [Sensors -> Files]
    /\ torn \in BOOLEAN
    /\ state \in [Records -> {"absent", "kept", "restored"}]
    /\ session \in [Records -> Sessions \cup {None}]
    /\ original \in [Records -> Texts \cup {None}]
    /\ due \in SUBSET Kept
    /\ fresh \in SUBSET Records
    /\ open \in Sessions \cup {None}
    /\ ended \in SUBSET Sessions
    /\ phase \in {"idle", "closing", "resetting", "failed"}
    /\ pc \in [Threads -> {"idle", "sweeping", "suppressing", "silencing", "lifting", "editing"}]
    /\ list \in [Threads -> SUBSET Records]
    /\ about \in [Threads -> Sessions \cup Records \cup {None}]
    /\ copy \in [Threads -> [base : Files, edited : Files]]

\* What a request names, and how an editor changed the copy it loaded.
Named ==
    \A t \in Threads :
        /\ pc[t] \in {"suppressing", "silencing", "editing"} => about[t] \in Sessions
        /\ pc[t] = "lifting" => about[t] \in Records /\ state[about[t]] # "absent"
        /\ \A r \in list[t] : state[r] # "absent"
        /\ copy[t].edited.marks \subseteq copy[t].base.marks

Init ==
    /\ files = [s \in Sensors |-> Starting]
    /\ torn = FALSE
    /\ state = [r \in Records |-> "absent"]
    /\ session = [r \in Records |-> None]
    /\ original = [r \in Records |-> None]
    /\ due = {} /\ fresh = {}
    /\ open = None /\ ended = {} /\ phase = "idle"
    /\ pc = [t \in Threads |-> "idle"]
    /\ list = [t \in Threads |-> {}]
    /\ about = [t \in Threads |-> None]
    /\ copy = [t \in Threads |-> [base |-> Starting, edited |-> Starting]]

Return(t) ==
    /\ pc' = [pc EXCEPT ![t] = "idle"]
    /\ list' = [list EXCEPT ![t] = {}]
    /\ about' = [about EXCEPT ![t] = None]
    /\ copy' = [copy EXCEPT ![t] = [base |-> Starting, edited |-> Starting]]

-----------------------------------------------------------------------------
(* The sensors take a file one after the other.                            *)

\* Those up to j were given back what the first one held, the ones after them
\* up to k hold the new file.
Halfway(content, j, k) ==
    [s \in Sensors |-> IF s <= j THEN files[1] ELSE IF s <= k THEN content ELSE files[s]]

Applied(content) == [s \in Sensors |-> content]

\* (Mutant: the sensors that took the file keep it.)
RefusedKept(content) == {Halfway(content, 0, k) : k \in 0..(N - 1)}

\* _apply: sensor k + 1 refuses the file, or rolled it back when its reload
\* failed; those before it are seeded with what the first one held.
Refused(content) == {Halfway(content, k, k) : k \in 0..(N - 1)}

\* _apply breaks off: sensor k + 1 does not answer and nothing is taken back;
\* or the seeding back ends at a sensor that does not load its file.
Torn(content) ==
    {Halfway(content, p[1], p[2]) :
        p \in {q \in (0..N) \X (0..N) :
                  /\ q[1] <= q[2]
                  /\ \/ "unreachable" \in Ways
                     \/ "unloaded" \in Ways /\ 1 <= q[1] /\ q[2] < N}}

Takes(content) == files' = Applied(content) /\ torn' = FALSE

FallsThrough(content) ==
    \/ files' \in Refused(content) /\ UNCHANGED torn
    \/ files' \in Torn(content) /\ torn' = TRUE

\* suricata.seed in a loop: the sensor that does not load its file keeps it, as
\* do those before it, and the ones after it are not reached.
SeedingBreaks(content) ==
    /\ {"unreachable", "unloaded"} \cap Ways # {}
    /\ \E k \in 0..N : files' = Halfway(content, 0, k)
    /\ torn' = TRUE

-----------------------------------------------------------------------------
(* POST /api/rules/suppressions/ *)

\* (Mutant: a rule is silenced without a sweep first.)
SweepBeginsForListing(t) ==
    /\ pc[t] = "idle"
    /\ \/ /\ pc' = [pc EXCEPT ![t] = "sweeping"]
          /\ list' = [list EXCEPT ![t] = due]
          /\ UNCHANGED about
       \/ /\ open # None
          /\ pc' = [pc EXCEPT ![t] = "suppressing"]
          /\ about' = [about EXCEPT ![t] = open]
          /\ UNCHANGED list
    /\ UNCHANGED <<rules, records, slot, copy>>

\* Every listing, ingest and suppression first lists what has expired.  A
\* suppression names the session its learner works in.
SweepBegins(t) ==
    /\ pc[t] = "idle"
    /\ list' = [list EXCEPT ![t] = due]
    /\ \/ /\ pc' = [pc EXCEPT ![t] = "sweeping"]
          /\ UNCHANGED about
       \/ /\ open # None
          /\ pc' = [pc EXCEPT ![t] = "suppressing"]
          /\ about' = [about EXCEPT ![t] = open]
    /\ UNCHANGED <<rules, records, slot, copy>>

\* A listing answers once nothing is left to visit.
SweepEnds(t) ==
    /\ pc[t] = "sweeping" /\ list[t] = {}
    /\ Return(t)
    /\ UNCHANGED <<rules, records, slot>>

\* _written lets the request through.
SuppressBegins(t) ==
    /\ pc[t] = "suppressing" /\ list[t] = {} /\ about[t] = open
    /\ pc' = [pc EXCEPT ![t] = "silencing"]
    /\ UNCHANGED <<rules, records, slot, list, about, copy>>

\* In the turn: the active line becomes a marked copy, and a record of it is
\* kept if every sensor took the file.  A copy left behind by a torn change
\* keeps its text, though no record tells it.
Silences(t, r) ==
    /\ pc[t] = "silencing"
    /\ "late" \in Ways \/ about[t] = open
    /\ state[r] = "absent" /\ \A s \in Sensors : r \notin files[s].marks
    /\ files[1].active # None
    /\ LET silenced == [active |-> None, marks |-> files[1].marks \cup {r}]
       IN  \/ /\ Takes(silenced)
              /\ state' = [state EXCEPT ![r] = "kept"]
              /\ session' = [session EXCEPT ![r] = about[t]]
              /\ fresh' = fresh \cup {r}
           \/ /\ FallsThrough(silenced)
              /\ UNCHANGED <<state, session, fresh>>
    /\ original' = [original EXCEPT ![r] = files[1].active]
    /\ Return(t)
    /\ UNCHANGED <<due, slot>>

\* 404, 409 or 503: nothing was written.
RequestFails(t) ==
    /\ pc[t] # "idle"
    /\ Return(t)
    /\ UNCHANGED <<rules, records, slot>>

-----------------------------------------------------------------------------
(* Lifting a suppression: by hand, or by the sweep. *)

Restored(rs) ==
    /\ state' = [r \in Records |-> IF r \in rs THEN "restored" ELSE state[r]]
    /\ due' = due \ rs

\* _silenced: the first copy of the record's text, whichever record it is of.
Copies(r) == {m \in files[1].marks : original[m] = original[r]}

\* discard when an active rule carries the sid already, restore when none does.
Without(m) ==
    [active |-> IF files[1].active # None THEN files[1].active ELSE original[m],
     marks |-> files[1].marks \ {m}]

\* _restore, in the turn of the record's session.
Lifts(r) ==
    \/ /\ Copies(r) = {}
       /\ Restored({r})
       /\ UNCHANGED rules
    \/ \E m \in Copies(r) :
           \/ Takes(Without(m)) /\ Restored({r})
           \/ FallsThrough(Without(m)) /\ UNCHANGED <<state, due>>
    \* RangeUnavailable: an ended session counts as one whose sensor is gone.
    \/ /\ "gone" \in Ways /\ session[r] \in ended
       /\ Restored({r})
       /\ UNCHANGED rules

\* (Mutant: the record is not read again in the turn.)
SweepVisitsStale(t, r) ==
    /\ pc[t] \in {"sweeping", "suppressing"} /\ r \in list[t]
    /\ list' = [list EXCEPT ![t] = @ \ {r}]
    /\ Lifts(r)
    /\ UNCHANGED <<session, original, fresh, slot, pc, about, copy>>

\* The record is read again in the turn; one restored meanwhile is passed over.
SweepVisits(t, r) ==
    /\ pc[t] \in {"sweeping", "suppressing"} /\ r \in list[t]
    /\ list' = [list EXCEPT ![t] = @ \ {r}]
    /\ IF state[r] = "restored" THEN UNCHANGED <<rules, state, due>> ELSE Lifts(r)
    /\ UNCHANGED <<session, original, fresh, slot, pc, about, copy>>

\* POST /api/rules/suppressions/<id>/restore/
LiftBegins(t, r) ==
    /\ pc[t] = "idle" /\ state[r] # "absent"
    /\ pc' = [pc EXCEPT ![t] = "lifting"]
    /\ about' = [about EXCEPT ![t] = r]
    /\ UNCHANGED <<rules, records, slot, list, copy>>

LiftEnds(t) ==
    /\ pc[t] = "lifting"
    /\ IF state[about[t]] = "restored" THEN UNCHANGED <<rules, state, due>> ELSE Lifts(about[t])
    /\ Return(t)
    /\ UNCHANGED <<session, original, fresh, slot>>

Expires(r) ==
    /\ state[r] = "kept" /\ r \notin due
    /\ due' = due \cup {r}
    /\ UNCHANGED <<rules, state, session, original, fresh, slot, requests>>

-----------------------------------------------------------------------------
(* Whole files: the editor, a posture, configure/. *)

\* GET /api/rules/, then a change of the copy: the rule in some wording, and
\* fewer commented copies.
EditBegins(t) ==
    /\ "edit" \in Ways
    /\ pc[t] = "idle" /\ open # None
    /\ \E edited \in [active : Texts, marks : SUBSET files[1].marks] :
           copy' = [copy EXCEPT ![t] = [base |-> files[1], edited |-> edited]]
    /\ pc' = [pc EXCEPT ![t] = "editing"]
    /\ about' = [about EXCEPT ![t] = open]
    /\ UNCHANGED <<rules, records, slot, list>>

\* (Mutant: the base is not compared in the turn.)
EditAppliesBlindly(t) ==
    /\ pc[t] = "editing"
    /\ "late" \in Ways \/ about[t] = open
    /\ Takes(copy[t].edited) \/ FallsThrough(copy[t].edited)
    /\ Return(t)
    /\ UNCHANGED <<records, slot>>

\* POST /api/rules/ in the turn; 409 when the file changed since it was loaded.
EditApplies(t) ==
    /\ pc[t] = "editing"
    /\ "late" \in Ways \/ about[t] = open
    /\ "blind" \in Ways \/ copy[t].base = files[1]
    /\ Takes(copy[t].edited) \/ FallsThrough(copy[t].edited)
    /\ Return(t)
    /\ UNCHANGED <<records, slot>>

\* A reset or a configuration breaks off: the edge's sensor and the hosts' are
\* given the starting rules by steps of their own.
SomeSeeded ==
    /\ {"unreachable", "unloaded"} \cap Ways # {}
    /\ \E reached \in SUBSET Sensors :
           files' = [s \in Sensors |-> IF s \in reached THEN Starting ELSE files[s]]
    /\ torn' = TRUE

\* _seed_ruleset as a session opens or moves to another lesson.  One that breaks
\* off leaves the session open on its old lesson or, at the opening, ends it.
PostureSeeds ==
    /\ open # None
    /\ \/ "posture" \in Ways
       \/ "opening" \in Ways /\ \A s \in Sensors : files[s].marks = {}
    /\ \E text \in Texts :
           LET content == [active |-> text, marks |-> {}]
           IN  \/ Takes(content) /\ UNCHANGED <<open, ended>>
               \/ SeedingBreaks(content) /\ UNCHANGED <<open, ended>>
               \/ SeedingBreaks(content) /\ open' = None /\ ended' = ended \cup {open}
    /\ UNCHANGED <<records, phase, requests>>

\* POST /api/range/configure/ puts the starting rules on every sensor, and makes
\* good for a reset that failed.
OperatorConfigures ==
    /\ open # None => "posture" \in Ways
    /\ \/ Takes(Starting) /\ phase' = IF phase = "failed" THEN "idle" ELSE phase
       \/ SomeSeeded /\ UNCHANGED phase
    /\ UNCHANGED <<records, open, ended, requests>>

-----------------------------------------------------------------------------
(* Sessions on the slot. *)

\* _rules_at_baseline, on every sensor and in the slot's records.
Opens(x) ==
    /\ phase = "idle" /\ open = None /\ x \notin ended
    /\ \A s \in Sensors : files[s] = Starting
    /\ Kept \subseteq due
    /\ open' = x
    /\ torn' = FALSE
    /\ UNCHANGED <<files, records, ended, phase, requests>>

CloseMarks ==
    /\ open # None
    /\ open' = None
    /\ ended' = ended \cup {open}
    /\ phase' = "closing"
    /\ fresh' = {}
    /\ UNCHANGED <<rules, state, session, original, due, requests>>

\* The rebuild is refused or the close raises: the file and the records stay.
CloseBreaks ==
    /\ phase = "closing"
    /\ phase' = "idle"
    /\ UNCHANGED <<rules, records, open, ended, requests>>

\* (Mutant: the expired records are not taken off.)
CloseLiftsKeepingDue ==
    /\ phase = "closing"
    /\ phase' = "resetting"
    /\ state' = [r \in Records |-> IF r \in Kept \ fresh THEN "restored" ELSE state[r]]
    /\ UNCHANGED <<rules, session, original, due, fresh, open, ended, requests>>

\* _lifted_by_the_rebuild: everything created up to closed_at.
CloseLifts ==
    /\ phase = "closing"
    /\ phase' = "resetting"
    /\ Restored(Kept \ fresh)
    /\ UNCHANGED <<rules, session, original, fresh, open, ended, requests>>

\* The reset worker seeds every sensor with the starting rule set.
ResetClears ==
    /\ phase = "resetting"
    /\ phase' = "idle"
    /\ Takes(Starting)
    /\ UNCHANGED <<records, open, ended, requests>>

\* RESET_FAILED: a sensor does not load the starting rule set.
ResetFails ==
    /\ phase = "resetting"
    /\ phase' = "failed"
    /\ SomeSeeded
    /\ UNCHANGED <<records, open, ended, requests>>

Restart ==
    /\ "restart" \in Ways
    /\ phase' = "idle"
    /\ pc' = [t \in Threads |-> "idle"]
    /\ list' = [t \in Threads |-> {}]
    /\ about' = [t \in Threads |-> None]
    /\ copy' = [t \in Threads |-> [base |-> Starting, edited |-> Starting]]
    /\ UNCHANGED <<rules, records, open, ended>>

-----------------------------------------------------------------------------
Request(t) ==
    \/ SweepBegins(t) \/ SweepEnds(t) \/ SuppressBegins(t) \/ RequestFails(t)
    \/ LiftEnds(t) \/ EditBegins(t) \/ EditApplies(t)
    \/ \E r \in Records : Silences(t, r) \/ SweepVisits(t, r) \/ LiftBegins(t, r)

SlotStep ==
    \/ \E x \in Sessions : Opens(x)
    \/ CloseMarks \/ CloseBreaks \/ CloseLifts \/ ResetClears \/ ResetFails
    \/ PostureSeeds \/ OperatorConfigures

Next ==
    \/ \E t \in Threads : Request(t)
    \/ \E r \in Records : Expires(r)
    \/ SlotStep
    \/ Restart

Spec == Init /\ [][Next]_vars

-----------------------------------------------------------------------------
(* Safety. *)

\* The sensors of a slot hold one rule file: a file one of them refuses leaves
\* none of the others with it.  Only a change or a seeding that breaks off parts
\* them, and then no longer than to the next file that reaches them all: a
\* session that opens finds them alike.
SensorsAgree == ~torn => \A s \in Sensors : files[s] = files[1]

\* A slot between two sessions has no open one.
ClosingHasEnded == phase # "idle" => open = None

MarksOf(text) == {m \in files[1].marks : original[m] = text}
KeptOf(text) == {r \in Kept : original[r] = text}

\* While a session is open every commented copy in its file has a record of its
\* own that is still to be restored, so no rule stays silenced for good.
SilencedRulesComeBack ==
    open # None =>
        \A text \in Texts : Cardinality(MarksOf(text)) <= Cardinality(KeptOf(text))

\* "A suppression holds until it expires" (platform/tests/
\* test_api_suppressions.py): lifting one suppression takes no commented copy
\* that belongs to another one of the open session, still kept.
LiftsOnlyItsOwn ==
    [][\A r, other \in Kept :
           state'[r] = "restored" /\ state'[other] = "kept" /\ session[other] = open
               => (other \in files[1].marks => other \in files'[1].marks)]_vars
=============================================================================
