------------------------------ MODULE Evidence ------------------------------
(***************************************************************************)
(* The evidence of one session: the cases that attacks leave, the alerts   *)
(* that ingest copies from Elasticsearch, the objectives that are proved,  *)
(* and the result the list of sessions keeps of all three (platform/api/   *)
(* views.py, ingest/elastic.py, scoring/correlate.py).  Attacks, ingests   *)
(* and readers run on threads of their own and share no lock: each query   *)
(* of the database is a step.                                              *)
(***************************************************************************)
EXTENDS Naturals, FiniteSets, FiniteSetsExt

CONSTANTS
    Cases,       \* the malicious cases: each raises an alert and reaches an objective
    Replays,     \* those a lesson fires again: they prove nothing
    Ingests,     \* requests that ingest
    Readers,     \* requests that list the session's result
    MaxIngests   \* how often something is ingested

EvidenceAssumption ==
    /\ Replays \subseteq Cases /\ IsFiniteSet(Cases) /\ MaxIngests \in Nat

VARIABLES
    recorded,    \* the Case rows
    proven,      \* the Objective rows: the cases whose objective is recorded
    indexed,     \* the alerts in Elasticsearch: "alert", or "both" with its request
    rows,        \* the Detection rows: their number, 0 for none
    marked,      \* the rows with a marker
    rowIds,      \* how many Detection rows there have been
    ingested,    \* how often one began
    ingests,     \* what each ingest read and has not written
    readers,     \* what each reader read
    cache        \* session.result_cache, {} before there is one

alertVars == <<indexed, rows, marked, rowIds, ingested, ingests>>
evidenceVars == <<recorded, proven, alertVars, readers, cache>>

NotRead == [phase |-> "idle"]
NoIngest == [phase |-> "idle", bare |-> {}, known |-> {}, unmarked |-> {}, fresh |-> {}]

EvidenceTypeOK ==
    /\ proven \subseteq recorded /\ recorded \subseteq Cases
    /\ indexed \in [Cases -> {"none", "alert", "both"}]
    /\ rows \in [Cases -> 0..Cardinality(Cases)] /\ rowIds \in 0..Cardinality(Cases)
    /\ marked \subseteq Cases /\ ingested \in 0..MaxIngests
    /\ \A i \in Ingests : ingests[i].phase \in {"idle", "fetched", "held", "updated"}
    /\ \A r \in Readers : readers[r].phase \in {"idle", "inputs", "cases", "alerts", "breaches"}

EvidenceInit ==
    /\ recorded = {} /\ proven = {}
    /\ indexed = [c \in Cases |-> "none"]
    /\ rows = [c \in Cases |-> 0] /\ marked = {} /\ rowIds = 0
    /\ ingested = 0 /\ ingests = [i \in Ingests |-> NoIngest]
    /\ readers = [r \in Readers |-> NotRead]
    /\ cache = {}

-----------------------------------------------------------------------------
(* Attacks. *)

RecordCase(c) ==
    /\ c \notin recorded
    /\ recorded' = recorded \cup {c}
    /\ UNCHANGED <<proven, alertVars, readers, cache>>

\* _settle_and_observe or a hand-in of loot, which may come a good while later.
Proves(c) ==
    /\ c \in recorded \ (Replays \cup proven)
    /\ proven' = proven \cup {c}
    /\ UNCHANGED <<recorded, alertVars, readers, cache>>

-----------------------------------------------------------------------------
(* Alerts: Filebeat ships them, _ingest copies them. *)

\* An alert and the request it is about are two documents, and only the second
\* holds the marker.  The alert may come before its case is recorded.
Ships(c) ==
    /\ \/ indexed[c] = "none" /\ indexed' = [indexed EXCEPT ![c] = "alert"]
       \/ indexed[c] = "alert" /\ indexed' = [indexed EXCEPT ![c] = "both"]
    /\ UNCHANGED <<recorded, proven, rows, marked, rowIds, ingested, ingests, readers, cache>>

Held == {c \in Cases : rows[c] # 0}

IngestFetches(i) ==
    /\ ingests[i].phase = "idle" /\ ingested < MaxIngests /\ ingested' = ingested + 1
    /\ \E c \in Cases : indexed[c] # "none"
    /\ ingests' = [ingests EXCEPT ![i] =
          [NoIngest EXCEPT !.phase = "fetched",
                           !.bare = {c \in Cases : indexed[c] = "alert"},
                           !.fresh = {c \in Cases : indexed[c] # "none"}]]
    /\ UNCHANGED <<recorded, proven, indexed, rows, marked, rowIds, readers, cache>>

IngestReads(i) ==
    /\ ingests[i].phase = "fetched"
    /\ ingests' = [ingests EXCEPT ![i] = [@ EXCEPT !.phase = "held", !.known = Held,
                                                   !.unmarked = Held \ marked]]
    /\ UNCHANGED <<recorded, proven, indexed, rows, marked, rowIds, ingested, readers, cache>>

\* A row that had no marker gets the one its request has by now.
IngestMarks(i) ==
    /\ ingests[i].phase = "held"
    /\ marked' = marked \cup ((ingests[i].fresh \ ingests[i].bare) \cap ingests[i].unmarked \cap Held)
    /\ ingests' = [ingests EXCEPT ![i].phase = "updated"]
    /\ UNCHANGED <<recorded, proven, indexed, rows, rowIds, ingested, readers, cache>>

\* What is not known is inserted, unless another ingest inserted it first.
IngestInserts(i) ==
    LET inserted == (ingests[i].fresh \ ingests[i].known) \ Held
    IN  /\ ingests[i].phase = "updated"
        /\ \E order \in {f \in [inserted -> 1..Cardinality(inserted)] :
                            \A a, b \in inserted : a # b => f[a] # f[b]} :
             rows' = [c \in Cases |-> IF c \in inserted THEN rowIds + order[c] ELSE rows[c]]
        /\ rowIds' = rowIds + Cardinality(inserted)
        /\ marked' = marked \cup (inserted \ ingests[i].bare)
        /\ ingests' = [ingests EXCEPT ![i] = NoIngest]
        /\ UNCHANGED <<recorded, proven, indexed, ingested, readers, cache>>

-----------------------------------------------------------------------------
(* The result: _result, _judged, _evidence, _breaches. *)

\* (Mutant: the rows that have a marker are not counted.)
InputsWithoutMarkers ==
    [last |-> Max({rows[c] : c \in Cases} \cup {0}), rows |-> Cardinality(Held),
     cases |-> Cardinality(recorded), objectives |-> Cardinality(proven)]

\* Max of the ids, how many rows, how many with a marker.
Inputs ==
    [last |-> Max({rows[c] : c \in Cases} \cup {0}), rows |-> Cardinality(Held),
     marked |-> Cardinality(marked), cases |-> Cardinality(recorded),
     objectives |-> Cardinality(proven)]

\* An alert belongs to the case whose marker it carries.
Detected(cases, markers) == cases \cap markers

\* An objective is undetected where the attack it is credited to is.
Breaches(cases, markers, lost) ==
    [lost |-> lost, undetected |-> lost \ Detected(cases, markers)]

Judged == Breaches(recorded \ Replays, marked \ Replays, proven)

\* Three queries, each of a number that only grows: read one after another they
\* make a key that is the key of now only if none of them has grown since.
ReadInputs(r) ==
    /\ readers[r].phase = "idle"
    /\ ~ \E held \in cache : held.inputs = Inputs
    /\ readers' = [readers EXCEPT ![r] = [phase |-> "inputs", inputs |-> Inputs]]
    /\ UNCHANGED <<recorded, proven, alertVars, cache>>

\* Which cases are replays, and then the cases: one that is recorded between the
\* two changes the key, and the result is kept under the one of before.
ReadCases(r) ==
    /\ readers[r].phase = "inputs"
    /\ readers' = [readers EXCEPT ![r] =
          [phase |-> "cases", inputs |-> @.inputs, cases |-> recorded \ Replays]]
    /\ UNCHANGED <<recorded, proven, alertVars, cache>>

ReadAlerts(r) ==
    /\ readers[r].phase = "cases"
    /\ readers' = [readers EXCEPT ![r] =
          [phase |-> "alerts", inputs |-> @.inputs, cases |-> @.cases, markers |-> marked \ Replays]]
    /\ UNCHANGED <<recorded, proven, alertVars, cache>>

ReadBreaches(r) ==
    /\ readers[r].phase = "alerts"
    /\ readers' = [readers EXCEPT ![r] =
          [phase |-> "breaches", inputs |-> @.inputs,
           result |-> Breaches(@.cases, @.markers, proven)]]
    /\ UNCHANGED <<recorded, proven, alertVars, cache>>

KeepResult(r) ==
    /\ readers[r].phase = "breaches"
    /\ cache' = {[inputs |-> readers[r].inputs, result |-> readers[r].result]}
    /\ readers' = [readers EXCEPT ![r] = NotRead]
    /\ UNCHANGED <<recorded, proven, alertVars>>

-----------------------------------------------------------------------------

EvidenceNext ==
    \/ \E c \in Cases : RecordCase(c) \/ Proves(c) \/ Ships(c)
    \/ \E i \in Ingests : IngestFetches(i) \/ IngestReads(i) \/ IngestMarks(i) \/ IngestInserts(i)
    \/ \E r \in Readers : \/ ReadInputs(r) \/ ReadCases(r) \/ ReadAlerts(r)
                          \/ ReadBreaches(r) \/ KeepResult(r)

EvidenceSpec == EvidenceInit /\ [][EvidenceNext]_evidenceVars

-----------------------------------------------------------------------------
(* Properties. *)

\* The result that is kept and served again is the one that would be judged
\* now, whatever was recorded, ingested or marked while it was made.
CachedResultIsFresh ==
    \A held \in cache : held.inputs = Inputs => held.result = Judged
=============================================================================
