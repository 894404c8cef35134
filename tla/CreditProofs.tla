---------------------------- MODULE CreditProofs ----------------------------
(***************************************************************************)
(* What a session is credited with.  A result that is kept is fresh, for   *)
(* any cases, replays, ingests and readers: the rows a result is made from *)
(* only grow, and the inputs are counted before anything is read; when the *)
(* counts of now are those, what was read since is what is there.  And an  *)
(* objective counts for the detection of the attack that reached it, for   *)
(* any attacks and objectives, by the windows the rows are kept with.  At  *)
(* the end, with what LearnerProofs has of the learner's requests, all     *)
(* parts of a session keep their types together (MCSession).               *)
(***************************************************************************)
EXTENDS MCSession, LearnerProofs, FiniteSetTheorems, TLAPS

-----------------------------------------------------------------------------
(* The evidence and the result that is kept. *)

Reads == [phase : {"idle", "fetched", "held", "updated"}, bare : SUBSET Cases,
          known : SUBSET Cases, unmarked : SUBSET Cases, fresh : SUBSET Cases]

\* The rows are of cases, and so is what an ingest still has to write.
RowsOfCases ==
    /\ recorded \subseteq Cases /\ proven \subseteq Cases /\ marked \subseteq Cases
    /\ ingests \in [Ingests -> Reads]

\* There are at least the rows that some inputs count.
Counted(inputs) ==
    /\ inputs.cases <= Cardinality(recorded)
    /\ inputs.marked <= Cardinality(marked)
    /\ inputs.objectives <= Cardinality(proven)
    /\ inputs.cases \in Nat /\ inputs.marked \in Nat /\ inputs.objectives \in Nat

\* What was read after the inputs is what is there, while the counts stand.
FreshCases(inputs, found) ==
    inputs.cases = Cardinality(recorded) => found = recorded \ Replays
FreshMarkers(inputs, markers) ==
    inputs.marked = Cardinality(marked) => markers = marked \ Replays
FreshResult(inputs, result) ==
    /\ inputs.cases = Cardinality(recorded)
    /\ inputs.marked = Cardinality(marked)
    /\ inputs.objectives = Cardinality(proven)
    => result = Judged

ReaderFresh(reader) ==
    /\ reader.phase # "idle" => Counted(reader.inputs)
    /\ reader.phase \in {"cases", "alerts"} => FreshCases(reader.inputs, reader.cases)
    /\ reader.phase = "alerts" => FreshMarkers(reader.inputs, reader.markers)
    /\ reader.phase = "breaches" => FreshResult(reader.inputs, reader.result)

ReadsInOrder == readers = [r \in Readers |-> readers[r]]

EvidenceInv ==
    /\ RowsOfCases /\ ReadsInOrder
    /\ \A r \in Readers : ReaderFresh(readers[r])
    /\ \A held \in cache : Counted(held.inputs) /\ FreshResult(held.inputs, held.result)

\* Rows are added and never taken away.
Grows ==
    /\ recorded \subseteq recorded' /\ proven \subseteq proven' /\ marked \subseteq marked'
    /\ RowsOfCases'

-----------------------------------------------------------------------------

LEMMA CountsOf ==
    ASSUME EvidenceAssumption, RowsOfCases
    PROVE  /\ IsFiniteSet(recorded) /\ IsFiniteSet(proven) /\ IsFiniteSet(marked)
           /\ Cardinality(recorded) \in Nat /\ Cardinality(proven) \in Nat /\ Cardinality(marked) \in Nat
<1>1. IsFiniteSet(Cases)
  BY DEF EvidenceAssumption
<1>2. IsFiniteSet(recorded) /\ IsFiniteSet(proven) /\ IsFiniteSet(marked)
  BY <1>1, FS_Subset DEF RowsOfCases
<1> QED BY <1>2, FS_CardinalityType

\* A finite set that grew and counts no more than before is the same.
LEMMA SameCountSameSet ==
    ASSUME NEW S, NEW T, IsFiniteSet(T), S \subseteq T, NEW n \in Nat,
           n <= Cardinality(S), n = Cardinality(T)
    PROVE  S = T
<1>1. IsFiniteSet(S) /\ Cardinality(S) <= Cardinality(T) /\ (Cardinality(T) = Cardinality(S) => T = S)
  BY FS_Subset
<1>2. Cardinality(S) \in Nat /\ Cardinality(T) \in Nat
  BY <1>1, FS_CardinalityType
<1> QED BY <1>1, <1>2

\* Growth leaves fresh what was: a count that still stands means that nothing
\* was added.
LEMMA GrowthKeepsFresh ==
    ASSUME EvidenceAssumption, RowsOfCases, Grows, NEW inputs, Counted(inputs)
    PROVE  /\ Counted(inputs)'
           /\ inputs.cases = Cardinality(recorded') => recorded' = recorded
           /\ inputs.marked = Cardinality(marked') => marked' = marked
           /\ inputs.objectives = Cardinality(proven') => proven' = proven
<1>1. /\ IsFiniteSet(recorded) /\ IsFiniteSet(proven) /\ IsFiniteSet(marked)
      /\ Cardinality(recorded) \in Nat /\ Cardinality(proven) \in Nat /\ Cardinality(marked) \in Nat
  BY CountsOf
<1>2. IsFiniteSet(recorded') /\ IsFiniteSet(proven') /\ IsFiniteSet(marked')
  <2>1. IsFiniteSet(Cases)
    BY DEF EvidenceAssumption
  <2>2. recorded' \subseteq Cases /\ proven' \subseteq Cases /\ marked' \subseteq Cases
    BY DEF Grows, RowsOfCases
  <2> QED BY <2>1, <2>2, FS_Subset
<1>3. /\ Cardinality(recorded') \in Nat /\ Cardinality(proven') \in Nat /\ Cardinality(marked') \in Nat
  BY <1>2, FS_CardinalityType
<1>4. /\ Cardinality(recorded) <= Cardinality(recorded')
      /\ Cardinality(proven) <= Cardinality(proven')
      /\ Cardinality(marked) <= Cardinality(marked')
  BY <1>2, FS_Subset DEF Grows
<1>5. Counted(inputs)'
  BY <1>1, <1>3, <1>4 DEF Counted
<1>6. /\ recorded \subseteq recorded' /\ proven \subseteq proven' /\ marked \subseteq marked'
      /\ inputs.cases \in Nat /\ inputs.marked \in Nat /\ inputs.objectives \in Nat
      /\ inputs.cases <= Cardinality(recorded) /\ inputs.marked <= Cardinality(marked)
      /\ inputs.objectives <= Cardinality(proven)
  BY DEF Grows, Counted
<1>7. inputs.cases = Cardinality(recorded') => recorded' = recorded
  BY <1>2, <1>6, SameCountSameSet
<1>8. inputs.marked = Cardinality(marked') => marked' = marked
  BY <1>2, <1>6, SameCountSameSet
<1>9. inputs.objectives = Cardinality(proven') => proven' = proven
  BY <1>2, <1>6, SameCountSameSet
<1> QED BY <1>5, <1>7, <1>8, <1>9

LEMMA GrowthKeepsReaders ==
    ASSUME EvidenceAssumption, RowsOfCases, Grows, NEW reader, ReaderFresh(reader)
    PROVE  ReaderFresh(reader)'
<1>1. CASE reader.phase = "idle"
  BY <1>1 DEF ReaderFresh
<1>2. CASE reader.phase # "idle"
  <2>1. Counted(reader.inputs)
    BY <1>2 DEF ReaderFresh
  <2>2. /\ Counted(reader.inputs)'
        /\ reader.inputs.cases = Cardinality(recorded') => recorded' = recorded
        /\ reader.inputs.marked = Cardinality(marked') => marked' = marked
        /\ reader.inputs.objectives = Cardinality(proven') => proven' = proven
    BY <2>1, GrowthKeepsFresh
  <2> QED
    BY <1>2, <2>2 DEF ReaderFresh, FreshCases, FreshMarkers, FreshResult, Judged
<1> QED BY <1>1, <1>2

LEMMA GrowthKeepsResults ==
    ASSUME EvidenceAssumption, RowsOfCases, Grows, NEW held,
           Counted(held.inputs), FreshResult(held.inputs, held.result)
    PROVE  Counted(held.inputs)' /\ FreshResult(held.inputs, held.result)'
<1>1. /\ Counted(held.inputs)'
      /\ held.inputs.cases = Cardinality(recorded') => recorded' = recorded
      /\ held.inputs.marked = Cardinality(marked') => marked' = marked
      /\ held.inputs.objectives = Cardinality(proven') => proven' = proven
  BY GrowthKeepsFresh
<1> QED BY <1>1 DEF FreshResult, Judged

-----------------------------------------------------------------------------
(* The steps of attacks and ingests add rows. *)

LEMMA NoIngestIsARead == NoIngest \in Reads
BY DEF NoIngest, Reads

LEMMA RowsGrow ==
    ASSUME RowsOfCases, EvidenceNext
    PROVE  Grows
<1>1. CASE \E c \in Cases : RecordCase(c) \/ Proves(c) \/ Ships(c)
  BY <1>1 DEF RecordCase, Proves, Ships, alertVars, RowsOfCases, Grows
<1>2. ASSUME NEW i \in Ingests,
             IngestFetches(i) \/ IngestReads(i) \/ IngestMarks(i) \/ IngestInserts(i)
      PROVE  Grows
  <2>1. UNCHANGED <<recorded, proven>>
    BY <1>2 DEF IngestFetches, IngestReads, IngestMarks, IngestInserts
  <2>2. ingests[i] \in Reads /\ NoIngest \in Reads /\ Held \subseteq Cases
    <3>1. ingests[i] \in Reads
      BY DEF RowsOfCases
    <3>2. Held \subseteq Cases
      BY DEF Held
    <3> QED BY <3>1, <3>2, NoIngestIsARead
  <2>3. ingests' \in [Ingests -> Reads]
    <3>1. CASE IngestFetches(i)
      <4> DEFINE bare == {c \in Cases : indexed[c] = "alert"}
                 fresh == {c \in Cases : indexed[c] # "none"}
      <4>1. [NoIngest EXCEPT !.phase = "fetched", !.bare = bare, !.fresh = fresh] \in Reads
        BY DEF NoIngest, Reads
      <4> QED BY <3>1, <4>1 DEF IngestFetches, RowsOfCases
    <3>2. CASE IngestReads(i)
      <4>1. [ingests[i] EXCEPT !.phase = "held", !.known = Held, !.unmarked = Held \ marked] \in Reads
        BY <2>2 DEF Reads
      <4> QED BY <3>2, <4>1 DEF IngestReads, RowsOfCases
    <3>3. CASE IngestMarks(i)
      <4>1. [ingests[i] EXCEPT !.phase = "updated"] \in Reads
        BY <2>2 DEF Reads
      <4> QED BY <3>3, <4>1 DEF IngestMarks, RowsOfCases
    <3>4. CASE IngestInserts(i)
      BY <2>2, <3>4 DEF IngestInserts, RowsOfCases
    <3> QED BY <1>2, <3>1, <3>2, <3>3, <3>4
  <2>4. marked \subseteq marked' /\ marked' \subseteq Cases
    BY <1>2, <2>2 DEF IngestFetches, IngestReads, IngestMarks, IngestInserts, RowsOfCases, Reads
  <2> QED BY <2>1, <2>3, <2>4 DEF RowsOfCases, Grows
<1>3. CASE \E r \in Readers : ReadInputs(r) \/ ReadCases(r) \/ ReadAlerts(r)
                              \/ ReadBreaches(r) \/ KeepResult(r)
  BY <1>3 DEF ReadInputs, ReadCases, ReadAlerts, ReadBreaches, KeepResult, alertVars,
              RowsOfCases, Grows
<1> QED BY <1>1, <1>2, <1>3 DEF EvidenceNext

-----------------------------------------------------------------------------
(* The steps of a reader read what is there. *)

LEMMA InputsCount ==
    ASSUME EvidenceAssumption, RowsOfCases
    PROVE  /\ Counted(Inputs)
           /\ Inputs.cases = Cardinality(recorded)
           /\ Inputs.marked = Cardinality(marked)
           /\ Inputs.objectives = Cardinality(proven)
<1>1. /\ Inputs.cases = Cardinality(recorded)
      /\ Inputs.marked = Cardinality(marked)
      /\ Inputs.objectives = Cardinality(proven)
  BY DEF Inputs
<1>2. /\ Cardinality(recorded) \in Nat /\ Cardinality(proven) \in Nat
      /\ Cardinality(marked) \in Nat
  BY CountsOf
<1> QED BY <1>1, <1>2 DEF Counted

LEMMA ReadingIsFresh ==
    ASSUME EvidenceAssumption, EvidenceInv, NEW r \in Readers,
           ReadInputs(r) \/ ReadCases(r) \/ ReadAlerts(r) \/ ReadBreaches(r) \/ KeepResult(r)
    PROVE  /\ ReadsInOrder'
           /\ \A q \in Readers \ {r} : readers'[q] = readers[q]
           /\ ReaderFresh(readers'[r])
<1>1. readers = [q \in Readers |-> readers[q]] /\ RowsOfCases /\ ReaderFresh(readers[r])
  BY DEF EvidenceInv, ReadsInOrder
<1>2. \E reader : readers' = [readers EXCEPT ![r] = reader]
  BY DEF ReadInputs, ReadCases, ReadAlerts, ReadBreaches, KeepResult
<1>3. ReadsInOrder' /\ \A q \in Readers \ {r} : readers'[q] = readers[q]
  BY <1>1, <1>2 DEF ReadsInOrder
<1>4. CASE ReadInputs(r)
  <2>1. readers'[r] = [phase |-> "inputs", inputs |-> Inputs]
    BY <1>1, <1>4 DEF ReadInputs
  <2> QED BY <1>3, <1>1, <2>1, InputsCount DEF ReaderFresh
<1>5. CASE ReadCases(r)
  <2>1. readers'[r] = [phase |-> "cases", inputs |-> readers[r].inputs, cases |-> recorded \ Replays]
    BY <1>1, <1>5 DEF ReadCases
  <2>2. Counted(readers[r].inputs)
    BY <1>1, <1>5 DEF ReadCases, ReaderFresh
  <2> QED BY <1>3, <2>1, <2>2 DEF ReaderFresh, FreshCases
<1>6. CASE ReadAlerts(r)
  <2>1. readers'[r] = [phase |-> "alerts", inputs |-> readers[r].inputs, cases |-> readers[r].cases,
                       markers |-> marked \ Replays]
    BY <1>1, <1>6 DEF ReadAlerts
  <2>2. Counted(readers[r].inputs) /\ FreshCases(readers[r].inputs, readers[r].cases)
    BY <1>1, <1>6 DEF ReadAlerts, ReaderFresh
  <2> QED BY <1>3, <2>1, <2>2 DEF ReaderFresh, FreshMarkers
<1>7. CASE ReadBreaches(r)
  <2>1. readers'[r] = [phase |-> "breaches", inputs |-> readers[r].inputs,
                       result |-> Breaches(readers[r].cases, readers[r].markers, proven)]
    BY <1>1, <1>7 DEF ReadBreaches
  <2>2. /\ Counted(readers[r].inputs) /\ FreshCases(readers[r].inputs, readers[r].cases)
        /\ FreshMarkers(readers[r].inputs, readers[r].markers)
    BY <1>1, <1>7 DEF ReadBreaches, ReaderFresh
  <2>3. FreshResult(readers[r].inputs, Breaches(readers[r].cases, readers[r].markers, proven))
    BY <2>2 DEF FreshCases, FreshMarkers, FreshResult, Judged
  <2> QED BY <1>3, <2>1, <2>2, <2>3 DEF ReaderFresh
<1>8. CASE KeepResult(r)
  <2>1. readers'[r] = NotRead
    BY <1>1, <1>8 DEF KeepResult
  <2> QED BY <1>3, <2>1 DEF NotRead, ReaderFresh
<1> QED BY <1>3, <1>4, <1>5, <1>6, <1>7, <1>8

LEMMA ReadersStayFresh ==
    ASSUME EvidenceAssumption, EvidenceInv, EvidenceNext
    PROVE  ReadsInOrder' /\ \A r \in Readers : ReaderFresh(readers[r])'
<1>1. Grows /\ RowsOfCases /\ ReadsInOrder /\ \A r \in Readers : ReaderFresh(readers[r])
  BY RowsGrow DEF EvidenceInv
<1>2. CASE UNCHANGED readers
  <2> SUFFICES ASSUME NEW r \in Readers PROVE ReaderFresh(readers[r])'
    BY <1>1, <1>2 DEF ReadsInOrder
  <2> DEFINE reader == readers[r]
  <2>1. ReaderFresh(reader)
    BY <1>1
  <2>2. readers[r]' = reader
    BY <1>2
  <2> QED BY <1>1, <1>2, <2>1, <2>2, GrowthKeepsReaders
<1>3. ASSUME NEW r \in Readers,
             ReadInputs(r) \/ ReadCases(r) \/ ReadAlerts(r) \/ ReadBreaches(r) \/ KeepResult(r)
      PROVE  ReadsInOrder' /\ \A q \in Readers : ReaderFresh(readers[q])'
  <2>1. /\ ReadsInOrder' /\ ReaderFresh(readers'[r])
        /\ \A q \in Readers \ {r} : readers'[q] = readers[q]
    BY <1>3, ReadingIsFresh
  <2>2. UNCHANGED <<recorded, proven, marked>>
    BY <1>3 DEF ReadInputs, ReadCases, ReadAlerts, ReadBreaches, KeepResult, alertVars
  <2>3. \A q \in Readers : ReaderFresh(readers'[q])
    BY <1>1, <2>1
  <2> QED BY <2>1, <2>2, <2>3
      DEF ReaderFresh, Counted, FreshCases, FreshMarkers, FreshResult, Judged
<1>4. \/ UNCHANGED readers
      \/ \E r \in Readers : ReadInputs(r) \/ ReadCases(r) \/ ReadAlerts(r)
                            \/ ReadBreaches(r) \/ KeepResult(r)
  BY DEF EvidenceNext, RecordCase, Proves, Ships, IngestFetches, IngestReads, IngestMarks,
         IngestInserts
<1> QED BY <1>2, <1>3, <1>4

LEMMA ResultsStayFresh ==
    ASSUME EvidenceAssumption, EvidenceInv, EvidenceNext
    PROVE  \A held \in cache' : Counted(held.inputs)' /\ FreshResult(held.inputs, held.result)'
<1>1. Grows /\ RowsOfCases
  BY RowsGrow DEF EvidenceInv
<1>2. CASE UNCHANGED cache
  <2> SUFFICES ASSUME NEW held \in cache
               PROVE  Counted(held.inputs)' /\ FreshResult(held.inputs, held.result)'
    BY <1>2
  <2> QED BY <1>1, GrowthKeepsResults DEF EvidenceInv
<1>3. ASSUME NEW r \in Readers, KeepResult(r)
      PROVE  \A held \in cache' : Counted(held.inputs)' /\ FreshResult(held.inputs, held.result)'
  <2> DEFINE fresh == [inputs |-> readers[r].inputs, result |-> readers[r].result]
  <2>1. cache' = {fresh} /\ readers[r].phase = "breaches" /\ UNCHANGED <<recorded, proven, marked>>
    BY <1>3 DEF KeepResult, alertVars
  <2>2. Counted(readers[r].inputs) /\ FreshResult(readers[r].inputs, readers[r].result)
    BY <2>1 DEF EvidenceInv, ReaderFresh
  <2>3. Counted(fresh.inputs) /\ FreshResult(fresh.inputs, fresh.result)
    BY <2>2
  <2> QED BY <2>1, <2>3 DEF Counted, FreshResult, Judged
<1>4. UNCHANGED cache \/ \E r \in Readers : KeepResult(r)
  BY DEF EvidenceNext, RecordCase, Proves, Ships, IngestFetches, IngestReads, IngestMarks,
         IngestInserts, ReadInputs, ReadCases, ReadAlerts, ReadBreaches
<1> QED BY <1>2, <1>3, <1>4

LEMMA EvidenceStaysSo ==
    ASSUME EvidenceAssumption, EvidenceInv, [EvidenceNext]_evidenceVars
    PROVE  EvidenceInv'
<1>1. CASE EvidenceNext
  <2>1. RowsOfCases'
    BY <1>1, RowsGrow DEF EvidenceInv, Grows
  <2> QED BY <1>1, <2>1, ReadersStayFresh, ResultsStayFresh DEF EvidenceInv
<1>2. CASE UNCHANGED evidenceVars
  BY <1>2 DEF evidenceVars, alertVars, EvidenceInv, RowsOfCases, ReadsInOrder, ReaderFresh, Counted,
              FreshCases, FreshMarkers, FreshResult, Judged
<1> QED BY <1>1, <1>2

LEMMA EvidenceBeginsSo == ASSUME EvidenceInit PROVE EvidenceInv
<1>1. RowsOfCases
  BY NoIngestIsARead DEF EvidenceInit, RowsOfCases
<1>2. readers = [r \in Readers |-> NotRead] /\ cache = {}
  BY DEF EvidenceInit
<1>3. ReadsInOrder /\ \A r \in Readers : ReaderFresh(readers[r])
  BY <1>2 DEF ReadsInOrder, ReaderFresh, NotRead
<1> QED BY <1>1, <1>2, <1>3 DEF EvidenceInv

\* The inductive invariant: rows only of cases, and every reader and the cache
\* hold what the counts they were read under stand for.
THEOREM EvidenceInvariant ==
    ASSUME EvidenceAssumption
    PROVE  EvidenceSpec => []EvidenceInv
<1>1. EvidenceInit => EvidenceInv
  BY EvidenceBeginsSo
<1>2. EvidenceInv /\ [EvidenceNext]_evidenceVars => EvidenceInv'
  BY EvidenceStaysSo
<1> QED BY <1>1, <1>2, PTL DEF EvidenceSpec

\* The result that is kept and shown again is the one that would be judged now,
\* whatever was recorded, proved, ingested or marked while a reader made it.
THEOREM KeptResultsAreFresh ==
    ASSUME EvidenceAssumption
    PROVE  EvidenceSpec => []CachedResultIsFresh
<1>1. EvidenceInv => CachedResultIsFresh
  BY InputsCount DEF EvidenceInv, FreshResult, CachedResultIsFresh
<1> QED BY <1>1, EvidenceInvariant, PTL

-----------------------------------------------------------------------------
(* The numbers of the Detection rows. *)

\* There are as many rows as numbers were given, and each has one of them.
EvidenceTyped ==
    /\ proven \subseteq recorded
    /\ indexed \in [Cases -> {"none", "alert", "both"}]
    /\ rowIds \in Nat /\ rowIds = Cardinality(Held) /\ rows \in [Cases -> 0..rowIds]
    /\ ingested \in 0..MaxIngests
    /\ \A r \in Readers : readers[r].phase \in {"idle", "inputs", "cases", "alerts", "breaches"}

LEMMA EvidenceBeginsTyped == ASSUME EvidenceAssumption, EvidenceInit PROVE EvidenceTyped
<1>1. Held = {} /\ rows \in [Cases -> 0..0] /\ rowIds = 0 BY DEF EvidenceInit, Held
<1>2. 0 \in 0..MaxIngests BY DEF EvidenceAssumption
<1>3. \A r \in Readers : readers[r].phase = "idle" BY DEF EvidenceInit, NotRead
<1> QED BY <1>1, <1>2, <1>3, FS_EmptySet DEF EvidenceInit, EvidenceTyped

\* The rows an ingest inserts get the numbers after those there are.
LEMMA InsertedRowsAreNumbered ==
    ASSUME EvidenceAssumption, EvidenceTyped, NEW i \in Ingests, ingests[i] \in Reads, IngestInserts(i)
    PROVE  rowIds' \in Nat /\ rowIds' = Cardinality(Held') /\ rows' \in [Cases -> 0..rowIds']
<1> DEFINE inserted == (ingests[i].fresh \ ingests[i].known) \ Held
           count == Cardinality(inserted)
<1>1. inserted \subseteq Cases /\ Held \subseteq Cases /\ inserted \cap Held = {}
  BY DEF Reads, Held
<1>2. /\ IsFiniteSet(inserted) /\ IsFiniteSet(Held) /\ count \in Nat
      /\ Cardinality(Held \cup inserted) = rowIds + count
  <2>1. IsFiniteSet(inserted) /\ IsFiniteSet(Held)
    BY <1>1, FS_Subset DEF EvidenceAssumption
  <2>2. Cardinality({}) = 0 /\ count \in Nat /\ rowIds \in Nat /\ rowIds = Cardinality(Held)
    BY <2>1, FS_EmptySet, FS_CardinalityType DEF EvidenceTyped
  <2>3. Cardinality(Held \cup inserted) = Cardinality(Held) + count - Cardinality(Held \cap inserted)
    BY <2>1, FS_Union
  <2>4. Held \cap inserted = {} BY <1>1
  <2>5. Cardinality(Held \cap inserted) = 0 BY <2>2, <2>4
  <2> HIDE DEF count
  <2>6. Cardinality(Held \cup inserted) = rowIds + count BY <2>2, <2>3, <2>5
  <2> QED BY <2>1, <2>2, <2>6
<1>3. PICK order \in [inserted -> 1..count] :
        rows' = [c \in Cases |-> IF c \in inserted THEN rowIds + order[c] ELSE rows[c]]
  BY DEF IngestInserts
<1>4. rowIds' = rowIds + count /\ rowIds \in Nat /\ rows \in [Cases -> 0..rowIds]
  BY DEF IngestInserts, EvidenceTyped
<1> HIDE DEF inserted, count
<1>5. \A c \in inserted : order[c] \in 1..count OBVIOUS
<1>6. ASSUME NEW c \in Cases
      PROVE  rows'[c] \in 0..(rowIds + count) /\ (rows'[c] # 0 <=> c \in Held \cup inserted)
  <2>1. rows[c] \in 0..rowIds /\ (rows[c] # 0 <=> c \in Held) BY <1>4 DEF Held
  <2>2. CASE c \in inserted
    <3>1. rows'[c] = rowIds + order[c] /\ order[c] \in 1..count BY <1>3, <1>5, <2>2
    <3> QED BY <1>2, <1>4, <2>2, <3>1
  <2>3. CASE c \notin inserted
    <3>1. rows'[c] = rows[c] BY <1>3, <2>3
    <3> QED BY <1>2, <1>4, <2>1, <2>3, <3>1
  <2> QED BY <2>2, <2>3
<1>7. Held' = Held \cup inserted
  <2>1. Held' = {c \in Cases : rows'[c] # 0} BY DEF Held
  <2> QED BY <1>1, <1>6, <2>1
<1>8. rows' \in [Cases -> 0..(rowIds + count)] BY <1>3, <1>6
<1> QED BY <1>2, <1>4, <1>7, <1>8

LEMMA EvidenceStaysTyped ==
    ASSUME EvidenceAssumption, EvidenceInv, EvidenceTyped, [EvidenceNext]_evidenceVars
    PROVE  EvidenceTyped'
<1>1. CASE UNCHANGED evidenceVars
  BY <1>1 DEF EvidenceTyped, evidenceVars, alertVars, Held
<1>2. ASSUME NEW c \in Cases, RecordCase(c) \/ Proves(c) PROVE EvidenceTyped'
  BY <1>2 DEF RecordCase, Proves, alertVars, EvidenceTyped, Held
<1>3. ASSUME NEW c \in Cases, Ships(c) PROVE EvidenceTyped'
  BY <1>3 DEF Ships, EvidenceTyped, Held
<1>4. ASSUME NEW i \in Ingests, IngestFetches(i) PROVE EvidenceTyped'
  <2>1. ingested' \in 0..MaxIngests
    BY <1>4 DEF IngestFetches, EvidenceTyped, EvidenceAssumption
  <2> QED BY <1>4, <2>1 DEF IngestFetches, EvidenceTyped, Held
<1>5. ASSUME NEW i \in Ingests, IngestReads(i) \/ IngestMarks(i) PROVE EvidenceTyped'
  BY <1>5 DEF IngestReads, IngestMarks, EvidenceTyped, Held
<1>6. ASSUME NEW i \in Ingests, IngestInserts(i) PROVE EvidenceTyped'
  <2>1. ingests[i] \in Reads BY DEF EvidenceInv, RowsOfCases
  <2>2. rowIds' \in Nat /\ rowIds' = Cardinality(Held') /\ rows' \in [Cases -> 0..rowIds']
    BY <1>6, <2>1, InsertedRowsAreNumbered
  <2> QED BY <1>6, <2>2 DEF IngestInserts, EvidenceTyped
<1>7. ASSUME NEW r \in Readers,
             \/ ReadInputs(r) \/ ReadCases(r) \/ ReadAlerts(r)
             \/ ReadBreaches(r) \/ KeepResult(r)
      PROVE  EvidenceTyped'
  <2>1. UNCHANGED <<recorded, proven, alertVars>>
    BY <1>7 DEF ReadInputs, ReadCases, ReadAlerts, ReadBreaches, KeepResult
  <2>2. readers'[r].phase \in {"idle", "inputs", "cases", "alerts", "breaches"}
    BY <1>7 DEF ReadInputs, ReadCases, ReadAlerts, ReadBreaches, KeepResult, NotRead,
                EvidenceInv, ReadsInOrder
  <2>3. \A q \in Readers \ {r} : readers'[q] = readers[q]
    BY <1>7 DEF ReadInputs, ReadCases, ReadAlerts, ReadBreaches, KeepResult, EvidenceInv, ReadsInOrder
  <2> QED BY <2>1, <2>2, <2>3 DEF alertVars, EvidenceTyped, Held
<1> QED BY <1>1, <1>2, <1>3, <1>4, <1>5, <1>6, <1>7 DEF EvidenceNext

LEMMA EvidenceIsTyped ==
    ASSUME EvidenceAssumption, EvidenceInv, EvidenceTyped
    PROVE  EvidenceTypeOK
<1>1. Held \subseteq Cases BY DEF Held
<1>2. Cardinality(Held) <= Cardinality(Cases) /\ Cardinality(Cases) \in Nat
  BY <1>1, FS_Subset, FS_CardinalityType DEF EvidenceAssumption
<1>3. rowIds \in 0..Cardinality(Cases) /\ rows \in [Cases -> 0..Cardinality(Cases)]
  BY <1>2 DEF EvidenceTyped
<1>4. \A i \in Ingests : ingests[i].phase \in {"idle", "fetched", "held", "updated"}
  BY DEF EvidenceInv, RowsOfCases, Reads
<1> QED BY <1>3, <1>4 DEF EvidenceTyped, EvidenceInv, RowsOfCases, EvidenceTypeOK

-----------------------------------------------------------------------------
(* The objectives and the attacks that are credited with them. *)

RunsInOrder ==
    \A a \in Attacks : runs[a].started <= runs[a].ended /\ runs[a].ended <= time

SecondOf(t) == t \div Second

\* What the target did it did while the attack ran, give or take what the clocks
\* may differ; its log has the second of it.
ChangesInRuns ==
    \A change \in changes :
        /\ runs[change.by].phase # "ready"
        /\ SecondOf(From(change.by)) <= SecondOf(change.at)
        /\ SecondOf(change.at) <= SecondOf(time + Skew)
        /\ runs[change.by].phase # "running" => SecondOf(change.at) <= SecondOf(Until(change.by))

\* A window an effect was seen in is the widened run of a recorded attack that
\* was running by the log's time, whoever it is that did it.
Stands(window) ==
    /\ window.proof \in changes
    /\ model = "effect" =>
         \E a \in Proving : /\ window.earliest = From(a) /\ window.latest = Until(a)
                            /\ From(a) <= window.proof.at
                            /\ window.proof.at <= Until(a)

RowsStand ==
    /\ \A k \in Keys : \A window \in objectives[k] : Stands(window)
    /\ \A a \in Attacks : \A window \in observing[a] : Stands(window)

CreditInv == ObjectivesTypeOK /\ RunsInOrder /\ ChangesInRuns /\ RowsStand

RunStates == [phase : {"ready", "running", "ended", "recorded"}, started : Times, ended : Times]

LEMMA CreditBeginsSo == ASSUME ObjectivesAssumption, ObjectivesInit PROVE CreditInv
<1>1. 0 \in Times
  BY DEF ObjectivesAssumption, Times
<1>2. runs \in [Attacks -> RunStates] /\ \A a \in Attacks : runs[a].started = 0 /\ runs[a].ended = 0
  BY <1>1 DEF ObjectivesInit, RunStates
<1>3. ObjectivesTypeOK
  BY <1>1, <1>2 DEF ObjectivesInit, ObjectivesTypeOK, RunStates
<1>4. RunsInOrder /\ ChangesInRuns /\ RowsStand
  BY <1>2 DEF ObjectivesInit, RunsInOrder, ChangesInRuns, RowsStand
<1> QED BY <1>3, <1>4 DEF CreditInv

LEMMA SecondsInOrder ==
    ASSUME ObjectivesAssumption, NEW t \in Int, NEW u \in Int, t <= u
    PROVE  SecondOf(t) <= SecondOf(u) /\ SecondOf(t) \in Int /\ SecondOf(u) \in Int
  BY DEF ObjectivesAssumption, SecondOf

\* What the log says is of the second it is about, and not long ago.
LEMMA LoggedIsAnInstant ==
    ASSUME ObjectivesAssumption, NEW t \in Times, NEW m \in (t - Skew)..(t + Skew)
    PROVE  /\ Logged(m) \in Instants /\ SecondOf(Logged(m)) = SecondOf(m)
           /\ m \in Int /\ t - Skew <= m /\ m <= t + Skew
<1>1. /\ m \in Int /\ t \in Int /\ Second \in Nat /\ Second > 0 /\ Skew \in Nat
      /\ t - Skew <= m /\ m <= t + Skew /\ 0 <= t /\ t <= MaxTime /\ Attribution \in Nat
      /\ MaxTime \in Nat
  BY DEF ObjectivesAssumption, Times
<1> DEFINE q == m \div Second
<1>2. q \in Int /\ q * Second \in Int /\ q * Second <= m /\ m - Second < q * Second
  BY <1>1
<1>3. (q * Second) \div Second = q
  BY <1>1
<1>4. Logged(m) = q * Second
  BY DEF Logged
<1>5. Logged(m) \in Instants
  <2>1. q * Second \in (0 - Skew - Second - Attribution)..(MaxTime + Skew)
    <3> HIDE DEF q
    <3> DEFINE l == q * Second
    <3>1. l \in Int /\ l <= m /\ m - Second < l
      BY <1>2
    <3> HIDE DEF l
    <3>2. l \in (0 - Skew - Second - Attribution)..(MaxTime + Skew)
      BY <1>1, <3>1
    <3> QED BY <3>2 DEF l
  <2> QED BY <1>4, <2>1 DEF Instants
<1>6. SecondOf(Logged(m)) = SecondOf(m)
  BY <1>3, <1>4 DEF SecondOf
<1> QED BY <1>1, <1>5, <1>6

\* A step of one attack's run, and what it leaves of the others.
LEMMA RunsStayTyped ==
    ASSUME ObjectivesAssumption, CreditInv, NEW a \in Attacks,
           Fire(a) \/ Returns(a) \/ RecordAttempt(a)
    PROVE  /\ runs' \in [Attacks -> RunStates] /\ runs'[a].started <= runs'[a].ended
           /\ runs'[a].ended <= time /\ runs'[a].phase # "ready"
           /\ runs[a].phase # "ready" => /\ runs'[a].started = runs[a].started
                                         /\ runs'[a].phase # "running"
           /\ runs[a].phase \notin {"running", "ready"} => runs'[a].ended = runs[a].ended
           /\ runs[a].phase = "running" => runs'[a].ended = time
           /\ \A b \in Attacks \ {a} : runs'[b] = runs[b]
<1>1. runs \in [Attacks -> RunStates] /\ time \in Times /\ runs[a] \in RunStates
  BY DEF CreditInv, ObjectivesTypeOK, RunStates
<1>2. runs[a].started <= runs[a].ended /\ runs[a].ended <= time
  BY DEF CreditInv, RunsInOrder
<1>3. /\ runs[a].started \in Times /\ runs[a].ended \in Times
      /\ \A t, u, v \in Times : t <= u /\ u <= v => t <= v
  BY <1>1 DEF RunStates, Times, ObjectivesAssumption
<1>4. CASE Fire(a)
  <2> DEFINE run == [phase |-> "running", started |-> time, ended |-> time]
  <2>1. runs' = [runs EXCEPT ![a] = run] /\ runs[a].phase = "ready" /\ run \in RunStates
    BY <1>1, <1>4 DEF Fire, RunStates
  <2>2. runs'[a] = run /\ runs' \in [Attacks -> RunStates]
    BY <1>1, <2>1
  <2>3. time <= time
    BY <1>1 DEF Times
  <2> QED BY <1>1, <2>1, <2>2, <2>3
<1>5. CASE Returns(a)
  <2> DEFINE run == [runs[a] EXCEPT !.phase = "ended", !.ended = time]
  <2>1. run.phase = "ended" /\ run.started = runs[a].started /\ run.ended = time
    BY <1>1 DEF RunStates
  <2>2. run \in RunStates
    BY <1>1, <1>3, <2>1 DEF RunStates
  <2>3. runs' = [runs EXCEPT ![a] = run] /\ runs[a].phase = "running"
    BY <1>5 DEF Returns
  <2> HIDE DEF run
  <2>4. runs'[a] = run /\ runs' \in [Attacks -> RunStates] /\ \A b \in Attacks \ {a} : runs'[b] = runs[b]
    BY <1>1, <2>2, <2>3
  <2>5. runs[a].started <= time /\ time <= time
    BY <1>1, <1>2, <1>3 DEF Times
  <2> QED BY <2>1, <2>3, <2>4, <2>5
<1>6. CASE RecordAttempt(a)
  <2> DEFINE run == [runs[a] EXCEPT !.phase = "recorded"]
  <2>1. run.phase = "recorded" /\ run.started = runs[a].started /\ run.ended = runs[a].ended
    BY <1>1 DEF RunStates
  <2>2. run \in RunStates
    BY <1>1, <1>3, <2>1 DEF RunStates
  <2>3. runs' = [runs EXCEPT ![a] = run] /\ runs[a].phase = "ended"
    BY <1>6 DEF RecordAttempt
  <2> HIDE DEF run
  <2>4. runs'[a] = run /\ runs' \in [Attacks -> RunStates] /\ \A b \in Attacks \ {a} : runs'[b] = runs[b]
    BY <1>1, <2>2, <2>3
  <2> QED BY <1>2, <2>1, <2>3, <2>4
<1> QED BY <1>4, <1>5, <1>6

LEMMA RunningKeepsCredit ==
    ASSUME ObjectivesAssumption, CreditInv, NEW a \in Attacks,
           Fire(a) \/ Returns(a) \/ RecordAttempt(a)
    PROVE  CreditInv'
<1>1. /\ runs' \in [Attacks -> RunStates] /\ runs'[a].started <= runs'[a].ended
      /\ runs'[a].ended <= time /\ runs'[a].phase # "ready"
      /\ runs[a].phase # "ready" => /\ runs'[a].started = runs[a].started
                                    /\ runs'[a].phase # "running"
      /\ runs[a].phase \notin {"running", "ready"} => runs'[a].ended = runs[a].ended
      /\ runs[a].phase = "running" => runs'[a].ended = time
      /\ \A b \in Attacks \ {a} : runs'[b] = runs[b]
  BY RunsStayTyped
<1>2. UNCHANGED <<model, replays, time, changes, objectives, observing>>
  BY DEF Fire, Returns, RecordAttempt
<1>3. ObjectivesTypeOK'
  BY <1>1, <1>2 DEF CreditInv, ObjectivesTypeOK, RunStates
<1>4. RunsInOrder'
  BY <1>1, <1>2 DEF CreditInv, RunsInOrder
<1>5. ASSUME NEW change \in changes
      PROVE  /\ runs'[change.by].phase # "ready"
             /\ SecondOf(From(change.by)') <= SecondOf(change.at)
             /\ SecondOf(change.at) <= SecondOf(time + Skew)
             /\ runs'[change.by].phase # "running" =>
                  SecondOf(change.at) <= SecondOf(Until(change.by)')
  <2>1. /\ runs[change.by].phase # "ready"
        /\ SecondOf(From(change.by)) <= SecondOf(change.at)
        /\ SecondOf(change.at) <= SecondOf(time + Skew)
        /\ runs[change.by].phase # "running" => SecondOf(change.at) <= SecondOf(Until(change.by))
    BY DEF CreditInv, ChangesInRuns
  <2>2. change.by \in Attacks
    BY DEF CreditInv, ObjectivesTypeOK, Changes
  <2>3. CASE change.by # a
    BY <1>1, <2>1, <2>2, <2>3 DEF From, Until
  <2>4. CASE change.by = a
    <3>1. From(a)' = From(a)
      BY <1>1, <2>1, <2>4 DEF From
    <3>2. CASE runs[a].phase = "running"
      <4>1. Until(a)' = time + Skew
        BY <1>1, <3>2 DEF Until
      <4> QED BY <1>1, <2>1, <2>4, <3>1, <4>1
    <3>3. CASE runs[a].phase # "running"
      <4>1. Until(a)' = Until(a)
        BY <1>1, <2>1, <2>4, <3>3 DEF Until
      <4> QED BY <1>1, <2>1, <2>4, <3>1, <3>3, <4>1
    <3> QED BY <3>2, <3>3
  <2> QED BY <2>3, <2>4
<1>6. \A b \in Proving : runs'[b].phase = "recorded" /\ runs'[b] = runs[b]
  <2>1. \A b \in Proving : b # a
    BY DEF Proving, Recorded, Fire, Returns, RecordAttempt
  <2> QED BY <1>1, <2>1 DEF Proving, Recorded
<1>7. \A b \in Proving : b \in Proving'
  BY <1>2, <1>6 DEF Proving, Recorded
<1>8. ASSUME NEW window, Stands(window) PROVE Stands(window)'
  BY <1>2, <1>6, <1>7, <1>8 DEF Stands, From, Until
<1>9. RowsStand'
  BY <1>2, <1>8 DEF CreditInv, RowsStand
<1>10. ChangesInRuns'
  BY <1>2, <1>5 DEF ChangesInRuns, SecondOf
<1> QED BY <1>3, <1>4, <1>9, <1>10 DEF CreditInv

\* What is inserted was read, what was there stays.
LEMMA InsertingKeepsRows ==
    ASSUME CreditInv, NEW windows, windows \subseteq Windows, Inserts(windows),
           UNCHANGED <<model, replays, runs, changes>>, \A w \in windows : Stands(w)
    PROVE  /\ objectives' \in [Keys -> SUBSET Windows]
           /\ \A k \in Keys : \A w \in objectives'[k] : Stands(w)'
<1>1. objectives \in [Keys -> SUBSET Windows]
  BY DEF CreditInv, ObjectivesTypeOK
<1>2. objectives' \in [Keys -> SUBSET (windows \cup (UNION {objectives[k] : k \in Keys}))]
  BY DEF Inserts
<1>3. windows \cup (UNION {objectives[k] : k \in Keys}) \subseteq Windows
  BY <1>1
<1>4. objectives' \in [Keys -> SUBSET Windows]
  BY <1>2, <1>3
<1>5. ASSUME NEW k \in Keys PROVE objectives'[k] \subseteq objectives[k] \cup windows
  BY DEF Inserts
<1>6. \A w : Stands(w) => Stands(w)'
  BY DEF Stands, Proving, Recorded, From, Until
<1> QED BY <1>4, <1>5, <1>6 DEF CreditInv, RowsStand

LEMMA WidenedRunsAreInstants ==
    ASSUME ObjectivesAssumption, CreditInv, NEW a \in Attacks
    PROVE  /\ From(a) \in Instants /\ Until(a) \in Instants
           /\ From(a) \in Int /\ Until(a) \in Int
<1>1. runs[a].started \in Times /\ runs[a].ended \in Times
  BY DEF CreditInv, ObjectivesTypeOK
<1>2. \A t \in Times : t - Skew \in Instants /\ t + Skew \in Instants /\ t - Skew \in Int /\ t + Skew \in Int
  BY DEF ObjectivesAssumption, Times, Instants
<1> QED BY <1>1, <1>2 DEF From, Until

LEMMA ObservedStands ==
    ASSUME ObjectivesAssumption, CreditInv
    PROVE  Observed \subseteq Windows /\ \A w \in Observed : Stands(w)
<1> SUFFICES ASSUME NEW change \in changes, NEW a \in EffectWindow(change.at), NEW w,
                    w = [earliest |-> From(a), latest |-> Until(a), proof |-> change]
             PROVE  w \in Windows /\ Stands(w)
  BY DEF Observed
<1>1. a \in Proving /\ From(a) <= change.at /\ change.at <= Until(a)
  BY DEF EffectWindow, Latest
<1>2. a \in Attacks /\ change \in Changes
  BY <1>1 DEF CreditInv, ObjectivesTypeOK, Proving, Recorded
<1>3. w \in Windows
  BY <1>2, WidenedRunsAreInstants DEF Windows
<1>4. w.proof = change /\ w.earliest = From(a) /\ w.latest = Until(a)
  OBVIOUS
<1>5. Stands(w)
  BY <1>1, <1>4 DEF Stands
<1> QED BY <1>3, <1>5

LEMMA CreditStaysSo ==
    ASSUME ObjectivesAssumption, CreditInv, [ObjectivesNext]_objectiveVars
    PROVE  CreditInv'
<1>1. \A w : UNCHANGED <<model, replays, runs, changes>> /\ Stands(w) => Stands(w)'
  BY DEF Stands, Proving, Recorded, From, Until
<1>2. CASE UNCHANGED objectiveVars
  <2>1. RowsStand'
    BY <1>1, <1>2 DEF objectiveVars, CreditInv, RowsStand
  <2> QED BY <1>2, <2>1 DEF objectiveVars, CreditInv, ObjectivesTypeOK, RunsInOrder, ChangesInRuns,
                               From, Until
<1>3. CASE Tick
  <2>1. time' \in Times /\ UNCHANGED <<model, replays, runs, changes, objectives, observing>>
    BY <1>3 DEF ObjectivesAssumption, Tick, CreditInv, ObjectivesTypeOK, Times
  <2>2. time' = time + 1 /\ time \in Nat
    BY <1>3 DEF Tick, CreditInv, ObjectivesTypeOK, Times
  <2>3. RowsStand'
    BY <1>1, <2>1 DEF CreditInv, RowsStand
  <2>4. ObjectivesTypeOK'
    BY <2>1 DEF CreditInv, ObjectivesTypeOK
  <2>5. RunsInOrder'
    <3>1. \A a \in Attacks : runs[a].ended \in Nat
      BY DEF CreditInv, ObjectivesTypeOK, Times
    <3> QED BY <2>1, <2>2, <3>1 DEF CreditInv, RunsInOrder
  <2>6. ChangesInRuns'
    <3>1. SecondOf(time + Skew) <= SecondOf(time' + Skew)
      BY <2>2, SecondsInOrder DEF ObjectivesAssumption
    <3>2. \A change \in changes : SecondOf(change.at) \in Int
      BY SecondsInOrder DEF CreditInv, ObjectivesTypeOK, Changes, Instants
    <3>3. SecondOf(time + Skew) \in Int /\ SecondOf(time' + Skew) \in Int
      BY <2>2, SecondsInOrder DEF ObjectivesAssumption
    <3> QED
      BY <2>1, <3>1, <3>2, <3>3 DEF CreditInv, ChangesInRuns, From, Until, SecondOf
  <2> QED BY <2>3, <2>4, <2>5, <2>6 DEF CreditInv
<1>4. ASSUME NEW a \in Attacks, NEW k \in Keys, Reaches(a, k) PROVE CreditInv'
  <2>1. PICK moment \in (time - Skew)..(time + Skew) :
            /\ changes' = changes \cup {[key |-> k, at |-> Logged(moment), by |-> a]}
            /\ runs[a].phase = "running"
            /\ UNCHANGED <<model, replays, time, runs, objectives, observing>>
    BY <1>4 DEF Reaches
  <2> DEFINE done == [key |-> k, at |-> Logged(moment), by |-> a]
  <2>2. time \in Times /\ time \in Int /\ Skew \in Nat
    BY DEF CreditInv, ObjectivesTypeOK, ObjectivesAssumption, Times
  <2>3. /\ Logged(moment) \in Instants /\ SecondOf(Logged(moment)) = SecondOf(moment)
        /\ moment \in Int /\ time - Skew <= moment /\ moment <= time + Skew
    BY <2>2, LoggedIsAnInstant
  <2>4. done \in Changes /\ done.by = a /\ done.at = Logged(moment)
    BY <2>3 DEF Changes
  <2>5. changes' = changes \cup {done}
    BY <2>1
  <2> HIDE DEF done
  <2>6. From(a) \in Int /\ From(a) <= moment
    <3>1. runs[a].started \in Times /\ runs[a].started <= runs[a].ended /\ runs[a].ended <= time
      BY DEF CreditInv, ObjectivesTypeOK, RunsInOrder
    <3>2. runs[a].ended \in Int /\ runs[a].started \in Int
      BY DEF CreditInv, ObjectivesTypeOK, Times
    <3> QED BY <2>2, <2>3, <3>1, <3>2 DEF From
  <2>7. SecondOf(From(a)) <= SecondOf(done.at) /\ SecondOf(done.at) <= SecondOf(time + Skew)
    BY <2>2, <2>3, <2>4, <2>6, SecondsInOrder
  <2>8. ChangesInRuns'
    BY <2>1, <2>4, <2>5, <2>7 DEF CreditInv, ChangesInRuns, From, Until
  <2>9. RowsStand'
    BY <2>1 DEF CreditInv, RowsStand, Stands, Proving, Recorded, From, Until
  <2>10. ObjectivesTypeOK'
    BY <2>1, <2>4, <2>5 DEF CreditInv, ObjectivesTypeOK
  <2> QED BY <2>1, <2>8, <2>9, <2>10 DEF CreditInv, RunsInOrder
<1>5. ASSUME NEW a \in Attacks, ObserveReads(a) PROVE CreditInv'
  <2>1. /\ observing' = [observing EXCEPT ![a] = Observed]
        /\ UNCHANGED <<model, replays, time, runs, changes, objectives>>
    BY <1>5 DEF ObserveReads
  <2>2. Observed \subseteq Windows /\ \A w \in Observed : Stands(w)
    BY ObservedStands
  <2>3. /\ observing' \in [Attacks -> SUBSET Windows]
        /\ \A b \in Attacks : observing'[b] \in {observing[b], Observed}
    BY <2>1, <2>2 DEF CreditInv, ObjectivesTypeOK
  <2>4. RowsStand'
    BY <1>1, <2>1, <2>2, <2>3 DEF CreditInv, RowsStand
  <2> QED BY <2>1, <2>3, <2>4 DEF CreditInv, ObjectivesTypeOK, RunsInOrder, ChangesInRuns, From, Until
<1>6. ASSUME NEW a \in Attacks, ObserveWrites(a) PROVE CreditInv'
  <2>1. /\ Inserts(observing[a]) /\ observing' = [observing EXCEPT ![a] = {}]
        /\ UNCHANGED <<model, replays, time, runs, changes>>
    BY <1>6 DEF ObserveWrites
  <2>2. observing[a] \subseteq Windows /\ \A w \in observing[a] : Stands(w)
    BY DEF CreditInv, ObjectivesTypeOK, RowsStand
  <2>3. /\ objectives' \in [Keys -> SUBSET Windows]
        /\ \A k \in Keys : \A w \in objectives'[k] : Stands(w)'
    BY <2>1, <2>2, InsertingKeepsRows
  <2>4. /\ observing' \in [Attacks -> SUBSET Windows]
        /\ \A b \in Attacks : observing'[b] \in {observing[b], {}}
    BY <2>1 DEF CreditInv, ObjectivesTypeOK
  <2>5. RowsStand'
    BY <1>1, <2>1, <2>3, <2>4 DEF CreditInv, RowsStand
  <2> QED BY <2>1, <2>3, <2>4, <2>5 DEF CreditInv, ObjectivesTypeOK, RunsInOrder, ChangesInRuns, From, Until
<1>7. ASSUME NEW k \in Keys, HandsIn(k) PROVE CreditInv'
  <2>1. PICK proof \in changes, named \in Attacks \cup {"none"} : Inserts({LootWindow(proof, named)})
    BY <1>7 DEF HandsIn
  <2>2. model = "loot" /\ UNCHANGED <<model, replays, time, runs, changes, observing>>
    BY <1>7 DEF HandsIn
  <2>3. LootWindow(proof, named) \in Windows /\ LootWindow(proof, named).proof = proof
    <3>1. time \in Times /\ proof \in Changes
      BY DEF CreditInv, ObjectivesTypeOK
    <3>2. time - Attribution \in Instants /\ time + Skew \in Instants
      BY <3>1 DEF ObjectivesAssumption, Times, Instants
    <3>3. named \in Recorded => From(named) \in Instants /\ Until(named) \in Instants
      BY WidenedRunsAreInstants DEF Recorded
    <3>4. CASE named \in Recorded
      BY <3>1, <3>3, <3>4 DEF LootWindow, Windows
    <3>5. CASE named \notin Recorded
      BY <3>1, <3>2, <3>5 DEF LootWindow, Windows
    <3> QED BY <3>4, <3>5
  <2>4. Stands(LootWindow(proof, named))
    BY <2>2, <2>3 DEF Stands
  <2>5. /\ objectives' \in [Keys -> SUBSET Windows]
        /\ \A j \in Keys : \A w \in objectives'[j] : Stands(w)'
    BY <2>1, <2>2, <2>3, <2>4, InsertingKeepsRows
  <2>6. RowsStand'
    BY <1>1, <2>2, <2>5 DEF CreditInv, RowsStand
  <2> QED BY <2>2, <2>5, <2>6 DEF CreditInv, ObjectivesTypeOK, RunsInOrder, ChangesInRuns, From, Until
<1> QED BY <1>2, <1>3, <1>4, <1>5, <1>6, <1>7, RunningKeepsCredit DEF ObjectivesNext

\* Rows are kept with the windows of recorded attacks, which nothing changes
\* any more, and for what the target did.
THEOREM CreditInvariant ==
    ASSUME ObjectivesAssumption
    PROVE  ObjectivesSpec => []CreditInv
<1>1. ObjectivesInit => CreditInv
  BY CreditBeginsSo
<1>2. CreditInv /\ [ObjectivesNext]_objectiveVars => CreditInv'
  BY CreditStaysSo
<1> QED BY <1>1, <1>2, PTL DEF ObjectivesSpec

\* Attacks that are apart do not overlap, not by the second either, however far
\* the clocks differ within the skew.
LEMMA ApartRunsDoNotMeet ==
    ASSUME ObjectivesAssumption, CreditInv, NEW a \in Attacks, NEW b \in Attacks, Apart(a, b)
    PROVE  /\ ~ (runs[a].started <= Until(b) /\ From(b) <= runs[a].ended)
           /\ \A s \in Int : ~ /\ SecondOf(From(a)) <= s /\ s <= SecondOf(Until(a))
                               /\ SecondOf(From(b)) <= s /\ s <= SecondOf(Until(b))
<1>1. \A c \in {a, b} : /\ From(c) \in Int /\ Until(c) \in Int
                        /\ SecondOf(From(c)) \in Int /\ SecondOf(Until(c)) \in Int
  BY WidenedRunsAreInstants, SecondsInOrder
<1>2. SecondOf(Until(a)) < SecondOf(From(b)) \/ SecondOf(Until(b)) < SecondOf(From(a))
  BY DEF Apart, SecondOf
<1>3. /\ runs[a].started \in Int /\ runs[a].ended \in Int /\ Skew \in Nat
      /\ From(a) = runs[a].started - Skew /\ Until(a) = runs[a].ended + Skew
  BY DEF CreditInv, ObjectivesTypeOK, Times, ObjectivesAssumption, From, Until
<1>4. /\ runs[a].started <= Until(b) => From(a) <= Until(b)
      /\ From(b) <= runs[a].ended => From(b) <= Until(a)
  BY <1>1, <1>3
<1>5. /\ From(a) <= Until(b) => SecondOf(From(a)) <= SecondOf(Until(b))
      /\ From(b) <= Until(a) => SecondOf(From(b)) <= SecondOf(Until(a))
  BY <1>1, SecondsInOrder
<1>6. \A s \in Int : ~ /\ SecondOf(From(a)) <= s /\ s <= SecondOf(Until(a))
                       /\ SecondOf(From(b)) <= s /\ s <= SecondOf(Until(b))
  BY <1>1, <1>2
<1>7. ~ (runs[a].started <= Until(b) /\ From(b) <= runs[a].ended)
  BY <1>1, <1>2, <1>4, <1>5
<1> QED BY <1>6, <1>7

\* With windows that fit and attacks apart, only the one that did it can be
\* credited.
LEMMA CreditFromTheInvariant ==
    ASSUME ObjectivesAssumption, CreditInv, NEW k \in Keys, NEW window \in objectives[k],
           \A a \in Attacks : runs[a].phase \in {"ready", "recorded"},
           \A a \in Recorded \ {window.proof.by} : Apart(a, window.proof.by),
           model = "loot" => /\ window.earliest = From(window.proof.by)
                             /\ window.latest = Until(window.proof.by)
    PROVE  Attribute(window) = {window.proof.by} \ replays
<1> DEFINE by == window.proof.by
           at == window.proof.at
<1>1. Stands(window) /\ window.proof \in changes
  BY DEF CreditInv, RowsStand, Stands
<1>2. by \in Attacks /\ at \in Int /\ SecondOf(at) \in Int
  BY <1>1, SecondsInOrder DEF CreditInv, ObjectivesTypeOK, Changes, Instants
<1>3. runs[by].phase = "recorded" /\ by \in Recorded
  BY <1>1, <1>2 DEF CreditInv, ChangesInRuns, Recorded
<1>4. SecondOf(From(by)) <= SecondOf(at) /\ SecondOf(at) <= SecondOf(Until(by))
  BY <1>1, <1>3 DEF CreditInv, ChangesInRuns
<1>5. /\ runs[by].started <= Until(by) /\ From(by) <= runs[by].ended
      /\ runs[by].started <= runs[by].started
  <2>1. /\ runs[by].started \in Int /\ runs[by].ended \in Int /\ Skew \in Nat
        /\ runs[by].started <= runs[by].ended
    BY <1>2 DEF CreditInv, ObjectivesTypeOK, RunsInOrder, Times, ObjectivesAssumption
  <2> QED BY <2>1 DEF From, Until
<1>6. /\ window.earliest = From(by) /\ window.latest = Until(by)
      /\ model = "effect" => by \notin replays
  <2>1. CASE model = "effect"
    <3>1. PICK a \in Proving : /\ window.earliest = From(a) /\ window.latest = Until(a)
                               /\ From(a) <= at /\ at <= Until(a)
      BY <1>1, <2>1 DEF Stands
    <3>2. a \in Attacks /\ a \in Recorded /\ a \notin replays
      BY DEF Proving, Recorded
    <3>3. SecondOf(From(a)) <= SecondOf(at) /\ SecondOf(at) <= SecondOf(Until(a))
      BY <1>2, <3>1, <3>2, WidenedRunsAreInstants, SecondsInOrder
    <3>4. a = by
      <4>1. SUFFICES ASSUME a # by PROVE FALSE
        OBVIOUS
      <4>2. Apart(a, by)
        BY <3>2, <4>1
      <4> QED BY <1>2, <1>4, <3>2, <3>3, <4>2, ApartRunsDoNotMeet
    <3> QED BY <3>1, <3>2, <3>4
  <2>2. CASE model # "effect"
    <3>1. model = "loot"
      BY <2>2 DEF CreditInv, ObjectivesTypeOK
    <3> QED BY <2>2, <3>1
  <2> QED BY <2>1, <2>2
<1> DEFINE meeting == {a \in Proving : runs[a].started <= window.latest /\ window.earliest <= runs[a].ended}
<1>7. meeting \subseteq {by}
  <2> SUFFICES ASSUME NEW a \in Proving, runs[a].started <= Until(by),
                      From(by) <= runs[a].ended, a # by
               PROVE  FALSE
    BY <1>6
  <2>1. a \in Attacks /\ a \in Recorded
    BY DEF Proving, Recorded
  <2> QED BY <1>2, <2>1, ApartRunsDoNotMeet
<1>8. by \notin replays => by \in meeting
  BY <1>3, <1>5, <1>6 DEF Proving
<1>9. by \in replays => by \notin meeting
  BY DEF Proving
<1>10. Attribute(window) = {a \in meeting : \A b \in meeting : runs[b].started <= runs[a].started}
  BY DEF Attribute, Latest
<1> HIDE DEF meeting, by
<1>11. Attribute(window) = {by} \ replays
  BY <1>5, <1>7, <1>8, <1>9, <1>10
<1> QED BY <1>11 DEF by

\* An objective counts for the detection of the attack that reached it, for any
\* attacks, objectives, seconds, skew and times of the hand-in.
THEOREM CreditStays == ASSUME ObjectivesAssumption PROVE ObjectivesSpec => []CreditStaysWithItsAttack
<1>1. CreditInv => CreditStaysWithItsAttack
  BY CreditFromTheInvariant DEF CreditStaysWithItsAttack
<1> QED BY <1>1, CreditInvariant, PTL

-----------------------------------------------------------------------------
(* What one run keeps of all that a session keeps. *)

SessionInv ==
    /\ SiteInv /\ WafInv /\ LearnerInv /\ LessonKept
    /\ CreditInv /\ EvidenceInv /\ EvidenceTyped

\* Whatever a behaviour is about, each part takes a step of its own or none.
LEMMA SessionPartsStep ==
    ASSUME [Next]_vars
    PROVE  /\ [SiteNext]_siteVars /\ [WafNext]_wafVars /\ [LearnerNext]_learnerVars
           /\ [LessonNext]_lessonVars /\ [ObjectivesNext]_objectiveVars
           /\ [EvidenceNext]_evidenceVars
<1>1. CASE Next BY <1>1 DEF Next
<1>2. CASE UNCHANGED vars BY <1>2 DEF vars
<1> QED BY <1>1, <1>2

\* Every variable keeps its type and every part its invariant, whichever of
\* them a behaviour is about: the site browser, a PUT of the WAF, the learner of
\* a scenario, the steps of a lesson, the credit of objectives and the evidence.
THEOREM SessionStaysTyped ==
    ASSUME SessionAssumptions
    PROVE  Spec => [](SessionInv /\ SessionTypesOK)
<1> USE DEF SessionAssumptions
<1>1. Init => SessionInv
  BY SiteBeginsSo, WafBeginsSo, LearnerBeginsSo, LessonKeptBegins, CreditBeginsSo, EvidenceBeginsSo,
     EvidenceBeginsTyped DEF Init, SessionInv
<1>2. ASSUME SessionInv, [Next]_vars PROVE SessionInv'
  <2>1. /\ [SiteNext]_siteVars /\ [WafNext]_wafVars /\ [LearnerNext]_learnerVars
        /\ [LessonNext]_lessonVars /\ [ObjectivesNext]_objectiveVars
        /\ [EvidenceNext]_evidenceVars
    BY <1>2, SessionPartsStep
  <2>2. SiteInv' /\ WafInv' BY <1>2, <2>1, SiteStaysSo, WafStaysSo DEF SessionInv
  <2>3. LearnerInv' /\ LessonKept' BY <1>2, <2>1, LearnerStaysSo, LessonStaysKept DEF SessionInv
  <2>4. CreditInv' BY <1>2, <2>1, CreditStaysSo DEF SessionInv
  <2>5. EvidenceInv' /\ EvidenceTyped'
    BY <1>2, <2>1, EvidenceStaysSo, EvidenceStaysTyped DEF SessionInv
  <2> QED BY <2>2, <2>3, <2>4, <2>5 DEF SessionInv
<1>3. SessionInv => SessionTypesOK
  BY LearnerIsTyped, EvidenceIsTyped
  DEF SessionInv, SiteInv, SiteTyped, WafInv, LessonKept, CreditInv, SessionTypesOK
<1> QED BY <1>1, <1>2, <1>3, PTL DEF Spec
=============================================================================
