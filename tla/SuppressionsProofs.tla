------------------------- MODULE SuppressionsProofs -------------------------
(***************************************************************************)
(* Proofs about Suppressions, for any number of sensors, records, sessions *)
(* and threads.                                                            *)
(***************************************************************************)
EXTENDS Suppressions, FiniteSetTheorems, TLAPS

\* A rule file goes in, rule files come out.  A refusal leaves sensor 1 with the
\* file it had, and so does a change that breaks off while every sensor answers.
LEMMA WrittenFiles ==
    ASSUME TypeOK, NEW content \in Files
    PROVE  /\ Takes(content) => /\ files' \in [Sensors -> Files]
                                /\ torn' \in BOOLEAN
                                /\ files'[1] = content
           /\ FallsThrough(content) => /\ files' \in [Sensors -> Files]
                                       /\ torn' \in BOOLEAN
                                       /\ "unreachable" \notin Ways => files'[1] = files[1]
           /\ SeedingBreaks(content) => /\ files' \in [Sensors -> Files]
                                        /\ torn' \in BOOLEAN
                                        /\ files'[1] \in {content, files[1]}
<1>1. 1 \in Sensors
  BY SuppressionAssumption DEF Sensors
<1>2. ASSUME Takes(content)
      PROVE  files' \in [Sensors -> Files] /\ torn' \in BOOLEAN /\ files'[1] = content
  BY <1>1, <1>2 DEF Takes, Applied
<1>3. ASSUME NEW j \in 0..N, NEW k \in 0..N
      PROVE  /\ Halfway(content, j, k) \in [Sensors -> Files]
             /\ Halfway(content, j, k)[1] \in {content, files[1]}
             /\ 1 <= j => Halfway(content, j, k)[1] = files[1]
             /\ j = k => Halfway(content, j, k)[1] = files[1]
  BY <1>1 DEF Halfway, TypeOK, Sensors
<1>4. ASSUME FallsThrough(content)
      PROVE  /\ files' \in [Sensors -> Files] /\ torn' \in BOOLEAN
             /\ "unreachable" \notin Ways => files'[1] = files[1]
  <2>1. CASE files' \in Refused(content) /\ UNCHANGED torn
    BY <1>3, <2>1, SuppressionAssumption DEF Refused, TypeOK
  <2>2. CASE files' \in Torn(content) /\ torn' = TRUE
    BY <1>3, <2>2, SuppressionAssumption DEF Torn
  <2>3. QED
    BY <1>4, <2>1, <2>2 DEF FallsThrough
<1>5. ASSUME SeedingBreaks(content)
      PROVE  /\ files' \in [Sensors -> Files] /\ torn' \in BOOLEAN
             /\ files'[1] \in {content, files[1]}
  BY <1>3, <1>5, SuppressionAssumption DEF SeedingBreaks
<1>6. QED
  BY <1>2, <1>4, <1>5

\* A reset or a configuration that breaks off leaves starting files beside the
\* files there were.
LEMMA SomeSeededFiles ==
    ASSUME TypeOK, SomeSeeded
    PROVE  /\ files' \in [Sensors -> Files] /\ torn' \in BOOLEAN
           /\ files'[1] \in {Starting, files[1]}
<1>1. Starting \in Files /\ 1 \in Sensors
  BY SuppressionAssumption DEF Starting, Files, Sensors
<1>2. QED
  BY <1>1 DEF SomeSeeded, TypeOK

\* What a handler leaves behind when it answers has its type.
LEMMA ReturnTypes ==
    ASSUME TypeOK, Named, NEW t \in Threads, Return(t),
           \A r \in Records : state[r] # "absent" => state'[r] # "absent"
    PROVE  /\ pc' \in [Threads -> {"idle", "sweeping", "suppressing", "silencing",
                                   "lifting", "editing"}]
           /\ list' \in [Threads -> SUBSET Records]
           /\ about' \in [Threads -> Sessions \cup Records \cup {None}]
           /\ copy' \in [Threads -> [base : Files, edited : Files]]
           /\ Named'
<1>1. Starting \in Files
  BY SuppressionAssumption DEF Starting, Files
<1>2. /\ pc' \in [Threads -> {"idle", "sweeping", "suppressing", "silencing",
                              "lifting", "editing"}]
      /\ list' \in [Threads -> SUBSET Records]
      /\ about' \in [Threads -> Sessions \cup Records \cup {None}]
  BY DEF TypeOK, Return
<1>3. copy' \in [Threads -> [base : Files, edited : Files]]
  BY <1>1 DEF TypeOK, Return
<1>4. ASSUME NEW u \in Threads
      PROVE  /\ pc'[u] \in {"suppressing", "silencing", "editing"} => about'[u] \in Sessions
             /\ pc'[u] = "lifting" => about'[u] \in Records /\ state'[about'[u]] # "absent"
             /\ \A r \in list'[u] : state'[r] # "absent"
             /\ copy'[u].edited.marks \subseteq copy'[u].base.marks
  <2>1. CASE u = t
    BY <2>1 DEF TypeOK, Return
  <2>2. CASE u # t
    BY <2>2 DEF TypeOK, Named, Return
  <2>3. QED
    BY <2>1, <2>2
<1>5. QED
  BY <1>2, <1>3, <1>4 DEF Named

\* Lifting a record keeps the files and the records in their types.
LEMMA LiftTypes ==
    ASSUME TypeOK, NEW r \in Records, Lifts(r)
    PROVE  /\ files' \in [Sensors -> Files] /\ torn' \in BOOLEAN
           /\ state' \in [Records -> {"absent", "kept", "restored"}]
           /\ due' \in SUBSET {q \in Records : state'[q] = "kept"}
           /\ \A q \in Records : state[q] # "absent" => state'[q] # "absent"
<1>1. ASSUME Restored({r})
      PROVE  /\ state' \in [Records -> {"absent", "kept", "restored"}]
             /\ due' \in SUBSET {q \in Records : state'[q] = "kept"}
             /\ \A q \in Records : state[q] # "absent" => state'[q] # "absent"
  BY <1>1 DEF TypeOK, Restored, Kept
<1>2. ASSUME UNCHANGED <<state, due>>
      PROVE  /\ state' \in [Records -> {"absent", "kept", "restored"}]
             /\ due' \in SUBSET {q \in Records : state'[q] = "kept"}
             /\ \A q \in Records : state[q] # "absent" => state'[q] # "absent"
  BY <1>2 DEF TypeOK, Kept
<1>3. ASSUME NEW m \in Copies(r) PROVE Without(m) \in Files
  <2>1. files[1] \in Files /\ m \in Records
    BY SuppressionAssumption DEF TypeOK, Copies, Sensors, Files
  <2>2. QED
    BY <2>1 DEF TypeOK, Without, Files
<1>4. CASE Copies(r) = {} /\ Restored({r}) /\ UNCHANGED rules
  BY <1>1, <1>4 DEF TypeOK, rules
<1>5. ASSUME NEW m \in Copies(r), Takes(Without(m)) \/ FallsThrough(Without(m))
      PROVE  files' \in [Sensors -> Files] /\ torn' \in BOOLEAN
  BY <1>3, <1>5, WrittenFiles
<1>6. CASE Restored({r}) /\ UNCHANGED rules
  BY <1>1, <1>6 DEF TypeOK, rules
<1>7. QED
  BY <1>1, <1>2, <1>4, <1>5, <1>6 DEF Lifts

LEMMA InitTyped == Init => TypeOK /\ Named
<1>1. Starting \in Files
  BY SuppressionAssumption DEF Starting, Files
<1>2. Init => TypeOK
  <2>1. Init => torn \in BOOLEAN
    BY Zenon DEF Init
  <2>2. QED
    BY <1>1, <2>1 DEF Init, TypeOK, Kept
<1>3. Init => Named
  BY DEF Init, Named
<1>4. QED
  BY <1>2, <1>3

\* The inductive step of the type invariant.
LEMMA NextTyped == TypeOK /\ Named /\ [Next]_vars => TypeOK' /\ Named'
<1> SUFFICES ASSUME TypeOK, Named, [Next]_vars PROVE TypeOK' /\ Named'
  OBVIOUS
<1> USE DEF TypeOK, rules
<1>1. Starting \in Files /\ 1 \in Sensors
  BY SuppressionAssumption DEF Starting, Files, Sensors
<1>2. ASSUME NEW t \in Threads, SweepBegins(t) PROVE TypeOK' /\ Named'
  <2>1. TypeOK'
    <3>1. due \in SUBSET Records
      BY DEF Kept
    <3>2. list' \in [Threads -> SUBSET Records]
      BY <1>2, <3>1 DEF SweepBegins
    <3>3. pc' \in [Threads -> {"idle", "sweeping", "suppressing", "silencing",
                               "lifting", "editing"}]
      BY <1>2 DEF SweepBegins
    <3>4. about' \in [Threads -> Sessions \cup Records \cup {None}]
      BY <1>2 DEF SweepBegins
    <3>5. QED
      BY <1>2, <3>2, <3>3, <3>4 DEF SweepBegins, Kept, records, slot
  <2>2. ASSUME NEW u \in Threads
        PROVE  /\ pc'[u] \in {"suppressing", "silencing", "editing"} => about'[u] \in Sessions
               /\ pc'[u] = "lifting" => about'[u] \in Records /\ state'[about'[u]] # "absent"
               /\ \A r \in list'[u] : state'[r] # "absent"
               /\ copy'[u].edited.marks \subseteq copy'[u].base.marks
    <3>1. CASE pc' = [pc EXCEPT ![t] = "sweeping"] /\ about' = about
      BY <1>2, <3>1 DEF SweepBegins, Named, Kept, records
    <3>2. CASE /\ open # None /\ pc' = [pc EXCEPT ![t] = "suppressing"]
               /\ about' = [about EXCEPT ![t] = open]
      BY <1>2, <3>2 DEF SweepBegins, Named, Kept, records
    <3>3. QED
      BY <1>2, <3>1, <3>2 DEF SweepBegins
  <2>3. QED
    BY <2>1, <2>2 DEF Named
<1>3. ASSUME NEW t \in Threads, SweepEnds(t) PROVE TypeOK' /\ Named'
  BY <1>3, ReturnTypes DEF SweepEnds, Kept, records, slot
<1>4. ASSUME NEW t \in Threads, SuppressBegins(t) PROVE TypeOK' /\ Named'
  BY <1>4 DEF SuppressBegins, Named, Kept, records, slot
<1>5. ASSUME NEW t \in Threads, RequestFails(t) PROVE TypeOK' /\ Named'
  BY <1>5, ReturnTypes DEF RequestFails, Kept, records, slot
<1>6. ASSUME NEW t \in Threads, NEW r \in Records, Silences(t, r) PROVE TypeOK' /\ Named'
  <2> DEFINE silenced == [active |-> None, marks |-> files[1].marks \cup {r}]
  <2>1. silenced \in Files
    BY <1>1 DEF Files
  <2>2. files' \in [Sensors -> Files] /\ torn' \in BOOLEAN
    BY <1>6, <2>1, WrittenFiles DEF Silences
  <2>3. about[t] \in Sessions
    BY <1>6 DEF Silences, Named
  <2>4. original' \in [Records -> Texts \cup {None}]
    BY <1>1, <1>6 DEF Silences, Files
  <2>5. /\ state' \in [Records -> {"absent", "kept", "restored"}]
        /\ session' \in [Records -> Sessions \cup {None}]
        /\ fresh' \in SUBSET Records
    BY <1>6, <2>3 DEF Silences
  <2>6. due' \in SUBSET {q \in Records : state'[q] = "kept"}
    BY <1>6 DEF Silences, Kept
  <2>7. QED
    BY <1>6, <2>2, <2>4, <2>5, <2>6, ReturnTypes DEF Silences, Kept, slot
<1>7. ASSUME NEW t \in Threads, NEW r \in Records, SweepVisits(t, r) PROVE TypeOK' /\ Named'
  <2>1. /\ files' \in [Sensors -> Files] /\ torn' \in BOOLEAN
        /\ state' \in [Records -> {"absent", "kept", "restored"}]
        /\ due' \in SUBSET {q \in Records : state'[q] = "kept"}
        /\ \A q \in Records : state[q] # "absent" => state'[q] # "absent"
    BY <1>7, LiftTypes DEF SweepVisits, Kept
  <2>2. QED
    BY <1>7, <2>1 DEF SweepVisits, Named, Kept, slot
<1>8. ASSUME NEW t \in Threads, NEW r \in Records, LiftBegins(t, r) PROVE TypeOK' /\ Named'
  BY <1>8 DEF LiftBegins, Named, Kept, records, slot
<1>9. ASSUME NEW t \in Threads, LiftEnds(t) PROVE TypeOK' /\ Named'
  <2>1. about[t] \in Records
    BY <1>9 DEF LiftEnds, Named
  <2>2. /\ files' \in [Sensors -> Files] /\ torn' \in BOOLEAN
        /\ state' \in [Records -> {"absent", "kept", "restored"}]
        /\ due' \in SUBSET {q \in Records : state'[q] = "kept"}
        /\ \A q \in Records : state[q] # "absent" => state'[q] # "absent"
    BY <1>9, <2>1, LiftTypes DEF LiftEnds, Kept
  <2>3. QED
    BY <1>9, <2>2, ReturnTypes DEF LiftEnds, Kept, slot
<1>10. ASSUME NEW r \in Records, Expires(r) PROVE TypeOK' /\ Named'
  BY <1>10 DEF Expires, Named, Kept, slot, requests
<1>11. ASSUME NEW t \in Threads, EditBegins(t) PROVE TypeOK' /\ Named'
  <2>1. PICK edited \in [active : Texts, marks : SUBSET files[1].marks] :
            copy' = [copy EXCEPT ![t] = [base |-> files[1], edited |-> edited]]
    BY <1>11 DEF EditBegins
  <2>2. files[1] \in Files /\ edited \in Files /\ edited.marks \subseteq files[1].marks
    BY <1>1 DEF Files
  <2>3. copy' \in [Threads -> [base : Files, edited : Files]]
    BY <2>1, <2>2
  <2>4. ASSUME NEW u \in Threads PROVE copy'[u].edited.marks \subseteq copy'[u].base.marks
    BY <2>1, <2>2 DEF Named
  <2>5. QED
    BY <1>11, <2>3, <2>4 DEF EditBegins, Named, Kept, records, slot
<1>12. ASSUME NEW t \in Threads, EditApplies(t) PROVE TypeOK' /\ Named'
  <2>1. copy[t].edited \in Files
    OBVIOUS
  <2>2. files' \in [Sensors -> Files] /\ torn' \in BOOLEAN
    BY <1>12, <2>1, WrittenFiles DEF EditApplies
  <2>3. QED
    BY <1>12, <2>2, ReturnTypes DEF EditApplies, Kept, records, slot
<1>13. CASE PostureSeeds
  <2>1. PICK text \in Texts :
            LET content == [active |-> text, marks |-> {}]
            IN  \/ Takes(content) /\ UNCHANGED <<open, ended>>
                \/ SeedingBreaks(content) /\ UNCHANGED <<open, ended>>
                \/ SeedingBreaks(content) /\ open' = None /\ ended' = ended \cup {open}
    BY <1>13 DEF PostureSeeds
  <2>2. [active |-> text, marks |-> {}] \in Files
    BY DEF Files
  <2>3. files' \in [Sensors -> Files] /\ torn' \in BOOLEAN
    BY <2>1, <2>2, WrittenFiles
  <2>4. open' \in Sessions \cup {None} /\ ended' \in SUBSET Sessions
    BY <1>13, <2>1 DEF PostureSeeds
  <2>5. QED
    BY <1>13, <2>3, <2>4 DEF PostureSeeds, Named, Kept, records, requests
<1>14. CASE OperatorConfigures
  <2>1. files' \in [Sensors -> Files] /\ torn' \in BOOLEAN
    BY <1>1, <1>14, WrittenFiles, SomeSeededFiles DEF OperatorConfigures
  <2>2. phase' \in {"idle", "closing", "resetting", "failed"}
    BY <1>14 DEF OperatorConfigures
  <2>3. QED
    BY <1>14, <2>1, <2>2 DEF OperatorConfigures, Named, Kept, records, requests
<1>15. ASSUME NEW x \in Sessions, Opens(x) PROVE TypeOK' /\ Named'
  BY <1>15 DEF Opens, Named, Kept, records, requests
<1>16. CASE CloseMarks
  BY <1>16 DEF CloseMarks, Named, Kept, requests
<1>17. CASE CloseBreaks
  BY <1>17 DEF CloseBreaks, Named, Kept, records, requests
<1>18. CASE CloseLifts
  BY <1>18 DEF CloseLifts, Restored, Named, Kept, requests
<1>19. CASE ResetClears
  BY <1>1, <1>19, WrittenFiles DEF ResetClears, Named, Kept, records, requests
<1>20. CASE ResetFails
  BY <1>20, SomeSeededFiles DEF ResetFails, Named, Kept, records, requests
<1>21. CASE Restart
  BY <1>1, <1>21 DEF Restart, Named, Kept, records
<1>22. CASE UNCHANGED vars
  BY <1>22 DEF vars, records, slot, requests, Named, Kept
<1>23. QED
  BY <1>2, <1>3, <1>4, <1>5, <1>6, <1>7, <1>8, <1>9, <1>10, <1>11, <1>12, <1>13, <1>14,
     <1>15, <1>16, <1>17, <1>18, <1>19, <1>20, <1>21, <1>22 DEF Next, Request, SlotStep

\* Rule files, records, sessions and requests keep their types.
THEOREM TypeCorrect == Spec => [](TypeOK /\ Named)
<1>1. Init => TypeOK /\ Named
  BY InitTyped
<1>2. TypeOK /\ Named /\ [Next]_vars => TypeOK' /\ Named'
  BY NextTyped
<1>3. QED
  BY <1>1, <1>2, PTL DEF Spec

-----------------------------------------------------------------------------
(* The sensors of a slot hold one file, unless a change or a seeding broke    *)
(* off and no file reached them all since.                                    *)

LEMMA WrittenAlike ==
    ASSUME SensorsAgree, TypeOK, NEW content,
           \/ Takes(content) \/ FallsThrough(content)
           \/ SeedingBreaks(content) \/ SomeSeeded
    PROVE  SensorsAgree'
<1>1. 1 \in Sensors
  BY SuppressionAssumption DEF Sensors
<1>2. CASE Takes(content)
  BY <1>1, <1>2 DEF Takes, Applied, SensorsAgree
<1>3. ASSUME NEW k \in 0..(N - 1), files' = Halfway(content, k, k), UNCHANGED torn, ~torn
      PROVE  \A s \in Sensors : files'[s] = files'[1]
  BY <1>1, <1>3 DEF Halfway, SensorsAgree, Sensors
<1>4. CASE files' \in Refused(content) /\ UNCHANGED torn
  BY <1>3, <1>4 DEF Refused, SensorsAgree
<1>5. CASE torn' = TRUE
  BY <1>5 DEF SensorsAgree
<1>6. QED
  BY <1>2, <1>4, <1>5 DEF FallsThrough, SeedingBreaks, SomeSeeded

LEMMA LiftedAlike ==
    ASSUME SensorsAgree, TypeOK, NEW r \in Records, Lifts(r)
    PROVE  SensorsAgree'
<1>1. CASE UNCHANGED rules
  BY <1>1 DEF SensorsAgree, rules
<1>2. ASSUME NEW m \in Copies(r), Takes(Without(m)) \/ FallsThrough(Without(m))
      PROVE  SensorsAgree'
  BY <1>2, WrittenAlike
<1>3. QED
  BY <1>1, <1>2 DEF Lifts

\* A file that a sensor refuses leaves no other sensor with it.  Once a change or
\* a seeding has broken off, as it does when a sensor does not load what it is
\* seeded with, the sensors may differ until a file reaches all of them, and
\* every session begins with sensors that are alike.
THEOREM SensorsStayAlike == Spec => []SensorsAgree
<1>1. Init => SensorsAgree
  BY SuppressionAssumption DEF Init, SensorsAgree, Sensors
<1>2. TypeOK /\ Named /\ SensorsAgree /\ [Next]_vars => SensorsAgree'
  <2> SUFFICES ASSUME TypeOK, Named, SensorsAgree, [Next]_vars PROVE SensorsAgree'
    OBVIOUS
  <2>1. CASE UNCHANGED rules
    BY <2>1 DEF SensorsAgree, rules
  <2>2. CASE OperatorConfigures \/ ResetClears \/ ResetFails
    BY <2>2, WrittenAlike DEF OperatorConfigures, ResetClears, ResetFails
  <2>3. ASSUME NEW t \in Threads, NEW r \in Records, Silences(t, r) PROVE SensorsAgree'
    BY <2>3, WrittenAlike DEF Silences
  <2>4. ASSUME NEW t \in Threads, NEW r \in Records, SweepVisits(t, r) PROVE SensorsAgree'
    BY <2>1, <2>4, LiftedAlike DEF SweepVisits
  <2>5. ASSUME NEW t \in Threads, LiftEnds(t) PROVE SensorsAgree'
    BY <2>1, <2>5, LiftedAlike DEF LiftEnds, Named
  <2>6. ASSUME NEW t \in Threads, EditApplies(t) PROVE SensorsAgree'
    BY <2>6, WrittenAlike DEF EditApplies
  <2>7. CASE PostureSeeds
    BY <2>7, WrittenAlike DEF PostureSeeds
  <2>8. ASSUME NEW x \in Sessions, Opens(x) PROVE SensorsAgree'
    BY <2>8, SuppressionAssumption DEF Opens, SensorsAgree, Sensors
  <2>9. QED
    BY <2>1, <2>2, <2>3, <2>4, <2>5, <2>6, <2>7, <2>8
       DEF Next, Request, SlotStep, vars, SweepBegins, SweepEnds, SuppressBegins, RequestFails,
           LiftBegins, Expires, EditBegins, CloseMarks, CloseBreaks, CloseLifts, Restart
<1>3. QED
  BY <1>1, <1>2, TypeCorrect, PTL DEF Spec

-----------------------------------------------------------------------------
(* No rule stays silenced for good: counted by wording, the commented copies  *)
(* never outnumber the records still to be restored.                          *)

\* The editors say which version they loaded, sensors answer, and an ended
\* session's sensor is not taken for gone while it is only silent.
Orderly == {"blind", "unreachable", "gone"} \cap Ways = {}

LEMMA CountsFinite ==
    ASSUME TypeOK, NEW text
    PROVE  IsFiniteSet(MarksOf(text)) /\ IsFiniteSet(KeptOf(text))
<1>1. MarksOf(text) \subseteq Records /\ KeptOf(text) \subseteq Records
  BY SuppressionAssumption DEF TypeOK, MarksOf, KeptOf, Kept, Sensors, Files
<1>2. QED
  BY <1>1, SuppressionAssumption, FS_Subset

\* Fewer copies and the same records, or more records.
LEMMA StillCovered ==
    ASSUME TypeOK, TypeOK', open' = open, SilencedRulesComeBack, original' = original,
           files'[1].marks \subseteq files[1].marks, Kept \subseteq Kept'
    PROVE  SilencedRulesComeBack'
<1> SUFFICES ASSUME open # None, NEW text \in Texts
             PROVE  Cardinality(MarksOf(text)') <= Cardinality(KeptOf(text)')
  BY DEF SilencedRulesComeBack, MarksOf, KeptOf
<1>1. Cardinality(MarksOf(text)) <= Cardinality(KeptOf(text))
  BY DEF SilencedRulesComeBack
<1>2. MarksOf(text)' \subseteq MarksOf(text) /\ KeptOf(text) \subseteq KeptOf(text)'
  BY DEF MarksOf, KeptOf
<1>3. /\ IsFiniteSet(MarksOf(text)) /\ IsFiniteSet(KeptOf(text))
      /\ IsFiniteSet(MarksOf(text)') /\ IsFiniteSet(KeptOf(text)')
  BY CountsFinite, SuppressionAssumption, FS_Subset DEF TypeOK, MarksOf, KeptOf, Kept, Files, Sensors
<1>4. /\ Cardinality(MarksOf(text)') <= Cardinality(MarksOf(text))
      /\ Cardinality(KeptOf(text)) <= Cardinality(KeptOf(text)')
  BY <1>2, <1>3, FS_Subset
<1>5. QED
  BY <1>1, <1>3, <1>4, FS_CardinalityType

\* A record goes together with one copy of its wording, or has none.
LEMMA LiftCovered ==
    ASSUME TypeOK, TypeOK', Orderly, NEW r \in Kept, Lifts(r), original' = original,
           open' = open, SilencedRulesComeBack
    PROVE  SilencedRulesComeBack'
<1>0. files[1] \in Files /\ 1 \in Sensors
  BY SuppressionAssumption DEF TypeOK, Sensors
<1>1. CASE UNCHANGED <<state, due>> /\ files'[1] = files[1]
  BY <1>1, StillCovered DEF Kept
<1> SUFFICES ASSUME open # None, NEW text \in Texts, Restored({r})
             PROVE  Cardinality(MarksOf(text)') <= Cardinality(KeptOf(text)')
  <2>1. SUFFICES ASSUME ~Restored({r}) PROVE SilencedRulesComeBack'
    BY DEF SilencedRulesComeBack, MarksOf, KeptOf
  <2>2. PICK m \in Copies(r) : FallsThrough(Without(m)) /\ UNCHANGED <<state, due>>
    BY <2>1 DEF Lifts
  <2>3. Without(m) \in Files
    BY <1>0 DEF Copies, Without, TypeOK, Files
  <2>4. files'[1] = files[1]
    BY <2>2, <2>3, WrittenFiles DEF Orderly
  <2>5. QED
    BY <1>1, <2>2, <2>4
<1>2. Cardinality(MarksOf(text)) <= Cardinality(KeptOf(text))
  BY DEF SilencedRulesComeBack
<1>3. Kept' = Kept \ {r}
  BY DEF Restored, Kept, TypeOK
<1>4. IsFiniteSet(MarksOf(text)) /\ IsFiniteSet(KeptOf(text))
  BY CountsFinite
<1>5. /\ Cardinality(MarksOf(text)) \in Nat /\ Cardinality(KeptOf(text)) \in Nat
  BY <1>4, FS_CardinalityType
<1>6. CASE original[r] # text
  <2>1. KeptOf(text)' = KeptOf(text)
    BY <1>3, <1>6 DEF KeptOf
  <2>2. files'[1].marks \subseteq files[1].marks
    <3>1. CASE UNCHANGED rules
      BY <3>1 DEF rules
    <3>2. ASSUME NEW m \in Copies(r), Takes(Without(m)) \/ FallsThrough(Without(m))
          PROVE  files'[1].marks \subseteq files[1].marks
      <4>1. Without(m) \in Files /\ Without(m).marks \subseteq files[1].marks
        BY <1>0 DEF Copies, Without, TypeOK, Files
      <4>2. QED
        BY <3>2, <4>1, WrittenFiles DEF Orderly
    <3>3. QED
      BY <3>1, <3>2 DEF Lifts
  <2>3. MarksOf(text)' \subseteq MarksOf(text)
    BY <2>2 DEF MarksOf
  <2>4. Cardinality(MarksOf(text)') <= Cardinality(MarksOf(text))
    BY <1>4, <2>3, FS_Subset
  <2>5. IsFiniteSet(MarksOf(text)')
    BY <1>4, <2>3, FS_Subset
  <2>6. Cardinality(MarksOf(text)') \in Nat
    BY <2>5, FS_CardinalityType
  <2>7. QED
    BY <1>2, <1>5, <2>1, <2>4, <2>6
<1>7. CASE original[r] = text
  <2>1. KeptOf(text)' = KeptOf(text) \ {r} /\ r \in KeptOf(text)
    BY <1>3, <1>7 DEF KeptOf
  <2>2. Cardinality(KeptOf(text)') = Cardinality(KeptOf(text)) - 1
    BY <1>4, <2>1, FS_RemoveElement
  <2>3. CASE Copies(r) = {}
    <3>1. MarksOf(text) = {} /\ files' = files
      BY <1>7, <2>3 DEF MarksOf, Copies, Lifts, Orderly, rules
    <3>2. MarksOf(text)' = {}
      BY <3>1 DEF MarksOf
    <3>3. IsFiniteSet(KeptOf(text)')
      BY <1>4, <2>1, FS_Subset
    <3>4. QED
      BY <3>2, <3>3, FS_EmptySet, FS_CardinalityType
  <2>4. ASSUME NEW m \in Copies(r), Takes(Without(m))
        PROVE  Cardinality(MarksOf(text)') <= Cardinality(KeptOf(text)')
    <3>1. Without(m) \in Files /\ Without(m).marks = files[1].marks \ {m}
      BY <1>0, <2>4 DEF Copies, Without, TypeOK, Files
    <3>2. files'[1].marks = files[1].marks \ {m}
      BY <2>4, <3>1, WrittenFiles
    <3>3. MarksOf(text)' = MarksOf(text) \ {m} /\ m \in MarksOf(text)
      BY <1>7, <2>4, <3>2 DEF MarksOf, Copies
    <3>4. Cardinality(MarksOf(text)') = Cardinality(MarksOf(text)) - 1
      BY <1>4, <3>3, FS_RemoveElement
    <3>5. QED
      BY <1>2, <1>5, <2>2, <3>4
  <2>5. state' # state
    BY DEF Restored, Kept
  <2>6. QED
    BY <2>3, <2>4, <2>5 DEF Lifts, Orderly
<1>8. QED
  BY <1>6, <1>7

LEMMA SilenceCovered ==
    ASSUME TypeOK, TypeOK', Orderly, NEW t \in Threads, NEW r \in Records, Silences(t, r),
           SilencedRulesComeBack
    PROVE  SilencedRulesComeBack'
<1> DEFINE silenced == [active |-> None, marks |-> files[1].marks \cup {r}]
<1>1. files[1] \in Files /\ 1 \in Sensors /\ silenced \in Files
  BY SuppressionAssumption DEF TypeOK, Sensors, Files
<1>2. r \notin files[1].marks /\ r \notin Kept /\ open' = open
  BY <1>1 DEF Silences, Kept, slot
<1>3. \A q \in Records : q # r => original'[q] = original[q]
  BY DEF Silences, TypeOK
<1> SUFFICES ASSUME open # None, NEW text \in Texts
             PROVE  Cardinality(MarksOf(text)') <= Cardinality(KeptOf(text)')
  BY <1>2 DEF SilencedRulesComeBack, MarksOf, KeptOf
<1>4. /\ Cardinality(MarksOf(text)) <= Cardinality(KeptOf(text))
      /\ IsFiniteSet(MarksOf(text)) /\ IsFiniteSet(KeptOf(text))
      /\ Cardinality(MarksOf(text)) \in Nat /\ Cardinality(KeptOf(text)) \in Nat
  BY CountsFinite, FS_CardinalityType DEF SilencedRulesComeBack
<1>5. r \notin MarksOf(text) /\ r \notin KeptOf(text)
  BY <1>2 DEF MarksOf, KeptOf
<1>6. CASE FallsThrough(silenced) /\ state' = state
  <2>1. files'[1] = files[1]
    BY <1>1, <1>6, WrittenFiles DEF Orderly
  <2>2. MarksOf(text)' = MarksOf(text) /\ KeptOf(text)' = KeptOf(text)
    BY <1>1, <1>2, <1>3, <1>6, <2>1 DEF MarksOf, KeptOf, Kept, Files
  <2>3. QED
    BY <1>4, <2>2
<1>7. CASE Takes(silenced) /\ state' = [state EXCEPT ![r] = "kept"]
  <2>1. files'[1].marks = files[1].marks \cup {r} /\ Kept' = Kept \cup {r}
    BY <1>1, <1>7, WrittenFiles DEF TypeOK, Kept
  <2>2. CASE original'[r] = text
    <3>1. MarksOf(text)' = MarksOf(text) \cup {r} /\ KeptOf(text)' = KeptOf(text) \cup {r}
      BY <1>1, <1>2, <1>3, <2>1, <2>2 DEF MarksOf, KeptOf, Kept, Files
    <3>2. /\ Cardinality(MarksOf(text)') = Cardinality(MarksOf(text)) + 1
          /\ Cardinality(KeptOf(text)') = Cardinality(KeptOf(text)) + 1
      BY <1>4, <1>5, <3>1, FS_AddElement
    <3>3. QED
      BY <1>4, <3>2
  <2>3. CASE original'[r] # text
    <3>1. MarksOf(text)' = MarksOf(text) /\ KeptOf(text)' = KeptOf(text)
      BY <1>1, <1>2, <1>3, <2>1, <2>3 DEF MarksOf, KeptOf, Kept, Files
    <3>2. QED
      BY <1>4, <3>1
  <2>4. QED
    BY <2>2, <2>3
<1>8. QED
  BY <1>6, <1>7 DEF Silences

LEMMA ClosingHasEndedNext == TypeOK /\ ClosingHasEnded /\ [Next]_vars => ClosingHasEnded'
  BY DEF TypeOK, ClosingHasEnded, Next, Request, SlotStep, vars, slot, SweepBegins, SweepEnds,
         SuppressBegins, Silences, RequestFails, SweepVisits, LiftBegins, LiftEnds, Expires,
         EditBegins, EditApplies, PostureSeeds, OperatorConfigures, Opens, CloseMarks,
         CloseBreaks, CloseLifts, ResetClears, ResetFails, Restart

\* With editors that name the version they loaded and sensors that answer, a
\* rule silenced in an open session always has a record that will restore it.
THEOREM NoRuleStaysSilenced ==
    ASSUME Orderly PROVE Spec => [](ClosingHasEnded /\ SilencedRulesComeBack)
<1>1. Init => ClosingHasEnded /\ SilencedRulesComeBack
  BY DEF Init, ClosingHasEnded, SilencedRulesComeBack
<1>2. TypeOK /\ ClosingHasEnded /\ [Next]_vars => ClosingHasEnded'
  BY ClosingHasEndedNext
<1>3. /\ TypeOK /\ TypeOK' /\ Named /\ ClosingHasEnded /\ SilencedRulesComeBack /\ [Next]_vars
      => SilencedRulesComeBack'
  <2> SUFFICES ASSUME TypeOK, TypeOK', Named, ClosingHasEnded, SilencedRulesComeBack, [Next]_vars
               PROVE  SilencedRulesComeBack'
    OBVIOUS
  <2>0. 1 \in Sensors /\ Starting \in Files /\ files[1] \in Files
    BY SuppressionAssumption DEF TypeOK, Sensors, Starting, Files
  <2>1. CASE open' = None
    BY <2>1 DEF SilencedRulesComeBack
  <2>2. CASE open' = open /\ original' = original /\ state' = state /\ UNCHANGED rules
    BY <2>2, StillCovered DEF Kept, rules
  <2>3. ASSUME NEW t \in Threads, NEW r \in Records, Silences(t, r) PROVE SilencedRulesComeBack'
    BY <2>3, SilenceCovered
  <2>4. ASSUME NEW t \in Threads, NEW r \in Records, SweepVisits(t, r)
        PROVE  SilencedRulesComeBack'
    <3>1. state[r] # "absent"
      BY <2>4 DEF SweepVisits, Named
    <3>2. QED
      BY <2>2, <2>4, <3>1, LiftCovered DEF SweepVisits, Kept, TypeOK, slot
  <2>5. ASSUME NEW t \in Threads, LiftEnds(t) PROVE SilencedRulesComeBack'
    BY <2>2, <2>5, LiftCovered DEF LiftEnds, Kept, TypeOK, Named, slot
  <2>6. ASSUME NEW t \in Threads, EditApplies(t) PROVE SilencedRulesComeBack'
    <3>1. copy[t].edited \in Files /\ copy[t].edited.marks \subseteq files[1].marks
      BY <2>6 DEF EditApplies, Orderly, Named, TypeOK
    <3>2. files'[1].marks \subseteq files[1].marks
      BY <2>6, <3>1, WrittenFiles DEF EditApplies, Orderly
    <3>3. QED
      BY <2>6, <3>2, StillCovered DEF EditApplies, records, slot, Kept
  <2>7. CASE PostureSeeds
    <3>1. PICK text \in Texts :
              \/ Takes([active |-> text, marks |-> {}])
              \/ SeedingBreaks([active |-> text, marks |-> {}])
      BY <2>7 DEF PostureSeeds
    <3>2. files'[1].marks \subseteq files[1].marks
      BY <2>0, <3>1, WrittenFiles DEF Files
    <3>3. QED
      BY <2>1, <2>7, <3>2, StillCovered DEF PostureSeeds, records, Kept
  <2>8. ASSUME NEW x \in Sessions, Opens(x) PROVE SilencedRulesComeBack'
    <3>1. files'[1].marks = {}
      BY <2>0, <2>8 DEF Opens, Starting
    <3>2. SUFFICES ASSUME NEW text \in Texts
                   PROVE  Cardinality(MarksOf(text)') <= Cardinality(KeptOf(text)')
      BY DEF SilencedRulesComeBack, MarksOf, KeptOf
    <3>3. MarksOf(text)' = {} /\ KeptOf(text)' = KeptOf(text)
      BY <2>8, <3>1 DEF MarksOf, KeptOf, Kept, Opens, records
    <3>4. QED
      BY <3>3, CountsFinite, FS_EmptySet, FS_CardinalityType
  <2>9. CASE OperatorConfigures
    <3>1. files'[1].marks \subseteq files[1].marks
      BY <2>0, <2>9, WrittenFiles, SomeSeededFiles DEF OperatorConfigures, Starting
    <3>2. QED
      BY <2>9, <3>1, StillCovered DEF OperatorConfigures, records, Kept
  <2>10. QED
    BY <2>1, <2>2, <2>3, <2>4, <2>5, <2>6, <2>7, <2>8, <2>9
       DEF Next, Request, SlotStep, vars, records, slot, ClosingHasEnded, SweepBegins, SweepEnds,
           SuppressBegins, RequestFails, LiftBegins, Expires, EditBegins, CloseMarks,
           CloseBreaks, CloseLifts, ResetClears, ResetFails, Restart
<1>4. QED
  BY <1>1, <1>2, <1>3, TypeCorrect, PTL DEF Spec

-----------------------------------------------------------------------------
(* A lift takes only the copy of its own record, while nothing but         *)
(* suppressions and lifts writes a file that has a rule silenced.          *)

Plain == Ways \subseteq {"gone", "restart", "opening", "unloaded"}

\* A rule that is silenced has one commented copy, and none while it is active.
OneCopy ==
    /\ files[1].active # None => files[1].marks = {}
    /\ \A m, q \in files[1].marks : m = q

\* Records and requests are of the open session or of one that was closed.
OfSessions ==
    /\ open \notin ended
    /\ \A r \in Kept : session[r] \in Sessions /\ session[r] \in {open} \cup ended
    /\ \A t \in Threads :
         pc[t] \in {"suppressing", "silencing"} => about[t] \in {open} \cup ended

\* The kept records of the open session, and those of earlier ones.
Own == {r \in Kept : session[r] = open}
Older == {r \in Kept : session[r] # open}

\* The copies in an open session's file are those of its own kept records.
\* Older ones have expired, so that the sweep before a suppression restores
\* them: none is left beside a record of the open session.
OwnCopies ==
    open # None =>
        /\ files[1].marks = Own
        /\ Older \subseteq due
        /\ Own # {} => Older = {}
        /\ \A t \in Threads : about[t] = open =>
               /\ pc[t] = "suppressing" => Older \subseteq list[t]
               /\ pc[t] = "silencing" => Older = {}

LiftInv == OneCopy /\ OfSessions /\ OwnCopies

NobodyEdits == \A t \in Threads : pc[t] # "editing"

\* A lift restores its record and takes its copy, or changes nothing that
\* sensor 1 holds.  While a session is open only its own record can fail.
LEMMA LiftTakesItsOwn ==
    ASSUME TypeOK, LiftInv, Plain, NEW r \in Kept, Lifts(r)
    PROVE  /\ OneCopy'
           /\ \/ UNCHANGED <<state, due>>
              \/ Kept' = Kept \ {r} /\ due' = due \ {r}
           /\ open # None =>
                \/ UNCHANGED <<state, due>> /\ files'[1] = files[1] /\ r \in Own
                \/ /\ Kept' = Kept \ {r} /\ due' = due \ {r}
                   /\ files'[1].marks = files[1].marks \ {r}
<1>1. 1 \in Sensors /\ files[1] \in Files /\ r \in Records
  BY SuppressionAssumption DEF TypeOK, Sensors, Kept
<1>2. Restored({r}) => Kept' = Kept \ {r} /\ due' = due \ {r}
  BY DEF Restored, Kept
<1>3. ASSUME NEW m \in Copies(r)
      PROVE  /\ Without(m) \in Files /\ Without(m).marks = {}
             /\ open # None => m = r /\ r \in Own
  <2>1. m \in files[1].marks /\ m \in Records
    BY <1>1 DEF Copies, Files
  <2>2. files[1].marks = {m}
    BY <2>1 DEF LiftInv, OneCopy
  <2>3. Without(m) \in Files /\ Without(m).marks = {}
    BY <1>1, <2>1, <2>2 DEF Without, Files, TypeOK
  <2>4. ASSUME open # None PROVE m = r /\ r \in Own
    <3>1. Own = {m} /\ Older = {}
      BY <2>2, <2>4 DEF LiftInv, OwnCopies
    <3>2. r \in Own
      BY <3>1 DEF Own, Older
    <3> QED BY <3>1, <3>2
  <2> QED BY <2>3, <2>4
<1>4. CASE Copies(r) = {} /\ Restored({r}) /\ UNCHANGED rules
  <2>1. r \notin files[1].marks
    BY <1>4 DEF Copies
  <2> QED BY <1>2, <1>4, <2>1 DEF LiftInv, OneCopy, rules
<1>5. ASSUME NEW m \in Copies(r), Takes(Without(m)), Restored({r})
      PROVE  /\ OneCopy' /\ Kept' = Kept \ {r} /\ due' = due \ {r}
             /\ open # None => files'[1].marks = files[1].marks \ {r}
  <2>1. files'[1].marks = {}
    BY <1>1, <1>3, <1>5, WrittenFiles
  <2>2. open # None => files[1].marks \ {r} = {}
    BY <1>3, <1>5 DEF LiftInv, OneCopy, Copies
  <2> QED BY <1>2, <1>5, <2>1, <2>2 DEF OneCopy
<1>6. ASSUME NEW m \in Copies(r), FallsThrough(Without(m)), UNCHANGED <<state, due>>
      PROVE  OneCopy' /\ files'[1] = files[1] /\ (open # None => r \in Own)
  <2>1. files'[1] = files[1]
    BY <1>3, <1>6, WrittenFiles DEF Plain
  <2> QED BY <1>3, <2>1 DEF LiftInv, OneCopy
<1>7. CASE session[r] \in ended /\ Restored({r}) /\ UNCHANGED rules
  <2>1. open # None => r \notin Own
    BY <1>7 DEF LiftInv, OfSessions, Own
  <2>2. open # None => r \notin files[1].marks
    BY <2>1 DEF LiftInv, OwnCopies
  <2> QED BY <1>2, <1>7, <2>2 DEF LiftInv, OneCopy, rules
<1> QED
  BY <1>4, <1>5, <1>6, <1>7 DEF Lifts

\* Steps that leave what sensor 1 holds, the records and the session alone.
LEMMA LiftFrame ==
    ASSUME TypeOK, LiftInv, files'[1] = files[1], UNCHANGED <<state, session, due, open, ended>>,
           \A t \in Threads : pc'[t] \in {"suppressing", "silencing"} =>
              \/ pc'[t] = pc[t] /\ about'[t] = about[t] /\ list'[t] = list[t]
              \/ about'[t] = open /\ pc'[t] = "suppressing" /\ list'[t] = due
              \/ /\ about'[t] = about[t] /\ about[t] = open
                 /\ pc[t] = "suppressing" /\ list[t] = {}
    PROVE  LiftInv'
<1>1. Kept' = Kept /\ Own' = Own /\ Older' = Older
  BY DEF Kept, Own, Older
<1>2. OneCopy'
  BY DEF LiftInv, OneCopy
<1>3. OfSessions'
  BY <1>1 DEF LiftInv, OfSessions
<1>4. OwnCopies'
  BY <1>1 DEF LiftInv, OwnCopies
<1> QED BY <1>2, <1>3, <1>4 DEF LiftInv

\* Lifting keeps the invariant, whoever asks for it.
LEMMA LiftKeeps ==
    ASSUME TypeOK, LiftInv, Plain, NEW r \in Kept, Lifts(r), UNCHANGED <<session, open, ended>>,
           \A t \in Threads : pc'[t] \in {"suppressing", "silencing"} =>
              /\ pc'[t] = pc[t] /\ about'[t] = about[t]
              /\ list[t] \ {r} \subseteq list'[t]
    PROVE  LiftInv'
<1>1. OneCopy'
  BY LiftTakesItsOwn
<1>2. Kept' \subseteq Kept
  BY LiftTakesItsOwn DEF Kept
<1>3. OfSessions'
  BY <1>2 DEF LiftInv, OfSessions
<1>4. ASSUME open # None PROVE OwnCopies'
  <2>1. CASE UNCHANGED <<state, due>> /\ files'[1] = files[1] /\ r \in Own
    <3>1. Own' = Own /\ Older' = {} /\ Older = {}
      BY <1>4, <2>1 DEF LiftInv, OwnCopies, Own, Older, Kept
    <3> QED BY <1>4, <2>1, <3>1 DEF LiftInv, OwnCopies
  <2>2. CASE /\ Kept' = Kept \ {r} /\ due' = due \ {r}
             /\ files'[1].marks = files[1].marks \ {r}
    <3>1. Own' = Own \ {r} /\ Older' = Older \ {r}
      BY <2>2 DEF Own, Older
    <3> QED BY <1>4, <2>2, <3>1 DEF LiftInv, OwnCopies
  <2> QED BY <1>4, <2>1, <2>2, LiftTakesItsOwn
<1> QED BY <1>1, <1>3, <1>4 DEF LiftInv, OwnCopies

LEMMA SilenceKeeps ==
    ASSUME TypeOK, Named, LiftInv, Plain, NEW t \in Threads, NEW r \in Records, Silences(t, r)
    PROVE  LiftInv'
<1>1. 1 \in Sensors /\ files[1] \in Files
  BY SuppressionAssumption DEF TypeOK, Sensors
<1> DEFINE silenced == [active |-> None, marks |-> files[1].marks \cup {r}]
<1>2. silenced \in Files /\ files[1].marks = {} /\ r \notin Kept
  BY <1>1 DEF Files, Silences, LiftInv, OneCopy, Kept
<1>3. /\ about[t] = open /\ pc[t] = "silencing" /\ UNCHANGED <<due, open, ended>>
      /\ \A u \in Threads : pc'[u] \in {"suppressing", "silencing"} =>
           pc'[u] = pc[u] /\ about'[u] = about[u] /\ list'[u] = list[u]
  BY DEF Silences, Plain, Return, slot, TypeOK
<1>4. CASE /\ Takes(silenced)
           /\ state' = [state EXCEPT ![r] = "kept"]
           /\ session' = [session EXCEPT ![r] = about[t]]
  <2>1. files'[1] = silenced
    BY <1>2, <1>4, WrittenFiles
  <2>2. Kept' = Kept \cup {r} /\ session'[r] = open /\ \A q \in Kept : session'[q] = session[q]
    BY <1>2, <1>3, <1>4 DEF TypeOK, Kept
  <2>3. OneCopy'
    BY <1>2, <2>1 DEF OneCopy
  <2>4. open \in Sessions /\ open # None
    BY <1>3, SuppressionAssumption DEF Named
  <2>5. Own = {} /\ Older = {} /\ Kept = {}
    BY <1>2, <1>3, <2>4 DEF LiftInv, OwnCopies, Own, Older
  <2>6. Own' = {r} /\ Older' = {} /\ Kept' = {r}
    BY <1>3, <2>2, <2>5 DEF Own, Older
  <2>7. OfSessions'
    BY <1>3, <2>2, <2>4, <2>6 DEF LiftInv, OfSessions
  <2>8. OwnCopies'
    BY <1>2, <1>3, <2>1, <2>6 DEF OwnCopies
  <2> QED BY <2>3, <2>7, <2>8 DEF LiftInv
<1>5. CASE FallsThrough(silenced) /\ UNCHANGED <<state, session>>
  <2>1. files'[1] = files[1]
    BY <1>2, <1>5, WrittenFiles DEF Plain
  <2> QED BY <1>3, <1>5, <2>1, LiftFrame
<1> QED BY <1>4, <1>5 DEF Silences

LEMMA LiftInvNext ==
    TypeOK /\ Named /\ ClosingHasEnded /\ NobodyEdits /\ LiftInv /\ Plain /\ [Next]_vars
    => LiftInv'
<1> SUFFICES ASSUME TypeOK, Named, ClosingHasEnded, NobodyEdits, LiftInv, Plain, [Next]_vars
             PROVE  LiftInv'
  OBVIOUS
<1>1. 1 \in Sensors /\ Starting \in Files
  BY SuppressionAssumption DEF Sensors, Starting, Files
<1>2. files[1].marks = {} => files[1].marks = Starting.marks
  BY DEF Starting
<1>3. ASSUME NEW t \in Threads, Request(t) PROVE LiftInv'
  <2>1. ASSUME NEW r \in Records, Silences(t, r) PROVE LiftInv'
    BY <2>1, SilenceKeeps
  <2>2. ASSUME NEW r \in Records, SweepVisits(t, r) PROVE LiftInv'
    <3>1. CASE state[r] = "restored"
      <4>1. r \notin Kept
        BY <3>1 DEF Kept
      <4>2. UNCHANGED <<files, state, session, due, open, ended, pc, about>>
        BY <2>2, <3>1 DEF SweepVisits, slot, rules
      <4>3. Kept' = Kept /\ Own' = Own /\ Older' = Older /\ r \notin Older
        BY <4>1, <4>2 DEF Kept, Own, Older
      <4>4. \A u \in Threads : list[u] \ {r} \subseteq list'[u]
        BY <2>2 DEF SweepVisits, TypeOK
      <4> QED BY <4>2, <4>3, <4>4 DEF LiftInv, OneCopy, OfSessions, OwnCopies
    <3>2. CASE state[r] # "restored"
      <4>1. r \in Kept /\ Lifts(r) /\ UNCHANGED <<session, open, ended, pc, about>>
        BY <2>2, <3>2 DEF SweepVisits, Named, Kept, TypeOK, slot
      <4>2. \A u \in Threads : list[u] \ {r} \subseteq list'[u]
        BY <2>2 DEF SweepVisits, TypeOK
      <4> QED BY <4>1, <4>2, LiftKeeps
    <3> QED BY <3>1, <3>2
  <2>3. CASE LiftEnds(t)
    <3>1. /\ UNCHANGED <<session, open, ended>>
          /\ \A u \in Threads : pc'[u] \in {"suppressing", "silencing"} =>
               pc'[u] = pc[u] /\ about'[u] = about[u] /\ list'[u] = list[u]
      BY <2>3 DEF LiftEnds, Return, slot, TypeOK
    <3>2. CASE state[about[t]] = "restored"
      BY <2>3, <3>1, <3>2, LiftFrame DEF LiftEnds, rules
    <3>3. CASE state[about[t]] # "restored"
      <4>1. about[t] \in Kept /\ Lifts(about[t])
        BY <2>3, <3>3 DEF LiftEnds, Named, Kept, TypeOK
      <4> QED BY <3>1, <4>1, LiftKeeps
    <3> QED BY <3>2, <3>3
  <2>4. CASE SweepBegins(t) \/ SuppressBegins(t)
    <3>1. UNCHANGED <<files, state, session, due, open, ended>>
      BY <2>4 DEF SweepBegins, SuppressBegins, rules, records, slot
    <3>2. ASSUME NEW u \in Threads, pc'[u] \in {"suppressing", "silencing"}
          PROVE  \/ pc'[u] = pc[u] /\ about'[u] = about[u] /\ list'[u] = list[u]
                 \/ about'[u] = open /\ pc'[u] = "suppressing" /\ list'[u] = due
                 \/ /\ about'[u] = about[u] /\ about[u] = open
                    /\ pc[u] = "suppressing" /\ list[u] = {}
      BY <2>4, <3>2 DEF SweepBegins, SuppressBegins, TypeOK
    <3> QED BY <3>1, <3>2, LiftFrame
  <2>5. CASE SweepEnds(t) \/ RequestFails(t) \/ \E r \in Records : LiftBegins(t, r)
    <3>1. UNCHANGED <<files, state, session, due, open, ended>>
      BY <2>5 DEF SweepEnds, RequestFails, LiftBegins, rules, records, slot
    <3>2. \A u \in Threads : pc'[u] \in {"suppressing", "silencing"} =>
            pc'[u] = pc[u] /\ about'[u] = about[u] /\ list'[u] = list[u]
      BY <2>5 DEF SweepEnds, RequestFails, LiftBegins, Return, TypeOK
    <3> QED BY <3>1, <3>2, LiftFrame
  <2>6. ~EditBegins(t) /\ ~EditApplies(t)
    BY DEF Plain, NobodyEdits, EditBegins, EditApplies
  <2> QED BY <1>3, <2>1, <2>2, <2>3, <2>4, <2>5, <2>6 DEF Request
<1>4. ASSUME NEW r \in Records, Expires(r) PROVE LiftInv'
  <2>1. /\ UNCHANGED <<files, state, session, open, ended, pc, list, about>>
        /\ due \subseteq due'
    BY <1>4 DEF Expires, rules, slot, requests
  <2>2. Kept' = Kept /\ Own' = Own /\ Older' = Older
    BY <2>1 DEF Kept, Own, Older
  <2> QED BY <2>1, <2>2 DEF LiftInv, OneCopy, OfSessions, OwnCopies
<1>5. ASSUME NEW x \in Sessions, Opens(x) PROVE LiftInv'
  <2>1. /\ files[1] = Starting /\ Kept \subseteq due /\ open = None
        /\ open' = x /\ x \notin ended
        /\ UNCHANGED <<files, state, session, due, ended, pc, list, about>>
    BY <1>1, <1>5 DEF Opens, records, requests
  <2>2. \A r \in Kept : session[r] \in ended
    BY <2>1, SuppressionAssumption DEF LiftInv, OfSessions
  <2>3. \A t \in Threads : pc[t] \in {"suppressing", "silencing"} => about[t] \in ended
    BY <2>1, SuppressionAssumption DEF LiftInv, OfSessions, Named
  <2>4. Kept' = Kept /\ Own' = {} /\ Older' = Kept
    BY <2>1, <2>2 DEF Kept, Own, Older
  <2>5. OneCopy'
    BY <2>1 DEF LiftInv, OneCopy
  <2>6. OfSessions'
    BY <2>1, <2>2, <2>3, <2>4 DEF LiftInv, OfSessions
  <2>7. OwnCopies'
    BY <2>1, <2>3, <2>4 DEF OwnCopies, Starting
  <2> QED BY <2>5, <2>6, <2>7 DEF LiftInv
<1>6. CASE CloseMarks
  <2>1. /\ open' = None /\ ended' = ended \cup {open}
        /\ UNCHANGED <<files, state, session, pc, about>>
    BY <1>6 DEF CloseMarks, rules, requests
  <2>2. None \notin ended'
    BY <1>6, <2>1, SuppressionAssumption DEF CloseMarks, TypeOK
  <2> QED BY <2>1, <2>2 DEF LiftInv, OneCopy, OfSessions, OwnCopies, Kept
<1>7. CASE CloseBreaks \/ CloseLifts
  <2>1. open = None /\ UNCHANGED <<files, session, open, ended, pc, about>> /\ Kept' \subseteq Kept
    BY <1>7 DEF CloseBreaks, CloseLifts, ClosingHasEnded, Restored, rules, records, requests, Kept
  <2> QED BY <2>1 DEF LiftInv, OneCopy, OfSessions, OwnCopies
<1>8. CASE ResetClears \/ ResetFails \/ OperatorConfigures
  <2>1. /\ open = None /\ UNCHANGED <<state, session, open, ended, pc, about>>
        /\ files'[1] \in {Starting, files[1]}
    BY <1>1, <1>8, WrittenFiles, SomeSeededFiles
       DEF ResetClears, ResetFails, OperatorConfigures, ClosingHasEnded, Plain, records, requests
  <2> QED BY <2>1 DEF LiftInv, OneCopy, OfSessions, OwnCopies, Kept, Starting
<1>9. CASE Restart
  BY <1>9, LiftFrame DEF Restart, rules, records
<1>10. CASE UNCHANGED vars
  BY <1>10, LiftFrame DEF vars, rules, records, slot, requests
<1>11. CASE PostureSeeds
  <2>1. PICK text \in Texts :
            \/ Takes([active |-> text, marks |-> {}]) /\ UNCHANGED <<open, ended>>
            \/ SeedingBreaks([active |-> text, marks |-> {}]) /\ UNCHANGED <<open, ended>>
            \/ /\ SeedingBreaks([active |-> text, marks |-> {}])
               /\ open' = None /\ ended' = ended \cup {open}
    BY <1>11 DEF PostureSeeds
  <2>2. files[1].marks = {} /\ open # None /\ UNCHANGED <<records, requests>>
    BY <1>1, <1>11 DEF PostureSeeds, Plain
  <2>3. files'[1].marks = {}
    BY <2>1, <2>2, WrittenFiles DEF Files
  <2>4. OneCopy'
    BY <2>3 DEF OneCopy
  <2>5. None \notin ended'
    BY <2>1, <2>2, SuppressionAssumption DEF TypeOK
  <2>6. OfSessions'
    BY <2>1, <2>2, <2>5 DEF LiftInv, OfSessions, Kept, records, requests
  <2>7. OwnCopies'
    BY <2>1, <2>2, <2>3 DEF LiftInv, OwnCopies, Own, Older, Kept, records, requests
  <2> QED BY <2>4, <2>6, <2>7 DEF LiftInv
<1> QED
  BY <1>3, <1>4, <1>5, <1>6, <1>7, <1>8, <1>9, <1>10, <1>11 DEF Next, SlotStep

LEMMA NobodyEditsNext ==
    TypeOK /\ NobodyEdits /\ Plain /\ [Next]_vars => NobodyEdits'
<1> SUFFICES ASSUME TypeOK, NobodyEdits, Plain, [Next]_vars, NEW u \in Threads
             PROVE  pc'[u] # "editing"
  BY DEF NobodyEdits
<1>1. pc[u] # "editing"
  BY DEF NobodyEdits
<1>2. ASSUME NEW t \in Threads, Request(t) PROVE pc'[u] # "editing"
  <2>1. CASE Return(t)
    BY <1>1, <2>1 DEF Return, TypeOK
  <2>2. CASE pc' = pc
    BY <1>1, <2>2
  <2>3. CASE SweepBegins(t) \/ SuppressBegins(t) \/ \E r \in Records : LiftBegins(t, r)
    BY <1>1, <2>3 DEF SweepBegins, SuppressBegins, LiftBegins, TypeOK
  <2> QED
    BY <1>2, <2>1, <2>2, <2>3
       DEF Request, SweepEnds, RequestFails, LiftEnds, EditBegins, EditApplies, Silences,
           SweepVisits, Plain
<1>3. CASE Restart
  BY <1>3 DEF Restart
<1>4. CASE pc' = pc
  BY <1>1, <1>4
<1> QED
  BY <1>2, <1>3, <1>4
     DEF Next, SlotStep, vars, requests, Expires, PostureSeeds, OperatorConfigures, Opens,
         CloseMarks, CloseBreaks, CloseLifts, ResetClears, ResetFails

\* What a step of LiftsOnlyItsOwn has to keep.
LiftsOwn ==
    \A r, other \in Kept :
        state'[r] = "restored" /\ state'[other] = "kept" /\ session[other] = open
            => (other \in files[1].marks => other \in files'[1].marks)

LEMMA LiftsOwnStep ==
    TypeOK /\ Named /\ ClosingHasEnded /\ LiftInv /\ Plain /\ [Next]_vars => LiftsOwn
<1> SUFFICES ASSUME TypeOK, Named, ClosingHasEnded, LiftInv, Plain, [Next]_vars,
                    NEW r \in Kept, NEW other \in Kept,
                    state'[r] = "restored", state'[other] = "kept", session[other] = open,
                    other \in files[1].marks
             PROVE  other \in files'[1].marks
  BY DEF LiftsOwn
<1>1. open # None
  BY SuppressionAssumption DEF LiftInv, OfSessions
<1>2. \E q \in Kept : Lifts(q)
  <2>1. state[r] = "kept" /\ state'[r] # "kept"
    BY DEF Kept
  <2>2. ~CloseLifts
    BY <1>1 DEF CloseLifts, ClosingHasEnded
  <2>3. ASSUME NEW t \in Threads, NEW q \in Records, SweepVisits(t, q)
        PROVE  \E p \in Kept : Lifts(p)
    BY <2>1, <2>3 DEF SweepVisits, Named, Kept, TypeOK
  <2>4. ASSUME NEW t \in Threads, LiftEnds(t) PROVE \E p \in Kept : Lifts(p)
    BY <2>1, <2>4 DEF LiftEnds, Named, Kept, TypeOK
  <2>5. ASSUME NEW t \in Threads, NEW q \in Records, Silences(t, q) PROVE FALSE
    BY <2>1, <2>5 DEF Silences, TypeOK, Kept
  <2> QED
    BY <2>1, <2>2, <2>3, <2>4, <2>5
       DEF Next, Request, SlotStep, vars, records, SweepBegins, SweepEnds, SuppressBegins,
           RequestFails, LiftBegins, Expires, EditBegins, EditApplies, PostureSeeds,
           OperatorConfigures, Opens, CloseMarks, CloseBreaks, ResetClears, ResetFails,
           Restart
<1>3. PICK q \in Kept : Lifts(q)
  BY <1>2
<1>4. Kept' = Kept \ {q} /\ files'[1].marks = files[1].marks \ {q}
  <2>1. state'[r] # state[r]
    BY DEF Kept
  <2> QED BY <1>1, <1>3, <2>1, LiftTakesItsOwn
<1>5. other # q
  BY <1>4 DEF Kept, TypeOK
<1> QED BY <1>4, <1>5

\* Where nobody replaces a file that has the rule silenced, neither an editor nor
\* a lesson's posture, a lift, by hand or by a sweep, takes no copy of another
\* record that the open session keeps: the sweep before a suppression leaves one
\* record at most.
THEOREM LiftsKeepApart == ASSUME Plain PROVE Spec => LiftsOnlyItsOwn
<1>1. Init => LiftInv /\ NobodyEdits
  BY SuppressionAssumption
     DEF Init, LiftInv, OneCopy, OfSessions, OwnCopies, NobodyEdits, Kept, Starting, Sensors
<1>2. Spec => [](TypeOK /\ Named /\ ClosingHasEnded)
  <2>1. Init => ClosingHasEnded
    BY DEF Init, ClosingHasEnded
  <2> QED BY <2>1, ClosingHasEndedNext, TypeCorrect, PTL DEF Spec
<1>3. TypeOK /\ Named /\ ClosingHasEnded /\ LiftInv /\ NobodyEdits /\ [Next]_vars
      => LiftInv' /\ NobodyEdits'
  BY LiftInvNext, NobodyEditsNext
<1>4. TypeOK /\ Named /\ ClosingHasEnded /\ LiftInv /\ [Next]_vars => [LiftsOwn]_vars
  BY LiftsOwnStep
<1>5. Spec => [][LiftsOwn]_vars
  BY <1>1, <1>2, <1>3, <1>4, PTL DEF Spec
<1> QED BY <1>5 DEF LiftsOnlyItsOwn, LiftsOwn
=============================================================================
