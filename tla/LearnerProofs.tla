---------------------------- MODULE LearnerProofs ----------------------------
(***************************************************************************)
(* What the requests of a session's learner leave, for any tabs, tunings,  *)
(* attacks and bounds: what the answer to a tuning of the WAF tells of the *)
(* file and of nginx, what the network panel lists of the site's records,  *)
(* which help is offered and which verdicts are kept in a scenario, and    *)
(* what passes a step of a lesson.                                         *)
(***************************************************************************)
EXTENDS WafApply, SiteBrowser, ScenarioLearner, LessonSteps, FiniteSetTheorems,
        WellFoundedInduction, SequenceTheorems, TLAPS

-----------------------------------------------------------------------------
(* The tuning of the WAF. *)

\* nginx never comes up on what it does not accept.
ServesTheValid == serving \in Valid

\* Where the terminal did not write meanwhile, the file is what the PUT's last
\* step left there.
PhaseTells ==
    /\ put.phase = "reload" => wafFile = put.tuning
    /\ put.phase = "wait" => /\ wafFile = put.tuning /\ put.tuning \in Valid
                             /\ serving = put.tuning \/ signalled
    /\ put.phase = "refused" => put.tuning \notin Valid
    /\ put.phase = "again" => wafFile = put.previous

WafInv == WafTypeOK /\ ServesTheValid /\ (edited \/ PhaseTells)

-----------------------------------------------------------------------------

LEMMA NoPutIsTyped ==
    NoPut \in [phase : PutPhases, tuning : Files, previous : Files, old : Nat]
  BY DEF NoPut, PutPhases, Files

LEMMA WafBeginsSo == ASSUME WafAssumption, WafInit PROVE WafInv
<1>1. 0 \in 0..MaxPuts /\ 0 \in 0..MaxEdits /\ 0 \in 0..MaxLost
  BY DEF WafAssumption
<1>2. put \in [phase : PutPhases, tuning : Files, previous : Files, old : Nat]
  BY NoPutIsTyped DEF WafInit
<1>3. wafFile \in Files /\ serving \in Files
  BY DEF WafInit, Files
<1>4. WafTypeOK
  BY <1>1, <1>2, <1>3 DEF WafInit, WafTypeOK
<1>5. ServesTheValid /\ PhaseTells
  BY DEF WafAssumption, WafInit, ServesTheValid, PhaseTells, NoPut
<1> QED BY <1>4, <1>5 DEF WafInv

\* A step that changes only the phase of the PUT keeps its type.
LEMMA PhasesAreTyped ==
    ASSUME WafTypeOK, NEW phase \in PutPhases
    PROVE  [put EXCEPT !.phase = phase] \in [phase : PutPhases, tuning : Files, previous : Files, old : Nat]
  BY DEF WafTypeOK

\* The types of every step of a PUT.
LEMMA PutsKeepTheTypes ==
    ASSUME WafAssumption, WafTypeOK, PutBegins \/ PutStep \/ PutCannotWrite \/ PutLost
    PROVE  WafTypeOK'
<1> USE DEF WafTypeOK
<1>1. CASE PutBegins
  <2>1. put' \in [phase : PutPhases, tuning : Files, previous : Files, old : Nat]
    BY <1>1, NoPutIsTyped DEF PutBegins, PutPhases, Files
  <2>2. puts' \in 0..MaxPuts
    <3>1. puts < MaxPuts /\ puts' = puts + 1 /\ puts \in 0..MaxPuts /\ MaxPuts \in Nat
      BY <1>1 DEF WafAssumption, PutBegins
    <3> QED BY <3>1
  <2> QED BY <1>1, <2>1, <2>2 DEF PutBegins, nginx
<1>2. CASE PutReads
  BY <1>2 DEF PutReads, PutPhases, nginx
<1>3. CASE PutWrites
  <2>1. put' \in [phase : PutPhases, tuning : Files, previous : Files, old : Nat]
    BY <1>3, PhasesAreTyped DEF PutWrites, Goes, PutPhases
  <2> QED BY <1>3, <2>1 DEF PutWrites, nginx
<1>4. CASE PutReloads
  <2>1. put' \in [phase : PutPhases, tuning : Files, previous : Files, old : Nat]
    BY <1>4, PhasesAreTyped DEF PutReloads, Goes, PutPhases
  <2>2. signalled' \in BOOLEAN
    BY <1>4 DEF PutReloads, Signals
  <2> QED BY <1>4, <2>1, <2>2 DEF PutReloads, Signals
<1>5. CASE PutSeesWorker
  BY <1>5, NoPutIsTyped DEF PutSeesWorker, Ends, nginx
<1>6. CASE PutGivesUp
  <2>1. put' \in [phase : PutPhases, tuning : Files, previous : Files, old : Nat]
    BY <1>6, PhasesAreTyped DEF PutGivesUp, Goes, PutPhases
  <2> QED BY <1>6, <2>1 DEF PutGivesUp, nginx
<1>7. CASE PutRollsBack
  <2>1. put' \in [phase : PutPhases, tuning : Files, previous : Files, old : Nat]
    BY <1>7, PhasesAreTyped, NoPutIsTyped DEF PutRollsBack, Goes, Ends, PutPhases
  <2>2. answer' \in {"none", "applied", "refused", "unwritten", "lost"}
    BY <1>7 DEF PutRollsBack, Ends
  <2> QED BY <1>7, <2>1, <2>2 DEF PutRollsBack, nginx
<1>8. CASE PutReloadsAgain
  <2>1. signalled' \in BOOLEAN
    BY <1>8 DEF PutReloadsAgain, Signals
  <2> QED BY <1>8, <2>1, NoPutIsTyped DEF PutReloadsAgain, Signals, Ends
<1>9. CASE PutLost
  <2>1. wafFile' \in Files
    BY <1>9 DEF PutLost
  <2>2. signalled' \in BOOLEAN /\ UNCHANGED <<serving, worker>>
    BY <1>9 DEF PutLost, Signals, nginx
  <2>3. lost' \in 0..MaxLost
    BY <1>9 DEF WafAssumption, PutLost
  <2> QED BY <1>9, <2>1, <2>2, <2>3, NoPutIsTyped DEF PutLost, Ends
<1>10. CASE PutCannotWrite
  <2>1. lost' \in 0..MaxLost
    BY <1>10 DEF WafAssumption, PutCannotWrite
  <2> QED BY <1>10, <2>1, NoPutIsTyped DEF PutCannotWrite, Ends, nginx
<1> QED BY <1>1, <1>2, <1>3, <1>4, <1>5, <1>6, <1>7, <1>8, <1>9, <1>10 DEF PutStep

LEMMA OthersKeepTheTypes ==
    ASSUME WafAssumption, WafTypeOK,
           NginxReloads \/ TerminalEdits \/ SnapshotReads \/ SnapshotWrites
    PROVE  WafTypeOK'
<1> USE DEF WafTypeOK
<1>1. CASE NginxReloads
  <2>1. serving' \in Files /\ worker' \in Nat
    BY <1>1 DEF NginxReloads
  <2> QED BY <1>1, <2>1 DEF NginxReloads
<1>2. CASE TerminalEdits
  <2>1. wafFile' \in Files
    BY <1>2 DEF TerminalEdits, Files
  <2>2. signalled' \in BOOLEAN
    BY <1>2 DEF TerminalEdits
  <2>3. edits' \in 0..MaxEdits
    BY <1>2 DEF WafAssumption, TerminalEdits
  <2> QED BY <1>2, <2>1, <2>2, <2>3 DEF TerminalEdits
<1>3. CASE SnapshotReads
  BY <1>3 DEF SnapshotReads, nginx
<1>4. CASE SnapshotWrites
  BY <1>4 DEF SnapshotWrites, nginx
<1> QED BY <1>1, <1>2, <1>3, <1>4

\* Only a reload changes what serves, and nginx reads a file it accepts.
LEMMA ServesOn == ASSUME WafInv, WafNext PROVE ServesTheValid'
<1>1. UNCHANGED serving \/ (wafFile \in Valid /\ serving' = wafFile)
  BY DEF WafNext, PutBegins, PutStep, PutReads, PutWrites, PutReloads, PutSeesWorker, PutGivesUp,
         PutRollsBack, PutReloadsAgain, PutCannotWrite, PutLost, NginxReloads, TerminalEdits, SnapshotReads,
         SnapshotWrites, Signals, nginx
<1> QED BY <1>1 DEF WafInv, ServesTheValid

\* What each step leaves for the next.
LEMMA PhasesTellOn == ASSUME WafInv, WafNext PROVE (edited \/ PhaseTells)'
<1> SUFFICES ASSUME ~ edited' PROVE PhaseTells'
  OBVIOUS
<1> USE DEF WafInv, WafTypeOK, PhaseTells
<1>1. CASE PutBegins
  <2>1. put'.phase = "read"
    BY <1>1 DEF PutBegins, NoPut
  <2> QED BY <2>1
<1>2. CASE PutReads
  <2>1. put'.phase = "write"
    BY <1>2 DEF PutReads
  <2> QED BY <2>1
<1>3. CASE PutWrites
  <2>1. put'.phase = "reload" /\ put'.tuning = put.tuning /\ wafFile' = put.tuning
    BY <1>3 DEF PutWrites, Goes
  <2> QED BY <2>1
<1>4. CASE PutReloads
  <2>1. put.phase = "reload" /\ wafFile = put.tuning /\ UNCHANGED wafFile
    BY <1>4 DEF PutReloads, Goes
  <2>2. put'.tuning = put.tuning
    BY <1>4 DEF PutReloads, Goes
  <2>3. CASE wafFile \in Valid
    <3>1. put'.phase = "wait" /\ signalled'
      BY <1>4, <2>3 DEF PutReloads, Goes, Signals
    <3> QED BY <2>1, <2>2, <2>3, <3>1
  <2>4. CASE wafFile \notin Valid
    <3>1. put'.phase = "refused"
      BY <1>4, <2>4 DEF PutReloads, Goes
    <3> QED BY <2>1, <2>2, <2>4, <3>1
  <2> QED BY <2>3, <2>4
<1>5. CASE PutSeesWorker \/ PutReloadsAgain \/ PutCannotWrite \/ PutLost
  <2>1. put'.phase = "none"
    BY <1>5 DEF PutSeesWorker, PutReloadsAgain, PutCannotWrite, PutLost, Ends, NoPut
  <2> QED BY <2>1
<1>6. CASE PutGivesUp
  <2>1. put'.phase = "stuck"
    BY <1>6 DEF PutGivesUp, Goes
  <2> QED BY <2>1
<1>7. CASE PutRollsBack
  <2>1. CASE put.phase = "refused" /\ Ends("refused")
    BY <2>1 DEF Ends, NoPut
  <2>2. CASE Goes("stuck", "again")
    <3>1. put'.phase = "again" /\ put'.previous = put.previous /\ wafFile' = put.previous
      BY <1>7, <2>2 DEF PutRollsBack, Goes
    <3> QED BY <3>1
  <2> QED BY <1>7, <2>1, <2>2 DEF PutRollsBack
<1>8. CASE NginxReloads
  <2>1. PhaseTells /\ UNCHANGED <<wafFile, put>>
    BY <1>8 DEF NginxReloads
  <2>2. CASE put.phase = "wait"
    <3>1. serving' = put.tuning
      BY <1>8, <2>1, <2>2 DEF NginxReloads
    <3> QED BY <2>1, <2>2, <3>1
  <2> QED BY <2>1, <2>2
<1>9. CASE TerminalEdits
  BY <1>9 DEF TerminalEdits
<1>10. CASE SnapshotReads \/ SnapshotWrites
  BY <1>10 DEF SnapshotReads, SnapshotWrites, nginx
<1> QED
  BY <1>1, <1>2, <1>3, <1>4, <1>5, <1>6, <1>7, <1>8, <1>9, <1>10 DEF WafNext, PutStep

LEMMA WafStaysSo ==
    ASSUME WafAssumption, WafInv, [WafNext]_wafVars
    PROVE  WafInv'
<1>1. CASE UNCHANGED wafVars
  BY <1>1 DEF WafInv, WafTypeOK, ServesTheValid, PhaseTells, wafVars, nginx
<1>2. CASE WafNext
  BY <1>2, PutsKeepTheTypes, OthersKeepTheTypes, ServesOn, PhasesTellOn DEF WafInv, WafNext
<1> QED BY <1>1, <1>2

\* Every variable keeps its type, nginx serves what it accepts, and the file is
\* what the PUT left there.
THEOREM WafStaysTyped == ASSUME WafAssumption PROVE WafSpec => []WafInv
<1>1. WafInit => WafInv
  BY WafBeginsSo
<1>2. WafInv /\ [WafNext]_wafVars => WafInv'
  BY WafStaysSo
<1> QED BY <1>1, <1>2, PTL DEF WafSpec

-----------------------------------------------------------------------------

\* Which steps answer a PUT.
LEMMA TwoStepsAnswer ==
    ASSUME WafNext
    PROVE  /\ answer' = "applied" /\ answer # "applied" => PutSeesWorker
           /\ answer' = "refused" /\ answer # "refused" => PutRollsBack \/ PutReloadsAgain
<1> USE DEF WafNext, PutBegins, PutStep, PutReads, PutWrites, PutReloads, PutGivesUp,
            PutCannotWrite, PutLost, NginxReloads, TerminalEdits, SnapshotReads, SnapshotWrites, Ends
<1>1. answer' = "applied" /\ answer # "applied" => PutSeesWorker
  BY DEF PutRollsBack, PutReloadsAgain
<1>2. answer' = "refused" /\ answer # "refused" => PutRollsBack \/ PutReloadsAgain
  BY DEF PutSeesWorker
<1> QED BY <1>1, <1>2

LEMMA AnswersFromTheInvariant ==
    ASSUME WafInv, WafNext
    PROVE  AnswerTells
<1> USE DEF WafInv, WafTypeOK, PhaseTells
<1>1. ASSUME answer' = "applied", answer # "applied", ~ edited
      PROVE  wafFile' = put.tuning /\ (serving' = put.tuning \/ signalled')
  BY <1>1, TwoStepsAnswer DEF PutSeesWorker, nginx
<1>2. ASSUME answer' = "refused", answer # "refused", ~ edited
      PROVE  /\ wafFile' = put.previous
             /\ serving' = put.tuning =>
                  signalled' \/ put.previous \in {put.tuning} \cup (Files \ Valid)
  <2>1. CASE PutRollsBack
    <3>1. put.phase = "refused" /\ wafFile' = put.previous /\ UNCHANGED serving
      BY <1>2, <2>1 DEF PutRollsBack, Goes, nginx
    <3>2. serving # put.tuning
      BY <1>2, <3>1 DEF ServesTheValid
    <3> QED BY <3>1, <3>2
  <2>2. CASE PutReloadsAgain
    <3>1. wafFile = put.previous /\ UNCHANGED wafFile /\ put.previous \in Files
      BY <1>2, <2>2 DEF PutReloadsAgain
    <3>2. signalled' \/ put.previous \notin Valid
      BY <2>2, <3>1 DEF PutReloadsAgain, Signals
    <3> QED BY <3>1, <3>2
  <2> QED BY <1>2, <2>1, <2>2, TwoStepsAnswer
<1> QED BY <1>1, <1>2 DEF AnswerTells

\* The answer tells what serves: an applied tuning is in the file and in nginx
\* or in its next reload, and a refused one leaves the file that was there,
\* however many reloads of earlier PUTs are still to come.
THEOREM TheAnswerTells == ASSUME WafAssumption PROVE WafSpec => AnswerTellsWhatServes
<1>1. WafInv /\ [WafNext]_wafVars => [AnswerTells]_wafVars
  BY AnswersFromTheInvariant
<1> QED
  BY <1>1, WafStaysTyped, PTL DEF WafSpec, AnswerTellsWhatServes

-----------------------------------------------------------------------------
(* The site browser: the network panel and the favicon. *)

Requests == [phase : {"idle", "asked", "sent", "relayed"}, url : Urls, id : 0..MaxNumber]

\* A request that is relayed has a number.
SiteTyped ==
    /\ SiteTypeOK
    /\ tabs \in [Tabs \cup {Favicon} -> Requests]
    /\ \A t \in Tabs \cup {Favicon} : tabs[t].phase = "relayed" => tabs[t].id \in 1..MaxNumber
    /\ panel \in [after : 0..MaxNumber, shown : SUBSET (1..MaxNumber)]

\* Of any number up to the highest that was listed, that one or a later was
\* listed since the process began, or it is overtaken already.
ListedUpTo ==
    \A id \in 1..panel.after : id \in overtaken \/ \E s \in panel.shown : s >= id

NothingMissed ==
    \A id \in Ids(records) : id <= panel.after => id \in panel.shown \cup overtaken

\* The favicon is to be fetched only once it was asked for, and no more after.
FaviconAsked ==
    /\ fetches \in 0..1
    /\ ended = "open" => /\ ~ favicons => fetches = 0 /\ 0 \notin timers
                         /\ 0 \in timers => fetches = 0

SiteInv == SiteTyped /\ ListedUpTo /\ NothingMissed /\ FaviconAsked

\* A set of numbers with a bound has a highest one.
LEMMA HighestOf ==
    ASSUME NEW bound \in Nat, NEW T, T \subseteq 0..bound, T # {}
    PROVE  \E m \in T : \A other \in T : other <= m
<1> DEFINE below == {n \in Nat : \E m \in T : n = bound - m}
<1>1. \A m \in T : m \in Nat /\ bound - m \in Nat /\ bound - m \in below
  OBVIOUS
<1>2. below \subseteq Nat /\ below # {}
  BY <1>1
<1>3. \E x \in below : \A y \in below : ~ (<<y, x>> \in OpToRel(<, Nat))
  <2> HIDE DEF below
  <2> QED BY <1>2, NatLessThanWellFounded, WFMin
<1>4. PICK x \in below : \A y \in below : ~ (y < x)
  BY <1>2, <1>3 DEF OpToRel
<1>5. PICK m \in T : x = bound - m
  OBVIOUS
<1>6. ASSUME NEW other \in T PROVE other <= m
  <2>1. ~ (bound - other < bound - m)
    BY <1>1, <1>4, <1>5
  <2> QED BY <1>1, <2>1
<1> QED BY <1>6

LEMMA IdsAreNumbers ==
    ASSUME SiteTyped
    PROVE  Ids(records) \subseteq 1..MaxNumber
<1>1. records \in Seq(PanelRecords)
  BY DEF SiteTyped, SiteTypeOK
<1>2. \A i \in DOMAIN records : records[i] \in PanelRecords
  BY <1>1, ElementOfSeq, LenProperties
<1> QED BY <1>2 DEF Ids, PanelRecords

\* Keeping a record adds no number but its own to the panel's.
LEMMA KeepingARecord ==
    ASSUME SiteAssumption, SiteTyped, NEW record \in PanelRecords, Keep(record)
    PROVE  /\ records' \in Seq(PanelRecords) /\ Len(records') <= KeptPerSession
           /\ Ids(records') \subseteq Ids(records) \cup {record.id}
           /\ overtaken' \in SUBSET (1..MaxNumber) /\ overtaken \subseteq overtaken'
           /\ (\E id \in panel.shown : id > record.id) => record.id \in overtaken'
<1> DEFINE all == Append(records, record)
           size == IF Len(all) > KeptPerSession THEN KeptPerSession ELSE Len(all)
           first == Len(all) - size + 1
<1>1. records \in Seq(PanelRecords) /\ KeptPerSession \in Nat
  BY DEF SiteAssumption, SiteTyped, SiteTypeOK
<1>2. /\ all \in Seq(PanelRecords) /\ Len(all) = Len(records) + 1
      /\ \A i \in 1..Len(records) : all[i] = records[i]
      /\ all[Len(records) + 1] = record
  BY <1>1, AppendProperties
<1>3. Len(records) \in Nat /\ DOMAIN records = 1..Len(records)
  BY <1>1, LenProperties
<1>4. records' = SubSeq(all, first, Len(all))
  BY DEF Keep
<1> HIDE DEF all
<1>5. /\ Len(all) \in Nat /\ size \in Nat /\ first \in 1..(Len(all) + 1)
      /\ Len(all) - first + 1 = size /\ size <= KeptPerSession
  <2>1. Len(all) \in Nat
    BY <1>2, <1>3
  <2>2. size \in Nat /\ size <= KeptPerSession /\ size <= Len(all)
    BY <1>1, <2>1
  <2> HIDE DEF size
  <2> QED BY <2>1, <2>2
<1> HIDE DEF first, size
<1>6. \A i \in first..Len(all) : all[i] \in PanelRecords
  BY <1>2, <1>5, ElementOfSeq
<1>7. /\ records' \in Seq(PanelRecords)
      /\ Len(records') = (IF first <= Len(all) THEN Len(all) - first + 1 ELSE 0)
      /\ \A i \in 1..(Len(all) - first + 1) : records'[i] = all[first + i - 1]
  BY <1>4, <1>5, <1>6, SubSeqProperties
<1>8. Len(records') <= KeptPerSession /\ Len(records') <= size /\ Len(records') \in Nat
  BY <1>1, <1>5, <1>7
<1>9. ASSUME NEW i \in DOMAIN records'
      PROVE  records'[i].id \in Ids(records) \cup {record.id}
  <2>1. i \in 1..size
    BY <1>5, <1>7, <1>8, LenProperties
  <2>2. i \in 1..(Len(all) - first + 1) /\ first + i - 1 \in 1..Len(all)
    BY <1>5, <2>1
  <2>3. records'[i] = all[first + i - 1]
    BY <1>7, <2>2
  <2>4. CASE first + i - 1 \in 1..Len(records)
    BY <1>2, <1>3, <2>3, <2>4 DEF Ids
  <2>5. CASE first + i - 1 = Len(records) + 1
    BY <1>2, <2>3, <2>5
  <2> QED BY <1>2, <1>3, <2>2, <2>4, <2>5
<1>10. Ids(records') \subseteq Ids(records) \cup {record.id}
  BY <1>9 DEF Ids
<1>11. overtaken \subseteq 1..MaxNumber /\ record.id \in 1..MaxNumber
  BY DEF SiteTyped, SiteTypeOK, PanelRecords
<1>12. /\ overtaken' \in SUBSET (1..MaxNumber) /\ overtaken \subseteq overtaken'
       /\ (\E id \in panel.shown : id > record.id) => record.id \in overtaken'
  BY <1>11 DEF Keep
<1> QED BY <1>7, <1>8, <1>10, <1>12

LEMMA SiteBeginsSo == ASSUME SiteAssumption, SiteInit PROVE SiteInv
<1>1. records = <<>> /\ <<>> \in Seq(PanelRecords) /\ Len(<<>>) = 0 /\ DOMAIN <<>> = {}
  BY EmptySeq DEF SiteInit, Forgotten
<1>2. NoRequest \in Requests /\ NoRequest.phase = "idle" /\ NoRequest.url \in Urls
      /\ NoRequest.id \in 0..MaxNumber
  BY DEF SiteAssumption, NoRequest, Requests, Urls
<1>3. tabs \in [Tabs \cup {Favicon} -> Requests] /\ \A t \in Tabs \cup {Favicon} : tabs[t] = NoRequest
  BY <1>2 DEF SiteInit
<1>4. panel \in [after : 0..MaxNumber, shown : SUBSET (1..MaxNumber)] /\ panel.after = 0
  BY DEF SiteAssumption, SiteInit
<1>5. /\ numbers \in 0..MaxNumber /\ 0 <= KeptPerSession /\ timers \subseteq 0..MaxNumber
      /\ overtaken \subseteq 1..MaxNumber /\ siteRestarts \in 0..MaxRestarts
  BY DEF SiteAssumption, SiteInit
<1>6. SiteTypeOK
  BY <1>1, <1>2, <1>3, <1>4, <1>5 DEF SiteInit, Forgotten, SiteTypeOK, Cookies, Policies
<1>7. SiteTyped
  BY <1>2, <1>3, <1>4, <1>6 DEF SiteTyped
<1>8. ListedUpTo /\ NothingMissed
  BY <1>1, <1>4 DEF ListedUpTo, NothingMissed, Ids
<1>9. FaviconAsked
  BY DEF SiteInit, FaviconAsked
<1> QED BY <1>7, <1>8, <1>9 DEF SiteInv

\* The steps of a request, and the types they leave.
LEMMA RequestsStayTyped ==
    ASSUME SiteAssumption, SiteInv, NEW t \in Tabs \cup {Favicon},
           Proxy(t) \/ FindsEgress(t) \/ NotAnswered(t) \/ Answered(t) \/ Relayed(t)
    PROVE  SiteTyped'
<1> USE DEF SiteInv, SiteTyped, SiteTypeOK
<1> DEFINE all == Tabs \cup {Favicon}
<1>1. tabs[t] \in Requests /\ NoRequest \in Requests /\ NoRequest.phase = "idle"
  BY DEF SiteAssumption, NoRequest, Requests, Urls
<1>2. \A url \in Urls : RequestFor(url) \in Requests /\ RequestFor(url).phase = "asked"
  BY <1>1 DEF RequestFor, Requests
<1>3. ASSUME NEW to \in Requests, to.phase = "relayed" => to.id \in 1..MaxNumber,
             tabs' = [tabs EXCEPT ![t] = to]
      PROVE  /\ tabs' \in [all -> Requests]
             /\ \A u \in all : tabs'[u].phase = "relayed" => tabs'[u].id \in 1..MaxNumber
             /\ \A u \in all : /\ tabs'[u].phase \in {"idle", "asked", "sent", "relayed"}
                               /\ tabs'[u].url \in Urls /\ tabs'[u].id \in 0..MaxNumber
  <2>1. tabs' \in [all -> Requests]
    BY <1>3
  <2>2. \A u \in all : tabs'[u].phase = "relayed" => tabs'[u].id \in 1..MaxNumber
    BY <1>3
  <2> QED BY <2>1, <2>2 DEF Requests
<1>4. CASE Proxy(t)
  <2>1. PICK url \in Urls : tabs' = [tabs EXCEPT ![t] = RequestFor(url)]
    BY <1>4 DEF Proxy, Urls
  <2> QED BY <1>2, <1>3, <1>4, <2>1 DEF Proxy, memory
<1>5. CASE FindsEgress(t)
  <2> DEFINE to == [tabs[t] EXCEPT !.phase = "sent"]
  <2>1. to \in Requests /\ to.phase = "sent"
    BY <1>1 DEF Requests
  <2>2. tabs' = [tabs EXCEPT ![t] = to]
    BY <1>5 DEF FindsEgress
  <2> QED BY <1>3, <1>5, <2>1, <2>2 DEF FindsEgress
<1>6. CASE NotAnswered(t)
  BY <1>1, <1>3, <1>6 DEF NotAnswered, memory
<1>7. CASE Answered(t)
  <2> DEFINE to == [tabs[t] EXCEPT !.phase = "relayed", !.id = numbers']
  <2>1. numbers' \in 1..MaxNumber
    BY <1>7 DEF SiteAssumption, Answered
  <2>2. numbers' \in 0..MaxNumber /\ tabs[t].url \in Urls
    BY <1>1, <2>1 DEF Requests
  <2> HIDE DEF SiteInv, SiteTyped, SiteTypeOK
  <2>3. to.id = numbers'
    BY <1>1 DEF Requests
  <2>4. to \in Requests /\ to.id = numbers'
    BY <1>1, <2>2, <2>3 DEF Requests
  <2> USE DEF SiteInv, SiteTyped, SiteTypeOK
  <2>5. tabs' = [tabs EXCEPT ![t] = to]
    BY <1>7 DEF Answered
  <2> HIDE DEF to
  <2>6. jar' \in Cookies /\ policy' \in Policies
    BY <1>7 DEF Answered
  <2> QED BY <1>3, <1>7, <2>1, <2>2, <2>4, <2>5, <2>6 DEF Answered
<1>8. CASE Relayed(t)
  <2> DEFINE record == [id |-> tabs[t].id, url |-> tabs[t].url, cache |-> FALSE, of |-> 0]
  <2>1. tabs[t].id \in 1..MaxNumber /\ tabs[t].url \in Urls /\ 0 \in 0..MaxNumber
    <3>1. tabs[t].phase = "relayed"
      BY <1>8 DEF Relayed
    <3> QED BY <1>1, <3>1 DEF SiteAssumption, Requests
  <2>2. record \in PanelRecords
    BY <2>1 DEF PanelRecords
  <2>3. /\ records' \in Seq(PanelRecords) /\ Len(records') <= KeptPerSession
        /\ overtaken' \in SUBSET (1..MaxNumber)
    BY <1>8, <2>2, KeepingARecord DEF Relayed
  <2>4. timers' \subseteq 0..MaxNumber /\ favicons' \in BOOLEAN
    BY <1>8, <2>1 DEF Relayed, AfterDocument
  <2> QED BY <1>1, <1>3, <1>8, <2>3, <2>4 DEF Relayed
<1> QED BY <1>4, <1>5, <1>6, <1>7, <1>8

\* The other steps, and the types they leave.
LEMMA SiteStaysTyped ==
    ASSUME SiteAssumption, SiteInv,
           \/ FetchFavicon \/ \E page \in 1..MaxNumber : ListCached(page)
           \/ \E c \in cached : KeepsCached(c)
           \/ SiteRequests \/ SessionEnds \/ Forget \/ SiteRestart
    PROVE  SiteTyped'
<1> USE DEF SiteInv, SiteTyped, SiteTypeOK
<1>1. NoRequest \in Requests /\ NoRequest.phase = "idle"
  BY DEF SiteAssumption, NoRequest, Requests, Urls
<1>2. CASE FetchFavicon
  <2> DEFINE to == [RequestFor("favicon") EXCEPT !.phase = "sent"]
  <2>1. to \in Requests /\ to.phase = "sent"
    BY <1>1 DEF RequestFor, Requests, Urls
  <2>2. tabs' = [tabs EXCEPT ![Favicon] = to]
    BY <1>2 DEF FetchFavicon
  <2> HIDE DEF to
  <2>3. tabs' \in [Tabs \cup {Favicon} -> Requests]
    BY <2>1, <2>2
  <2>4. \A u \in Tabs \cup {Favicon} : tabs'[u].phase = "relayed" => tabs'[u].id \in 1..MaxNumber
    BY <2>1, <2>2
  <2>5. timers' \subseteq 0..MaxNumber
    BY <1>2 DEF FetchFavicon
  <2> QED BY <1>2, <2>3, <2>4, <2>5 DEF FetchFavicon, memory, Requests
<1>3. ASSUME NEW page \in 1..MaxNumber, ListCached(page)
      PROVE  SiteTyped'
  <2>1. timers' \subseteq 0..MaxNumber
    BY <1>3 DEF ListCached
  <2>2. CASE UNCHANGED <<numbers, cached>>
    BY <1>3, <2>1, <2>2 DEF ListCached
  <2>3. CASE /\ numbers < MaxNumber /\ numbers' = numbers + 1
             /\ cached' = cached \cup {[id |-> numbers', of |-> page]}
    <3>1. numbers' \in 1..MaxNumber
      BY <2>3 DEF SiteAssumption
    <3>2. cached' \subseteq [id : 1..MaxNumber, of : 1..MaxNumber]
      BY <2>3, <3>1
    <3> QED BY <1>3, <2>1, <3>1, <3>2 DEF ListCached
  <2> QED BY <1>3, <2>2, <2>3 DEF ListCached
<1>8. ASSUME NEW c \in cached, KeepsCached(c)
      PROVE  SiteTyped'
  <2> DEFINE record == [id |-> c.id, url |-> "style", cache |-> TRUE, of |-> c.of]
  <2>1. record \in PanelRecords
    BY DEF PanelRecords, Urls
  <2>2. /\ records' \in Seq(PanelRecords) /\ Len(records') <= KeptPerSession
        /\ overtaken' \in SUBSET (1..MaxNumber)
    BY <1>8, <2>1, KeepingARecord DEF KeepsCached
  <2>3. cached' \subseteq [id : 1..MaxNumber, of : 1..MaxNumber]
    BY <1>8 DEF KeepsCached
  <2> QED BY <1>8, <2>2, <2>3 DEF KeepsCached
<1>4. CASE SiteRequests
  <2> DEFINE newer == {id \in Ids(records) : id > panel.after}
             last == CHOOSE id \in newer : \A other \in newer : other <= id
  <2>1. newer \subseteq 1..MaxNumber /\ newer # {} /\ newer \subseteq 0..MaxNumber
    BY <1>4, IdsAreNumbers DEF SiteAssumption, SiteRequests
  <2>2. last \in newer
    BY <2>1, HighestOf DEF SiteAssumption
  <2>3. panel' = [after |-> last, shown |-> panel.shown \cup newer]
    BY <1>4 DEF SiteRequests
  <2> HIDE DEF newer, last
  <2>4. panel' \in [after : 0..MaxNumber, shown : SUBSET (1..MaxNumber)]
    BY <2>1, <2>2, <2>3
  <2> QED BY <1>4, <2>4 DEF SiteRequests, memory
<1>5. CASE SessionEnds
  BY <1>5 DEF SessionEnds, memory
<1>6. CASE Forget
  <2>1. records' \in Seq(PanelRecords) /\ Len(records') <= KeptPerSession
    BY <1>6, EmptySeq DEF SiteAssumption, Forget
  <2> QED BY <1>6, <2>1 DEF Forget, Cookies, Policies
<1>7. CASE SiteRestart
  <2>1. records' \in Seq(PanelRecords) /\ Len(records') <= KeptPerSession
    BY <1>7, EmptySeq DEF SiteAssumption, SiteRestart
  <2>2. tabs' \in [Tabs \cup {Favicon} -> Requests]
        /\ \A u \in Tabs \cup {Favicon} : tabs'[u] = NoRequest
    BY <1>1, <1>7 DEF SiteRestart
  <2>3. panel' \in [after : 0..MaxNumber, shown : SUBSET (1..MaxNumber)]
    BY <1>7 DEF SiteRestart
  <2>4. numbers' \in 0..MaxNumber /\ siteRestarts' \in 0..MaxRestarts
    BY <1>7 DEF SiteAssumption, SiteRestart
  <2>5. overtaken' \subseteq 1..MaxNumber
    BY <1>7 DEF SiteAssumption, SiteRestart
  <2> QED BY <1>1, <1>7, <2>1, <2>2, <2>3, <2>4, <2>5 DEF SiteRestart, Cookies, Policies, Requests
<1> QED BY <1>2, <1>3, <1>4, <1>5, <1>6, <1>7, <1>8

\* A record that is kept late is listed, or overtaken.
LEMMA KeptIsNotMissed ==
    ASSUME SiteAssumption, SiteInv, NEW record \in PanelRecords, Keep(record), UNCHANGED panel
    PROVE  ListedUpTo' /\ NothingMissed'
<1>1. /\ Ids(records') \subseteq Ids(records) \cup {record.id}
      /\ overtaken \subseteq overtaken'
      /\ (\E id \in panel.shown : id > record.id) => record.id \in overtaken'
  BY KeepingARecord DEF SiteInv
<1>2. record.id \in 1..MaxNumber /\ panel.after \in 0..MaxNumber /\ panel.shown \subseteq 1..MaxNumber
  BY DEF SiteInv, SiteTyped, SiteTypeOK, PanelRecords
<1>3. ListedUpTo'
  BY <1>1 DEF SiteInv, ListedUpTo
<1>4. record.id <= panel.after => record.id \in panel.shown \cup overtaken'
  BY <1>1, <1>2 DEF SiteAssumption, SiteInv, ListedUpTo
<1>5. NothingMissed'
  BY <1>1, <1>4 DEF SiteInv, NothingMissed
<1> QED BY <1>3, <1>5

LEMMA NothingIsMissed ==
    ASSUME SiteAssumption, SiteInv, SiteNext
    PROVE  ListedUpTo' /\ NothingMissed'
<1>1. ASSUME UNCHANGED <<panel, records, overtaken>> PROVE ListedUpTo' /\ NothingMissed'
  BY <1>1 DEF SiteInv, ListedUpTo, NothingMissed
<1>2. ASSUME NEW t \in Tabs \cup {Favicon}, Relayed(t)
      PROVE  ListedUpTo' /\ NothingMissed'
  <2> DEFINE record == [id |-> tabs[t].id, url |-> tabs[t].url, cache |-> FALSE, of |-> 0]
  <2>1. tabs[t].id \in 1..MaxNumber /\ tabs[t].url \in Urls /\ 0 \in 0..MaxNumber
    BY <1>2 DEF SiteAssumption, SiteInv, SiteTyped, Requests, Relayed
  <2>2. record \in PanelRecords
    BY <2>1 DEF PanelRecords
  <2> QED BY <1>2, <2>2, KeptIsNotMissed DEF Relayed
<1>3. ASSUME NEW c \in cached, KeepsCached(c)
      PROVE  ListedUpTo' /\ NothingMissed'
  <2> DEFINE record == [id |-> c.id, url |-> "style", cache |-> TRUE, of |-> c.of]
  <2>1. record \in PanelRecords
    BY DEF PanelRecords, Urls, SiteInv, SiteTyped, SiteTypeOK
  <2> QED BY <1>3, <2>1, KeptIsNotMissed DEF KeepsCached
<1>4. CASE SiteRequests
  <2> DEFINE newer == {id \in Ids(records) : id > panel.after}
             last == CHOOSE id \in newer : \A other \in newer : other <= id
  <2>1. newer \subseteq 0..MaxNumber /\ newer # {}
    BY <1>4, IdsAreNumbers DEF SiteAssumption, SiteInv, SiteRequests
  <2>2. last \in newer /\ \A other \in newer : other <= last
    BY <2>1, HighestOf DEF SiteAssumption
  <2>3. /\ panel' = [after |-> last, shown |-> panel.shown \cup newer]
        /\ UNCHANGED <<records, overtaken>>
    BY <1>4 DEF SiteRequests, memory
  <2>4. \A id \in Ids(records) : id > panel.after => id \in newer
    OBVIOUS
  <2> HIDE DEF newer, last
  <2>5. panel'.after = last /\ panel'.shown = panel.shown \cup newer
    BY <2>3
  <2>6. ListedUpTo'
    BY <2>1, <2>2, <2>3, <2>5 DEF ListedUpTo
  <2>7. ASSUME NEW id \in Ids(records) PROVE id \in panel'.shown \cup overtaken
    <3>1. id \in Nat /\ panel.after \in Nat
      BY IdsAreNumbers DEF SiteInv, SiteTyped, SiteTypeOK
    <3>2. CASE id <= panel.after
      BY <2>5, <3>2 DEF SiteInv, NothingMissed
    <3>3. CASE id > panel.after
      BY <2>4, <2>5, <3>3
    <3> QED BY <3>1, <3>2, <3>3
  <2> QED BY <2>3, <2>6, <2>7 DEF NothingMissed
<1>5. CASE Forget
  <2>1. Ids(records') = {}
    BY <1>5 DEF Forget, Ids
  <2> QED BY <1>5, <2>1 DEF Forget, SiteInv, ListedUpTo, NothingMissed
<1>6. CASE SiteRestart
  <2>1. Ids(records') = {}
    BY <1>6 DEF SiteRestart, Ids
  <2>2. panel'.after = panel.after /\ overtaken' = 1..panel.after
    BY <1>6 DEF SiteRestart, SiteInv, SiteTyped
  <2> QED BY <2>1, <2>2 DEF ListedUpTo, NothingMissed
<1>7. ASSUME NEW t \in Tabs \cup {Favicon},
             Proxy(t) \/ FindsEgress(t) \/ NotAnswered(t) \/ Answered(t)
      PROVE  UNCHANGED <<panel, records, overtaken>>
  BY <1>7 DEF Proxy, FindsEgress, NotAnswered, Answered, memory
<1>8. CASE FetchFavicon \/ SessionEnds
  BY <1>1, <1>8 DEF FetchFavicon, SessionEnds, memory
<1>9. ASSUME NEW page \in 1..MaxNumber, ListCached(page)
      PROVE  ListedUpTo' /\ NothingMissed'
  BY <1>1, <1>9 DEF ListCached
<1> QED BY <1>1, <1>2, <1>3, <1>4, <1>5, <1>6, <1>7, <1>8, <1>9 DEF SiteNext

LEMMA FaviconStaysAsked ==
    ASSUME SiteAssumption, SiteInv, SiteNext
    PROVE  FaviconAsked'
<1> USE DEF SiteInv, FaviconAsked
<1>1. ASSUME UNCHANGED <<ended, favicons, fetches>>, 0 \in timers' => 0 \in timers
      PROVE  FaviconAsked'
  BY <1>1
<1>2. ASSUME NEW t \in Tabs \cup {Favicon}, Relayed(t)
      PROVE  FaviconAsked'
  <2>1. tabs[t].id # 0
    BY <1>2 DEF SiteTyped, Relayed
  <2>2. UNCHANGED <<ended, fetches>>
    BY <1>2 DEF Relayed
  <2>3. CASE UNCHANGED <<timers, favicons>>
    BY <2>2, <2>3
  <2>4. CASE AfterDocument(tabs[t].id)
    <3>1. favicons' /\ (0 \in timers' => 0 \in timers \/ ~ favicons)
      BY <2>1, <2>4 DEF AfterDocument
    <3>2. 0 \in timers' /\ ended = "open" => fetches = 0
      BY <3>1
    <3> QED BY <2>2, <3>1, <3>2
  <2> QED BY <1>2, <2>3, <2>4 DEF Relayed
<1>3. CASE FetchFavicon
  <2>1. /\ 0 \in timers /\ 0 \notin timers' /\ UNCHANGED <<ended, favicons>>
        /\ fetches' = IF ended = "open" THEN fetches + 1 ELSE fetches
    BY <1>3 DEF FetchFavicon, memory
  <2>2. CASE ended = "open"
    <3>1. favicons /\ fetches = 0
      BY <2>1, <2>2
    <3> QED BY <2>1, <2>2, <3>1
  <2>3. CASE ended # "open"
    BY <2>1, <2>3
  <2> QED BY <2>2, <2>3
<1>4. ASSUME NEW page \in 1..MaxNumber, ListCached(page)
      PROVE  FaviconAsked'
  BY <1>1, <1>4 DEF ListCached
<1>9. ASSUME NEW c \in cached, KeepsCached(c)
      PROVE  FaviconAsked'
  BY <1>1, <1>9 DEF KeepsCached
<1>5. CASE SessionEnds \/ Forget
  <2>1. ended' # "open" /\ UNCHANGED fetches
    BY <1>5 DEF SessionEnds, Forget
  <2> QED BY <2>1
<1>6. CASE SiteRestart
  <2>1. fetches' = 0 /\ timers' = {}
    BY <1>6 DEF SiteRestart
  <2> QED BY <2>1
<1>7. ASSUME NEW t \in Tabs \cup {Favicon},
             Proxy(t) \/ FindsEgress(t) \/ NotAnswered(t) \/ Answered(t)
      PROVE  UNCHANGED <<ended, favicons, fetches, timers>>
  BY <1>7 DEF Proxy, FindsEgress, NotAnswered, Answered, memory
<1>8. CASE SiteRequests
  BY <1>1, <1>8 DEF SiteRequests, memory
<1> QED BY <1>1, <1>2, <1>3, <1>4, <1>5, <1>6, <1>7, <1>8, <1>9 DEF SiteNext

LEMMA SiteStaysSo ==
    ASSUME SiteAssumption, SiteInv, [SiteNext]_siteVars
    PROVE  SiteInv'
<1>1. CASE UNCHANGED siteVars
  BY <1>1 DEF siteVars, memory, SiteInv, SiteTyped, SiteTypeOK, ListedUpTo, NothingMissed,
              FaviconAsked
<1>2. CASE SiteNext
  <2>1. SiteTyped'
    BY <1>2, RequestsStayTyped, SiteStaysTyped DEF SiteNext
  <2> QED BY <1>2, <2>1, NothingIsMissed, FaviconStaysAsked DEF SiteInv
<1> QED BY <1>1, <1>2

\* Every variable of the pane keeps its type, and what was listed, what is
\* overtaken and what was asked of the favicon account for each other.
THEOREM SitePaneInvariant == ASSUME SiteAssumption PROVE SiteSpec => []SiteInv
<1>1. SiteInit => SiteInv
  BY SiteBeginsSo
<1>2. SiteInv /\ [SiteNext]_siteVars => SiteInv'
  BY SiteStaysSo
<1> QED BY <1>1, <1>2, PTL DEF SiteSpec

\* The panel misses only what was overtaken, and the favicon is fetched once:
\* for any requests at once, any number of records kept, and any restarts.
THEOREM ThePanelFollows == ASSUME SiteAssumption PROVE SiteSpec => []PanelFollowsTheSite
<1>1. SiteInv => PanelFollowsTheSite
  BY DEF SiteInv, NothingMissed, FaviconAsked, PanelFollowsTheSite, PanelMissesOvertaken, FaviconOnce
<1> QED BY <1>1, SitePaneInvariant, PTL

-----------------------------------------------------------------------------
(* The learner of a scenario: help and verdicts. *)

Posts == [phase : PostPhases, item : SUBSET Items, said : SUBSET Verdicts,
          right : BOOLEAN, early : BOOLEAN, version : Nat]
KeptVerdicts == [said : SUBSET Verdicts, right : BOOLEAN, wrong : Nat, early : BOOLEAN]

HelpTyped ==
    /\ clock \in Moments /\ lastChange \in Moments /\ lastChange <= clock
    /\ watching \subseteq Moments /\ idleOffered \subseteq Moments
    /\ idles \in [Moments -> Nat]
    /\ opened \in 0..HintCount

OfferFits == helped = opened /\ (offer # "none" => opened < HintCount)

\* An offer is made for a change that was noticed, and what an observation
\* reads is never older than what the last offer was made for.
OffersInOrder ==
    /\ \A w \in watching : w <= lastChange
    /\ \A o \in idleOffered : o <= lastChange /\ \A w \in watching : o <= w

\* No change is offered for twice: those before the last offer are over.
OncePerChange ==
    \A m \in Moments : idles[m] <= 1 /\ (idles[m] > 0 => \E o \in idleOffered : m <= o)

HelpInv == HelpTyped /\ OfferFits /\ OffersInOrder /\ OncePerChange

LEMMA HelpBeginsSo == ASSUME LearnerAssumption, LearnerInit PROVE HelpInv
<1>1. {HintCount, MaxNow} \subseteq Nat /\ 0 \in Moments
  BY DEF LearnerAssumption, Moments
<1>2. HelpTyped
  BY <1>1 DEF LearnerInit, HelpTyped
<1>3. OfferFits /\ OffersInOrder /\ OncePerChange
  BY DEF LearnerInit, OfferFits, OffersInOrder, OncePerChange
<1> QED BY <1>2, <1>3 DEF HelpInv

\* A version that is seen dates the last change no later than now.
LEMMA SeeingAVersion ==
    ASSUME LearnerAssumption, HelpInv, NEW version, WafSeen(version)
    PROVE  lastChange' \in Moments /\ lastChange <= lastChange' /\ lastChange' <= clock
  BY DEF LearnerAssumption, HelpInv, HelpTyped, Moments, WafSeen

\* Help that is asked for fits, too.
LEMMA HelpAskedForFits ==
    ASSUME HelpInv, NEW reason, Stuck(reason)
    PROVE  OfferFits' /\ UNCHANGED <<opened, helped>>
  BY DEF HelpInv, HelpTyped, OfferFits, Stuck

LEMMA OfferingForIdleness ==
    ASSUME LearnerAssumption, HelpInv, OffersForIdleness
    PROVE  HelpInv'
<1> USE DEF HelpInv
<1>1. UNCHANGED <<clock, lastChange>> /\ watching' = {}
  BY DEF OffersForIdleness, forceVars
<1>2. CASE UNCHANGED helpVars
  BY <1>1, <1>2 DEF helpVars, HelpTyped, OfferFits, OffersInOrder, OncePerChange
<1>3. ASSUME NEW last \in watching, last \notin idleOffered, Stuck("idle"),
             idleOffered' = {last}, idles' = [idles EXCEPT ![last] = @ + 1]
      PROVE  HelpInv'
  <2>1. last \in Moments /\ last <= lastChange /\ \A o \in idleOffered : o <= last
    BY <1>3 DEF HelpTyped, OffersInOrder
  <2>2. OfferFits' /\ UNCHANGED <<opened, helped>>
    BY <1>3, HelpAskedForFits
  <2>3. HelpTyped'
    BY <1>1, <1>3, <2>1, <2>2 DEF HelpTyped
  <2>4. OffersInOrder'
    BY <1>1, <1>3, <2>1 DEF OffersInOrder
  <2>5. idles[last] = 0
    <3>1. idles[last] \in Nat
      BY <2>1 DEF HelpTyped
    <3>2. ASSUME idles[last] > 0 PROVE FALSE
      <4>1. PICK o \in idleOffered : last <= o
        BY <2>1, <3>2 DEF OncePerChange
      <4>2. o = last
        BY <2>1, <4>1 DEF HelpTyped, Moments
      <4> QED BY <1>3, <4>1, <4>2
    <3> QED BY <3>1, <3>2
  <2>6. ASSUME NEW m \in Moments
        PROVE  idles'[m] <= 1 /\ (idles'[m] > 0 => m <= last)
    <3>1. CASE m = last
      BY <1>3, <2>1, <2>5, <3>1 DEF HelpTyped, Moments
    <3>2. CASE m # last
      <4>1. idles'[m] = idles[m]
        BY <1>3, <3>2 DEF HelpTyped
      <4>2. idles[m] <= 1 /\ (idles[m] > 0 => \E o \in idleOffered : m <= o)
        BY DEF OncePerChange
      <4>3. ASSUME idles[m] > 0 PROVE m <= last
        <5>1. PICK o \in idleOffered : m <= o
          BY <4>2, <4>3
        <5>2. o <= last
          BY <2>1
        <5> QED BY <2>1, <5>1, <5>2 DEF HelpTyped, Moments
      <4> QED BY <4>1, <4>2, <4>3
    <3> QED BY <3>1, <3>2
  <2>7. OncePerChange'
    BY <1>3, <2>6 DEF OncePerChange
  <2> QED BY <2>2, <2>3, <2>4, <2>7
<1> QED BY <1>2, <1>3 DEF OffersForIdleness

LEMMA HelpStaysSo ==
    ASSUME LearnerAssumption, HelpInv, [LearnerNext]_learnerVars
    PROVE  HelpInv'
<1> USE DEF HelpInv
<1>1. ASSUME UNCHANGED <<clock, lastChange, watching, helpVars>> PROVE HelpInv'
  BY <1>1 DEF helpVars, HelpTyped, OfferFits, OffersInOrder, OncePerChange
<1>2. CASE UNCHANGED learnerVars
  BY <1>1, <1>2 DEF learnerVars, helpVars
<1>3. CASE MinutePasses
  <2>1. clock' \in Moments /\ lastChange <= clock'
    BY <1>3 DEF LearnerAssumption, MinutePasses, HelpTyped, Moments
  <2> QED BY <1>3, <2>1 DEF MinutePasses, forceVars, helpVars, HelpTyped, OfferFits,
                           OffersInOrder, OncePerChange
<1>4. CASE \/ \E a \in Attackers : Records(a)
           \/ \E i \in Items : Alerts(i)
           \/ \E t \in LearnerTabs : Judges(t) \/ Keeps(t)
           \/ \E t \in LearnerTabs : WafWrites(t)
           \/ TerminalWrites
  BY <1>1, <1>4 DEF Records, Alerts, Judges, Keeps, WafWrites, TerminalWrites, forceVars
<1>5. ASSUME NEW t \in LearnerTabs, WafApplied(t)
      PROVE  HelpInv'
  <2>1. lastChange' \in Moments /\ lastChange <= lastChange' /\ lastChange' <= clock
    BY <1>5, SeeingAVersion DEF WafApplied
  <2>2. UNCHANGED <<clock, watching, helpVars>>
    BY <1>5 DEF WafApplied
  <2>3. OffersInOrder'
    BY <2>1, <2>2 DEF helpVars, HelpTyped, OffersInOrder, Moments
  <2> QED BY <2>1, <2>2, <2>3 DEF helpVars, HelpTyped, OfferFits, OncePerChange
<1>6. CASE Observes
  <2>1. lastChange' \in Moments /\ lastChange <= lastChange' /\ lastChange' <= clock
    <3>1. CASE WafSeen(force)
      BY <3>1, SeeingAVersion
    <3>2. CASE UNCHANGED <<noticed, lastChange>>
      BY <3>2 DEF HelpTyped, Moments
    <3> QED BY <1>6, <3>1, <3>2 DEF Observes
  <2>2. watching' = {lastChange'} /\ UNCHANGED <<clock, helpVars>>
    BY <1>6 DEF Observes
  <2>3. OffersInOrder'
    BY <2>1, <2>2 DEF helpVars, HelpTyped, OffersInOrder, Moments
  <2> QED BY <2>1, <2>2, <2>3 DEF helpVars, HelpTyped, OfferFits, OncePerChange
<1>7. ASSUME NEW t \in LearnerTabs, AsksForHelp(t)
      PROVE  HelpInv'
  <2>1. PICK reason : Stuck(reason)
    BY <1>7 DEF AsksForHelp
  <2>2. OfferFits' /\ UNCHANGED <<opened, helped>>
    BY <2>1, HelpAskedForFits
  <2>3. UNCHANGED <<clock, lastChange, watching, idleOffered, idles>>
    BY <1>7 DEF AsksForHelp, forceVars
  <2> QED BY <2>2, <2>3 DEF HelpTyped, OffersInOrder, OncePerChange
<1>11. CASE ChecksFail
  <2>1. OfferFits' /\ UNCHANGED <<opened, helped>>
    BY <1>11, HelpAskedForFits DEF ChecksFail
  <2> QED BY <1>11, <2>1 DEF ChecksFail, forceVars, HelpTyped, OffersInOrder, OncePerChange
<1>8. CASE OffersForIdleness
  BY <1>8, OfferingForIdleness
<1>9. CASE OpensHint
  <2>1. opened' \in 0..HintCount /\ helped' = opened' /\ offer' = "none"
    BY <1>9 DEF LearnerAssumption, OpensHint, HelpTyped, OfferFits
  <2> QED BY <1>9, <2>1 DEF OpensHint, forceVars, HelpTyped, OfferFits, OffersInOrder, OncePerChange
<1>10. CASE PlatformRestarts
  <2>1. watching' = {} /\ UNCHANGED <<clock, lastChange, helpVars>>
    BY <1>10 DEF PlatformRestarts, forceVars
  <2> QED BY <2>1 DEF helpVars, HelpTyped, OfferFits, OffersInOrder, OncePerChange
<1> QED BY <1>2, <1>3, <1>4, <1>5, <1>6, <1>7, <1>8, <1>9, <1>10, <1>11 DEF LearnerNext

\* What is said of an item is so, in the end too.
TruthOf(i, said) ==
    /\ said.attack = (i \in Attackers)
    /\ said.attack => said.succeeded = Succeeds(i)

RightlyJudged(i, verdict) ==
    verdict.right /\ ~ verdict.early => \A said \in verdict.said : TruthOf(i, said)

CreditsAreTaken == credited \subseteq dumped

PostsTyped ==
    /\ posting \in [LearnerTabs -> Posts] /\ triage \in [Items -> KeptVerdicts]
    /\ alerted \subseteq Items

VerdictInv ==
    /\ PostsTyped /\ CreditsAreTaken
    /\ \A i \in Items : RightlyJudged(i, triage[i])
    /\ \A t \in LearnerTabs : \A i \in posting[t].item : RightlyJudged(i, posting[t])

LEMMA NoPostIsTyped == NoPost \in Posts /\ NoPost.item = {}
  BY DEF NoPost, PostAt, Posts, PostPhases

LEMMA VerdictsBeginSo == ASSUME LearnerInit PROVE VerdictInv
<1>1. NoVerdict \in KeptVerdicts /\ NoVerdict.said = {}
  BY DEF NoVerdict, KeptVerdicts
<1>2. PostsTyped
  BY <1>1, NoPostIsTyped DEF LearnerInit, PostsTyped
<1>3. \A i \in Items : RightlyJudged(i, triage[i])
  BY <1>1 DEF LearnerInit, RightlyJudged
<1>4. \A t \in LearnerTabs : posting[t].item = {}
  BY NoPostIsTyped DEF LearnerInit
<1> QED BY <1>2, <1>3, <1>4 DEF LearnerInit, VerdictInv, CreditsAreTaken

\* What is judged right and not early is the truth: an attack that took
\* something is credited with it by then, and one that did not never is.
LEMMA JudgingIsTrue ==
    ASSUME CreditsAreTaken, NEW i \in Items, NEW said \in Verdicts,
           Right(Truth(i), said), ~ (Succeeds(i) /\ i \notin credited)
    PROVE  TruthOf(i, said)
<1>1. Truth(i).attack = (i \in Attackers) /\ Truth(i).succeeded = (i \in credited)
  BY DEF Truth
<1>2. said.attack = (i \in Attackers)
  BY <1>1 DEF Right
<1>3. said.attack => said.succeeded = (i \in credited)
  BY <1>1 DEF Right
<1>4. (i \in credited) <=> (i \in dumped)
  BY DEF Succeeds, CreditsAreTaken
<1>5. (i \in credited) = (i \in dumped)
  BY <1>4
<1> QED BY <1>2, <1>3, <1>5 DEF TruthOf, Succeeds

LEMMA PostAtIsTyped ==
    ASSUME NEW phase \in PostPhases, NEW version \in Nat
    PROVE  PostAt(phase, version) \in Posts /\ PostAt(phase, version).item = {}
BY DEF PostAt, Posts

LEMMA Judging ==
    ASSUME VerdictInv, NEW t \in LearnerTabs, Judges(t)
    PROVE  VerdictInv'
<1>1. PICK i \in Listed, said \in Verdicts :
        posting' = [posting EXCEPT ![t] =
          [phase |-> "judged", item |-> {i}, said |-> {said}, right |-> Right(Truth(i), said),
               early |-> Succeeds(i) /\ i \notin credited, version |-> 0]]
  BY DEF Judges
<1> DEFINE post == [phase |-> "judged", item |-> {i}, said |-> {said}, right |-> Right(Truth(i), said),
                    early |-> Succeeds(i) /\ i \notin credited, version |-> 0]
<1>2. UNCHANGED <<dumped, credited, alerted, triage>>
  BY DEF Judges, recordVars
<1>3. PostsTyped /\ CreditsAreTaken
  BY DEF VerdictInv
<1>4. Right(Truth(i), said) \in BOOLEAN /\ (Succeeds(i) /\ i \notin credited) \in BOOLEAN
  BY DEF Right, Succeeds
<1>5. i \in Items
  BY DEF VerdictInv, PostsTyped, Listed
<1>6. post \in Posts
  <2>1. {i} \in SUBSET Items /\ {said} \in SUBSET Verdicts /\ "judged" \in PostPhases
    BY <1>5 DEF PostPhases
  <2> QED BY <1>4, <2>1 DEF Posts
<1>7. RightlyJudged(i, post)
  BY <1>3, <1>5, JudgingIsTrue DEF RightlyJudged
<1>8. posting' = [posting EXCEPT ![t] = post] /\ post.item = {i}
  BY <1>1
<1> HIDE DEF post
<1>9. PostsTyped'
  BY <1>2, <1>3, <1>6, <1>8 DEF PostsTyped
<1>10. ASSUME NEW u \in LearnerTabs, NEW j \in posting'[u].item
      PROVE  RightlyJudged(j, posting'[u])
  <2>1. CASE u = t
    <3>1. posting'[u] = post
      BY <1>3, <1>8, <2>1 DEF PostsTyped
    <3> QED BY <1>7, <1>8, <1>10, <3>1
  <2>2. CASE u # t
    <3>1. posting'[u] = posting[u]
      BY <1>3, <1>8, <2>2 DEF PostsTyped
    <3> QED BY <1>10, <3>1 DEF VerdictInv
  <2> QED BY <2>1, <2>2
<1> QED BY <1>2, <1>3, <1>9, <1>10
    DEF VerdictInv, CreditsAreTaken, RightlyJudged, TruthOf, Succeeds

LEMMA Keeping ==
    ASSUME VerdictInv, NEW t \in LearnerTabs, Keeps(t)
    PROVE  VerdictInv'
<1> DEFINE post == posting[t]
<1>1. UNCHANGED <<dumped, credited, alerted>> /\ PostsTyped /\ CreditsAreTaken
  BY DEF Keeps, recordVars, VerdictInv
<1>2. PICK i \in post.item :
        /\ triage' = [triage EXCEPT ![i] = KeptJudgement(triage[i], post)]
        /\ \/ posting' = [posting EXCEPT ![t] = PostAt("triage", 0)]
           \/ posting' = [posting EXCEPT ![t] = NoPost]
  BY DEF Keeps
<1> DEFINE verdict == KeptJudgement(triage[i], post)
<1>3. post \in Posts /\ i \in Items /\ triage[i] \in KeptVerdicts
  BY <1>1, <1>2 DEF PostsTyped, Posts
<1>4. post.said \in SUBSET Verdicts /\ post.right \in BOOLEAN /\ post.early \in BOOLEAN
  BY <1>3 DEF Posts
<1>5. (IF post.right THEN 0 ELSE triage[i].wrong + 1) \in Nat
  BY <1>3 DEF KeptVerdicts
<1>6. verdict \in KeptVerdicts
  BY <1>4, <1>5 DEF KeptJudgement, KeptVerdicts
<1>7. RightlyJudged(i, verdict)
  <2>1. RightlyJudged(i, post)
    BY <1>2 DEF VerdictInv
  <2>2. verdict.right = post.right /\ verdict.early = post.early /\ verdict.said = post.said
    BY DEF KeptJudgement
  <2> QED BY <2>1, <2>2 DEF RightlyJudged
<1>8. triage' = [triage EXCEPT ![i] = verdict]
  BY <1>2
<1> HIDE DEF verdict, post
<1>9. triage' \in [Items -> KeptVerdicts] /\ \A j \in Items : RightlyJudged(j, triage'[j])
  <2>1. triage' \in [Items -> KeptVerdicts]
    BY <1>1, <1>3, <1>6, <1>8 DEF PostsTyped
  <2>2. triage'[i] = verdict /\ \A j \in Items \ {i} : triage'[j] = triage[j]
    BY <1>1, <1>3, <1>8 DEF PostsTyped
  <2> QED BY <1>7, <2>1, <2>2 DEF VerdictInv
<1>10. PICK left \in Posts : left.item = {} /\ posting' = [posting EXCEPT ![t] = left]
  <2>1. PostAt("triage", 0) \in Posts /\ PostAt("triage", 0).item = {}
    BY NoPostIsTyped DEF NoPost, PostAt, Posts, PostPhases
  <2> QED BY <1>2, <2>1, NoPostIsTyped
<1>11. /\ posting' \in [LearnerTabs -> Posts]
       /\ \A u \in LearnerTabs : posting'[u] = left \/ posting'[u] = posting[u]
  BY <1>1, <1>10 DEF PostsTyped
<1>12. \A u \in LearnerTabs : \A j \in posting'[u].item : RightlyJudged(j, posting'[u])
  BY <1>10, <1>11 DEF VerdictInv
<1> QED BY <1>1, <1>9, <1>11, <1>12
    DEF VerdictInv, PostsTyped, CreditsAreTaken, RightlyJudged, TruthOf, Succeeds

\* A request that is dropped or goes on to ask for help holds no other verdict
\* than it did.
LEMMA PostingOn ==
    ASSUME VerdictInv, UNCHANGED <<dumped, credited, alerted, triage>>,
           posting' \in [LearnerTabs -> Posts],
           \A t \in LearnerTabs : \/ posting'[t].item = {}
                                  \/ /\ posting'[t].item = posting[t].item
                                     /\ posting'[t].said = posting[t].said
                                     /\ posting'[t].right = posting[t].right
                                     /\ posting'[t].early = posting[t].early
    PROVE  VerdictInv'
<1>1. \A t \in LearnerTabs : \A j \in posting'[t].item : RightlyJudged(j, posting'[t])
  BY DEF VerdictInv, RightlyJudged
<1> QED BY <1>1
    DEF VerdictInv, PostsTyped, CreditsAreTaken, RightlyJudged, TruthOf, Succeeds

LEMMA VerdictsStaySo ==
    ASSUME VerdictInv, [LearnerNext]_learnerVars
    PROVE  VerdictInv'
<1>1. ASSUME UNCHANGED <<dumped, credited, alerted, triage, posting>> PROVE VerdictInv'
  BY <1>1 DEF VerdictInv, PostsTyped, CreditsAreTaken, RightlyJudged, TruthOf, Succeeds
<1>2. CASE UNCHANGED learnerVars
  BY <1>1, <1>2 DEF learnerVars
<1>3. CASE \/ MinutePasses \/ ChecksFail \/ TerminalWrites \/ Observes \/ OffersForIdleness \/ OpensHint
  BY <1>1, <1>3 DEF MinutePasses, ChecksFail, TerminalWrites, Observes, OffersForIdleness, OpensHint,
                    recordVars, triageVars
<1>4. ASSUME NEW a \in Attackers, Records(a) PROVE VerdictInv'
  <2>1. CreditsAreTaken' /\ UNCHANGED <<dumped, alerted, triage, posting>>
    BY <1>4 DEF Records, VerdictInv, CreditsAreTaken, triageVars
  <2> QED BY <2>1 DEF VerdictInv, PostsTyped, RightlyJudged, TruthOf, Succeeds
<1>5. ASSUME NEW i \in Items, Alerts(i) PROVE VerdictInv'
  <2>1. alerted' \subseteq Items /\ UNCHANGED <<dumped, credited, triage, posting>>
    BY <1>5 DEF Alerts, VerdictInv, PostsTyped, triageVars
  <2> QED BY <2>1 DEF VerdictInv, PostsTyped, CreditsAreTaken, RightlyJudged, TruthOf, Succeeds
<1>6. ASSUME NEW t \in LearnerTabs, WafWrites(t) \/ WafApplied(t) PROVE VerdictInv'
  <2>1. UNCHANGED <<dumped, credited, alerted, triage>> /\ PostsTyped
    BY <1>6 DEF WafWrites, WafApplied, recordVars, VerdictInv
  <2>2. PICK left \in Posts : left.item = {} /\ posting' = [posting EXCEPT ![t] = left]
    <3>1. CASE WafWrites(t)
      <4>1. PICK version \in 0..MaxVersion, phase \in {"same", "written"} :
              posting' = [posting EXCEPT ![t] = PostAt(phase, version)]
        BY <3>1 DEF WafWrites
      <4> DEFINE left == PostAt(phase, version)
      <4>2. left \in Posts /\ left.item = {}
        <5>1. phase \in PostPhases
          BY DEF PostPhases
        <5> QED BY <5>1, PostAtIsTyped
      <4> HIDE DEF left
      <4>3. posting' = [posting EXCEPT ![t] = left]
        BY <4>1 DEF left
      <4> QED BY <4>2, <4>3
    <3>2. CASE WafApplied(t)
      <4>1. PostAt("again", 0) \in Posts /\ PostAt("again", 0).item = {}
        BY NoPostIsTyped DEF NoPost, PostAt, Posts, PostPhases
      <4>2. \/ posting' = [posting EXCEPT ![t] = PostAt("again", 0)]
            \/ posting' = [posting EXCEPT ![t] = NoPost]
        BY <3>2 DEF WafApplied
      <4> QED BY <4>1, <4>2, NoPostIsTyped
    <3> QED BY <1>6, <3>1, <3>2
  <2>3. posting' \in [LearnerTabs -> Posts]
    BY <2>1, <2>2 DEF PostsTyped
  <2>4. \A u \in LearnerTabs : posting'[u] = left \/ posting'[u] = posting[u]
    BY <2>1, <2>2 DEF PostsTyped
  <2> QED BY <2>1, <2>2, <2>3, <2>4, PostingOn
<1>7. ASSUME NEW t \in LearnerTabs, AsksForHelp(t) PROVE VerdictInv'
  <2>1. UNCHANGED <<dumped, credited, alerted, triage>> /\ PostsTyped
        /\ posting' = [posting EXCEPT ![t] = NoPost]
    BY <1>7 DEF AsksForHelp, recordVars, VerdictInv
  <2>2. posting' \in [LearnerTabs -> Posts]
    BY <2>1, NoPostIsTyped DEF PostsTyped
  <2>3. \A u \in LearnerTabs : posting'[u] = NoPost \/ posting'[u] = posting[u]
    BY <2>1 DEF PostsTyped
  <2> QED BY <2>1, <2>2, <2>3, NoPostIsTyped, PostingOn
<1>8. CASE PlatformRestarts
  <2>1. UNCHANGED <<dumped, credited, alerted, triage>>
        /\ posting' = [t \in LearnerTabs |-> NoPost]
    BY <1>8 DEF PlatformRestarts, recordVars
  <2> QED BY <2>1, NoPostIsTyped, PostingOn
<1> QED BY <1>2, <1>3, <1>4, <1>5, <1>6, <1>7, <1>8, Judging, Keeping DEF LearnerNext

\* Help and verdicts are kept in order by whatever the learner, the attacks,
\* the engine's pass and a restart do.
THEOREM LearnerInvariant ==
    ASSUME LearnerAssumption
    PROVE  LearnerSpec => [](HelpInv /\ VerdictInv)
<1>1. LearnerInit => HelpInv /\ VerdictInv
  BY HelpBeginsSo, VerdictsBeginSo
<1>2. HelpInv /\ VerdictInv /\ [LearnerNext]_learnerVars => (HelpInv /\ VerdictInv)'
  BY HelpStaysSo, VerdictsStaySo
<1> QED BY <1>1, <1>2, PTL DEF LearnerSpec

\* Help is offered only while a hint is left, for idleness once for a change,
\* and the session keeps as used what was opened: for any tabs and any times.
THEOREM HelpFits == ASSUME LearnerAssumption PROVE LearnerSpec => []HelpFitsWhatIsLeft
<1>1. HelpInv => HelpFitsWhatIsLeft
  BY DEF HelpInv, OfferFits, OncePerChange, HelpFitsWhatIsLeft
<1> QED BY <1>1, LearnerInvariant, PTL

\* A verdict kept as right is the truth in the end, however many pages judge
\* while attacks run and what they took is credited.
THEOREM VerdictsAreTrue == ASSUME LearnerAssumption PROVE LearnerSpec => []VerdictsStayTrue
<1>1. VerdictInv => VerdictsStayTrue
  BY DEF VerdictInv, RightlyJudged, TruthOf, VerdictsStayTrue
<1> QED BY <1>1, LearnerInvariant, PTL


\* How often an item can have been judged wrongly: no more often than verdicts
\* were given that are not under way any more.
UnderWay == {t \in LearnerTabs : posting[t].phase = "judged"}

WrongsCounted ==
    /\ verdicts \in 0..MaxVerdicts /\ IsFiniteSet(UnderWay)
    /\ \A i \in Items : triage[i].wrong + Cardinality(UnderWay) <= verdicts

RecordsTyped ==
    /\ dumped \subseteq Attackers /\ attacked \subseteq Attackers /\ credited \subseteq attacked \cap dumped
    /\ {force, noticed} \subseteq 0..MaxVersion
    /\ \A t \in LearnerTabs : posting[t].version \in 0..MaxVersion
    /\ offer \in {"none", "triage", "check", "waf", "idle"}

LearnerInv == HelpInv /\ VerdictInv /\ RecordsTyped /\ WrongsCounted

LEMMA RecordsStayTyped ==
    ASSUME LearnerAssumption, VerdictInv, RecordsTyped, [LearnerNext]_learnerVars
    PROVE  RecordsTyped'
<1> DEFINE VersionsTyped == \A t \in LearnerTabs : posting[t].version \in 0..MaxVersion
<1>9. NoPost.version = 0 /\ 0 \in 0..MaxVersion /\ posting \in [LearnerTabs -> Posts]
  BY DEF NoPost, PostAt, LearnerAssumption, VerdictInv, PostsTyped
<1>10. ASSUME NEW t \in LearnerTabs, NEW post, post.version \in 0..MaxVersion,
              posting' = [posting EXCEPT ![t] = post]
       PROVE  VersionsTyped'
  <2>1. \A u \in LearnerTabs : posting'[u] = post \/ posting'[u] = posting[u]
    BY <1>9, <1>10
  <2> QED BY <1>10, <2>1 DEF RecordsTyped
<1>1. CASE UNCHANGED learnerVars
  BY <1>1 DEF learnerVars, RecordsTyped
<1>2. CASE MinutePasses \/ OpensHint \/ OffersForIdleness \/ ChecksFail \/ \E i \in Items : Alerts(i)
  BY <1>2 DEF MinutePasses, OpensHint, OffersForIdleness, ChecksFail, Alerts, Stuck,
              recordVars, triageVars, forceVars, helpVars, RecordsTyped
<1>3. ASSUME NEW a \in Attackers, Records(a) PROVE RecordsTyped'
  BY <1>3 DEF Records, triageVars, forceVars, helpVars, RecordsTyped
<1>4. ASSUME NEW t \in LearnerTabs, Judges(t) \/ Keeps(t) PROVE RecordsTyped'
  <2>1. VersionsTyped'
    <3>1. CASE Judges(t)
      <4>1. PICK i \in Listed, said \in Verdicts : posting' = [posting EXCEPT ![t] =
              [phase |-> "judged", item |-> {i}, said |-> {said}, right |-> Right(Truth(i), said),
               early |-> Succeeds(i) /\ i \notin credited, version |-> 0]]
        BY <3>1 DEF Judges
      <4> DEFINE post == [phase |-> "judged", item |-> {i}, said |-> {said}, right |-> Right(Truth(i), said),
               early |-> Succeeds(i) /\ i \notin credited, version |-> 0]
      <4>2. post.version = 0
        BY DEF NoPost, PostAt
      <4> HIDE DEF post
      <4>3. posting' = [posting EXCEPT ![t] = post]
        BY <4>1 DEF post
      <4> QED BY <1>9, <1>10, <4>2, <4>3
    <3>2. CASE Keeps(t)
      <4>1. PostAt("triage", 0).version = 0
        BY DEF NoPost, PostAt
      <4> QED BY <1>9, <1>10, <3>2, <4>1 DEF Keeps
    <3> QED BY <1>4, <3>1, <3>2
  <2>2. UNCHANGED <<dumped, attacked, credited, force, noticed, offer>>
    BY <1>4 DEF Judges, Keeps, recordVars, forceVars, helpVars
  <2> QED BY <2>1, <2>2 DEF RecordsTyped
<1>5. ASSUME NEW t \in LearnerTabs, AsksForHelp(t) PROVE RecordsTyped'
  <2>1. VersionsTyped'
    BY <1>5, <1>9, <1>10 DEF AsksForHelp
  <2>2. UNCHANGED <<dumped, attacked, credited, force, noticed>>
    BY <1>5 DEF AsksForHelp, recordVars, forceVars
  <2>3. offer' \in {"none", "triage", "check", "waf", "idle"}
    BY <1>5 DEF AsksForHelp, Stuck, RecordsTyped
  <2> QED BY <2>1, <2>2, <2>3 DEF RecordsTyped
<1>6. ASSUME NEW t \in LearnerTabs, WafWrites(t) PROVE RecordsTyped'
  <2>1. PICK version \in 0..MaxVersion :
          /\ force' = version
          /\ posting' = [posting EXCEPT ![t] =
               PostAt(IF version = force THEN "same" ELSE "written", version)]
    BY <1>6 DEF WafWrites
  <2> DEFINE post == PostAt(IF version = force THEN "same" ELSE "written", version)
  <2>2. post.version = version
    BY DEF NoPost, PostAt
  <2> HIDE DEF post
  <2>3. posting' = [posting EXCEPT ![t] = post]
    BY <2>1 DEF post
  <2>4. VersionsTyped'
    BY <1>10, <2>2, <2>3
  <2> QED BY <1>6, <2>1, <2>4 DEF WafWrites, recordVars, helpVars, RecordsTyped
<1>7. ASSUME NEW t \in LearnerTabs, WafApplied(t) PROVE RecordsTyped'
  <2>1. noticed' \in 0..MaxVersion
    BY <1>7 DEF WafApplied, WafSeen, RecordsTyped
  <2>2. PostAt("again", 0).version = 0
    BY DEF NoPost, PostAt
  <2>3. VersionsTyped'
    BY <1>7, <1>9, <1>10, <2>2 DEF WafApplied
  <2> QED BY <1>7, <2>1, <2>3 DEF WafApplied, recordVars, helpVars, RecordsTyped
<1>8. CASE TerminalWrites \/ Observes
  BY <1>8 DEF LearnerAssumption, TerminalWrites, Observes, WafSeen, recordVars, triageVars, helpVars,
              RecordsTyped
<1>11. CASE PlatformRestarts
  <2>1. VersionsTyped'
    BY <1>9, <1>11 DEF PlatformRestarts
  <2> QED BY <1>11, <2>1 DEF PlatformRestarts, recordVars, forceVars, helpVars, RecordsTyped
<1> QED BY <1>1, <1>2, <1>3, <1>4, <1>5, <1>6, <1>7, <1>8, <1>11 DEF LearnerNext

\* A verdict that is given is under way until it is kept.
LEMMA WrongsStayCounted ==
    ASSUME LearnerAssumption, VerdictInv, WrongsCounted, [LearnerNext]_learnerVars
    PROVE  WrongsCounted'
<1>1. /\ posting \in [LearnerTabs -> Posts] /\ triage \in [Items -> KeptVerdicts] /\ MaxVerdicts \in Nat
      /\ \A i \in Items : triage[i].wrong \in Nat
      /\ \A t \in LearnerTabs : posting[t].item \subseteq Items
  BY DEF VerdictInv, PostsTyped, KeptVerdicts, Posts, LearnerAssumption
<1>2. verdicts \in Nat /\ Cardinality(UnderWay) \in Nat /\ IsFiniteSet(UnderWay)
  BY <1>1, FS_CardinalityType DEF WrongsCounted
<1>3. ASSUME UNCHANGED <<triage, verdicts>>, UnderWay' \subseteq UnderWay PROVE WrongsCounted'
  <2>1. IsFiniteSet(UnderWay') /\ Cardinality(UnderWay') <= Cardinality(UnderWay)
        /\ Cardinality(UnderWay') \in Nat
    BY <1>2, <1>3, FS_Subset, FS_CardinalityType
  <2> QED BY <1>1, <1>2, <1>3, <2>1 DEF WrongsCounted
<1>4. CASE UNCHANGED <<triage, verdicts, posting>>
  BY <1>3, <1>4 DEF UnderWay
<1>5. ASSUME NEW t \in LearnerTabs, Judges(t) PROVE WrongsCounted'
  <2>1. /\ posting[t].phase = "idle" /\ verdicts < MaxVerdicts /\ verdicts' = verdicts + 1
        /\ UNCHANGED triage /\ \E post : post.phase = "judged" /\ posting' = [posting EXCEPT ![t] = post]
    BY <1>5 DEF Judges, NoPost, PostAt
  <2>2. UnderWay' = UnderWay \cup {t} /\ t \notin UnderWay
    BY <1>1, <2>1 DEF UnderWay
  <2>3. IsFiniteSet(UnderWay') /\ Cardinality(UnderWay') = Cardinality(UnderWay) + 1
    BY <1>2, <2>2, FS_AddElement
  <2> QED BY <1>1, <1>2, <2>1, <2>3 DEF WrongsCounted
<1>6. ASSUME NEW t \in LearnerTabs, Keeps(t) PROVE WrongsCounted'
  <2>1. PICK i \in posting[t].item : triage' = [triage EXCEPT ![i] = KeptJudgement(triage[i], posting[t])]
    BY <1>6 DEF Keeps
  <2>2. posting[t].phase = "judged" /\ UNCHANGED verdicts
        /\ \E post : post.phase # "judged" /\ posting' = [posting EXCEPT ![t] = post]
    <3>1. NoPost.phase # "judged" /\ PostAt("triage", 0).phase # "judged"
      BY DEF NoPost, PostAt
    <3> QED BY <1>6, <3>1 DEF Keeps
  <2>3. UnderWay' = UnderWay \ {t} /\ t \in UnderWay
    BY <1>1, <2>2 DEF UnderWay
  <2>4. IsFiniteSet(UnderWay') /\ Cardinality(UnderWay') = Cardinality(UnderWay) - 1
    BY <1>2, <2>3, FS_RemoveElement
  <2>5. i \in Items /\ triage'[i] = KeptJudgement(triage[i], posting[t])
        /\ \A j \in Items : j # i => triage'[j] = triage[j]
    BY <1>1, <2>1
  <2>6. triage'[i].wrong \in Nat /\ triage'[i].wrong <= triage[i].wrong + 1
    BY <1>1, <2>5 DEF KeptJudgement
  <2>7. \A j \in Items : triage'[j].wrong \in Nat /\ triage'[j].wrong <= triage[j].wrong + 1
    BY <1>1, <2>5, <2>6
  <2> QED BY <1>1, <1>2, <2>2, <2>4, <2>7 DEF WrongsCounted
<1>7. ASSUME NEW t \in LearnerTabs, AsksForHelp(t) \/ WafWrites(t) \/ WafApplied(t)
      PROVE  WrongsCounted'
  <2>1. UNCHANGED <<triage, verdicts>>
    BY <1>7 DEF AsksForHelp, WafWrites, WafApplied
  <2>2. \E post : post.phase # "judged" /\ posting' = [posting EXCEPT ![t] = post]
    <3>1. NoPost.phase # "judged" /\ PostAt("again", 0).phase # "judged"
      BY DEF NoPost, PostAt
    <3>2. CASE AsksForHelp(t) \/ WafApplied(t)
      BY <3>1, <3>2 DEF AsksForHelp, WafApplied
    <3>3. CASE WafWrites(t)
      <4>1. PICK version \in 0..MaxVersion, phase \in {"same", "written"} :
              posting' = [posting EXCEPT ![t] = PostAt(phase, version)]
        BY <3>3 DEF WafWrites
      <4>2. PostAt(phase, version).phase = phase
        BY DEF NoPost, PostAt
      <4> QED BY <4>1, <4>2
    <3> QED BY <1>7, <3>2, <3>3
  <2>3. UnderWay' \subseteq UnderWay
    BY <1>1, <2>2 DEF UnderWay
  <2> QED BY <1>3, <2>1, <2>3
<1>8. CASE PlatformRestarts
  <2>1. NoPost.phase # "judged" /\ UNCHANGED <<triage, verdicts>>
        /\ posting' = [t \in LearnerTabs |-> NoPost]
    BY <1>8 DEF PlatformRestarts, NoPost, PostAt
  <2>2. UnderWay' \subseteq UnderWay
    BY <2>1 DEF UnderWay
  <2> QED BY <1>3, <2>1, <2>2
<1>9. \/ MinutePasses \/ (\E a \in Attackers : Records(a)) \/ (\E i \in Items : Alerts(i))
      \/ ChecksFail \/ TerminalWrites \/ Observes \/ OffersForIdleness \/ OpensHint
      \/ UNCHANGED learnerVars
      => UNCHANGED <<triage, verdicts, posting>>
  BY DEF MinutePasses, Records, Alerts, ChecksFail, TerminalWrites, Observes, OffersForIdleness, OpensHint,
         triageVars, learnerVars
<1> QED BY <1>4, <1>5, <1>6, <1>7, <1>8, <1>9 DEF LearnerNext

LEMMA LearnerBeginsSo == ASSUME LearnerAssumption, LearnerInit PROVE LearnerInv
<1>1. {MaxVersion, MaxVerdicts} \subseteq Nat /\ force = 0 /\ noticed = 0 /\ verdicts = 0
      /\ dumped \subseteq Attackers /\ attacked = {} /\ credited = {} /\ offer = "none"
  BY DEF LearnerAssumption, LearnerInit
<1>2. UnderWay = {} /\ \A i \in Items : triage[i].wrong = 0
  BY DEF LearnerInit, UnderWay, NoPost, PostAt, NoVerdict
<1>4. \A t \in LearnerTabs : posting[t].version = 0
  BY DEF LearnerInit, NoPost, PostAt
<1>3. RecordsTyped /\ WrongsCounted
  BY <1>1, <1>2, <1>4, FS_EmptySet DEF RecordsTyped, WrongsCounted
<1> QED BY <1>3, HelpBeginsSo, VerdictsBeginSo DEF LearnerInv

LEMMA LearnerStaysSo ==
    ASSUME LearnerAssumption, LearnerInv, [LearnerNext]_learnerVars
    PROVE  LearnerInv'
BY HelpStaysSo, VerdictsStaySo, RecordsStayTyped, WrongsStayCounted DEF LearnerInv

LEMMA LearnerIsTyped == ASSUME LearnerAssumption, LearnerInv PROVE LearnerTypeOK
<1>1. \A t \in LearnerTabs : posting[t].phase \in PostPhases
  BY DEF LearnerInv, VerdictInv, PostsTyped, Posts, PostPhases
<1>2. \A i \in Items : triage[i] \in KeptVerdicts
  BY DEF LearnerInv, VerdictInv, PostsTyped
<1>3. Cardinality(UnderWay) \in Nat /\ verdicts \in 0..MaxVerdicts /\ MaxVerdicts \in Nat
  BY FS_CardinalityType DEF LearnerInv, WrongsCounted, LearnerAssumption
<1>4. \A i \in Items : /\ triage[i].said \subseteq Verdicts /\ triage[i].wrong \in 0..MaxVerdicts
                       /\ {triage[i].right, triage[i].early} \subseteq BOOLEAN
  BY <1>2, <1>3 DEF KeptVerdicts, LearnerInv, WrongsCounted
<1> QED BY <1>1, <1>4
        DEF LearnerTypeOK, LearnerInv, HelpInv, HelpTyped, OfferFits, VerdictInv, PostsTyped, RecordsTyped


-----------------------------------------------------------------------------
(* The steps of lessons. *)

StepRecords == [reached : Nat, passed : Nat, isReached : BOOLEAN, isPassed : BOOLEAN,
                skipped : BOOLEAN, wrong : Nat, hint : Nat]
LessonsTaken == [lesson : Lessons, at : Nat]
AskedRecords == [what : {"probe", "normal"}, at : Nat, caught : BOOLEAN]

LessonsTyped ==
    /\ now \in Nat /\ taken \in Seq(LessonsTaken) /\ Len(taken) \in Nat \ {0}
    /\ kept \in [Lessons -> [Steps -> StepRecords]]
    /\ asked \subseteq AskedRecords /\ \A e \in sensed : e.at \in Nat
    /\ checks = [p \in Panes |-> checks[p]]
    /\ move = NoMove \/ move \in [phase : {"applied", "moved", "unlabelled"}, to : Lessons]

\* Nothing is dated after the last record.
DatedByNow ==
    /\ \A k \in 1..Len(taken) : taken[k].at <= now
    /\ \A r \in asked : r.at <= now
    /\ \A e \in sensed : e.at <= now
    /\ \A l \in Lessons, s \in Steps : kept[l][s].passed <= now

\* A run is over, and some lesson was running that has its marker.
IsARun(run) ==
    /\ run.first \in Nat /\ run.last \in Nat /\ run.last < now
    /\ \E k \in 1..Len(taken) : run.marker = <<taken[k].lesson, "kali">> /\ run.first + Slack > Start(k)

CasesAreRuns == \A c \in cases : IsARun(c)

\* What a check that passed found, which earns the step when it is kept.
Found(s) ==
    /\ s \in {"sent", "answer"} => \E r \in asked : r.what = "probe" /\ r.at > Since
    /\ s \in {"kali", "loot"} => \E c \in cases : c.marker = <<Lesson, "kali">>
    /\ s = "loot" => <<Lesson, "kali">> \in looted
    /\ s = "waf_changed" => Lesson \in Gaps
    /\ s = "replay" =>
         /\ StepsOf["waf_changed"].isPassed
         /\ \E r \in asked : r.what = "probe" /\ r.caught /\ r.at > StepsOf["waf_changed"].passed
         /\ \E r \in asked : r.what = "normal" /\ r.at > StepsOf["waf_changed"].passed

RightlyUnderWay(check) ==
    /\ check.phase = "recording" =>
         IsARun(check.run) /\ check.run.marker = <<Lesson, "kali">> /\ "kali" \in Steps
    /\ check.phase = "judged" =>
         check.step \in Steps /\ (check.passed => Found(check.step))

ChecksFound == \A p \in Panes : RightlyUnderWay(checks[p])

LessonInv ==
    LessonsTyped /\ DatedByNow /\ CasesAreRuns /\ ChecksFound /\ StepsAreEarned

\* What is recorded stays: time goes on, records are added, a lesson is taken
\* after the others, and what is passed keeps the time it was.
LessonGrows ==
    /\ now' \in Nat /\ now <= now'
    /\ asked \subseteq asked' /\ cases \subseteq cases' /\ looted \subseteq looted'
    /\ \/ UNCHANGED taken
       \/ \E l \in Lessons : taken' = Append(taken, [lesson |-> l, at |-> now])
    /\ kept' \in [Lessons -> [Steps -> StepRecords]]
    /\ \A l \in Lessons, s \in Steps :
         kept[l][s].isPassed => kept'[l][s].isPassed /\ kept'[l][s].passed = kept[l][s].passed

-----------------------------------------------------------------------------

LEMMA LessonOfTheMoment ==
    ASSUME LessonsTyped
    PROVE  /\ Lesson \in Lessons /\ Lesson = taken[Len(taken)].lesson
           /\ Since \in Nat /\ Since = Start(Len(taken))
           /\ Len(taken) \in Takings(Lesson) /\ DOMAIN taken = 1..Len(taken)
           /\ \A k \in 1..Len(taken) : taken[k] \in LessonsTaken /\ Start(k) \in Nat
<1>1. /\ taken \in Seq(LessonsTaken) /\ Len(taken) \in 1..Len(taken)
      /\ DOMAIN taken = 1..Len(taken)
  BY LenProperties DEF LessonsTyped
<1>2. \A k \in 1..Len(taken) : taken[k] \in LessonsTaken
  BY <1>1, ElementOfSeq
<1>3. \A k \in 1..Len(taken) : taken[k].lesson \in Lessons /\ taken[k].at \in Nat
  BY <1>2 DEF LessonsTaken
<1>4. Lesson = taken[Len(taken)].lesson /\ Last(taken).at = taken[Len(taken)].at
  BY DEF Lesson, Last
<1>5. \A k \in 1..Len(taken) : Start(k) \in Nat
  BY <1>3 DEF Start
<1>6. Since \in Nat /\ Since = Start(Len(taken))
  BY <1>1, <1>3, <1>4 DEF Since, Start, LessonsTyped
<1> QED BY <1>1, <1>2, <1>3, <1>4, <1>5, <1>6 DEF Takings

\* The lessons that were taken stay taken, and what was during them too.
LEMMA TakenStays ==
    ASSUME LessonsTyped, LessonGrows
    PROVE  /\ taken' \in Seq(LessonsTaken) /\ Len(taken') \in Nat \ {0} /\ Len(taken) <= Len(taken')
           /\ \A k \in 1..Len(taken) : /\ k \in 1..Len(taken') /\ taken'[k] = taken[k]
                                       /\ Start(k)' = Start(k)
           /\ \A k \in 1..Len(taken), t \in Nat : During(k, t) /\ t <= now => During(k, t)'
           /\ \A k \in 1..Len(taken') : k \in 1..Len(taken) \/ taken'[k].at = now
           /\ DOMAIN taken' = 1..Len(taken')
<1>1. taken \in Seq(LessonsTaken) /\ Len(taken) \in Nat \ {0} /\ now \in Nat
  BY DEF LessonsTyped
<1>2. CASE UNCHANGED taken
  <2>1. \A k \in 1..Len(taken) : Start(k)' = Start(k)
    BY <1>2 DEF Start
  <2>2. \A k \in 1..Len(taken), t \in Nat : During(k, t) /\ t <= now => During(k, t)'
    BY <1>2 DEF During, Start
  <2> QED BY <1>1, <1>2, <2>1, <2>2, LenProperties
<1>3. ASSUME NEW l \in Lessons, taken' = Append(taken, [lesson |-> l, at |-> now])
      PROVE  /\ taken' \in Seq(LessonsTaken) /\ Len(taken') = Len(taken) + 1
             /\ \A k \in 1..Len(taken) : taken'[k] = taken[k]
             /\ taken'[Len(taken) + 1].at = now
  <2> DEFINE record == [lesson |-> l, at |-> now]
  <2>1. record \in LessonsTaken /\ record.at = now
    BY <1>1 DEF LessonsTaken
  <2> HIDE DEF record
  <2>2. taken' = Append(taken, record)
    BY <1>3 DEF record
  <2> QED BY <1>1, <2>1, <2>2, AppendProperties
<1>4. CASE \E l \in Lessons : taken' = Append(taken, [lesson |-> l, at |-> now])
  <2>1. /\ taken' \in Seq(LessonsTaken) /\ Len(taken') = Len(taken) + 1
        /\ \A k \in 1..Len(taken) : taken'[k] = taken[k]
        /\ taken'[Len(taken) + 1].at = now
    BY <1>3, <1>4
  <2>2. \A k \in 1..Len(taken) : Start(k)' = Start(k) /\ k \in 1..Len(taken')
    BY <1>1, <2>1 DEF Start
  <2>3. ASSUME NEW k \in 1..Len(taken), NEW t \in Nat, During(k, t), t <= now
        PROVE  During(k, t)'
    <3>1. CASE k < Len(taken)
      <4>1. k + 1 \in 1..Len(taken)
        BY <1>1, <3>1
      <4>2. taken'[k + 1] = taken[k + 1] /\ t <= taken[k + 1].at
        BY <2>1, <2>3, <3>1, <4>1 DEF During
      <4> QED BY <2>2, <2>3, <4>2 DEF During
    <3>2. CASE k = Len(taken)
      <4>1. t <= taken'[k + 1].at
        BY <2>1, <2>3, <3>2
      <4> QED BY <2>2, <2>3, <4>1 DEF During
    <3> QED BY <1>1, <3>1, <3>2
  <2>4. \A k \in 1..Len(taken') : k \in 1..Len(taken) \/ k = Len(taken) + 1
    BY <1>1, <2>1
  <2>5. DOMAIN taken' = 1..Len(taken')
    BY <2>1, LenProperties
  <2> QED BY <1>1, <2>1, <2>2, <2>3, <2>4, <2>5
<1> QED BY <1>2, <1>4 DEF LessonGrows

LEMMA RunsStayRuns ==
    ASSUME LessonsTyped, LessonGrows, NEW run, IsARun(run)
    PROVE  IsARun(run)'
<1>1. PICK k \in 1..Len(taken) : /\ run.marker = <<taken[k].lesson, "kali">>
                                 /\ run.first + Slack > Start(k)
  BY DEF IsARun
<1>2. k \in 1..Len(taken') /\ taken'[k] = taken[k] /\ Start(k)' = Start(k)
  BY TakenStays
<1>3. run.last < now'
  BY DEF LessonsTyped, LessonGrows, IsARun
<1> QED BY <1>1, <1>2, <1>3 DEF IsARun

\* What earned a step goes on to.
LEMMA EarnedStays ==
    ASSUME LessonAssumption, LessonInv, LessonGrows, NEW l \in Lessons, NEW s \in Steps,
           kept[l][s].isPassed
    PROVE  Earned(l, s)'
<1>1. Earned(l, s) /\ LessonsTyped
  BY DEF LessonInv, StepsAreEarned
<1>2. PICK passed \in Nat :
        /\ passed = kept[l][s].passed /\ kept'[l][s].passed = passed
        /\ passed <= now /\ now \in Nat
  BY DEF LessonInv, LessonsTyped, DatedByNow, LessonGrows, StepRecords
<1>3. /\ DOMAIN taken = 1..Len(taken) /\ DOMAIN taken' = 1..Len(taken')
      /\ \A k \in 1..Len(taken) : /\ k \in 1..Len(taken') /\ taken'[k] = taken[k]
                                  /\ Start(k)' = Start(k)
      /\ \A k \in 1..Len(taken), t \in Nat : During(k, t) /\ t <= now => During(k, t)'
  BY <1>1, LessonOfTheMoment, TakenStays
<1>4. \A k \in Takings(l) : k \in Takings(l)' /\ k \in 1..Len(taken)
  BY <1>3 DEF Takings
<1>5. asked \subseteq asked' /\ cases \subseteq cases' /\ looted \subseteq looted'
      /\ now' \in Nat /\ now <= now'
  BY DEF LessonGrows
<1>6. \A c \in cases : c.last \in Nat /\ (c.last < now => c.last < now')
  BY <1>2, <1>5 DEF LessonInv, CasesAreRuns, IsARun
<1>7. CASE s \in {"sent", "answer"}
  <2>1. PICK k \in Takings(l) :
          During(k, passed) /\ \E r \in asked : r.what = "probe" /\ Start(k) < r.at /\ r.at <= passed
    BY <1>1, <1>2, <1>7 DEF Earned
  <2>2. k \in Takings(l)' /\ During(k, passed)' /\ Start(k)' = Start(k)
    BY <1>2, <1>3, <1>4, <2>1
  <2>3. \E r \in asked' : r.what = "probe" /\ Start(k)' < r.at /\ r.at <= passed
    BY <1>5, <2>1, <2>2
  <2> QED BY <1>2, <1>7, <2>2, <2>3 DEF Earned
<1>8. CASE s = "kali"
  <2>1. PICK c \in cases, k \in Takings(l) :
          /\ c.marker = <<l, "kali">> /\ c.last < now
          /\ c.first + Slack > Start(k) /\ c.last <= passed
    BY <1>1, <1>2, <1>8 DEF Earned
  <2>2. k \in Takings(l)' /\ Start(k)' = Start(k) /\ c \in cases' /\ c.last < now'
    BY <1>3, <1>4, <1>5, <1>6, <2>1
  <2> QED BY <1>2, <1>8, <2>1, <2>2 DEF Earned
<1>9. CASE s = "loot"
  <2>1. <<l, "kali">> \in looted /\ \E c \in cases : c.marker = <<l, "kali">> /\ c.last < now
    BY <1>1, <1>9 DEF Earned
  <2>2. <<l, "kali">> \in looted' /\ \E c \in cases' : c.marker = <<l, "kali">> /\ c.last < now'
    BY <1>5, <1>6, <2>1
  <2> QED BY <1>9, <2>2 DEF Earned
<1>10. CASE s = "waf_changed"
  BY <1>1, <1>10 DEF Earned
<1>11. CASE s = "replay"
  <2> DEFINE fixed == kept[l]["waf_changed"]
             fixedThen == kept'[l]["waf_changed"]
  <2>1. /\ fixed.isPassed
        /\ \E r \in asked : r.what = "probe" /\ fixed.passed < r.at /\ r.at <= passed /\ r.caught
        /\ \E r \in asked : r.what = "normal" /\ fixed.passed < r.at /\ r.at <= passed
    BY <1>1, <1>2, <1>11 DEF Earned
  <2>2. fixedThen.isPassed /\ fixedThen.passed = fixed.passed
    BY <1>11, <2>1 DEF LessonAssumption, LessonGrows
  <2>3. /\ \E r \in asked' : r.what = "probe" /\ fixedThen.passed < r.at /\ r.at <= passed /\ r.caught
        /\ \E r \in asked' : r.what = "normal" /\ fixedThen.passed < r.at /\ r.at <= passed
    BY <1>5, <2>1, <2>2
  <2> QED BY <1>2, <1>11, <2>2, <2>3 DEF Earned
<1> QED BY <1>7, <1>8, <1>9, <1>10, <1>11 DEF LessonAssumption

\* What was found before a step is kept stays found while the lesson lasts.
LEMMA FoundStays ==
    ASSUME LessonAssumption, LessonInv, LessonGrows, UNCHANGED taken, NEW s \in Steps, Found(s)
    PROVE  Found(s)'
<1>1. Lesson' = Lesson /\ Since' = Since /\ Lesson \in Lessons
  BY LessonOfTheMoment DEF LessonInv, Lesson, Since
<1>2. asked \subseteq asked' /\ cases \subseteq cases' /\ looted \subseteq looted'
  BY DEF LessonGrows
<1>3. s = "replay" /\ StepsOf["waf_changed"].isPassed =>
        /\ StepsOf'["waf_changed"].isPassed
        /\ StepsOf'["waf_changed"].passed = StepsOf["waf_changed"].passed
  BY <1>1 DEF LessonAssumption, LessonGrows, StepsOf
<1> QED BY <1>1, <1>2, <1>3 DEF Found

\* A step that is passed now is earned by what was found.
LEMMA FoundIsEarned ==
    ASSUME LessonAssumption, LessonInv, LessonGrows, UNCHANGED <<taken, now, asked, cases, looted>>,
           NEW s \in Steps, Found(s), kept'[Lesson][s].passed = now
    PROVE  Earned(Lesson, s)'
<1>1. /\ Lesson' = Lesson /\ Lesson \in Lessons /\ LessonsTyped
      /\ Since = Start(Len(taken)) /\ Len(taken) \in Takings(Lesson) /\ Since \in Nat
      /\ DOMAIN taken = 1..Len(taken)
  BY LessonOfTheMoment DEF LessonInv, Lesson
<1>2. PICK l \in Lessons :
        /\ l = Lesson /\ Len(taken) \in Takings(l) /\ now \in Nat /\ Len(taken) \in Nat
        /\ \A r \in asked : r.at \in Nat /\ r.at <= now
  BY <1>1 DEF LessonInv, LessonsTyped, DatedByNow, AskedRecords
<1>3. \A c \in cases : /\ c.last \in Nat /\ c.last < now
                       /\ \E k \in 1..Len(taken) : /\ c.marker = <<taken[k].lesson, "kali">>
                                                   /\ c.first + Slack > Start(k)
  BY DEF LessonInv, CasesAreRuns, IsARun
<1>4. \A k \in Takings(l) : k \in Takings(l)' /\ Start(k)' = Start(k)
  BY DEF Takings, Start
<1>5. kept'[l][s].passed = now /\ <<now', asked', cases', looted', taken'>> = <<now, asked, cases, looted, taken>>
  BY <1>2
<1>6. Earned(l, s)' <=> Earned(Lesson, s)'
  BY <1>1, <1>2
<1>7. CASE s \in {"sent", "answer"}
  <2>1. PICK r \in asked : r.what = "probe" /\ r.at > Start(Len(taken))
    BY <1>1, <1>7 DEF Found
  <2>2. During(Len(taken), now)'
    <3>1. r.at \in Nat /\ r.at <= now /\ Start(Len(taken)) \in Nat
      BY <1>1, <1>2
    <3>2. Start(Len(taken)) <= now /\ ~ (Len(taken) < Len(taken))
      BY <1>2, <2>1, <3>1
    <3> QED BY <1>5, <3>2 DEF During, Start
  <2>3. Start(Len(taken))' < r.at /\ r.at <= now /\ r \in asked'
    BY <1>1, <1>2, <1>4, <2>1
  <2>4. Earned(l, s)'
    BY <1>2, <1>4, <1>5, <1>7, <2>1, <2>2, <2>3 DEF Earned
  <2> QED BY <1>6, <2>4
<1>8. CASE s = "kali"
  <2>1. PICK c \in cases : c.marker = <<l, "kali">>
    BY <1>2, <1>8 DEF Found
  <2>2. PICK k \in 1..Len(taken) : c.marker = <<taken[k].lesson, "kali">> /\ c.first + Slack > Start(k)
    BY <1>3
  <2>3. taken[k].lesson = l
    BY <2>1, <2>2
  <2>4. k \in Takings(l)' /\ Start(k)' = Start(k) /\ c \in cases' /\ c.last < now' /\ c.last <= now
    BY <1>1, <1>2, <1>3, <1>4, <2>3 DEF Takings
  <2>5. Earned(l, s)'
    BY <1>5, <1>8, <2>1, <2>2, <2>4 DEF Earned
  <2> QED BY <1>6, <2>5
<1>9. CASE s = "loot"
  <2>1. <<l, "kali">> \in looted /\ \E c \in cases : c.marker = <<l, "kali">> /\ c.last < now
    BY <1>2, <1>3, <1>9 DEF Found
  <2>2. Earned(l, s)'
    BY <1>5, <1>9, <2>1 DEF Earned
  <2> QED BY <1>6, <2>2
<1>10. CASE s = "waf_changed"
  <2>1. Earned(l, s)'
    BY <1>2, <1>10 DEF Found, Earned
  <2> QED BY <1>6, <2>1
<1>11. CASE s = "replay"
  <2> DEFINE fixed == kept[l]["waf_changed"]
             fixedThen == kept'[l]["waf_changed"]
  <2>1. /\ fixed.isPassed
        /\ \E r \in asked : r.what = "probe" /\ r.caught /\ r.at > fixed.passed
        /\ \E r \in asked : r.what = "normal" /\ r.at > fixed.passed
    BY <1>2, <1>11 DEF Found, StepsOf
  <2>2. fixedThen.isPassed /\ fixedThen.passed = fixed.passed
    BY <1>1, <1>2, <1>11, <2>1 DEF LessonAssumption, LessonGrows
  <2>3. fixed.passed \in Nat
    BY <1>1, <1>2, <1>11 DEF LessonAssumption, LessonsTyped, StepRecords
  <2>4. /\ \E r \in asked' : r.what = "probe" /\ fixedThen.passed < r.at /\ r.at <= now /\ r.caught
        /\ \E r \in asked' : r.what = "normal" /\ fixedThen.passed < r.at /\ r.at <= now
    BY <1>2, <1>5, <2>1, <2>2, <2>3
  <2>5. Earned(l, s)'
    BY <1>5, <1>11, <2>2, <2>4 DEF Earned
  <2> QED BY <1>6, <2>5
<1> QED BY <1>7, <1>8, <1>9, <1>10, <1>11 DEF LessonAssumption

-----------------------------------------------------------------------------

\* What else is kept of a step leaves alone whether and when it was passed.
LEMMA OtherMarks ==
    ASSUME LessonAssumption, now \in Nat, NEW step \in StepRecords,
           NEW after \in {Marked(step), Skipped(step), Hinted(step), Failed(step)}
    PROVE  after \in StepRecords /\ after.isPassed = step.isPassed /\ after.passed = step.passed
<1>1. TopRung \in Nat /\ WrongsPerHint \in Nat
  BY DEF LessonAssumption
<1>2. CASE after = Marked(step)
  BY <1>2 DEF Marked, StepRecords
<1>3. CASE after = Skipped(step)
  <2>1. (step.skipped \/ ~step.isPassed) \in BOOLEAN
    OBVIOUS
  <2>2. after = [step EXCEPT !.skipped = step.skipped \/ ~step.isPassed]
    BY <1>3 DEF Skipped
  <2>3. ASSUME NEW b \in BOOLEAN
        PROVE  /\ [step EXCEPT !.skipped = b] \in StepRecords
               /\ [step EXCEPT !.skipped = b].isPassed = step.isPassed
               /\ [step EXCEPT !.skipped = b].passed = step.passed
    BY DEF StepRecords
  <2> QED BY <2>1, <2>2, <2>3
<1>4. ASSUME NEW one \in StepRecords
      PROVE  /\ Hinted(one) \in StepRecords
             /\ Hinted(one).isPassed = one.isPassed /\ Hinted(one).passed = one.passed
  <2>1. one.hint \in Nat /\ one.hint + 1 \in Nat
    BY DEF StepRecords
  <2>2. ASSUME NEW n \in Nat
        PROVE  /\ [one EXCEPT !.hint = n] \in StepRecords
               /\ [one EXCEPT !.hint = n].isPassed = one.isPassed
               /\ [one EXCEPT !.hint = n].passed = one.passed
    BY DEF StepRecords
  <2>3. \E n \in Nat : Hinted(one) = [one EXCEPT !.hint = n]
    BY <2>1 DEF Hinted
  <2> QED BY <2>2, <2>3
<1>5. CASE after = Hinted(step)
  BY <1>4, <1>5
<1>6. CASE after = Failed(step)
  <2>1. step.wrong \in Nat /\ step.wrong + 1 \in Nat /\ 0 \in Nat
    BY DEF StepRecords
  <2>2. ASSUME NEW n \in Nat
        PROVE  /\ [step EXCEPT !.wrong = n] \in StepRecords
               /\ [step EXCEPT !.wrong = n].isPassed = step.isPassed
               /\ [step EXCEPT !.wrong = n].passed = step.passed
    BY DEF StepRecords
  <2>3. \E n \in Nat : \/ after = [step EXCEPT !.wrong = n]
                       \/ after = Hinted([step EXCEPT !.wrong = n])
    BY <1>6, <2>1 DEF Failed
  <2>4. PICK counted \in StepRecords :
          /\ counted.isPassed = step.isPassed /\ counted.passed = step.passed
          /\ after = counted \/ after = Hinted(counted)
    BY <2>2, <2>3
  <2>5. CASE after = counted
    BY <2>4, <2>5
  <2>6. CASE after = Hinted(counted)
    <3>1. /\ Hinted(counted) \in StepRecords
          /\ Hinted(counted).isPassed = counted.isPassed /\ Hinted(counted).passed = counted.passed
      BY <1>4
    <3> QED BY <2>4, <2>6, <3>1
  <2> QED BY <2>4, <2>5, <2>6
<1> QED BY <1>2, <1>3, <1>5, <1>6

\* A step is passed once, and keeps the time it was.
LEMMA PassedOnce ==
    ASSUME now \in Nat, NEW step \in StepRecords, step.passed <= now
    PROVE  /\ Passed(step) \in StepRecords /\ Passed(step).isPassed
           /\ Passed(step).passed <= now
           /\ Passed(step).passed = IF step.isPassed THEN step.passed ELSE now
<1>1. CASE step.isPassed
  BY <1>1 DEF Passed
<1>2. CASE ~step.isPassed
  <2> DEFINE after == [step EXCEPT !.isPassed = TRUE, !.passed = now]
  <2>1. after \in StepRecords /\ after.isPassed /\ after.passed = now
    BY DEF StepRecords
  <2>2. Passed(step) = after
    BY <1>2 DEF Passed
  <2> HIDE DEF after
  <2> QED BY <1>2, <2>1, <2>2
<1> QED BY <1>1, <1>2

\* One step of the lesson of the moment changes, and no other.
LEMMA OneStepChanges ==
    ASSUME LessonInv, NEW s \in Steps, NEW after \in StepRecords, Progressed(s, after)
    PROVE  /\ kept' \in [Lessons -> [Steps -> StepRecords]]
           /\ \A l \in Lessons, q \in Steps :
                 \/ l = Lesson /\ q = s /\ kept[l][q] = StepsOf[s] /\ kept'[l][q] = after
                 \/ kept'[l][q] = kept[l][q]
<1>1. kept \in [Lessons -> [Steps -> StepRecords]] /\ Lesson \in Lessons
  BY LessonOfTheMoment DEF LessonInv, LessonsTyped
<1>2. PICK here \in Lessons : here = Lesson
  BY <1>1
<1>3. kept' = [kept EXCEPT ![here][s] = after] /\ kept[here][s] = StepsOf[s]
  BY <1>2 DEF Progressed, StepsOf
<1>4. /\ kept' \in [Lessons -> [Steps -> StepRecords]]
      /\ \A l \in Lessons, q \in Steps :
            kept'[l][q] = IF l = here /\ q = s THEN after ELSE kept[l][q]
  BY <1>1, <1>3
<1> QED BY <1>2, <1>3, <1>4

\* A step that is passed was passed before, or a check found what earns it.
PassedIsFound ==
    \A l \in Lessons, s \in Steps : kept'[l][s].isPassed =>
        \/ kept[l][s].isPassed
        \/ /\ l = Lesson /\ kept'[l][s].passed = now /\ Found(s)
           /\ UNCHANGED <<taken, now, asked, cases, looted>>

\* What is not about the steps that are kept only adds records.
OnlyRecords ==
    /\ UNCHANGED kept
    /\ now' \in Nat /\ now <= now'
    /\ asked \subseteq asked' /\ cases \subseteq cases' /\ looted \subseteq looted'
    /\ \/ UNCHANGED taken
       \/ \E l \in Lessons : taken' = Append(taken, [lesson |-> l, at |-> now])

LEMMA RecordsGrow ==
    ASSUME LessonInv, OnlyRecords
    PROVE  LessonGrows /\ PassedIsFound /\ \A l \in Lessons, s \in Steps : kept'[l][s].passed <= now
  BY DEF LessonInv, LessonsTyped, DatedByNow, OnlyRecords, LessonGrows, PassedIsFound

LEMMA LessonStepGrows ==
    ASSUME LessonAssumption, LessonInv, LessonNext
    PROVE  LessonGrows /\ PassedIsFound /\ \A l \in Lessons, s \in Steps : kept'[l][s].passed <= now
<1>1. now \in Nat /\ LessonsTyped
  BY DEF LessonInv, LessonsTyped
<1>2. ASSUME NEW what \in {"probe", "normal"}, Asks(what) PROVE OnlyRecords
  BY <1>1, <1>2 DEF Asks, OnlyRecords
<1>3. ASSUME Runs \/ TightensWaf \/ Labels PROVE OnlyRecords
  BY <1>1, <1>3 DEF Runs, TightensWaf, Labels, OnlyRecords
<1>4. ASSUME NEW p \in Panes, NEW s \in Steps, NEW given \in BOOLEAN,
             Checks(p, s, given) \/ ChecksWrongly(p, s, given)
      PROVE  OnlyRecords
  BY <1>1, <1>4 DEF Checks, ChecksWrongly, Clicks, OnlyRecords
<1>5. ASSUME NEW p \in Panes, FindsRun(p) \/ RecordsRun(p) PROVE OnlyRecords
  BY <1>1, <1>5 DEF FindsRun, RecordsRun, OnlyRecords
<1>6. ASSUME (\E l \in Lessons : Moves(l)) \/ MoveUnlabels \/ MoveSeeds PROVE OnlyRecords
  BY <1>1, <1>6 DEF Moves, MoveUnlabels, MoveSeeds, OnlyRecords
<1>7. CASE MoveSaves
  <2>1. move.to \in Lessons
    BY <1>1, <1>7 DEF MoveSaves, LessonsTyped, NoMove
  <2>2. OnlyRecords
    BY <1>1, <1>7, <2>1 DEF MoveSaves, OnlyRecords
  <2> QED BY <2>2, RecordsGrow
<1>8. ASSUME NEW s \in Steps, NEW after \in StepRecords, Progressed(s, after), after.passed <= now,
             UNCHANGED <<now, taken, asked, cases, looted>>,
             StepsOf[s].isPassed => after.isPassed /\ after.passed = StepsOf[s].passed,
             after.isPassed => StepsOf[s].isPassed \/ (after.passed = now /\ Found(s))
      PROVE  LessonGrows /\ PassedIsFound /\ \A l \in Lessons, q \in Steps : kept'[l][q].passed <= now
  <2>1. /\ kept' \in [Lessons -> [Steps -> StepRecords]]
        /\ \A l \in Lessons, q \in Steps :
              \/ l = Lesson /\ q = s /\ kept[l][q] = StepsOf[s] /\ kept'[l][q] = after
              \/ kept'[l][q] = kept[l][q]
    BY <1>8, OneStepChanges
  <2>2. \A l \in Lessons, q \in Steps : kept[l][q].passed <= now
    BY DEF LessonInv, DatedByNow
  <2>3. LessonGrows
    BY <1>1, <1>8, <2>1 DEF LessonGrows
  <2>4. PassedIsFound
    BY <1>8, <2>1 DEF PassedIsFound
  <2> QED BY <1>8, <2>1, <2>2, <2>3, <2>4
<1>9. ASSUME NEW s \in Steps PROVE StepsOf[s] \in StepRecords /\ StepsOf[s].passed <= now
  <2>1. Lesson \in Lessons
    BY <1>1, LessonOfTheMoment
  <2> QED BY <1>1, <2>1 DEF StepsOf, LessonInv, LessonsTyped, DatedByNow
<1>10. ASSUME NEW s \in Steps, ReachesStep(s) \/ Skips(s) \/ AsksForHint(s)
       PROVE  LessonGrows /\ PassedIsFound /\ \A l \in Lessons, q \in Steps : kept'[l][q].passed <= now
  <2>1. PICK after \in {Marked(StepsOf[s]), Skipped(StepsOf[s]), Hinted(StepsOf[s]), Failed(StepsOf[s])} :
          Progressed(s, after)
    BY <1>10 DEF ReachesStep, Skips, AsksForHint
  <2>2. UNCHANGED <<now, taken, asked, cases, looted>>
    BY <1>10 DEF ReachesStep, Skips, AsksForHint
  <2>3. after \in StepRecords /\ after.isPassed = StepsOf[s].isPassed /\ after.passed = StepsOf[s].passed
    BY <1>1, <1>9, OtherMarks
  <2> QED BY <1>8, <1>9, <2>1, <2>2, <2>3
<1>11. ASSUME NEW p \in Panes, KeepsVerdict(p)
       PROVE  LessonGrows /\ PassedIsFound /\ \A l \in Lessons, q \in Steps : kept'[l][q].passed <= now
  <2>1. PICK s \in Steps : s = checks[p].step /\ (checks[p].passed => Found(s))
    BY <1>11 DEF LessonInv, ChecksFound, RightlyUnderWay, KeepsVerdict
  <2>2. UNCHANGED <<now, taken, asked, cases, looted>>
    BY <1>11 DEF KeepsVerdict
  <2>3. CASE checks[p].passed /\ Progressed(s, Passed(StepsOf[s]))
    <3>1. /\ Passed(StepsOf[s]) \in StepRecords /\ Passed(StepsOf[s]).isPassed
          /\ Passed(StepsOf[s]).passed <= now
          /\ Passed(StepsOf[s]).passed = IF StepsOf[s].isPassed THEN StepsOf[s].passed ELSE now
      BY <1>1, <1>9, PassedOnce
    <3> QED BY <1>8, <2>1, <2>2, <2>3, <3>1
  <2>4. CASE Progressed(s, Failed(StepsOf[s]))
    <3>1. PICK after \in {Marked(StepsOf[s]), Skipped(StepsOf[s]), Hinted(StepsOf[s]), Failed(StepsOf[s])} :
            Progressed(s, after)
      BY <2>4
    <3>2. after \in StepRecords /\ after.isPassed = StepsOf[s].isPassed /\ after.passed = StepsOf[s].passed
      BY <1>1, <1>9, OtherMarks
    <3> QED BY <1>8, <1>9, <2>2, <3>1, <3>2
  <2> QED BY <1>11, <2>1, <2>3, <2>4 DEF KeepsVerdict
<1> QED BY <1>2, <1>3, <1>4, <1>5, <1>6, <1>7, <1>10, <1>11, RecordsGrow DEF LessonNext

-----------------------------------------------------------------------------

LEMMA LowestOf ==
    ASSUME NEW T, T \subseteq Nat, T # {}
    PROVE  \E m \in T : \A other \in T : m <= other
<1>1. \E m \in T : \A other \in T : ~ (<<other, m>> \in OpToRel(<, Nat))
  BY NatLessThanWellFounded, WFMin, Zenon
<1>2. PICK m \in T : \A other \in T : ~ (other < m)
  BY <1>1 DEF OpToRel
<1> QED BY <1>2

LEMMA LessonBeginsSo == ASSUME LessonAssumption, LessonInit PROVE LessonInv
<1>1. First \in Lessons /\ taken = <<[lesson |-> First, at |-> 0]>> /\ now = 0
  BY DEF LessonAssumption, LessonInit
<1>2. taken \in Seq(LessonsTaken) /\ Len(taken) = 1 /\ taken[1].at = 0
  BY <1>1 DEF LessonsTaken
<1>3. /\ NoStep \in StepRecords /\ kept = [l \in Lessons |-> [s \in Steps |-> NoStep]]
      /\ NoStep.passed = 0 /\ ~NoStep.isPassed
  BY DEF NoStep, StepRecords, LessonInit
<1>4. LessonsTyped
  BY <1>1, <1>2, <1>3 DEF LessonsTyped, LessonInit, NoMove
<1>5. DatedByNow
  BY <1>1, <1>2, <1>3 DEF DatedByNow, LessonInit
<1>6. CasesAreRuns /\ ChecksFound /\ StepsAreEarned
  BY <1>3 DEF LessonInit, CasesAreRuns, ChecksFound, RightlyUnderWay, NoCheck, StepsAreEarned
<1> QED BY <1>4, <1>5, <1>6 DEF LessonInv

LEMMA LessonStaysTyped ==
    ASSUME LessonAssumption, LessonInv, LessonNext
    PROVE  LessonsTyped' /\ DatedByNow'
<1>1. LessonsTyped /\ DatedByNow /\ now \in Nat
  BY DEF LessonInv, LessonsTyped
<1>2. LessonGrows /\ now' \in Nat /\ now <= now'
      /\ \A l \in Lessons, s \in Steps : kept'[l][s].passed <= now
  BY LessonStepGrows DEF LessonGrows
<1>3. /\ taken' \in Seq(LessonsTaken) /\ Len(taken') \in Nat \ {0}
      /\ kept' \in [Lessons -> [Steps -> StepRecords]]
  BY <1>1, <1>2, TakenStays DEF LessonGrows
<1>4. \A k \in 1..Len(taken') : taken'[k].at <= now'
  <2>1. \A k \in 1..Len(taken) : taken[k] \in LessonsTaken
    BY <1>1, LessonOfTheMoment
  <2>2. \A k \in 1..Len(taken) : taken[k].at \in Nat /\ taken[k].at <= now
    BY <1>1, <2>1 DEF LessonsTaken, DatedByNow
  <2>3. \A k \in 1..Len(taken') : taken'[k].at <= now
    BY <1>1, <1>2, <2>2, TakenStays
  <2>4. \A k \in 1..Len(taken') : taken'[k].at \in Nat
    BY <1>1, <1>2, <2>2, TakenStays
  <2> QED BY <1>1, <1>2, <2>3, <2>4
<1>5. asked' \subseteq AskedRecords /\ \A r \in asked' : r.at <= now'
  <2>1. asked \subseteq AskedRecords /\ \A r \in asked : r.at \in Nat /\ r.at <= now'
    BY <1>1, <1>2 DEF LessonsTyped, DatedByNow, AskedRecords
  <2>2. ASSUME NEW what \in {"probe", "normal"}, Asks(what)
        PROVE  asked' \subseteq AskedRecords /\ \A r \in asked' : r.at <= now'
    <3>1. (what = "probe" /\ ~letsThrough) \in BOOLEAN
      OBVIOUS
    <3>2. PICK caught \in BOOLEAN : asked' = asked \cup {[what |-> what, at |-> now', caught |-> caught]}
      BY <2>2, <3>1 DEF Asks
    <3> QED BY <1>2, <2>1, <3>2 DEF AskedRecords
  <2>3. asked' = asked \/ \E what \in {"probe", "normal"} : Asks(what)
    BY DEF LessonNext, Runs, TightensWaf, Labels, ReachesStep, Skips, AsksForHint, Checks,
           ChecksWrongly, FindsRun, RecordsRun, KeepsVerdict, Moves, MoveSaves, MoveUnlabels, MoveSeeds
  <2> QED BY <2>1, <2>2, <2>3
<1>6. \A e \in sensed' : e.at \in Nat /\ e.at <= now'
  <2>1. \A e \in sensed : e.at \in Nat /\ e.at <= now'
    BY <1>1, <1>2 DEF LessonsTyped, DatedByNow
  <2>2. sensed' \subseteq sensed \cup {[marker |-> label, at |-> now']}
    BY DEF LessonNext, Asks, Runs, TightensWaf, Labels, ReachesStep, Skips, AsksForHint, Checks,
           ChecksWrongly, FindsRun, RecordsRun, KeepsVerdict, Moves, MoveSaves, MoveUnlabels, MoveSeeds
  <2> QED BY <1>2, <2>1, <2>2
<1>7. checks' = [p \in Panes |-> checks'[p]]
  <2>1. checks' = checks \/ \E p \in Panes : \E check : checks' = [checks EXCEPT ![p] = check]
    BY DEF LessonNext, Asks, Runs, TightensWaf, Labels, ReachesStep, Skips, AsksForHint, Checks,
           ChecksWrongly, FindsRun, RecordsRun, KeepsVerdict, Moves, MoveSaves, MoveUnlabels, MoveSeeds
  <2> QED BY <1>1, <2>1 DEF LessonsTyped
<1>8. move' = NoMove \/ move' \in [phase : {"applied", "moved", "unlabelled"}, to : Lessons]
  <2>1. ASSUME NEW l \in Lessons, Moves(l)
        PROVE  move' \in [phase : {"applied", "moved", "unlabelled"}, to : Lessons]
    BY <2>1 DEF Moves
  <2>2. CASE MoveSaves
    BY <1>1, <2>2 DEF MoveSaves, NoMove, LessonsTyped
  <2>3. CASE MoveUnlabels
    BY <1>1, <2>3 DEF MoveUnlabels, NoMove, LessonsTyped
  <2>4. move' = move \/ MoveSaves \/ MoveUnlabels \/ move' = NoMove \/ \E l \in Lessons : Moves(l)
    BY DEF LessonNext, Asks, Runs, TightensWaf, Labels, ReachesStep, Skips, AsksForHint, Checks,
           ChecksWrongly, FindsRun, RecordsRun, KeepsVerdict, MoveSeeds
  <2> QED BY <1>1, <2>1, <2>2, <2>3, <2>4 DEF LessonsTyped
<1>9. \A l \in Lessons, s \in Steps : kept'[l][s].passed <= now'
  BY <1>1, <1>2, <1>3 DEF StepRecords
<1>10. LessonsTyped'
  BY <1>2, <1>3, <1>5, <1>6, <1>7, <1>8 DEF LessonsTyped
<1>11. DatedByNow'
  BY <1>4, <1>5, <1>6, <1>9 DEF DatedByNow
<1> QED BY <1>10, <1>11

-----------------------------------------------------------------------------

\* What a check judges by is what was found, and what is handed in with it.
LEMMA JudgedIsFound ==
    ASSUME LessonAssumption, LessonInv, NEW p \in Panes, NEW s \in Steps, NEW given \in BOOLEAN,
           Checks(p, s, given)
    PROVE  Found(s)'
<1>1. /\ Since \in Nat /\ Lesson \in Lessons /\ LessonsTyped
      /\ Lesson' = Lesson /\ Since' = Since /\ StepsOf' = StepsOf
      /\ asked' = asked /\ cases' = cases /\ StepJudged(s, given)
      /\ looted' = looted \cup (IF s = "loot" /\ given THEN {c.marker : c \in KaliCase} ELSE {})
  BY LessonOfTheMoment DEF LessonInv, Checks, Lesson, Since, StepsOf
<1>2. \A r \in asked : r.at \in Nat
  BY <1>1 DEF LessonsTyped, AskedRecords
<1>3. ASSUME NEW what, NEW after \in Nat, NEW r \in OwnSiteRequests(what, after)
      PROVE  r \in asked /\ r.what = what /\ r.at > Since /\ r.at > after
  BY <1>1, <1>2, <1>3 DEF OwnSiteRequests, Later
<1>4. CASE s \in {"sent", "answer"}
  <2>1. OwnSiteRequests("probe", 0) # {}
    BY <1>1, <1>4 DEF StepJudged, Accepted
  <2>2. \E r \in asked : r.what = "probe" /\ r.at > Since
    BY <1>3, <2>1
  <2> QED BY <1>1, <1>4, <2>2 DEF Found
<1>5. CASE s = "kali"
  BY <1>1, <1>5 DEF StepJudged, KaliCase, Found
<1>6. CASE s = "loot"
  <2>1. PICK c \in cases : c.marker = <<Lesson, "kali">>
    BY <1>1, <1>6 DEF StepJudged, LootMatched, KaliCase
  <2>2. given \/ <<Lesson, "kali">> \in looted
    BY <1>1, <1>6 DEF StepJudged, LootMatched
  <2>3. <<Lesson, "kali">> \in looted'
    BY <1>1, <1>6, <2>1, <2>2 DEF KaliCase
  <2> QED BY <1>1, <1>6, <2>1, <2>3 DEF Found
<1>7. CASE s = "waf_changed"
  BY <1>1, <1>7 DEF StepJudged, WafChanged, Found
<1>8. CASE s = "replay"
  <2>1. PICK fixed \in StepRecords : fixed = StepsOf["waf_changed"]
    BY <1>1, <1>8 DEF LessonAssumption, LessonsTyped, StepsOf
  <2>2. fixed.isPassed /\ SentReplayed(fixed.passed) /\ BenignReplayed(fixed.passed)
    BY <1>1, <1>8, <2>1 DEF StepJudged, Replayed
  <2>3. fixed.passed \in Nat
    BY <2>1 DEF StepRecords
  <2>4. \E r \in asked : r.what = "probe" /\ r.caught /\ r.at > fixed.passed
    BY <1>3, <2>2, <2>3 DEF SentReplayed
  <2>5. \E r \in asked : r.what = "normal" /\ r.at > fixed.passed
    BY <1>3, <2>2, <2>3 DEF BenignReplayed
  <2> QED BY <1>1, <1>8, <2>1, <2>2, <2>4, <2>5 DEF Found
<1> QED BY <1>4, <1>5, <1>6, <1>7, <1>8 DEF LessonAssumption

\* What a check records as a run is one, of the lesson of the moment.
LEMMA FoundRunIsARun ==
    ASSUME LessonAssumption, LessonInv, RunIsOver
    PROVE  IsARun(Run) /\ Run.marker = <<Lesson, "kali">> /\ "kali" \in Steps
<1>1. /\ Since \in Nat /\ Since = Start(Len(taken)) /\ Lesson \in Lessons /\ LessonsTyped
      /\ Lesson = taken[Len(taken)].lesson /\ Len(taken) \in 1..Len(taken)
  BY LessonOfTheMoment DEF LessonInv, LessonsTyped
<1>2. /\ "kali" \in Steps /\ Seen # {} /\ now \notin Seen /\ now \in Nat /\ Slack \in Nat
      /\ StepsOf["kali"].reached \in Nat
  BY <1>1 DEF RunIsOver, LessonAssumption, LessonsTyped, StepsOf, StepRecords
<1>3. Reached \in Nat /\ Since <= Reached
  BY <1>1, <1>2 DEF Reached, Later
<1>4. \A n \in Seen : n \in Nat /\ n <= now /\ n + Slack > Reached
  BY DEF Seen, LessonInv, LessonsTyped, DatedByNow
<1>5. Seen \subseteq Nat /\ Seen \subseteq 0..now
  BY <1>2, <1>4
<1>6. \E n \in Seen : \A m \in Seen : n <= m
  BY <1>2, <1>5, LowestOf
<1>7. \E n \in Seen : \A m \in Seen : m <= n
  BY <1>2, <1>5, HighestOf
<1>8. PICK run : run = Run
  OBVIOUS
<1>9. run.first \in Seen /\ run.last \in Seen /\ run.marker = <<Lesson, "kali">>
  BY <1>6, <1>7, <1>8 DEF Run
<1>10. run.first + Slack > Since /\ run.first \in Nat /\ run.last \in Nat /\ run.last < now
  BY <1>1, <1>2, <1>3, <1>4, <1>9
<1>11. IsARun(run)
  BY <1>1, <1>9, <1>10 DEF IsARun
<1> QED BY <1>2, <1>8, <1>9, <1>11

LEMMA CasesStayRuns ==
    ASSUME LessonAssumption, LessonInv, LessonNext
    PROVE  CasesAreRuns'
<1>1. LessonGrows /\ LessonsTyped
  BY LessonStepGrows DEF LessonInv
<1>2. \A c \in cases' : c \in cases \/ \E p \in Panes : checks[p].phase = "recording" /\ c = checks[p].run
  BY DEF LessonNext, Asks, Runs, TightensWaf, Labels, ReachesStep, Skips, AsksForHint, Checks,
         ChecksWrongly, FindsRun, RecordsRun, KeepsVerdict, Moves, MoveSaves, MoveUnlabels, MoveSeeds
<1>3. \A c \in cases' : IsARun(c)
  BY <1>2 DEF LessonInv, CasesAreRuns, ChecksFound, RightlyUnderWay
<1>4. \A c \in cases' : IsARun(c)'
  BY <1>1, <1>3, RunsStayRuns
<1> QED BY <1>4 DEF CasesAreRuns

\* While no lesson changes under a check, what it found is of its lesson.
LEMMA ChecksStayFound ==
    ASSUME LessonAssumption, ~Overlap, LessonInv, LessonNext
    PROVE  ChecksFound'
<1>1. LessonGrows /\ LessonsTyped /\ ChecksFound
  BY LessonStepGrows DEF LessonInv
<1>2. ASSUME UNCHANGED taken, NEW check, RightlyUnderWay(check)
      PROVE  RightlyUnderWay(check)'
  <2>1. Lesson' = Lesson
    BY <1>2 DEF Lesson
  <2>2. ASSUME check.phase = "recording"
        PROVE  IsARun(check.run)' /\ check.run.marker = <<Lesson', "kali">> /\ "kali" \in Steps
    <3>1. PICK run : run = check.run
      OBVIOUS
    <3>2. IsARun(run) /\ run.marker = <<Lesson, "kali">> /\ "kali" \in Steps
      BY <1>2, <2>2, <3>1 DEF RightlyUnderWay
    <3>3. IsARun(run)'
      BY <1>1, <3>2, RunsStayRuns
    <3> QED BY <2>1, <3>1, <3>2, <3>3
  <2>3. ASSUME check.phase = "judged"
        PROVE  check.step \in Steps /\ (check.passed => Found(check.step)')
    <3>1. PICK s \in Steps : s = check.step /\ (check.passed => Found(s))
      BY <1>2, <2>3 DEF RightlyUnderWay
    <3>2. check.passed => Found(s)'
      BY <1>1, <1>2, <3>1, FoundStays
    <3> QED BY <3>1, <3>2
  <2> QED BY <2>2, <2>3 DEF RightlyUnderWay
<1>3. ASSUME NEW p \in Panes, NEW check, checks' = [checks EXCEPT ![p] = check],
             UNCHANGED taken, RightlyUnderWay(check)'
      PROVE  ChecksFound'
  <2>1. ASSUME NEW q \in Panes PROVE RightlyUnderWay(checks[q])'
    <3>1. PICK there : there = checks'[q]
      OBVIOUS
    <3>2. there = IF q = p THEN check ELSE checks[q]
      BY <1>1, <1>3, <3>1 DEF LessonsTyped
    <3>3. RightlyUnderWay(there)'
      <4>1. CASE q = p
        BY <1>3, <3>2, <4>1
      <4>2. CASE q # p
        <5>1. RightlyUnderWay(there)
          BY <1>1, <3>2, <4>2 DEF ChecksFound
        <5> QED BY <1>2, <1>3, <5>1
      <4> QED BY <4>1, <4>2
    <3> QED BY <3>1, <3>3 DEF RightlyUnderWay
  <2> QED BY <2>1 DEF ChecksFound
<1>4. CASE UNCHANGED <<taken, checks>>
  <2>1. ASSUME NEW q \in Panes PROVE RightlyUnderWay(checks[q])'
    <3>1. PICK there : there = checks[q] /\ there = checks'[q]
      BY <1>4
    <3>2. RightlyUnderWay(there)'
      BY <1>1, <1>2, <1>4, <3>1 DEF ChecksFound
    <3> QED BY <3>1, <3>2 DEF RightlyUnderWay
  <2> QED BY <2>1 DEF ChecksFound
<1>5. CASE MoveSaves
  <2>1. ASSUME NEW q \in Panes PROVE checks'[q].phase = "idle"
    BY <1>5 DEF MoveSaves
  <2> QED BY <2>1 DEF ChecksFound, RightlyUnderWay
<1>6. ASSUME NEW p \in Panes, NEW s \in Steps, NEW given \in BOOLEAN, Checks(p, s, given)
      PROVE  ChecksFound'
  <2>1. Found(s)'
    BY <1>6, JudgedIsFound
  <2>2. PICK check : check = [phase |-> "judged", step |-> s, passed |-> TRUE]
    OBVIOUS
  <2>3. RightlyUnderWay(check)'
    BY <2>1, <2>2 DEF RightlyUnderWay
  <2> QED BY <1>3, <1>6, <2>2, <2>3 DEF Checks
<1>7. ASSUME NEW p \in Panes, NEW s \in Steps, NEW given \in BOOLEAN, ChecksWrongly(p, s, given)
      PROVE  ChecksFound'
  <2>1. PICK check : check = [phase |-> "judged", step |-> s, passed |-> FALSE]
    OBVIOUS
  <2>2. RightlyUnderWay(check)'
    BY <2>1 DEF RightlyUnderWay
  <2> QED BY <1>3, <1>7, <2>1, <2>2 DEF ChecksWrongly
<1>8. ASSUME NEW p \in Panes, FindsRun(p) PROVE ChecksFound'
  <2>1. PICK run : run = Run
    OBVIOUS
  <2>2. IsARun(run) /\ run.marker = <<Lesson, "kali">> /\ "kali" \in Steps /\ UNCHANGED taken
    BY <1>8, <2>1, FoundRunIsARun DEF FindsRun
  <2>3. PICK check : check = [phase |-> "recording", step |-> "kali", run |-> run]
    OBVIOUS
  <2>4. RightlyUnderWay(check)
    BY <2>2, <2>3 DEF RightlyUnderWay
  <2>5. RightlyUnderWay(check)'
    BY <1>2, <2>2, <2>4
  <2> QED BY <1>3, <1>8, <2>1, <2>2, <2>3, <2>5 DEF FindsRun
<1>9. RightlyUnderWay(NoCheck)'
  BY DEF NoCheck, RightlyUnderWay
<1>10. ASSUME NEW p \in Panes, RecordsRun(p) PROVE ChecksFound'
  <2>1. Lesson' = Lesson /\ UNCHANGED taken
    BY <1>10 DEF RecordsRun, Lesson
  <2>2. checks[p].phase = "recording" /\ checks[p].run.marker = <<Lesson, "kali">> /\ "kali" \in Steps
    BY <1>1, <1>10 DEF RecordsRun, ChecksFound, RightlyUnderWay
  <2>3. \E c \in cases' : c.marker = <<Lesson, "kali">>
    BY <1>10, <2>2 DEF RecordsRun
  <2>4. PICK check : check = [phase |-> "judged", step |-> "kali", passed |-> TRUE]
    OBVIOUS
  <2>5. RightlyUnderWay(check)'
    BY <2>1, <2>2, <2>3, <2>4 DEF RightlyUnderWay, Found
  <2>6. checks' = [checks EXCEPT ![p] = NoCheck] \/ checks' = [checks EXCEPT ![p] = check]
    BY <1>10, <2>4 DEF RecordsRun
  <2> QED BY <1>3, <1>9, <2>1, <2>5, <2>6
<1>11. ASSUME NEW p \in Panes, KeepsVerdict(p) PROVE ChecksFound'
  BY <1>3, <1>9, <1>11 DEF KeepsVerdict
<1>12. (\E what \in {"probe", "normal"} : Asks(what)) \/ Runs \/ TightensWaf \/ Labels =>
         UNCHANGED <<taken, checks>>
  BY DEF Asks, Runs, TightensWaf, Labels
<1>13. (\E s \in Steps : ReachesStep(s) \/ Skips(s) \/ AsksForHint(s)) =>
         UNCHANGED <<taken, checks>>
  BY DEF ReachesStep, Skips, AsksForHint
<1>14. (\E l \in Lessons : Moves(l)) \/ MoveUnlabels \/ MoveSeeds => UNCHANGED <<taken, checks>>
  BY DEF Moves, MoveUnlabels, MoveSeeds
<1> QED BY <1>4, <1>5, <1>6, <1>7, <1>8, <1>10, <1>11, <1>12, <1>13, <1>14 DEF LessonNext

LEMMA LessonKeepsSo ==
    ASSUME LessonAssumption, ~Overlap, LessonInv, LessonNext
    PROVE  LessonInv'
<1>1. LessonGrows /\ PassedIsFound
  BY LessonStepGrows
<1>2. StepsAreEarned'
  <2>1. SUFFICES ASSUME NEW l \in Lessons, NEW s \in Steps, kept'[l][s].isPassed
                 PROVE  Earned(l, s)'
    BY DEF StepsAreEarned
  <2>2. CASE kept[l][s].isPassed
    BY <1>1, <2>2, EarnedStays
  <2>3. CASE /\ l = Lesson /\ kept'[l][s].passed = now /\ Found(s)
             /\ UNCHANGED <<taken, now, asked, cases, looted>>
    <3>1. Earned(Lesson, s)'
      BY <1>1, <2>3, FoundIsEarned
    <3>2. Lesson' = Lesson
      BY <2>3 DEF Lesson
    <3> QED BY <2>3, <3>1, <3>2
  <2> QED BY <1>1, <2>1, <2>2, <2>3 DEF PassedIsFound
<1> QED BY <1>2, LessonStaysTyped, CasesStayRuns, ChecksStayFound DEF LessonInv

\* Whatever the learner does on any number of pages, the lessons keep the
\* records, the runs and the checks they are judged by in order, unless a
\* lesson changes while a check judges.
THEOREM LessonInvariant == ASSUME LessonAssumption, ~Overlap PROVE LessonSpec => []LessonInv
<1>1. LessonInit => LessonInv
  BY LessonBeginsSo
<1>2. LessonInv /\ [LessonNext]_lessonVars => LessonInv'
  <2>1. ASSUME LessonInv, UNCHANGED lessonVars PROVE LessonInv'
    <3>1. LessonsTyped' /\ DatedByNow'
      BY <2>1 DEF lessonVars, LessonInv, LessonsTyped, DatedByNow
    <3>2. CasesAreRuns'
      BY <2>1 DEF lessonVars, LessonInv, CasesAreRuns, IsARun, Start
    <3>3. ChecksFound'
      BY <2>1 DEF lessonVars, LessonInv, ChecksFound, RightlyUnderWay, IsARun, Start,
                  Found, Lesson, Since, StepsOf
    <3>4. StepsAreEarned'
      <4>1. UNCHANGED kept /\ LessonGrows
        BY <2>1, RecordsGrow DEF lessonVars, LessonInv, LessonsTyped, OnlyRecords
      <4> QED BY <2>1, <4>1, EarnedStays DEF StepsAreEarned
    <3> QED BY <3>1, <3>2, <3>3, <3>4 DEF LessonInv
  <2> QED BY <2>1, LessonKeepsSo
<1> QED BY <1>1, <1>2, PTL DEF LessonSpec

\* A step of a lesson is passed only by what was done while that lesson ran.
THEOREM StepsEarned == ASSUME LessonAssumption, ~Overlap PROVE LessonSpec => []StepsAreEarned
<1>1. LessonInv => StepsAreEarned
  BY DEF LessonInv
<1> QED BY <1>1, LessonInvariant, PTL

-----------------------------------------------------------------------------
(* What is kept of the steps stays in its bounds, overlap or not. *)

BoundedSteps(last) ==
    [reached : 0..last, passed : 0..last, isReached : BOOLEAN, isPassed : BOOLEAN,
     skipped : BOOLEAN, wrong : 0..(WrongsPerHint - 1), hint : 0..TopRung]

\* A check is about a step of the lesson, and a lesson is taken only while
\* there is room for another.
LessonKept ==
    /\ LessonTypeOK
    /\ taken \in Seq(LessonsTaken)
    /\ kept \in [Lessons -> [Steps -> BoundedSteps(now)]]
    /\ checks = [p \in Panes |-> checks[p]]
    /\ \A p \in Panes : /\ checks[p].phase = "recording" => "kali" \in Steps
                        /\ checks[p].phase = "judged" => checks[p].step \in Steps
    /\ move = NoMove \/ move \in [phase : {"applied", "moved", "unlabelled"}, to : Lessons]
    /\ move.phase = "applied" => Len(taken) <= MaxMoves

LEMMA StepsStayBounded ==
    ASSUME LessonAssumption, now \in Nat, NEW step \in BoundedSteps(now),
           NEW after \in {Marked(step), Skipped(step), Hinted(step), Passed(step), Failed(step)}
    PROVE  after \in BoundedSteps(now)
<1>1. /\ TopRung \in Nat /\ WrongsPerHint \in Nat /\ WrongsPerHint > 0
      /\ now \in 0..now /\ 0 \in 0..(WrongsPerHint - 1)
  BY DEF LessonAssumption
<1>2. ASSUME NEW counted \in BoundedSteps(now) PROVE Hinted(counted) \in BoundedSteps(now)
  <2>1. PICK n : n = (IF counted.hint < TopRung THEN counted.hint + 1 ELSE counted.hint)
    OBVIOUS
  <2>2. n \in 0..TopRung BY <1>1, <2>1 DEF BoundedSteps
  <2>3. Hinted(counted) = [counted EXCEPT !.hint = n] BY <2>1 DEF Hinted
  <2> QED BY <2>2, <2>3 DEF BoundedSteps
<1>3. CASE after = Marked(step) BY <1>1, <1>3 DEF Marked, BoundedSteps
<1>4. CASE after = Skipped(step)
  <2>1. PICK b \in BOOLEAN : b = (step.skipped \/ ~step.isPassed) OBVIOUS
  <2>2. after = [step EXCEPT !.skipped = b] BY <1>4, <2>1 DEF Skipped
  <2> QED BY <2>2 DEF BoundedSteps
<1>5. CASE after = Hinted(step) BY <1>2, <1>5
<1>6. CASE after = Passed(step) BY <1>1, <1>6 DEF Passed, BoundedSteps
<1>7. CASE after = Failed(step)
  <2>1. CASE step.wrong + 1 < WrongsPerHint
    <3>1. PICK n : n = step.wrong + 1 OBVIOUS
    <3>2. n \in 0..(WrongsPerHint - 1) BY <1>1, <2>1, <3>1 DEF BoundedSteps
    <3>3. after = [step EXCEPT !.wrong = n] BY <1>7, <2>1, <3>1 DEF Failed
    <3> QED BY <3>2, <3>3 DEF BoundedSteps
  <2>2. CASE ~ (step.wrong + 1 < WrongsPerHint)
    <3>1. [step EXCEPT !.wrong = 0] \in BoundedSteps(now) BY <1>1 DEF BoundedSteps
    <3> QED BY <1>2, <1>7, <2>2, <3>1 DEF Failed
  <2> QED BY <2>1, <2>2
<1> QED BY <1>3, <1>4, <1>5, <1>6, <1>7

LEMMA KeptInALesson == ASSUME LessonKept PROVE Lesson \in Lessons
<1>1. taken \in Seq(LessonsTaken) /\ Len(taken) \in 1..Len(taken)
  BY LenProperties DEF LessonKept, LessonTypeOK
<1>2. taken[Len(taken)] \in LessonsTaken BY <1>1, ElementOfSeq
<1> QED BY <1>2 DEF Lesson, Last, LessonsTaken

\* What is progressed is one step of a lesson, and it stays in its bounds.
LEMMA ProgressStaysBounded ==
    ASSUME LessonAssumption, LessonKept, NEW s \in Steps,
           NEW after \in {Marked(StepsOf[s]), Skipped(StepsOf[s]), Hinted(StepsOf[s]),
                          Passed(StepsOf[s]), Failed(StepsOf[s])},
           Progressed(s, after), UNCHANGED now
    PROVE  kept' \in [Lessons -> [Steps -> BoundedSteps(now)]]
<1>1. kept \in [Lessons -> [Steps -> BoundedSteps(now)]] /\ now \in Nat
  BY DEF LessonKept, LessonTypeOK
<1>2. PICK here \in Lessons : here = Lesson BY KeptInALesson
<1>3. StepsOf[s] \in BoundedSteps(now) BY <1>1, <1>2 DEF StepsOf
<1>4. after \in BoundedSteps(now) BY <1>1, <1>3, StepsStayBounded
<1>5. kept' = [kept EXCEPT ![here][s] = after] BY <1>2 DEF Progressed
<1> QED BY <1>1, <1>4, <1>5

\* What the steps of the type invariant say of what is kept.
LEMMA BoundsAreTypes ==
    ASSUME NEW last \in Nat, NEW steps, steps \in [Lessons -> [Steps -> BoundedSteps(last)]]
    PROVE  \A l \in Lessons, s \in Steps :
              /\ {steps[l][s].reached, steps[l][s].passed} \subseteq 0..last
              /\ steps[l][s].hint \in 0..TopRung /\ steps[l][s].wrong \in 0..(WrongsPerHint - 1)
<1> SUFFICES ASSUME NEW l \in Lessons, NEW s \in Steps, NEW step, step = steps[l][s]
             PROVE  /\ {step.reached, step.passed} \subseteq 0..last
                    /\ step.hint \in 0..TopRung /\ step.wrong \in 0..(WrongsPerHint - 1)
  OBVIOUS
<1>1. step \in BoundedSteps(last) OBVIOUS
<1> QED BY <1>1 DEF BoundedSteps

LEMMA LessonKeptBegins == ASSUME LessonAssumption, LessonInit PROVE LessonKept
<1>1. taken = <<[lesson |-> First, at |-> 0]>> /\ now = 0 /\ First \in Lessons
  BY DEF LessonAssumption, LessonInit
<1>2. taken \in Seq(LessonsTaken) /\ Len(taken) = 1
  BY <1>1 DEF LessonsTaken
<1>3. {0} \subseteq 0..MaxRecords /\ {0} \subseteq 0..MaxClicks /\ 1 \in 1..(MaxMoves + 1)
  BY DEF LessonAssumption
<1>4. NoStep \in BoundedSteps(now)
  BY <1>1 DEF LessonAssumption, NoStep, BoundedSteps
<1>5. kept \in [Lessons -> [Steps -> BoundedSteps(now)]]
  BY <1>4 DEF LessonInit
<1>6. checks = [p \in Panes |-> NoCheck] /\ NoCheck.phase = "idle"
  BY DEF LessonInit, NoCheck
<1>7. move = NoMove /\ NoMove.phase = "idle"
  BY DEF LessonInit, NoMove
<1>8. LessonTypeOK
  BY <1>1, <1>2, <1>3, <1>5, <1>6, <1>7, BoundsAreTypes DEF LessonInit, LessonTypeOK
<1> QED BY <1>2, <1>5, <1>6, <1>7, <1>8 DEF LessonKept

\* The records that are made have a number, and every lesson that is taken has
\* room.
LEMMA RecordsStayBounded ==
    ASSUME LessonAssumption, LessonKept, LessonNext
    PROVE  /\ now' \in 0..MaxRecords /\ now <= now' /\ clicks' \in 0..MaxClicks
           /\ \A r \in asked' : r.at \in 1..now' /\ r.what \in {"probe", "normal"}
           /\ \A e \in sensed' : e.at \in 1..now' /\ e.marker # NoLabel
           /\ looted' \subseteq {c.marker : c \in cases'} /\ seeded' \subseteq Lessons
<1>1. /\ now \in 0..MaxRecords /\ clicks \in 0..MaxClicks
      /\ MaxRecords \in Nat /\ MaxClicks \in Nat
  BY DEF LessonAssumption, LessonKept, LessonTypeOK
<1>2. now' \in 0..MaxRecords /\ now <= now'
  <2>1. CASE UNCHANGED now BY <1>1, <2>1
  <2>2. CASE Runs \/ \E what \in {"probe", "normal"} : Asks(what)
    <3>1. now' = now + 1 /\ now < MaxRecords BY <2>2 DEF RecordsBound, Asks, Runs
    <3> QED BY <1>1, <3>1
  <2>3. \/ UNCHANGED now \/ Runs \/ \E what \in {"probe", "normal"} : Asks(what)
    BY DEF LessonNext, TightensWaf, Labels, ReachesStep, Skips, AsksForHint, Checks, ChecksWrongly,
           FindsRun, RecordsRun, KeepsVerdict, Moves, MoveSaves, MoveUnlabels, MoveSeeds
  <2> QED BY <2>1, <2>2, <2>3
<1>3. clicks' \in 0..MaxClicks
  <2>1. CASE UNCHANGED clicks BY <1>1, <2>1
  <2>2. CASE Clicks BY <1>1, <2>2 DEF Clicks
  <2>3. ASSUME NEW s \in Steps, ReachesStep(s) \/ Skips(s) \/ AsksForHint(s)
        PROVE  UNCHANGED clicks \/ Clicks
    BY <2>3 DEF ReachesStep, Skips, AsksForHint
  <2>4. ASSUME NEW p \in Panes, NEW s \in Steps, NEW given \in BOOLEAN,
               Checks(p, s, given) \/ ChecksWrongly(p, s, given)
        PROVE  UNCHANGED clicks \/ Clicks
    BY <2>4 DEF Checks, ChecksWrongly
  <2>5. \/ UNCHANGED clicks
        \/ \E s \in Steps : ReachesStep(s) \/ Skips(s) \/ AsksForHint(s)
        \/ \E p \in Panes, s \in Steps, given \in BOOLEAN :
               Checks(p, s, given) \/ ChecksWrongly(p, s, given)
    BY DEF LessonNext, Asks, Runs, TightensWaf, Labels, FindsRun, RecordsRun, KeepsVerdict, Moves,
           MoveSaves, MoveUnlabels, MoveSeeds
  <2> QED BY <2>1, <2>2, <2>3, <2>4, <2>5
<1>4. \A r \in asked' : r.at \in 1..now' /\ r.what \in {"probe", "normal"}
  <2>1. \A r \in asked : r.at \in 1..now' /\ r.what \in {"probe", "normal"}
    BY <1>1, <1>2 DEF LessonKept, LessonTypeOK
  <2>2. \/ asked' = asked
        \/ /\ now' = now + 1
           /\ \E what \in {"probe", "normal"} : \E caught :
                asked' = asked \cup {[what |-> what, at |-> now', caught |-> caught]}
    BY DEF LessonNext, Asks, Runs, TightensWaf, Labels, ReachesStep, Skips, AsksForHint,
           Checks, ChecksWrongly, FindsRun, RecordsRun, KeepsVerdict, Moves, MoveSaves, MoveUnlabels, MoveSeeds
  <2> QED BY <1>1, <2>1, <2>2
<1>5. \A e \in sensed' : e.at \in 1..now' /\ e.marker # NoLabel
  <2>1. \A e \in sensed : e.at \in 1..now' /\ e.marker # NoLabel
    BY <1>1, <1>2 DEF LessonKept, LessonTypeOK
  <2>2. \/ sensed' = sensed
        \/ now' = now + 1 /\ label # NoLabel /\ sensed' = sensed \cup {[marker |-> label, at |-> now']}
    BY DEF LessonNext, Asks, Runs, TightensWaf, Labels, ReachesStep, Skips, AsksForHint,
           Checks, ChecksWrongly, FindsRun, RecordsRun, KeepsVerdict, Moves, MoveSaves, MoveUnlabels, MoveSeeds
  <2> QED BY <1>1, <2>1, <2>2
<1>6. looted' \subseteq {c.marker : c \in cases'}
  <2>1. cases \subseteq cases'
    BY DEF LessonNext, Asks, Runs, TightensWaf, Labels, ReachesStep, Skips, AsksForHint,
           Checks, ChecksWrongly, FindsRun, RecordsRun, KeepsVerdict, Moves, MoveSaves, MoveUnlabels, MoveSeeds
  <2>2. looted' \subseteq looted \cup {c.marker : c \in KaliCase}
    BY DEF LessonNext, Asks, Runs, TightensWaf, Labels, ReachesStep, Skips, AsksForHint,
           Checks, ChecksWrongly, FindsRun, RecordsRun, KeepsVerdict, Moves, MoveSaves, MoveUnlabels, MoveSeeds
  <2> QED BY <2>1, <2>2 DEF KaliCase, LessonKept, LessonTypeOK
<1>7. seeded' \subseteq Lessons
  <2>1. seeded' = seeded \/ MoveSeeds
    BY DEF LessonNext, Asks, Runs, TightensWaf, Labels, ReachesStep, Skips, AsksForHint,
           Checks, ChecksWrongly, FindsRun, RecordsRun, KeepsVerdict, Moves, MoveSaves, MoveUnlabels
  <2>2. CASE MoveSeeds
    <3>1. move.to \in Lessons BY <2>2 DEF MoveSeeds, NoMove, LessonKept
    <3> QED BY <2>2, <3>1 DEF MoveSeeds, LessonKept, LessonTypeOK
  <2> QED BY <2>1, <2>2 DEF LessonKept, LessonTypeOK
<1> QED BY <1>2, <1>3, <1>4, <1>5, <1>6, <1>7

\* A lesson is taken by the move that was applied.
LEMMA TakenStaysBounded ==
    ASSUME LessonAssumption, LessonKept, LessonNext
    PROVE  /\ taken' \in Seq(LessonsTaken) /\ Len(taken') \in 1..(MaxMoves + 1)
           /\ move' = NoMove \/ move' \in [phase : {"applied", "moved", "unlabelled"}, to : Lessons]
           /\ move'.phase \in {"idle", "applied", "moved", "unlabelled"}
           /\ move'.phase = "applied" => Len(taken') <= MaxMoves
<1> USE DEF LessonKept
<1>1. /\ now \in Nat /\ MaxMoves \in Nat /\ Len(taken) \in 1..(MaxMoves + 1)
      /\ NoMove.phase = "idle" /\ move.phase \in {"idle", "applied", "moved", "unlabelled"}
  BY DEF LessonAssumption, NoMove, LessonTypeOK
<1>2. CASE UNCHANGED <<taken, move>> BY <1>1, <1>2
<1>3. ASSUME NEW l \in Lessons, Moves(l) PROVE
        /\ UNCHANGED taken /\ Len(taken) <= MaxMoves
        /\ move' \in [phase : {"applied", "moved", "unlabelled"}, to : Lessons]
  BY <1>3 DEF Moves
<1>4. CASE MoveSaves
  <2>1. move.to \in Lessons /\ move.phase = "applied" /\ Len(taken) <= MaxMoves
    BY <1>4 DEF MoveSaves, NoMove
  <2>2. PICK one : one = [lesson |-> move.to, at |-> now] OBVIOUS
  <2>3. one \in LessonsTaken BY <1>1, <2>1, <2>2 DEF LessonsTaken
  <2>4. taken' = Append(taken, one) BY <1>4, <2>2 DEF MoveSaves
  <2>5. taken' \in Seq(LessonsTaken) /\ Len(taken') = Len(taken) + 1
    BY <2>3, <2>4, AppendProperties
  <2>6. /\ move' \in [phase : {"applied", "moved", "unlabelled"}, to : Lessons]
        /\ move'.phase = "moved"
    BY <1>1, <1>4, <2>1 DEF MoveSaves
  <2> QED BY <1>1, <2>1, <2>5, <2>6
<1>5. CASE MoveUnlabels
  <2>1. /\ UNCHANGED taken /\ move'.phase = "unlabelled"
        /\ move' \in [phase : {"applied", "moved", "unlabelled"}, to : Lessons]
    BY <1>1, <1>5 DEF MoveUnlabels
  <2> QED BY <1>1, <2>1
<1>6. CASE MoveSeeds BY <1>1, <1>6 DEF MoveSeeds
<1>7. \/ UNCHANGED <<taken, move>> \/ (\E l \in Lessons : Moves(l))
      \/ MoveSaves \/ MoveUnlabels \/ MoveSeeds
  BY DEF LessonNext, Asks, Runs, TightensWaf, Labels, ReachesStep, Skips, AsksForHint, Checks,
         ChecksWrongly, FindsRun, RecordsRun, KeepsVerdict
<1>8. CASE \E l \in Lessons : Moves(l)
  <2>1. /\ UNCHANGED taken /\ Len(taken) <= MaxMoves
        /\ move' \in [phase : {"applied", "moved", "unlabelled"}, to : Lessons]
    BY <1>3, <1>8
  <2> QED BY <1>1, <2>1
<1> QED BY <1>2, <1>4, <1>5, <1>6, <1>7, <1>8

LEMMA ChecksStayTyped ==
    ASSUME LessonKept, LessonNext
    PROVE  /\ checks' = [p \in Panes |-> checks'[p]]
           /\ \A p \in Panes : /\ checks'[p].phase \in {"idle", "recording", "judged"}
                               /\ checks'[p].phase = "recording" => "kali" \in Steps
                               /\ checks'[p].phase = "judged" => checks'[p].step \in Steps
<1> DEFINE OfAStep(check) ==
             /\ check.phase \in {"idle", "recording", "judged"}
             /\ check.phase = "recording" => "kali" \in Steps
             /\ check.phase = "judged" => check.step \in Steps
<1>1. checks = [p \in Panes |-> checks[p]] /\ \A p \in Panes : OfAStep(checks[p])
  BY DEF LessonKept, LessonTypeOK
<1>2. OfAStep(NoCheck) BY DEF NoCheck
<1>3. ASSUME NEW p \in Panes, NEW check, OfAStep(check), checks' = [checks EXCEPT ![p] = check]
      PROVE  checks' = [q \in Panes |-> checks'[q]] /\ \A q \in Panes : OfAStep(checks'[q])
  <2> HIDE DEF OfAStep
  <2> QED BY <1>1, <1>3
<1>4. ASSUME NEW p \in Panes, NEW s \in Steps, NEW given \in BOOLEAN,
             Checks(p, s, given) \/ ChecksWrongly(p, s, given)
      PROVE  \E check : OfAStep(check) /\ checks' = [checks EXCEPT ![p] = check]
  <2>1. ASSUME NEW passed \in BOOLEAN, NEW check, check = [phase |-> "judged", step |-> s, passed |-> passed]
        PROVE  OfAStep(check)
    BY <2>1
  <2>2. \E passed \in BOOLEAN :
          checks' = [checks EXCEPT ![p] = [phase |-> "judged", step |-> s, passed |-> passed]]
    BY <1>4 DEF Checks, ChecksWrongly
  <2> QED BY <2>1, <2>2
<1>5. ASSUME NEW p \in Panes, FindsRun(p)
      PROVE  \E check : OfAStep(check) /\ checks' = [checks EXCEPT ![p] = check]
  <2>1. PICK check : /\ check = [phase |-> "recording", step |-> "kali", run |-> Run]
                     /\ checks' = [checks EXCEPT ![p] = check]
    BY <1>5 DEF FindsRun
  <2>2. "kali" \in Steps BY <1>5 DEF FindsRun, RunIsOver
  <2> QED BY <2>1, <2>2
<1>6. ASSUME NEW p \in Panes, RecordsRun(p)
      PROVE  \E check : OfAStep(check) /\ checks' = [checks EXCEPT ![p] = check]
  <2>1. "kali" \in Steps BY <1>1, <1>6 DEF RecordsRun
  <2>2. PICK judged : judged = [phase |-> "judged", step |-> "kali", passed |-> TRUE] OBVIOUS
  <2>3. OfAStep(judged) BY <2>1, <2>2
  <2>4. \E check \in {NoCheck, judged} : checks' = [checks EXCEPT ![p] = check]
    BY <1>6, <2>2 DEF RecordsRun
  <2> HIDE DEF OfAStep
  <2> QED BY <1>2, <2>3, <2>4
<1>7. ASSUME NEW p \in Panes, KeepsVerdict(p)
      PROVE  checks' = [checks EXCEPT ![p] = NoCheck]
  BY <1>7 DEF KeepsVerdict
<1> HIDE DEF OfAStep
<1>8. \/ UNCHANGED checks
      \/ \E p \in Panes : \E check : OfAStep(check) /\ checks' = [checks EXCEPT ![p] = check]
  <2>1. CASE \E p \in Panes, s \in Steps, given \in BOOLEAN :
                Checks(p, s, given) \/ ChecksWrongly(p, s, given)
    BY <1>4, <2>1
  <2>2. CASE \E p \in Panes : FindsRun(p) \/ RecordsRun(p) \/ KeepsVerdict(p)
    BY <1>2, <1>5, <1>6, <1>7, <2>2
  <2>3. CASE UNCHANGED checks BY <2>3
  <2>4. \/ UNCHANGED checks
        \/ \E p \in Panes, s \in Steps, given \in BOOLEAN :
               Checks(p, s, given) \/ ChecksWrongly(p, s, given)
        \/ \E p \in Panes : FindsRun(p) \/ RecordsRun(p) \/ KeepsVerdict(p)
    BY DEF LessonNext, Asks, Runs, TightensWaf, Labels, ReachesStep, Skips, AsksForHint, Moves,
           MoveSaves, MoveUnlabels, MoveSeeds
  <2> QED BY <2>1, <2>2, <2>3, <2>4
<1> QED BY <1>1, <1>3, <1>8 DEF OfAStep

LEMMA BoundsGrow ==
    ASSUME NEW n \in Nat, NEW m \in Nat, n <= m
    PROVE  BoundedSteps(n) \subseteq BoundedSteps(m)
<1>1. 0..n \subseteq 0..m OBVIOUS
<1> QED BY <1>1 DEF BoundedSteps

LEMMA KeptStaysBounded ==
    ASSUME LessonAssumption, LessonKept, LessonNext
    PROVE  kept' \in [Lessons -> [Steps -> BoundedSteps(now')]]
<1>1. /\ kept \in [Lessons -> [Steps -> BoundedSteps(now)]]
      /\ now \in Nat /\ now' \in Nat /\ now <= now'
  BY RecordsStayBounded DEF LessonKept, LessonTypeOK
<1>2. CASE UNCHANGED kept
  <2>1. BoundedSteps(now) \subseteq BoundedSteps(now') BY <1>1, BoundsGrow
  <2> QED BY <1>1, <1>2, <2>1
<1>3. ASSUME NEW s \in Steps, ReachesStep(s) \/ Skips(s) \/ AsksForHint(s)
      PROVE  kept' \in [Lessons -> [Steps -> BoundedSteps(now')]]
  <2>1. UNCHANGED now BY <1>3 DEF ReachesStep, Skips, AsksForHint
  <2>2. \E after \in {Marked(StepsOf[s]), Skipped(StepsOf[s]), Hinted(StepsOf[s])} : Progressed(s, after)
    BY <1>3 DEF ReachesStep, Skips, AsksForHint
  <2> QED BY <2>1, <2>2, ProgressStaysBounded
<1>4. ASSUME NEW p \in Panes, KeepsVerdict(p)
      PROVE  kept' \in [Lessons -> [Steps -> BoundedSteps(now')]]
  <2>1. UNCHANGED now /\ checks[p].step \in Steps BY <1>4 DEF KeepsVerdict, LessonKept
  <2>2. \E after \in {Passed(StepsOf[checks[p].step]), Failed(StepsOf[checks[p].step])} :
          Progressed(checks[p].step, after)
    BY <1>4 DEF KeepsVerdict
  <2> QED BY <2>1, <2>2, ProgressStaysBounded
<1>5. \/ UNCHANGED kept \/ (\E p \in Panes : KeepsVerdict(p))
      \/ \E s \in Steps : ReachesStep(s) \/ Skips(s) \/ AsksForHint(s)
  BY DEF LessonNext, Asks, Runs, TightensWaf, Labels, Checks, ChecksWrongly, FindsRun, RecordsRun,
         Moves, MoveSaves, MoveUnlabels, MoveSeeds
<1> QED BY <1>2, <1>3, <1>4, <1>5

LEMMA LessonStaysKept ==
    ASSUME LessonAssumption, LessonKept, [LessonNext]_lessonVars
    PROVE  LessonKept'
<1>1. CASE UNCHANGED lessonVars
  BY <1>1 DEF LessonKept, LessonTypeOK, BoundedSteps, lessonVars
<1>2. CASE LessonNext
  <2>1. now' \in Nat /\ kept' \in [Lessons -> [Steps -> BoundedSteps(now')]]
    BY <1>2, KeptStaysBounded, RecordsStayBounded
  <2>2. \A l \in Lessons, s \in Steps :
           /\ {kept'[l][s].reached, kept'[l][s].passed} \subseteq 0..now'
           /\ kept'[l][s].hint \in 0..TopRung /\ kept'[l][s].wrong \in 0..(WrongsPerHint - 1)
    BY <2>1, BoundsAreTypes
  <2>3. LessonTypeOK'
    BY <1>2, <2>2, RecordsStayBounded, TakenStaysBounded, ChecksStayTyped DEF LessonTypeOK
  <2> QED BY <1>2, <2>1, <2>3, TakenStaysBounded, ChecksStayTyped DEF LessonKept, BoundedSteps
<1> QED BY <1>1, <1>2

\* Every variable of a lesson keeps its type, also where a lesson changes while
\* a check judges: every record has a number, no step is hinted further than
\* the last rung or has as many failed checks as make a hint, and no lesson is
\* taken without room for it.
THEOREM LessonsStayTyped == ASSUME LessonAssumption PROVE LessonSpec => []LessonTypeOK
<1>1. LessonInit => LessonKept BY LessonKeptBegins
<1>2. LessonKept /\ [LessonNext]_lessonVars => LessonKept' BY LessonStaysKept
<1>3. LessonKept => LessonTypeOK BY DEF LessonKept
<1> QED BY <1>1, <1>2, <1>3, PTL DEF LessonSpec
=============================================================================
