--------------------------- MODULE ScenarioLearner ---------------------------
(***************************************************************************)
(* What the learner of a scenario does beside its windows: the alerts that *)
(* are judged one item at a time, the WAF changes the platform notices, the *)
(* hints that are offered when the learner seems stuck and that are opened *)
(* one after another (platform/api/scenario_run.py, platform/scenarios.py). *)
(* A request reads, judges, and then writes in an _update of its own, which *)
(* takes STATE; the engine's thread observes in between.                   *)
(***************************************************************************)
EXTENDS Naturals, FiniteSets

CONSTANTS
    Attackers, Customers,  \* the markers that may draw alerts
    LearnerTabs,           \* requests of the learner
    HintCount,           \* the hints the scenario declares
    WrongsBeforeOffer,
    IdleTime,            \* IDLE
    MaxNow, MaxVerdicts, MaxVersion

LearnerAssumption ==
    /\ Attackers \cap Customers = {}
    /\ {HintCount, WrongsBeforeOffer, IdleTime, MaxNow, MaxVerdicts, MaxVersion} \subseteq Nat

VARIABLES
    clock,
    dumped,      \* the attacks that take data (the target's doing)
    attacked,    \* the attacks whose case is recorded
    credited,    \* those whose loot or effect is credited by now
    alerted,     \* the markers with an alert that was ingested
    triage,      \* the verdict kept on an item
    verdicts,    \* how many were given
    posting,     \* what a request has read or done, and not written
    force,       \* the WAF file's version
    noticed,     \* the last version in the state
    lastChange,  \* when it was noticed
    watching,    \* the last_change an observation read, {} between two
    idleOffered, \* the last_change an idle offer was made for
    idles,       \* how many were made for each
    offer,       \* the help that is offered: its reason, or "none"
    opened,      \* the hints opened, in the scenario's state
    helped       \* and in the session's hints

learnerVars == <<clock, dumped, attacked, credited, alerted, triage, verdicts, posting, force,
                 noticed, lastChange, watching, idleOffered, idles, offer, opened, helped>>

Items == Attackers \cup Customers
Moments == 0..MaxNow
Verdicts == [attack : BOOLEAN, succeeded : BOOLEAN]
NoVerdict == [said |-> {}, right |-> FALSE, wrong |-> 0, early |-> FALSE]
PostAt(phase, version) ==
    [phase |-> phase, item |-> {}, said |-> {}, right |-> FALSE, early |-> FALSE, version |-> version]
NoPost == PostAt("idle", 0)
PostPhases == {"idle", "judged", "triage", "written", "same", "again"}

LearnerTypeOK ==
    /\ clock \in Moments /\ lastChange \in Moments
    /\ dumped \subseteq Attackers /\ attacked \subseteq Attackers /\ alerted \subseteq Items
    /\ credited \subseteq attacked \cap dumped
    /\ \A i \in Items : /\ triage[i].said \subseteq Verdicts /\ triage[i].wrong \in 0..MaxVerdicts
                        /\ {triage[i].right, triage[i].early} \subseteq BOOLEAN
    /\ \A t \in LearnerTabs : posting[t].phase \in PostPhases /\ posting[t].version \in 0..MaxVersion
    /\ {force, noticed} \subseteq 0..MaxVersion
    /\ watching \subseteq Moments /\ idleOffered \subseteq Moments /\ idles \in [Moments -> Nat]
    /\ offer \in {"none", "triage", "check", "waf", "idle"}
    /\ {opened, helped} \subseteq 0..HintCount

\* begin, with the posture's file.
LearnerInit ==
    /\ clock = 0 /\ dumped \in SUBSET Attackers
    /\ attacked = {} /\ credited = {} /\ alerted = {}
    /\ triage = [i \in Items |-> NoVerdict] /\ verdicts = 0
    /\ posting = [t \in LearnerTabs |-> NoPost]
    /\ force = 0 /\ noticed = 0 /\ lastChange = 0
    /\ watching = {} /\ idleOffered = {} /\ idles = [m \in Moments |-> 0]
    /\ offer = "none" /\ opened = 0 /\ helped = 0

recordVars == <<dumped, attacked, credited, alerted>>
triageVars == <<triage, verdicts, posting>>
forceVars == <<force, noticed, lastChange>>
helpVars == <<idleOffered, idles, offer, opened, helped>>

-----------------------------------------------------------------------------
(* The attacks and their records. *)

MinutePasses ==
    /\ clock < MaxNow /\ clock' = clock + 1
    /\ UNCHANGED <<recordVars, triageVars, forceVars, watching, helpVars>>

\* An attack ends: its case is recorded, and what it took is credited after: by
\* the engine, by whoever hands the loot in, or for what the objectives of its
\* time show.  Which of several attacks is credited is Objectives' subject.
Records(a) ==
    /\ \/ a \notin attacked /\ attacked' = attacked \cup {a} /\ UNCHANGED credited
       \/ a \in (attacked \cap dumped) \ credited /\ credited' = credited \cup {a} /\ UNCHANGED attacked
    /\ UNCHANGED <<clock, dumped, alerted, triageVars, forceVars, watching, helpVars>>

Alerts(i) ==
    /\ i \notin alerted /\ alerted' = alerted \cup {i}
    /\ UNCHANGED <<clock, dumped, attacked, credited, triageVars, forceVars, watching, helpVars>>

-----------------------------------------------------------------------------
(* Judging. *)

\* One item for each marker with alerts: of a recorded case, or a customer.
Listed == alerted \cap (attacked \cup Customers)

Truth(i) == [attack |-> i \in Attackers, succeeded |-> i \in credited]

Succeeds(i) == i \in dumped

\* (Mutant: whether the attack succeeded is not compared.)
RightAboutTheAttack(truth, verdict) == verdict.attack = truth.attack

\* Whether it got the data is asked of an attack only.
Right(truth, verdict) ==
    /\ verdict.attack = truth.attack
    /\ verdict.attack => verdict.succeeded = truth.succeeded

Judges(t) ==
    /\ posting[t].phase = "idle" /\ verdicts < MaxVerdicts
    /\ \E i \in Listed, said \in Verdicts :
         /\ ~ said.attack => ~ said.succeeded
         /\ posting' = [posting EXCEPT ![t] =
              [phase |-> "judged", item |-> {i}, said |-> {said}, right |-> Right(Truth(i), said),
               early |-> Succeeds(i) /\ i \notin credited, version |-> 0]]
    /\ verdicts' = verdicts + 1
    /\ UNCHANGED <<clock, recordVars, triage, forceVars, watching, helpVars>>

\* kept_judgement: a right one clears the wrong ones before it.
KeptJudgement(kept, post) ==
    [said |-> post.said, right |-> post.right, early |-> post.early,
     wrong |-> IF post.right THEN 0 ELSE kept.wrong + 1]

StuckOnTriage(kept) == kept.wrong >= WrongsBeforeOffer

Keeps(t) ==
    /\ posting[t].phase = "judged"
    /\ \E i \in posting[t].item :
         /\ triage' = [triage EXCEPT ![i] = KeptJudgement(@, posting[t])]
         /\ posting' = [posting EXCEPT ![t] =
              IF StuckOnTriage(triage'[i]) THEN PostAt("triage", 0) ELSE NoPost]
    /\ UNCHANGED <<clock, recordVars, verdicts, forceVars, watching, helpVars>>

-----------------------------------------------------------------------------
(* Help. *)

\* stuck: a hint is offered unless one is, or none is left.
Stuck(reason) ==
    /\ offer' = IF offer = "none" /\ opened < HintCount THEN reason ELSE offer
    /\ UNCHANGED <<opened, helped>>

AsksForHelp(t) ==
    /\ \/ posting[t].phase = "triage" /\ Stuck("triage")
       \/ posting[t].phase = "again" /\ Stuck("waf")
    /\ posting' = [posting EXCEPT ![t] = NoPost]
    /\ UNCHANGED <<clock, recordVars, triage, verdicts, forceVars, watching, idleOffered, idles>>

\* A step of the scenario's lesson was checked, and failed for as many times as
\* call for help: LessonSteps has that, and this comes in an update after it.
ChecksFail ==
    /\ Stuck("check")
    /\ UNCHANGED <<clock, recordVars, triageVars, forceVars, watching, idleOffered, idles>>

\* A version that is not the last one is a change.
WafSeen(version) ==
    /\ noticed' = version
    /\ lastChange' = IF version # noticed THEN clock ELSE lastChange

\* A PUT writes in the slot's turn, and notices after it: another PUT, or the
\* engine, may notice its own in between.  One that writes the file in force
\* asks for help then.
WafWrites(t) ==
    /\ posting[t].phase = "idle"
    /\ \E version \in {force, force + 1} \cap (0..MaxVersion) :
         /\ force' = version
         /\ posting' = [posting EXCEPT ![t] =
              PostAt(IF version = force THEN "same" ELSE "written", version)]
    /\ UNCHANGED <<clock, recordVars, triage, verdicts, noticed, lastChange, watching, helpVars>>

WafApplied(t) ==
    /\ posting[t].phase \in {"written", "same"}
    /\ WafSeen(posting[t].version)
    /\ posting' = [posting EXCEPT ![t] =
         IF posting[t].phase = "same" THEN PostAt("again", 0) ELSE NoPost]
    /\ UNCHANGED <<clock, recordVars, triage, verdicts, force, watching, helpVars>>

\* In the terminal the file changes without the platform.
TerminalWrites ==
    /\ force < MaxVersion /\ force' = force + 1
    /\ UNCHANGED <<clock, recordVars, triageVars, noticed, lastChange, watching, helpVars>>

\* The engine's pass reads the file, where the gateway answers ...
Observes ==
    /\ watching = {}
    /\ WafSeen(force) \/ UNCHANGED <<noticed, lastChange>>
    /\ watching' = {lastChange'}
    /\ UNCHANGED <<clock, recordVars, triageVars, force, helpVars>>

\* ... and offers help where customers were blocked and nothing changed for
\* long, once for each change.
Idle(at) == at + IdleTime <= clock

OffersForIdleness ==
    /\ \E last \in watching :
         IF Idle(last) /\ last \notin idleOffered
         THEN \/ /\ Stuck("idle") /\ idleOffered' = {last}
                 /\ idles' = [idles EXCEPT ![last] = @ + 1]
              \/ UNCHANGED helpVars      \* no customer was blocked
         ELSE UNCHANGED helpVars
    /\ watching' = {}
    /\ UNCHANGED <<clock, recordVars, triageVars, forceVars>>

\* (Mutant: the offer stays when its hint is opened.)
OpensHintOffered ==
    /\ opened < HintCount /\ opened' = opened + 1
    /\ helped' = helped + 1 /\ UNCHANGED offer
    /\ UNCHANGED <<clock, recordVars, triageVars, forceVars, watching, idleOffered, idles>>

\* The next hint is opened, asked for or offered.
OpensHint ==
    /\ opened < HintCount /\ opened' = opened + 1
    /\ helped' = helped + 1 /\ offer' = "none"
    /\ UNCHANGED <<clock, recordVars, triageVars, forceVars, watching, idleOffered, idles>>

\* What requests and the engine had read is lost; the state is kept.
PlatformRestarts ==
    /\ watching # {} \/ \E t \in LearnerTabs : posting[t].phase # "idle"
    /\ posting' = [t \in LearnerTabs |-> NoPost] /\ watching' = {}
    /\ UNCHANGED <<clock, recordVars, triage, verdicts, forceVars, helpVars>>

LearnerNext ==
    \/ MinutePasses
    \/ \E a \in Attackers : Records(a)
    \/ \E i \in Items : Alerts(i)
    \/ \E t \in LearnerTabs : Judges(t) \/ Keeps(t)
    \/ \E t \in LearnerTabs : WafWrites(t) \/ WafApplied(t) \/ AsksForHelp(t)
    \/ ChecksFail \/ TerminalWrites \/ Observes \/ OffersForIdleness \/ OpensHint
    \/ PlatformRestarts

LearnerSpec == LearnerInit /\ [][LearnerNext]_learnerVars

-----------------------------------------------------------------------------
(* Properties. *)

\* Help is offered only while a hint is left to open, for idleness once for
\* each change of the WAF, whatever is opened and changed at the same time, and
\* what was opened is what the session keeps as help used.
HelpFitsWhatIsLeft ==
    /\ offer # "none" => opened < HintCount
    /\ \A m \in Moments : idles[m] <= 1
    /\ helped = opened

\* A verdict that was judged right is right by what the attack did in the end,
\* though it may be given while attacks run: unless it was given between an
\* attack's record and the credit of what it took.
VerdictsStayTrue ==
    \A i \in Items : triage[i].right /\ ~ triage[i].early =>
        \A said \in triage[i].said :
            /\ said.attack = (i \in Attackers)
            /\ said.attack => said.succeeded = Succeeds(i)
=============================================================================
