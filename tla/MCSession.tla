----------------------------- MODULE MCSession -----------------------------
(***************************************************************************)
(* Small instances of what a session keeps while it runs, in one run: the  *)
(* site browser, a PUT of the WAF, the learner of a scenario, the steps of *)
(* a lesson, the credit of objectives and the evidence of its result.      *)
(* `part` says which of them a behaviour is about; the variables of the    *)
(* others stay as they begin.  The modules are extended, with the          *)
(* constants Session.cfg gives.                                            *)
(***************************************************************************)
EXTENDS SiteBrowser, WafApply, ScenarioLearner, LessonSteps, Objectives, Evidence,
        TLC

VARIABLE part

ASSUME SessionAssumptions ==
    /\ SiteAssumption /\ WafAssumption /\ LearnerAssumption
    /\ LessonAssumption /\ ObjectivesAssumption /\ EvidenceAssumption

vars == <<part, siteVars, wafVars, learnerVars, lessonVars, objectiveVars, evidenceVars>>

Init ==
    /\ part \in {"site", "waf", "learner", "help", "lessons", "clicks", "credit", "result", "ingests"}
    /\ SiteInit /\ WafInit /\ LearnerInit /\ LessonInit /\ ObjectivesInit /\ EvidenceInit
    /\ part # "learner" => dumped = {}
    /\ part # "credit" => model = "loot" /\ replays = {}

\* Overlapping ingests are about the alerts of one case, a replay is not one.
OnlyTheFirst == recorded' \subseteq Cases \ Replays /\ \A c \in Replays : indexed'[c] = "none"

OnlySteps(steps) ==
    /\ \A l \in Lessons, s \in Steps \ steps : kept'[l][s] = NoStep
    /\ \A p \in Panes : checks'[p] # NoCheck => checks'[p].step \in steps

\* Two pages and a move to another lesson, where no click is wasted; and what
\* a learner of one lesson on one page does.
WholeCourse == clicks' = 0 /\ OnlySteps(Steps \ {"answer"})
OnePage == move' = NoMove /\ checks'["q"] = NoCheck /\ OnlySteps({"kali", "answer"})

\* What the site answers sets its cookie, and its pages name a policy.
SetsAndNames ==
    \A t \in DOMAIN tabs : tabs[t].phase = "sent" /\ tabs'[t].phase = "relayed" =>
        jar' = "session" /\ (tabs[t].url = "page" => policy' = "no-referrer")

\* Verdicts beside one change of the WAF from one tab, within a minute, where
\* wrong verdicts and idleness call for help; and the changes of two tabs, with
\* no attack to judge.
JudgesInAMinute ==
    /\ clock' <= 1 /\ force' <= 1 /\ offer' # "check"
    /\ force' # force => posting' # posting
    /\ \A t \in LearnerTabs : posting'[t].phase \notin {"same", "again"}
    /\ posting'["u"].phase # "written"
NothingToJudge == attacked' = {} /\ alerted' = {}

\* The attacks are alike: "a" is the one that starts first.  Loot has no log, and
\* is handed in within three ticks.
StartsFirst == runs'["b"].phase # "ready" => runs'["a"].phase # "ready"
LootInTime ==
    model = "loot" =>
        time' <= 3 /\ \A change \in changes' \ changes : change.at = Logged(time)

Next ==
    /\ UNCHANGED part
    /\ \/ part = "site" /\ SiteNext /\ SetsAndNames
       \/ part = "waf" /\ WafNext
       \/ part = "learner" /\ LearnerNext /\ JudgesInAMinute
       \/ part = "help" /\ LearnerNext /\ NothingToJudge
       \/ part = "lessons" /\ LessonNext /\ WholeCourse
       \/ part = "clicks" /\ LessonNext /\ OnePage
       \/ part = "credit" /\ ObjectivesNext /\ StartsFirst /\ LootInTime
       \/ part = "result" /\ EvidenceNext /\ ingested' <= 1
       \/ part = "ingests" /\ EvidenceNext /\ OnlyTheFirst
    /\ part # "site" => UNCHANGED siteVars
    /\ part # "waf" => UNCHANGED wafVars
    /\ part \notin {"learner", "help"} => UNCHANGED learnerVars
    /\ part \notin {"lessons", "clicks"} => UNCHANGED lessonVars
    /\ part # "credit" => UNCHANGED objectiveVars
    /\ part \notin {"result", "ingests"} => UNCHANGED evidenceVars

\* Requests of the site's browser are alike.
Symmetry == Permutations(Tabs)

Spec == Init /\ [][Next]_vars

\* Every variable keeps its type.
SessionTypesOK ==
    /\ SiteTypeOK /\ WafTypeOK /\ LearnerTypeOK
    /\ LessonTypeOK /\ ObjectivesTypeOK /\ EvidenceTypeOK
=============================================================================
