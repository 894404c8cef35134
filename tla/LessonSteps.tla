----------------------------- MODULE LessonSteps -----------------------------
(***************************************************************************)
(* The steps of the foundation lessons of one session (platform/api/       *)
(* views.py): a learner reaches a step, asks the site and runs tools in    *)
(* Kali, a check judges what was recorded, and the session moves to        *)
(* another lesson in place.  A check reads the session first, judges, and  *)
(* keeps its verdict under the lesson the session has by then.             *)
(*                                                                         *)
(* `now` numbers what leaves a record (a request, a run, a pause); any     *)
(* other time is the number of the last record before it, so "not before"  *)
(* a time is "later than" it.  A lesson has one step of each kind of       *)
(* check, named for the kind: a step's id means a step of each lesson.     *)
(***************************************************************************)
EXTENDS Naturals, Sequences, SequencesExt, FiniteSets

CONSTANTS
    Lessons,     \* the ids of the foundations
    First,       \* the lesson the session was opened with
    Gaps,        \* the lessons whose defense lets the probe through
    Steps,       \* the kinds of check in a lesson
    Panes,       \* pages of the learner that may have a check under way
    Slack,       \* RECORD_SLACK, in records
    TopRung,     \* SKIP_OFFERED_IN_FOUNDATIONS
    WrongsPerHint,
    Overlap,     \* whether a lesson may change while a check judges
    MaxRecords, MaxMoves, MaxClicks   \* bounds

\* The catalogue is refused where a loot step is not about a kali step of its
\* lesson, or a replay comes after no step of it; here it comes after a
\* waf_changed one, and its attack is one that is sent again.
LessonAssumption ==
    /\ First \in Lessons /\ Gaps \subseteq Lessons /\ Overlap \in BOOLEAN
    /\ Steps \subseteq {"sent", "answer", "kali", "loot", "waf_changed", "replay"}
    /\ "loot" \in Steps => "kali" \in Steps
    /\ "replay" \in Steps => "waf_changed" \in Steps
    /\ {Slack, TopRung, WrongsPerHint, MaxRecords, MaxMoves, MaxClicks} \subseteq Nat
    /\ WrongsPerHint > 0

VARIABLES
    now,         \* how many records there are
    taken,       \* Session.lessons: each lesson taken and when it started
    kept,        \* Session.lesson_steps
    asked,       \* what the Website pane kept
    sensed,      \* the requests of Kali the sensor saw, with their marker
    label,       \* the marker the stamp proxy adds, a lesson and its step
    labelling,   \* the marker a request is about to write there
    cases,       \* the Case rows of runs in Kali
    looted,      \* the cases whose loot was handed in
    letsThrough, \* whether the exclusion of the WAF is in force
    checks,      \* the check each pane has under way
    move,        \* the move to another lesson under way
    seeded,      \* the lessons whose cases have been fired
    clicks       \* how often a learner did what no check reads

lessonVars == <<now, taken, kept, asked, sensed, label, labelling, cases, looted,
                letsThrough, checks, move, seeded, clicks>>

NoLabel == <<>>
NoStep == [reached |-> 0, passed |-> 0, isReached |-> FALSE, isPassed |-> FALSE,
           skipped |-> FALSE, wrong |-> 0, hint |-> 0]
NoCheck == [phase |-> "idle"]
NoMove == [phase |-> "idle"]

LessonTypeOK ==
    /\ now \in 0..MaxRecords /\ clicks \in 0..MaxClicks
    /\ Len(taken) \in 1..(MaxMoves + 1)
    /\ \A l \in Lessons, s \in Steps :
          /\ {kept[l][s].reached, kept[l][s].passed} \subseteq 0..now
          /\ kept[l][s].hint \in 0..TopRung /\ kept[l][s].wrong \in 0..(WrongsPerHint - 1)
    /\ \A r \in asked : r.at \in 1..now /\ r.what \in {"probe", "normal"}
    /\ \A e \in sensed : e.at \in 1..now /\ e.marker # NoLabel
    /\ looted \subseteq {c.marker : c \in cases} /\ seeded \subseteq Lessons
    /\ \A p \in Panes : checks[p].phase \in {"idle", "recording", "judged"}
    /\ move.phase \in {"idle", "applied", "moved", "unlabelled"}

LessonInit ==
    /\ now = 0 /\ taken = <<[lesson |-> First, at |-> 0]>>
    /\ kept = [l \in Lessons |-> [s \in Steps |-> NoStep]]
    /\ asked = {} /\ sensed = {} /\ label = NoLabel /\ labelling = NoLabel
    /\ cases = {} /\ looted = {} /\ letsThrough = (First \in Gaps)
    /\ checks = [p \in Panes |-> NoCheck] /\ move = NoMove
    /\ seeded = {First} /\ clicks = 0

Lesson == Last(taken).lesson
Since == IF Len(taken) > 1 THEN Last(taken).at ELSE 0
StepsOf == kept[Lesson]
Later(m, n) == IF m > n THEN m ELSE n

-----------------------------------------------------------------------------
(* What the learner does. *)

RecordsBound == now < MaxRecords
Asks(what) ==
    /\ RecordsBound /\ now' = now + 1
    /\ asked' = asked \cup {[what |-> what, at |-> now', caught |-> what = "probe" /\ ~letsThrough]}
    /\ UNCHANGED <<taken, kept, sensed, label, labelling, cases, looted, letsThrough,
                   checks, move, seeded, clicks>>

Runs ==
    /\ RecordsBound /\ now' = now + 1
    /\ sensed' = sensed \cup (IF label = NoLabel THEN {} ELSE {[marker |-> label, at |-> now']})
    /\ UNCHANGED <<taken, kept, asked, label, labelling, cases, looted, letsThrough,
                   checks, move, seeded, clicks>>

TightensWaf ==
    /\ letsThrough /\ letsThrough' = FALSE
    /\ UNCHANGED <<now, taken, kept, asked, sensed, label, labelling, cases, looted,
                   checks, move, seeded, clicks>>

-----------------------------------------------------------------------------
(* What is kept of a step, under the lesson of the moment. *)

Clicks == clicks < MaxClicks /\ clicks' = clicks + 1
Progressed(s, step) == kept' = [kept EXCEPT ![Lesson][s] = step]

Marked(step) == IF step.isReached THEN step ELSE [step EXCEPT !.isReached = TRUE, !.reached = now]

\* An armed step's marker is made when it is first reached, and written to the
\* proxy once the record is.
ReachesStep(s) ==
    /\ Progressed(s, Marked(StepsOf[s]))
    /\ IF s = "kali" THEN clicks' = clicks ELSE Clicks
    /\ labelling' = IF s = "kali" THEN <<Lesson, s>> ELSE labelling
    /\ UNCHANGED <<now, taken, asked, sensed, label, cases, looted, letsThrough,
                   checks, move, seeded>>

\* RangeUnavailable is passed over.
Labels ==
    /\ labelling # NoLabel /\ labelling' = NoLabel
    /\ label' \in {label, labelling}
    /\ UNCHANGED <<now, taken, kept, asked, sensed, cases, looted, letsThrough,
                   checks, move, seeded, clicks>>

Skipped(step) == [step EXCEPT !.skipped = @ \/ ~step.isPassed]
Skips(s) ==
    /\ Clicks /\ Progressed(s, Skipped(StepsOf[s]))
    /\ UNCHANGED <<now, taken, asked, sensed, label, labelling, cases, looted, letsThrough,
                   checks, move, seeded>>

Hinted(step) == [step EXCEPT !.hint = IF @ < TopRung THEN @ + 1 ELSE @]
AsksForHint(s) ==
    /\ Clicks /\ Progressed(s, Hinted(StepsOf[s]))
    /\ UNCHANGED <<now, taken, asked, sensed, label, labelling, cases, looted, letsThrough,
                   checks, move, seeded>>

-----------------------------------------------------------------------------
(* A check: what it judges by. *)

\* (Mutant: the requests of the whole session count.)
SiteRequestsOfTheSession(what, after) == {r \in asked : r.what = what /\ r.at > after}

OwnSiteRequests(what, after) == {r \in asked : r.what = what /\ r.at > Later(Since, after)}

\* The accepted values are read from the record the step is about.
Accepted(right) == right /\ OwnSiteRequests("probe", 0) # {}

KaliCase == {c \in cases : c.marker = <<Lesson, "kali">>}
Reached == Later(StepsOf["kali"].reached, Since)
Seen == {e.at : e \in {x \in sensed : x.marker = <<Lesson, "kali">> /\ x.at + Slack > Reached}}
RunIsOver == "kali" \in Steps /\ StepsOf["kali"].isReached /\ Seen # {} /\ now \notin Seen
Run == [marker |-> <<Lesson, "kali">>,
        first |-> CHOOSE n \in Seen : \A m \in Seen : n <= m,
        last |-> CHOOSE n \in Seen : \A m \in Seen : m <= n]

WafChanged == Lesson \in Gaps /\ ~letsThrough

SentReplayed(after) == \E r \in OwnSiteRequests("probe", after) : r.caught
BenignReplayed(after) == \E r \in OwnSiteRequests("normal", after) : ~r.caught
Replayed == LET fixed == StepsOf["waf_changed"] IN
    fixed.isPassed /\ SentReplayed(fixed.passed) /\ BenignReplayed(fixed.passed)

LootMatched(given) == KaliCase # {} /\ (given \/ <<Lesson, "kali">> \in looted)

\* `given` is whether the learner's answer or table is a right one.
StepJudged(s, given) ==
    CASE s = "sent" -> OwnSiteRequests("probe", 0) # {}
      [] s = "answer" -> Accepted(given)
      [] s = "kali" -> KaliCase # {}
      [] s = "loot" -> LootMatched(given)
      [] s = "waf_changed" -> WafChanged
      [] s = "replay" -> Replayed

-----------------------------------------------------------------------------
(* A check: judged, recorded, kept. *)

Checks(p, s, given) ==
    /\ checks[p].phase = "idle" /\ StepJudged(s, given)
    /\ checks' = [checks EXCEPT ![p] = [phase |-> "judged", step |-> s, passed |-> TRUE]]
    /\ looted' = looted \cup (IF s = "loot" /\ given THEN {c.marker : c \in KaliCase} ELSE {})
    /\ UNCHANGED <<now, taken, kept, asked, sensed, label, labelling, cases, letsThrough,
                   move, seeded, clicks>>

FindsRun(p) ==
    /\ checks[p].phase = "idle" /\ KaliCase = {} /\ RunIsOver
    /\ checks' = [checks EXCEPT ![p] = [phase |-> "recording", step |-> "kali", run |-> Run]]
    /\ UNCHANGED <<now, taken, kept, asked, sensed, label, labelling, cases, looted, letsThrough,
                   move, seeded, clicks>>

\* A poll that fails changes nothing; what the learner asked for and failed counts.
ChecksWrongly(p, s, given) ==
    /\ checks[p].phase = "idle" /\ ~StepJudged(s, given) /\ ~(s = "kali" /\ RunIsOver)
    /\ Clicks
    /\ checks' = [checks EXCEPT ![p] = [phase |-> "judged", step |-> s, passed |-> FALSE]]
    /\ UNCHANGED <<now, taken, kept, asked, sensed, label, labelling, cases, looted, letsThrough,
                   move, seeded>>

\* (session, case_id) is unique: the second of two checks that found the same
\* run over fails with it, and nothing is kept of that check.
RecordsRun(p) ==
    LET run == checks[p].run
        there == \E c \in cases : c.marker = run.marker
    IN
    /\ checks[p].phase = "recording"
    /\ cases' = IF there THEN cases ELSE cases \cup {run}
    /\ checks' = [checks EXCEPT ![p] =
          IF there THEN NoCheck ELSE [phase |-> "judged", step |-> "kali", passed |-> TRUE]]
    /\ UNCHANGED <<now, taken, kept, asked, sensed, label, labelling, looted, letsThrough,
                   move, seeded, clicks>>

Passed(step) == IF step.isPassed THEN step ELSE [step EXCEPT !.isPassed = TRUE, !.passed = now]
\* (Mutant: the count of wrong checks is not reset.)
FailedOnAndOn(step) ==
    IF step.wrong + 1 < WrongsPerHint THEN [step EXCEPT !.wrong = @ + 1]
    ELSE Hinted([step EXCEPT !.wrong = @ + 1])

Failed(step) == IF step.wrong + 1 < WrongsPerHint THEN [step EXCEPT !.wrong = @ + 1]
                ELSE Hinted([step EXCEPT !.wrong = 0])

KeepsVerdict(p) ==
    LET check == checks[p] IN
    /\ check.phase = "judged"
    /\ \/ check.passed /\ Progressed(check.step, Passed(StepsOf[check.step]))
       \/ ~check.passed /\ Progressed(check.step, Failed(StepsOf[check.step]))
    /\ checks' = [checks EXCEPT ![p] = NoCheck]
    /\ UNCHANGED <<now, taken, asked, sensed, label, labelling, cases, looted, letsThrough,
                   move, seeded, clicks>>

-----------------------------------------------------------------------------
(* A move to another lesson: in the slot's turn the WAF is tuned and the    *)
(* session saved; then the label is cleared and the lesson's cases fired.   *)

Moves(l) ==
    /\ move.phase = "idle" /\ Len(taken) <= MaxMoves
    /\ l # Lesson \/ l \notin seeded
    /\ move' = [phase |-> IF l = Lesson THEN "moved" ELSE "applied", to |-> l]
    /\ letsThrough' = IF (l \in Gaps) = (Lesson \in Gaps) THEN letsThrough ELSE l \in Gaps
    /\ UNCHANGED <<now, taken, kept, asked, sensed, label, labelling, cases, looted,
                   checks, seeded, clicks>>

MoveSaves ==
    /\ move.phase = "applied"
    /\ Overlap \/ \A p \in Panes : checks[p].phase = "idle"
    /\ taken' = Append(taken, [lesson |-> move.to, at |-> now])
    /\ move' = [move EXCEPT !.phase = "moved"]
    /\ UNCHANGED <<now, kept, asked, sensed, label, labelling, cases, looted, letsThrough,
                   checks, seeded, clicks>>

MoveUnlabels ==
    /\ move.phase = "moved"
    /\ move' = [move EXCEPT !.phase = "unlabelled"]
    /\ label' \in {label, NoLabel}
    /\ UNCHANGED <<now, taken, kept, asked, sensed, labelling, cases, looted, letsThrough,
                   checks, seeded, clicks>>

\* ToolUnavailable ends it before the case is recorded.
MoveSeeds ==
    /\ move.phase = "unlabelled" /\ move' = NoMove
    /\ seeded' \in {seeded, seeded \cup {move.to}}
    /\ UNCHANGED <<now, taken, kept, asked, sensed, label, labelling, cases, looted,
                   letsThrough, checks, clicks>>

LessonNext ==
    \/ \E what \in {"probe", "normal"} : Asks(what)
    \/ Runs \/ TightensWaf \/ Labels
    \/ \E s \in Steps : ReachesStep(s) \/ Skips(s) \/ AsksForHint(s)
    \/ \E p \in Panes, s \in Steps, given \in BOOLEAN : Checks(p, s, given) \/ ChecksWrongly(p, s, given)
    \/ \E p \in Panes : FindsRun(p) \/ RecordsRun(p) \/ KeepsVerdict(p)
    \/ \E l \in Lessons : Moves(l)
    \/ MoveSaves \/ MoveUnlabels \/ MoveSeeds

LessonSpec == LessonInit /\ [][LessonNext]_lessonVars

-----------------------------------------------------------------------------
Takings(l) == {k \in DOMAIN taken : taken[k].lesson = l}
Start(k) == IF k = 1 THEN 0 ELSE taken[k].at
During(k, time) == Start(k) <= time /\ (k < Len(taken) => time <= taken[k + 1].at)

\* What the learner did while lesson l ran, before its step s was passed.
Earned(l, s) ==
    LET passed == kept[l][s].passed
        Asked(what, from) == {r \in asked : r.what = what /\ from < r.at /\ r.at <= passed}
        Over == {c \in cases : c.marker = <<l, "kali">> /\ c.last < now}
    IN
    CASE s \in {"sent", "answer"} -> \E k \in Takings(l) : During(k, passed) /\ Asked("probe", Start(k)) # {}
      [] s = "kali" -> \E c \in Over, k \in Takings(l) : c.first + Slack > Start(k) /\ c.last <= passed
      [] s = "loot" -> Over # {} /\ <<l, "kali">> \in looted
      [] s = "waf_changed" -> l \in Gaps
      [] s = "replay" -> LET fixed == kept[l]["waf_changed"] IN
             /\ fixed.isPassed
             /\ \E r \in Asked("probe", fixed.passed) : r.caught
             /\ Asked("normal", fixed.passed) # {}

\* A step is passed in a lesson only by what the learner did after that lesson
\* started: a request of the Website pane, one finished run under the step's own
\* marker, or the attack and the harmless request sent after the fix.  Another
\* lesson's step of the same id does not pass it.
StepsAreEarned == \A l \in Lessons, s \in Steps : kept[l][s].isPassed => Earned(l, s)
=============================================================================
