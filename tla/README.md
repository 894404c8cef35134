# TLA+ models of the FSL platform

The FSL platform (`src/platform`) runs a security exercise range. A Django
application opens *sessions* on *slots* of a virtual range, fires attacks at the
range's targets, lets a learner change detection rules and the WAF, reads logs
back, scores what was detected, and resets the slot for the next session. This
directory models its concurrent and stateful parts in TLA+, model-checks them
with TLC on small instances, and proves the most important results with TLAPS
for every value of the constants.

- [1 Inventory](#1-inventory)
- [2 Plan](#2-plan)
- [3 Slot lifecycle](#3-slot-lifecycle)
- [4 Suppressions](#4-suppressions)
- [5 Scenario engine](#5-scenario-engine)
- [6 Customer traffic](#6-customer-traffic)
- [7 What a session keeps](#7-what-a-session-keeps)
- [8 What the platform does to the cloud](#8-what-the-platform-does-to-the-cloud)
- [9 What the runs show](#9-what-the-runs-show)
- [10 What is proved](#10-what-is-proved)
- [11 What is not modelled](#11-what-is-not-modelled)
- [12 Running it](#12-running-it)

## 1 Inventory

One process (`entrypoint.sh`: waitress, 16 threads, one SQLite store) serves the
API. Everything below runs in it, except the range itself. State is in three
places: rows of the store, dictionaries and locks of the process (gone at a
restart), and the range (VM disks, files on them, Nova's view of a VM).

| Component | State it keeps | Operations | What makes it correct |
|---|---|---|---|
| Sessions and slots: `api/views.py` 201-330, 1680-1760, 2480-2560; `api/reset.py` | `Session.slot/ready_at/ended_at`; `reset._states`; `SLOT_CHOICE`; the slot's rule lock ("turn"); the VMs and what their disks hold | open, close, reset worker, `configure/`, `slot/rebuild/`, restart | a slot serves one session; a running reset has one owner and ends; a session finds nothing of the one before |
| Rules and suppressions: `api/views.py` 2160-2360, `suppress.py`, `rules/suricata.py` | the rule file of every sensor; `Suppression` rows; an editor's copy | silence, lift, sweep, edit, posture, close, reset | sensors hold one file; each silenced rule has a record that brings it back; a lift takes only its own copy |
| Scenario engine: `api/scenario_run.py`, `scenarios.py` | `Session.scenario_state` (schedule, windows); the engine thread; a pool of four | begin, tick, claim, fire, verify-window, judge, close, resume | an attack is fired once at a time; each window is judged, once, when its attacks are settled; "passed" means what it says |
| Customer traffic: `api/customers.py`, `deploy/traffic/users.py` | `Session.traffic` (running, offset); the program, its plan and its records on the box | start, stop, pull, refresh, close | every recorded request is counted once; stopped customers have been read to the end |
| Learner of a scenario: `api/scenario_run.py`, `scenarios.py` | `scenario_state` (triage, hints, last change), `Session.hints` | judge an alert, apply the WAF, open a hint, observe, offer help | help is offered while there is some; a right verdict stays right |
| WAF tuning: `api/views.py` 1480-1560, `rules/crs.py` | the tuning file on the WAF, nginx's workers, the session's copy and snapshots | PUT with reload and roll-back, snapshot | what a PUT answers is what nginx serves |
| Lesson steps: `lesson.py`, `api/views.py` 360-1000 | `Session.lesson_steps`, `Session.lessons`, the stamp proxy's label, `Case` rows of runs in Kali | reach, check, hint, skip, run, move to another lesson | a step is passed by what was done in its own lesson |
| Site browser: `api/site.py` | records, egress, cookies, policy, favicons per session, in the process | proxy, list cached parts, fetch the favicon, poll, forget | the panel shows every request once; what is kept is kept per session |
| Ingest and result: `ingest/elastic.py`, `scoring/correlate.py`, `api/views.py` | `Detection`, `Case` rows, `Session.result_cache` | fetch, mark, insert, judge, cache | the result that is kept is that of the rows there are |
| Ground truth: `api/effect.py`, `api/loot.py`, `scoreboard.py` | `Objective` rows | observe a log, hand in loot, attribute | an objective counts for the attack that reached it |
| Slots and fabric of the cloud: `range/slot.py`, `range/fabric.py`, `range/openstack.py` | Neutron's networks, ports and groups, Nova's servers | POST and DELETE of the fabric and of a slot, open a collector | repeated POSTs bring the range up; a server keeps its ports and is heard |
| Images: `range/images.py`, `range/openstack.py` | builders, Glance records | POST takes one step, DELETE removes what failed | an image that boots a host is whole; the builds end |
| Edge reset: `range/opnsense.py`, `range/openstack.py` | the box's files, what it runs, the settled record | reset in place, install, reboot, record | a reset that is done leaves what was asked for |
| Reading of the range: `range/openstack.py` | catalogue, token, shape, known hosts | connect, describe, rediscover, run | a request reaches its own slot's hosts, and follows what changed before it |
| Cloud settings: `range/cloud.py` | `cloud.yaml`, the stack's parameters | check, pass on, parse | what the file says is what is built |
| Retention: `api/retention.py` | old sessions' rows | prune | only closed sessions lose data |
| Topology, maps, reachability, wargame catalogue | none (declarations) | read, draw, validate | - |
| Console, Kibana and GNS3 links | none | pages and links | - |

How they interact:

- A *request* (`views.py`) checks `_refuse_closed`, may take the slot's turn, acts
  on the range, and writes rows. The check is not repeated under the turn.
- A *close* claims the reset, ends the row, calls `scenario_run.end`, stops the
  customers, snapshots the WAF, marks suppressions lifted, asks Nova for the
  rebuild and hands the claim to a *reset worker* thread.
- An *open* reads holders, Nova, reset states and rule files, all under
  `SLOT_CHOICE`, creates its row, and goes on without the lock.
- The *scenario engine* is one more thread; it fires attacks on a pool through
  the same code as a learner's request, and shares `scenario_state` with
  requests and the close under the lock `STATE`.
- At a restart only rows and the range are left; `scenario_run.resume` is the only
  recovery that runs.

Hard behaviours, then: request threads, workers, the engine and its pool
interleave; locks are given back before long remote work; a check is stale when
its act happens; each remote step may fail half way; Nova lags behind what it
accepted; a restart forgets the reset states. `PROJECT.json` lists them line by
line under `hazards`, each with the properties that would catch it or the reason
none does yet.

## 2 Plan

| # | Module | Composes with | Abstract specification | State |
|---|---|---|---|---|
| 1 | `SlotLifecycle` | opens, closes, workers, Nova, writes, operator | `SlotService`: what a slot promises | checked and proved |
| 2 | `Suppressions` | requests, sweeps, editor, sessions of one slot | - | checked and proved |
| 3 | `ScenarioEngine` | engine, pool, requests, close, restart | `VerificationService`: what a learner is promised of attacks and windows | checked and proved |
| 4 | `CustomerTraffic` | requests, close, engine's refresh, the program on the box | - | checked and proved |
| 5 | `SiteBrowser`, `WafApply`, `ScenarioLearner`, `LessonSteps`, `Objectives`, `Evidence` | each with the threads of one session; together in `MCSession` | - | checked and proved |
| 6 | `ImagePipeline`, `CloudRange`, `EdgeReset`, `CloudReading`, `CloudSettings` | each with the cloud; together in `MCRange` | - | checked and proved |

The order follows what the platform loses when a part is wrong: first the slot,
which every session stands on; then what a session changes on it and must give
back; then what judges the learner; then what feeds the judgement; then what the
range stands on.

Every safety invariant, action property and refinement of a passing run has a
theorem, which says under which of the things that may go wrong it holds
(section 10). What is left is liveness, and a composition of the session's modules
with the slot's.

How modules are built: what may go wrong is a constant set (`Mishaps`, `Ways`),
so that one specification serves the run in which everything happens, the run
that asks what holds in orderly use, and the run that isolates one defect. A
proof about the specification holds for each value of that set unless it says
otherwise. Mutants stand before the action they mutate, with a comment that
starts with "Mutant"; they are not part of the specification.

## 3 Slot lifecycle

Modules: `SlotLifecycle` (the code), `SlotService` (what it promises),
`MCSlotLifecycle` (symmetry for TLC), `SlotLifecycleProofs`.

| State | Code |
|---|---|
| `choice` | `views.SLOT_CHOICE` |
| `turn` | the slot's rule lock, held by a worker over its whole reset |
| `reset` | `reset._states`: IDLE, RESETTING, RESET_FAILED |
| `status`, `place` | the session's row: `ended_at`, `ready_at`, `slot` |
| `pc`, `sess`, `offered`, `claimed`, `part` | a request thread and its locals |
| `worker`, `todo`, `seen`, `broken` | a reset worker: the in-place side, the VM side, what it still has to do |
| `vm`, `scope`, `conf` | Nova's view of the VMs, which hosts a rebuild covers, which hosts are configured |
| `leftover` | whose data each part (WAF tuning, rules, target) of the slot holds |

Actions: `OpenBegins`, `OpenChecks`, `OpenRefused`, `OpenCreates`, `OpenPrepares`,
`OpenReadies`, `OpenEnds`, `OpenFails` are one POST; `CloseBegins`, `CloseMarks`,
`CloseAsks`, `CloseHandsOver`, `CloseBreaks` one close; `Worker...`, `InPlaceFails` and
`RebuildFails` one reset; `WriteBegins`, `WriteLands`, `WriteFails` any later write;
`NovaBegins` and `NovaEnds` the lag between an accepted rebuild and what Nova
shows; `OperatorRebuilds`, `OperatorConfigures` and `Restart` the rest. The code
between two actions touches nothing the module has as state, or runs under a lock
every other toucher takes.

Taken together: the readiness checks of one slot are one step (they read one
slot; a worker's report between two of them only makes the slot less ready, or
ready as it is read). The writes a posture makes are one step. Data is whose it
is, not what it is.

`SlotService` is the abstract specification: a slot is free, resetting or failed;
a session takes a free slot nobody uses, gives it back into its reset, or drops it.
The refinement mapping is in `SlotLifecycle` (`Service`): the uses are the open rows,
the state is `reset`.

## 4 Suppressions

Modules: `Suppressions`, `MCSuppressions`, `SuppressionsProofs`. One rule (one
`sid`), several sensors, any number of records, sessions in turn.

| State | Code |
|---|---|
| `files` | the rule file of each sensor: the active wording and the commented copies |
| `torn` | no code: a change or a seeding broke off and no file reached all sensors since |
| `state`, `session`, `original`, `due`, `fresh` | the `Suppression` rows: absent, kept, restored; whose; the text; expired; created after the last `closed_at` |
| `open`, `ended`, `phase` | the sessions of the slot and how far a close got |
| `pc`, `list`, `about`, `copy` | a request: what its sweep still visits, what it names, the editor's copy and its base |

The sensors take a file one after the other. What runs in the slot's turn is one
action with its possible outcomes: every sensor took the file (`Takes`), one
refused it and those before it were given the old one (`Refused`), or the change
broke off (`Torn`): a sensor stopped answering, or one that is given the old file
back does not load it, which ends the undoing there. A seeding undoes nothing:
`suricata.seed` leaves the file that was not loaded where it is, and the sensors
after it as they were (`SeedingBreaks`; `SomeSeeded` for a reset or a
configuration, whose sensors are seeded by steps of their own). A lesson's
posture that breaks off leaves the session open on its old lesson, or ends it at
its opening; a reset that does is RESET_FAILED. One action each is exact, since
nothing that writes rule files runs beside it, except the seeding of a posture,
which is one action here and interleaved in `SlotLifecycle`. A request to silence names
the session its learner has open.

`suppress.py` finds a commented copy by its text, so `Copies(r)` is every copy of the
text; which is "first" in the file is a choice.

## 5 Scenario engine

Modules: `ScenarioEngine` (the code), `VerificationService` (what it promises),
`MCScenarioEngine`, `ScenarioEngineProofs`. One scenario session. What its learner
does beside the windows is in `ScenarioLearner` (section 7).

| State | Code |
|---|---|
| `now` | the clock, in units in which attacks and windows are declared |
| `closing` | how far `close_session` got: row ended, `scenario_run.end` done, or cut short by a restart |
| `schedule`, `windows` | `scenario_state["schedule"]`, `["windows"]` |
| `asking` | a `verify-window/` request between `_refuse_closed` and `start_window` |
| `engine`, `tickAt`, `todo`, `verdict` | the engine thread, its `now`, the entries `due_now` listed, what `judge_window` worked out |
| `queue`, `running` | what `FIRING` was given, what its threads fire |
| `resume`, `restarts` | how far `resume()` got; a bound |

Every `_update` is one transaction under `STATE` and one action. What the engine
read before it (the list of open sessions, the due entries, its clock) is state of
its own, since requests, the pool and the close run in between. `TickJudges` merges
the two reads of the state that `_advance` and `judge_window` make: what is settled
stays settled while the window waits. Which cases of a window come first is a
choice. `Judged` allows either verdict when every attack that counts fired and none
leaked, since a completion may ask for more (served customers, verdicts,
thresholds); it allows only a failure otherwise.

A `verify-window/` request that saw the session open may open its window after the
close (`VerifyBegins`, `CloseMarks`, `VerifyStarts`). Its attacks are then due in a closed
session, where nobody fires or judges them; no property speaks of it, and the
hazard at `scenario_run.py:490` says so.

`VerificationService` is the abstract specification. Its state is the time, whether
the session is over, the attacks and the windows: no tick, claim, pool or restart.
An attack is pending until it is fired, fails or is cancelled, once, and only a
session that is over cancels; a window opens when the last one has its result and
has ended, with one attack, and no more, of each case it lacks; it is judged once,
after its end, when no attack inside it is pending, and passes only if they held.
The refinement mapping is in `ScenarioEngine` (`Verification`): an entry that is due
or firing shows as pending (`Seen`), and the session is over once `closing` is past
"open". Claims, the steps of a tick before it writes, the hand-over to the pool and
the resume after a restart are thus not seen. The window that opens late in a
closed session is a step of the service too: it does not promise that a close
ends everything.

`EarlyRequests` allows requests between the start of the process and the end of
`resume()`. The runs leave it out; see the hazard at `scenario_run.py:96`.

## 6 Customer traffic

Modules: `CustomerTraffic`, `MCCustomerTraffic`, `CustomerTrafficProofs`. One session.

| State | Code |
|---|---|
| `column` | `Session.traffic`: `running`, `offset` |
| `open`, `rows` | `ended_at` unset; the `CustomerRequest` rows, each named by its line |
| `pulling` | the lock `customers.PULLING` |
| `task`, `pc`, `mine`, `got` | a request (PUT, GET, DELETE, the engine's refresh, the close), its copy of the column, what its last chunk held |
| `program`, `file`, `half` | `users.py`, the whole lines of `records.jsonl`, a piece of a line behind them |

The byte offset is counted in lines: `traffic.records` moves it by whole lines only.
A piece of a line is what a reader meets while a line is written, or what a
killed program left; the next start ends it, and the line it becomes is garbled.
`_keep` writes back the whole column from the thread's copy, which `pull` reads anew
under `PULLING` and nobody else does: that copy (`mine`) is the point of the model.
Between two actions of a request lies a call to the box. `StopWaits` is the rest of
the shell command that `StopAsks` begins: the program goes on writing in between.

`Ways` says what may happen beside the requests: they overlap, the box is
unreachable (before or after it did what it was asked), the program dies, the
process restarts.

## 7 What a session keeps

Six modules, each of one session, with variables and constants of its own.
`MCSession` extends them all and puts them into one run: the variable `part` says
which of them a behaviour is about, and the variables of the others stay as they
begin. A state of the run is thus a state of one module; the modules share no
state, so nothing is lost by it. (`LessonSteps` and `Evidence` have two parts each: a
course of two lessons and the clicks of one page; one ingest with a replay, and two
ingests that overlap on one case.)

`SiteBrowser`: `tabs` are requests on threads of their own, from `Proxy` over
`FindsEgress` and `Answered` to `Relayed` (the `finally` that keeps the record);
`timers` the threads that list cached parts and fetch the favicon; a cached part
takes its number (`ListCached`) and is kept (`KeepsCached`) in two steps.
`records`, `egress`, `jar`, `policy`, `favicons` are the dictionaries of `site.py`,
`numbers` its counter, `panel` what the console has listed. `Forget` and
`SiteRestart` empty the dictionaries. `PanelFollowsTheSite`: the panel misses a
record only if a slower request with a lower number ended after a higher one was
listed, or the counter started again (`PanelMissesOvertaken`); the favicon is fetched
once (`FaviconOnce`). A record, a
cookie or an egress that comes after `Forget` is in the model and stays.

`WafApply`: `put` is the PUT that holds the slot's turn, phase by phase as
`crs.apply` runs; `wafFile`, `serving`, `signalled`, `worker` are the gateway. nginx
reads the file when it takes the signal, so a terminal may change it in between.
`SnapshotReads` and `SnapshotWrites` are `_snapshot_waf`, which takes no turn. A file
that cannot be opened (`PutCannotWrite`) stays as it is and gets an answer of its own,
and a PUT whose roll-back fails so leaves its tuning written: no property speaks of it.
`AnswerTellsWhatServes` is an action property: it speaks of the step that answers.

`ScenarioLearner`: `posting` is what a request judged and has not written
(`Judges`, `Keeps`), or the tuning it wrote and has not noticed (`WafWrites` in the
slot's turn, `WafApplied` after it), before it asks for help (`AsksForHelp`). A lesson's
check that fails asks for help at once (`ChecksFail`). `watching` is the `last_change`
the engine read before it offers help for idleness. `Records` credits an attack
whoever does it in the code: the engine, a hand-in, or the objectives of its time.
`credited` comes after `attacked`: a verdict given
in between is judged by what is credited so far. `VerdictsStayTrue` leaves out
exactly those verdicts.

`LessonSteps`: `now` numbers what leaves a record; a request, a run in Kali or a
pause each take one. `checks` holds what each page's check judged and has not
kept; `move` the steps of `session_lesson`. `Overlap` says whether the session may
move while a check judges: `FALSE` in the passing run, `TRUE` in `lesson_moved`,
where the verdict lands in the next lesson. A replay is one whose attack is sent
again, as in f4, after a change of the WAF; the replay of f6, a run in Kali that the
WAF blocks, and the rules step that f4 has before its replay are not modelled.

`Objectives`: time in ticks, `Second` of them to the second; the effect log knows
the second only, by the target's own clock, which is up to `Skew` fast or slow: the
range takes its time from the platform (`docs/DECISIONS.md`, "The platform VM is the
range's time source"), and the code allows it `CLOCK_SKEW`. The windows are the runs
widened by `Skew`, as in `_effect_window` and `_loot_window`, and `attribute` compares
them with the runs themselves.
`ObserveReads` and `ObserveWrites` are one `_observe_objectives`; `HandsIn` takes any
case the learner names, or none. `CreditStaysWithItsAttack` is stated for attacks
that no second holds both of once their runs are widened so: nearer than that, the
code may credit the other one (hazard at `effect.py:173`).

`Evidence`: each query of the database is a step. `Inputs` is what the result is
kept under. `indexed` tells an alert that was shipped without its request (no
marker yet) from one with it. Ids of rows grow in the order of insertion; which
order one ingest inserts in is a choice.

## 8 What the platform does to the cloud

Five modules, in one run the same way (`MCRange`).

`ImagePipeline`: `builder`, `said`, `record` are what Nova, the console and Glance
show; `FromBuilder` and `StateOf` the planner; `todo` what a POST or DELETE that
read them still does, one call a step. What goes wrong is in `BuildMishaps`: a call,
a setup script, Nova, Glance, or new sources deployed in between. `whole` is a
ghost: whether the record's disk is that of a builder that finished its setup. A
builder that is SHUTOFF is "stopped" whoever stopped it; with `"poweroff"` a
half-built disk becomes ready, and the run leaves it out.

`CloudRange`: `networks`, `subnets`, `keypair`, `groups`, `ntp`, `reach` are the fabric;
`ports`, `servers`, `heard`, `configured` the slots. A request plans from what is
listed (`EnsureFabric`, `EnsureSlot`, `TeardownSlot`, `TeardownFabric`,
`OpenCollector`) and `Step` does one item after another. A call may be refused or its
answer lost, which ends the request. A DELETE of the fabric that runs while a
slot's request does (`"race"`) takes ports from under a server; the run has operators
do one thing at a time. Groups are made and removed in the order of the plan
(`GroupOrder`), and a group is made by one call and gets its rule by another: where the
second is lost it stays "bare", and no later POST makes the rule (`Fenced` for
`fsl-mgmt`). No ssh reaches a host then, and configuring a slot fails (`Opened`, through
`SshReaches`) however often it is asked for. `CloudWorkEnds` says that the repeated
POSTs bring the range up or end up there; that they do not end up there is not
promised by the code, and not true.

`EdgeReset`: a configuration is a number, the box's file a pair of it and whether
OPNsense rewrote it at a boot, `settled` the record the reset compares with.
`Unanswered` is a lost answer: the command was carried out or not, and
`once_it_answers` repeats the whole of it. `verify` sees little: another
configuration may look the same to it, so the digest is what decides, and on the
right one the sensor or the rule may not have come up (`HoldsNot`), which has the
edge installed anew, or fails it after an install. `InPlaceFails` is the script that
breaks off or whose sensor does not answer.

`CloudReading`: `connected` is the catalogue the process holds, `held` the token of
its reader, `reads` where a request is. `Visible` and `Nodes` make the shape of a slot
from the servers of all slots on one management network, of which a request lists
the networks first and the servers after. Meanwhile another request may rebuild,
delete or make the server of a slot (`ServerChanges`), and the request itself rebuilds
its own (`Rebuilds`, which then reads anew). The networks stay as they are. `Runs` is
ssh with `accept-new` to the server of the slot: it is missed where it is gone or new
(`Misses`), and a key is refused if another one is known under the alias (`Refuses`).
`SlotsReadApart`: what is reached is the slot's own server, and is gone or missed
only if the cloud changed after the request began. Addresses are not modelled, so
neither is that Neutron gives one of a deleted server to another.

`CloudSettings`: a value is what the checks tell apart (good, absent, of a wrong
type, with a slash or a blank, an overlapping network, ...). Every pair of settings
is varied. It is followed through `heat_parameters` to `connect`. `SettingsArrive`
names its one exception, a blank in `opnsense.mirror`.

## 9 What the runs show

Passing runs. The next-state relations of `MCRange` and `MCSession` are conjunctions,
whose disjuncts TLC does not count one by one; that the actions a property is about
do fire in them was checked by stating of each that it does not. `GivesUp`, a failed
request whose range is whole, and a refused key are reached in `range`, for instance,
as are a `Fenced` range and an edge installed anew because `verify` found it lacking.

| Run | Instance | Properties |
|---|---|---|
| `slot_ownership` | 1 slot, 2 sessions, 2 threads, every mishap, fair closes, workers and Nova; 401 856 states | `TypeOK`, `OneOwnerPerReset`, `OpenSlotIsNotReset`, `EndingCloseHoldsTheReset`, `ConfiguresOnlyRebuiltVMs`, `ImplementsService`, `ResetEnds` |
| `slot_handover` | 2 slots, 2 sessions, 2 threads, `configure/` by hand; 262 243 states | `OneOpenSessionPerSlot`, `LeavesNothing` |
| `rules_suppressed` | 2 sensors, 2 records, 2 sessions, 2 threads, editor, postures, late requests, restarts; 2.4 million states | `TypeOK`, `SilencedRulesComeBack` |
| `rules_lifted` | 3 sensors, 3 records of one rule, sensors that vanish or do not load what they are seeded with, postures at the opening, restarts; 770 579 states | `SensorsAgree`, `LiftsOnlyItsOwn` |
| `scenario_engine` | 2 cases, a pool of 1, 2 windows asked for and 1 scheduled, 1 restart; 949 009 states | `TypeOK`, `FiredOnceAtATime`, `JudgedWindowsAreSettled`, `PassedHeldEveryCase`, `ImplementsVerification`, `WindowsAreJudged` |
| `customer_traffic` | 3 threads, 3 lines, chunks of 2, an unreachable box, deaths, restarts; 589 322 states | `TypeOK`, `CountedUpToTheOffset`, `OnlyRecordsAreCounted`, `StopReadsTheLast` |
| `range` | the five parts of section 8; 291 987 states | `RangeTypesOK`, `ReadyIsWhole`, `OpenedSlotsStayHeard`, `ServersKeepTheirPorts`, `DoneMeansWanted`, `SlotsReadApart`, `RequestsFollowTheCloud`, `SettingsArrive`, `CloudWorkEnds` |
| `session` | the six parts of section 7; 983 637 states | `SessionTypesOK`, `PanelFollowsTheSite`, `HelpFitsWhatIsLeft`, `VerdictsStayTrue`, `StepsAreEarned`, `CreditStaysWithItsAttack`, `CachedResultIsFresh`, `AnswerTellsWhatServes` |

Why the bounds are enough. Two sessions and two threads are what a race of two
requests on one slot needs, and the second session is the "next one" of
`LeavesNothing`; two slots let an open choose. Three records of one text are what a
lift needs to take a third party's copy. A pool of one makes attacks wait for a
thread past the end of their window, which four threads do only with five attacks.
Two windows asked for make the scheduled one first, second or absent. The clock
stops at `Horizon` unless a window is open, so that each window can end. Three
lines and chunks of two make a chunk that is full and one that is not; three
threads make a reading, a start or stop, and a close at once. Starts, stops and
closes of one session take turns in both customer runs (`"overlap"` is not in `Ways`),
readings do not.

In `range`, two images (one that is snapshotted, one that is uploaded), two digests
and room for one builder make a build wait for another and be left over by new
sources; two mishaps can hit one build twice. Two slots, one host on two segments
(one shared) and two mishaps are a rule, a port or an answer lost while the other
slot works. Three troubles and two tries let an edge reset fail, be repeated and
be overtaken by an edit, or a check of the box fail. Two requests, two slots and two
events are a catalogue that moves twice under one reading (`GivesUp`), and a key that
one request learned and the other, which read the shape before the rebuild, is
refused for. Requests are alike and so are slots, so `r1` begins first and for slot 1
(`BeginsFirst`).

In `session`, two tabs, three numbers, two records kept and a restart: a record
is pushed out, and a cached part is listed beside a request. (What the site answers
there sets its cookie and its pages name a policy, `SetsAndNames`; the other cases
differ in no property.) Two tunings, one of them broken, and what a terminal types.
One attack, one customer, two verdicts, one hint, in two parts: verdicts beside one
change of the WAF within a minute, where wrong verdicts and idleness call for help
(`JudgesInAMinute`), and two changes from two tabs over two minutes, one of them idle,
with nothing to judge and every call for help but wrong verdicts (`NothingToJudge`).
Two lessons with the same steps, two records and one move, or two clicks and no move.
Two attacks on one objective over four ticks (three with loot, which has no log), two
to the second, with clocks one tick apart at most; they are alike, so one starts first
(`StartsFirst`). Two cases of which one is a replay, or two ingests at once. The tabs
of the site browser are symmetric.

Deadlock is not checked: sessions, records and windows of an instance are used up,
after which the platform rests.

Fairness. `ResetEnds` assumes that a close goes on (the thread has no wait but the
turn, and a raise ends it), that a worker goes on (it waits for the turn, Nova and
ssh, each with a deadline after which `RebuildFails` ends it) and that Nova finishes
what it accepted. `WindowsAreJudged` assumes that the engine's thread goes on
(`_run` catches whatever a tick raises), that the pool starts what it holds, that
an attack ends (each tool has a timeout), that the clock goes on and that the
resume thread runs. Nothing is assumed of learners, operators or failures there.
`CloudWorkEnds` does assume an operator (or `bin/cloud`) who repeats the documented
POSTs while something is missing, and sends DELETE where an image failed: strong
fairness for the beginning of the two image requests, since one of them holds
`RULE_CHANGES` while the other waits, weak fairness for the rest. It assumes that
Nova and Glance end what they begin and that the box reboots when told to. The
number of mishaps is bounded: a cloud that fails for ever is not brought up.

Violation runs, each a disagreement between the code and what the repository says:

| Run | What TLC finds |
|---|---|
| `slot_manual_retry` | A reset fails before it cleared the targets; `configure/`, the documented manual retry, makes the slot READY and the next session finds planted data. |
| `slot_late_write` | A write passes `_refuse_closed`, waits for the turn while the worker holds it, and lands on the reset slot. |
| `customers_closed` | A reading takes its copy of the column while the customers are stopped (a GET that came before a DELETE); a PUT starts them; the reading writes `running = false` back; the close finds nothing to stop, and they go on sending. |
| `lesson_moved` | A check passes a step of one lesson, the session moves to the next, and the verdict is kept under the next lesson's step of that name. |

Three more that the models reach and no run shows: a second close of a session that
stalls until the reset of the first has failed gives the slot back as IDLE
(`views.py:1696`); a rule that is silenced, put back by the editor and silenced
again has its second copy lifted by the first record (`suppress.py:41`); a security
group whose rule was never made counts as clean (`openstack.py:809`).

`LeavesNothing` is thus true in orderly use (`slot_handover`, and proved) and false with any of
the other mishaps. `reset_fails` with `configure` and `late_writes` have their runs;
an open that fails, a close that breaks, an open that outlives its session and a
restart during a reset leave data too, and the code resets the slot only at a close
that got through.

## 10 What is proved

`SlotLifecycleProofs`, from `SlotAssumption` alone (slots and sessions are finite
sets, `None` is none of them), for any slots, sessions, threads and mishaps:

| Theorem | States |
|---|---|
| `TypeCorrect` | `Spec => []TypeOK` |
| `OwnershipCorrect` | `Spec => []Ownership`, the inductive invariant |
| `ResetHasOneOwner` | `Spec => []OneOwnerPerReset` |
| `OpenSessionsApart` | `Spec => []OneOpenSessionPerSlot` |
| `NoResetUnderASession` | `Spec => []OpenSlotIsNotReset` |
| `EndingCloseOwnsTheReset` | `Spec => []EndingCloseHoldsTheReset` |
| `RebuiltBeforeConfigured` | `Spec => ConfiguresOnlyRebuiltVMs` |
| `DataGoesWithItsSession` | `Spec => []DataGoes`, the inductive invariant of the next, if `Mishaps \subseteq {"configure"}` |
| `NothingIsLeft` | `Spec => []LeavesNothing`, if `Mishaps \subseteq {"configure"}` |
| `ServiceImplemented` | `Spec => ImplementsService` |

`OneOwnerPerReset` is not inductive: a close could win on a slot whose reset already
runs. It cannot, since the close wins only on an open session, and an open
session's slot is not being reset (`OpenSlotIsNotReset`); that holds because an open
takes a slot under `SLOT_CHOICE` that is idle and free, and stays so until the row
exists (`ChoiceStaysFree`), because every claim is made by a close of the slot's one
session (`OneOpenSessionPerSlot`) under the same lock, and because a lost close gives
back only what it took. `Ownership` is the conjunction of these parts; each action
family has a lemma that keeps it (`OpenKeepsOwnership`, `CloseKeepsOwnership`, ...).
`RebuiltBeforeConfigured` adds `TurnHeld`: the worker has the turn, so nobody asks Nova
for another rebuild under it, and it configures only after it saw a VM out of
ACTIVE. `ServiceImplemented` maps each action to a step of `SlotService` or a stutter.

`NothingIsLeft` needs to know why data goes, not that it does. `DataGoes` says that
whatever a part of a slot holds is of a session of that slot that is open, or whose
close is under way, or whose worker has that part still to clear (`DataIsOfItsSlot`);
the WAF's, which only a rebuild takes away, is that of a session whose rebuild runs
or is about to be asked for (`WafGoes`); and a rebuild that runs has a close or a
worker that waits for it (`RebuildIsOwned`). An opened session's slot is not being
reset, so none of these is left. The hypothesis lists what breaks it: each of the
other mishaps leaves data with nobody to clear it (section 9).

`SuppressionsProofs`, from `SuppressionAssumption`, for any sensors, records,
sessions, threads and texts:

| Theorem | States | Further assumption |
|---|---|---|
| `TypeCorrect` | `Spec => [](TypeOK /\ Named)` | none |
| `SensorsStayAlike` | `Spec => []SensorsAgree` | none |
| `NoRuleStaysSilenced` | `Spec => []SilencedRulesComeBack` | `Orderly`: editors name their version, changes end, no sensor vanishes |
| `LiftsKeepApart` | `Spec => LiftsOnlyItsOwn` | `Plain`: no editor, no posture while a rule is silenced, no late request, no sensor that stops answering in a change |

`NoRuleStaysSilenced` is a counting argument: per wording, each step takes a
commented copy out for every record it stops keeping, and adds at most as many
copies as records. The invariant adds only that a slot between two sessions has no
open one (`ClosingHasEnded`). Without `Orderly` it is false, as the hazard at
`views.py:2236` says.

`LiftsKeepApart` rests on what the sweep before a suppression does. The copies in an
open session's file are exactly those of its own kept records (`OwnCopies`), there is
one at most (`OneCopy`: a rule must be active to be silenced), and records of earlier
sessions, which had expired when the session opened, are all restored before one of
its own is kept: a request that sweeps has each of them still to visit. So whoever is
lifted finds his own copy or none. With the editor it is false (section 9).

`CustomerTrafficProofs`, from `TrafficAssumption`, for any threads, chunk and number
of lines:

| Theorem | States | Further assumption |
|---|---|---|
| `TypeCorrect` | `Spec => [](TypeOK /\ Offsets)` | none |
| `NothingIsLost` | `Spec => []CountedUpToTheOffset` | none |
| `OnlyRecords` | `Spec => []OnlyRecordsAreCounted` | none |
| `StopsReadTheLast` | `Spec => StopReadsTheLast` | starts, stops and closes take turns (`"overlap"` is not in `Ways`) |

`CountedUpToTheOffset` is not inductive: a thread may write back an offset it read
long ago. `Counted` therefore says the same of every offset a thread holds, and of
the one it is about to keep; `Offsets` that none points past the file, so that a
record appended later lies behind all of them. A stale copy can thus only move the
offset back, never over a record, and the rows' unique marker absorbs what is read
twice. `TakingTurns` adds for the last theorem that at most one thread starts, stops
or closes, so that nothing turns the program on between `StopWaits` and `StopKeeps`,
and that a reading which was not full has reached the end of the file.

`ScenarioEngineProofs`, from `ScenarioAssumption` and `~ EarlyRequests` (a request
waits for `resume()`; the hazard at `scenario_run.py:96` says what happens
otherwise), for any plan, pool, clock and number of windows and restarts:

| Theorem | States |
|---|---|
| `TypeCorrect` | `Spec => []TypeOK`, with no more attacks at once than `PoolSize` |
| `AttacksFireOnce` | `Spec => []FiredOnceAtATime` |
| `JudgementsAreFinal` | `Spec => []JudgedWindowsAreSettled` |
| `WindowsComeInTurn` | `Spec => []WindowsFollowOneAnother` |
| `PassingMeansHolding` | `Spec => []PassedHeldEveryCase` |
| `VerificationImplemented` | `Spec => ImplementsVerification` |

All follow from `EngineInvariant : Spec => []EngineInv`. An entry keeps its case and
its time and is settled for good (`ScheduleMoves`), since each claim, end and cancel
looks at the entry's own state under `STATE`, never at what the tick listed; and
nothing is in the pool before `resume()` has put interrupted entries back
(`NothingBeforeResume`). A window that opens begins where no window before it still
waits, and adds its attacks inside its own bounds (`WindowAttacksAreInside`: they are
spread by an integer division that stays below `Length`), so no judged window gains
one. While the session is open nothing is cancelled (`NoneCancelled`) and each window
holds an attack of each case (`EveryCaseInside`). The verdict that the tick carries is
tied to the entries it was worked out from (`TickTells`), which is still true when
`JudgeKeeps` writes it because settled entries do not move.

`VerificationImplemented` takes each action of the engine to a step of
`VerificationService` or to none, from `EngineInv`. A window that opens is the hard
case (`OpeningIsSeen`): the service asks for one attack of each case that the window
lacks, in some order and at times inside it, and what `window_attacks` adds is that
(`AddedInOrder`): `SetToSeq` names each missing case once (`EnumeratesTheSet`), there
are no more of them than declared attacks (`CasesAreFew`), and what is shown of the
longer schedule is what was shown with the new entries behind it (`ShownJoined`).
A tick that opens the scheduled window may carry a `tickAt` that lies behind `now`;
it does so only where no window was opened meanwhile. What the pool takes from its
queue in a closed session is a cancelled attack (`ThePoolIsSeen`), and the verdict is
a judgement because `TickTells` still holds when it is kept (`JudgingIsSeen`).
`WindowsFollowOneAnother` is a theorem and no longer a property of a run: the
service's `Opens` and `Judges` say more.

`HostProofs`, of `ImagePipeline` and `EdgeReset`:

| Theorem | States | Further assumption |
|---|---|---|
| `ImagesStayTyped`, `ReadyImagesAreWhole` | `ImageSpec => []ImageInv`, `[]ReadyIsWhole` | no builder is powered off (`"poweroff"` is not in `BuildMishaps`; see the hazard of that name) |
| `EdgeStaysTyped`, `ResetsToTheWanted` | `EdgeSpec => []EdgeInv`, `DoneMeansWanted` | none |

`ImageInv` follows a build: only a builder that said it is ready is stopped
(`StoppedWasReady`), only what is whole is being saved or active (`RecordedIsWhole`),
and a step of a POST that was planned for a built image still finds that its builder
had said so (`PlansHold`), however stale the plan is. `EdgeInv` says what the digests
are worth: a boot rewrites the file and runs it, so a file as a boot left it is what
runs (`FileTellsBoots`); only such a file is recorded (`SettledIsABoot`); so where
nothing drifted the box runs what was asked (`VerifiesTheSettled`), and after an
install only a boot later than `before` lets `record` run (`WaitsForTheBoot`).

`CloudProofs`, of `CloudRange`, `CloudReading` and `CloudSettings`:

| Theorem | States | Further assumption |
|---|---|---|
| `TheRangeStands` | `RangeSpec => []RangeInv`, the inductive invariant | the fabric is not taken down beside a slot's request (`"race"` is not in `FabricMishaps`) |
| `OpenedSlotsAreHeard`, `ServersStayPlugged` | `RangeSpec => []OpenedSlotsStayHeard`, `[]ServersKeepTheirPorts` | the same |
| `SlotsAreReadApart`, `RequestsKeepUp` | `ReadingSpec => []SlotsReadApart`, `[]RequestsFollowTheCloud` | none |
| `TheFileArrives` | `SettingsSpec => []SettingsArrive` | none |
| `CloudStaysTyped` | `Spec => [](CloudInv /\ RangeTypesOK)` of `MCRange` | no builder is powered off, and the fabric is not taken down beside a slot's request |

What makes `OpenedSlotsStayHeard` true is in the list of calls that a request has
planned and not made: a slot being opened hears each of its servers or has the rule
still to make (`OpeningHears`), and no rule that any slot's request is about to drop is
that of an opened slot's server (`DropsNothingOpened`). Requests of several slots run
at once, so the invariant is about the lists of all of them: what each is about
(`WorkSorted`), and that ports go only after their servers were told to
(`PortsGoLast`). A DELETE of the fabric finds no server up and none being made
(`TearsDownTheEmpty`); with `"race"` it does not stay so, and the theorem is false.
`ReadingInv` relates a request to the cloud by counting events: the servers it listed
are its own slot's, and are those that stand unless something changed after it began;
the alias it uses is not newer than the slot, and a key known under an alias is that of
the server the alias was made for or of a later one; if it failed or was refused,
something changed after it began. `SettingsInv` follows a document that was
accepted through the stack's parameters to what `connect` splits.

`CloudStaysTyped` is about the composition that the run checks: `CloudInv` is the
conjunction of the invariants of the five parts (two of them from `HostProofs`). A
step of `MCRange` is a step of one part or leaves it alone (`PartsStep`), whatever
`part` says, so each keeps its own. Its hypotheses are those of the invariants.

`LearnerProofs`, of `WafApply`, `SiteBrowser`, `ScenarioLearner` and `LessonSteps`:

| Theorem | States | Further assumption |
|---|---|---|
| `WafStaysTyped`, `TheAnswerTells` | `WafSpec => []WafInv`, `AnswerTellsWhatServes` | none |
| `SitePaneInvariant`, `ThePanelFollows` | `SiteSpec => []SiteInv`, `[]PanelFollowsTheSite` | none |
| `LearnerInvariant` | `LearnerSpec => [](HelpInv /\ VerdictInv)` | none |
| `HelpFits`, `VerdictsAreTrue` | `LearnerSpec => []HelpFitsWhatIsLeft`, `[]VerdictsStayTrue` | none |
| `LessonsStayTyped` | `LessonSpec => []LessonTypeOK` | none |
| `LessonInvariant`, `StepsEarned` | `LessonSpec => []LessonInv`, `[]StepsAreEarned` | the session does not move to another lesson while a check judges (`~Overlap`; `lesson_moved` shows what happens otherwise) |

`WafInv`: nginx serves only what it accepts (`ServesTheValid`), and where the terminal
did not write meanwhile the file is what the PUT's last step left there and nginx
serves it or has been signalled to (`PhaseTells`). `SiteInv`: of every number up to the
highest that was listed, that one or a later one was listed since the counter began,
or it is overtaken already (`ListedUpTo`). `HelpInv`: what an observation read before it
offers help is no older than what the last offer for idleness was made for
(`OffersInOrder`), so no change is offered for twice. `VerdictInv` says of the verdict
that a request carries what it says of the one that is kept: `credited` only grows,
and what is marked right and not early was judged by what does not change.
`LessonInv` dates everything by `now`: a run in Kali that has this lesson's marker
began no more than `Slack` before some taking of it (`CasesAreRuns`), and what a check
found it finds still when it is kept (`ChecksFound`), since records are only added
and time goes on. `LessonAssumption` asks that a lesson that looks for loot also has
the run in Kali, as `wargames.py` requires of a loot step, and that the step a replay
comes after (`wargames.py` requires one) is a change of the WAF, as in the course of
the board. It also asks that `WrongsPerHint` is not zero. The model did not ask so
until the proof of `LessonsStayTyped` failed: with zero, no number of wrong answers is
below the next hint, and the type invariant is false from the start. The code has 2
(`lesson.py:11`).

`CreditProofs`, of `Evidence` and `Objectives`:

| Theorem | States | Further assumption |
|---|---|---|
| `EvidenceInvariant`, `KeptResultsAreFresh` | `EvidenceSpec => []EvidenceInv`, `[]CachedResultIsFresh` | none |
| `CreditInvariant`, `CreditStays` | `ObjectivesSpec => []CreditInv`, `[]CreditStaysWithItsAttack` | none |
| `SessionStaysTyped` | `Spec => [](SessionInv /\ SessionTypesOK)` of `MCSession` | none |

Cases, objectives and markers are only added, and the counts are read first; a
subset with as many elements is the whole set (`SameCountSameSet`), so counts that
still stand mean that every later read saw what is there. `CreditInv` ties each window
of an objective, kept or held by an observation under way, to a change of the attack
whose run it bounds (`RowsStand`); attribution then finds the attack, or a second that
another attack ran in too, which the property leaves out.

Every hypothesis other than a named assumption of a module is a value of a constant
that the passing run has, so TLC checks the property under it too. None asks for
more than it must: with any one of the mishaps that `NothingIsLeft` excludes, TLC finds
`LeavesNothing` violated on the instance of `slot_handover`, and likewise for
`LiftsOnlyItsOwn` with `"edit"`, `"posture"`, `"late"` or `"unreachable"`, for
`ServersKeepTheirPorts` with `"race"` and for `ReadyIsWhole` with `"poweroff"`.

Model-checked only: liveness (`ResetEnds`, `WindowsAreJudged`, `CloudWorkEnds`),
which needs fairness and ENABLED. Every other property of a passing run is a
theorem. The MC modules extend the modules, so that the runs check the very
definitions the theorems are about; `CloudStaysTyped` and `SessionStaysTyped` are
about the specifications of the MC modules themselves.

## 11 What is not modelled

- Parsing, rendering and wording of rules, WAF files, XML, logs, dumps and pages;
  the API's validation of bodies, which only removes behaviours.
- Correlation by time and source, metrics, tiers and points of the game: pure
  functions of rows, which the modules do not tell apart further than by marker.
- Restoring a backup, `bin/platform-rebuild`, the other tools under `bin/`: one
  sequential process each.
- In `CustomerTraffic`: rate, profile, personas, flows and pace; what a customer sends
  and what it is answered; more than one session on a box.
- In `ScenarioEngine`: more than one session, an exception that a tick repeats for ever.
- In `CloudRange`: addresses, flavors, host names; two requests of the fabric at once
  (`RULE_CHANGES` keeps them apart).
- In `CloudReading`: paging, and an HTTP request that `http_reader` repeats by itself.
- Retention: one pass over rows of closed sessions that nothing else writes.
- Topology, maps, console, Kibana and GNS3 links, the wargame applications: no
  concurrency and no state of the platform's own.
- Composition of the session's modules with the slot's: a write that lands on
  another session's slot (`slot_late_write`) is not followed into `WafApply`.

## 12 Running it

```
tlc -workers 2 -config SlotOwnership.cfg MCSlotLifecycle.tla
tlc -workers 2 -config Session.cfg MCSession.tla
tlapm SlotLifecycleProofs.tla
```

`PROJECT.json` names the module and configuration of every run, the lines each
definition models (`map`), and for each property of a passing run a mutant of the
code's model that violates it (`mutants`).
