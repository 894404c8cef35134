---------------------------- MODULE SlotLifecycle ----------------------------
(***************************************************************************)
(* The life of a slot of the practice range: sessions open on it, write to *)
(* it, close, and a background worker resets it for the next one.          *)
(*                                                                         *)
(* Request threads (waitress runs sixteen of them on one process) execute  *)
(* the handlers of platform/api/views.py; every close that gets as far as  *)
(* asking for the rebuild starts one worker of platform/api/reset.py.      *)
(* SLOT_CHOICE is the lock `choice`, the per-slot rule lock is `turn`, and *)
(* the module dictionary _states of reset.py is `reset`.                   *)
(*                                                                         *)
(* Data is abstracted to whose it is: leftover[s][p] is the session whose  *)
(* edits part p of slot s holds, or None when the part is as the golden  *)
(* image or the in-place reset leaves it.  Host groups: the "shells" (Kali *)
(* and the WAF, rebuilt by Nova on every close) hold the WAF tuning; the   *)
(* "inplace" hosts (the edge and the wargame host) hold sensor rules and   *)
(* the targets' data.                                                      *)
(*                                                                         *)
(* Not here: provisioning and tearing a slot down, what a suppression      *)
(* record says, the scenario engine and the customers.                     *)
(***************************************************************************)
EXTENDS Naturals, FiniteSets

CONSTANTS
    Slots,      \* the slots the cloud settings ask for
    Sessions,   \* the sessions that may ever be opened
    Threads,    \* the request threads of the web server
    None,       \* no session, thread or slot
    Mishaps     \* which of the failures below a behaviour may contain

Failures ==
    {"open_fails",    \* an open raises after its row exists
     "close_breaks",  \* a close raises, or its rebuild is refused
     "reset_fails",   \* the worker drifts, or runs out of time
     "late_opens",    \* an open goes on although its session was closed
     "late_writes",   \* a write accepted before a close lands after it
     "configure",     \* configure/ is called by hand
     "rebuild",       \* slot/rebuild/ is called by hand
     "restart"}       \* the platform process restarts

ASSUME SlotAssumption ==
    /\ None \notin Sessions \cup Threads \cup Slots
    /\ IsFiniteSet(Slots) /\ IsFiniteSet(Sessions)
    /\ Mishaps \subseteq Failures

Parts == {"waf", "rules", "target"}
Groups == {"shells", "inplace"}
PartsOf(groups) ==
    {p \in Parts : IF p = "waf" THEN "shells" \in groups ELSE "inplace" \in groups}

VARIABLES
    choice,     \* the thread that holds SLOT_CHOICE
    turn,       \* the session whose worker holds the slot's turn
    reset,      \* reset._states
    status,     \* the session's row: absent, ready_at unset, set, ended_at set
    place,      \* Session.slot, once an open chose it
    pc,         \* where each thread is in its handler
    sess,       \* the session the thread's request is about
    offered,    \* the slots an open found free and ACTIVE as it began
    claimed,    \* whether a close holds the slot's reset
    part,       \* what a write request is about
    worker,     \* the reset worker the session's close started
    todo,       \* the steps it has left
    seen,       \* it saw the rebuilt VMs out of ACTIVE
    broken,     \* one of its sides raised
    vm,         \* what Nova does with the slot's VMs
    scope,      \* the host groups of the rebuild under way
    conf,       \* the host groups that hold their configuration
    leftover    \* whose data each part of the slot holds

books   == <<reset, status, place>>
threads == <<choice, pc, sess, offered, claimed, part>>
workers == <<turn, worker, todo, seen, broken>>
range   == <<vm, scope, conf, leftover>>
vars    == <<books, threads, workers, range>>

PCs == {"idle", "choosing", "chosen", "preparing", "prepared", "starting",
        "closing", "marked", "asked", "writing"}
Steps == {"clear", "start", "configure"}

TypeOK ==
    /\ choice \in Threads \cup {None}
    /\ turn \in [Slots -> Sessions \cup {None}]
    /\ reset \in [Slots -> {"idle", "running", "failed"}]
    /\ status \in [Sessions -> {"unborn", "opening", "ready", "closed"}]
    /\ place \in [Sessions -> Slots \cup {None}]
    /\ pc \in [Threads -> PCs]
    /\ sess \in [Threads -> Sessions \cup {None}]
    /\ offered \in [Threads -> SUBSET Slots]
    /\ claimed \in [Threads -> BOOLEAN]
    /\ part \in [Threads -> Parts]
    /\ worker \in [Sessions -> {"none", "begun", "holding", "finished"}]
    /\ todo \in [Sessions -> SUBSET Steps]
    /\ seen \in [Sessions -> BOOLEAN]
    /\ broken \in [Sessions -> BOOLEAN]
    /\ vm \in [Slots -> {"active", "asked", "rebuilding"}]
    /\ scope \in [Slots -> SUBSET Groups]
    /\ conf \in [Slots -> SUBSET Groups]
    /\ leftover \in [Slots -> [Parts -> Sessions \cup {None}]]

-----------------------------------------------------------------------------
(* What the handlers read. *)

\* Session.objects.filter(ended_at=None): a row counts as open from its creation on.
IsOpen(x) == status[x] \in {"opening", "ready"}
OpenSessions == {x \in Sessions : IsOpen(x)}
Held == {place[x] : x \in OpenSessions}

Where(t) == place[sess[t]]

\* An unconfigured or cleared wargame host answers no ground truth, and the
\* rule files are read back and compared with the baseline.
ChecksPass(s) == "inplace" \in conf[s] /\ leftover[s]["rules"] = None

\* Nova shows a VM ACTIVE for a while after it accepted to rebuild it.
ShowsActive(s) == vm[s] # "rebuilding"

Reachable(s, g) == vm[s] = "rebuilding" => g \notin scope[s]
HostOf(p) == IF p = "waf" THEN "shells" ELSE "inplace"

\* rebuild_slot and reset_slot, in the slot's turn: every VM is ACTIVE, and
\* Nova accepts to rebuild those of the groups.
AskNova(s, groups) ==
    /\ turn[s] = None /\ vm[s] = "active"
    /\ vm' = [vm EXCEPT ![s] = "asked"]
    /\ scope' = [scope EXCEPT ![s] = groups]

\* The handler answers: its locals go.
Return(t) ==
    /\ pc' = [pc EXCEPT ![t] = "idle"]
    /\ sess' = [sess EXCEPT ![t] = None]
    /\ offered' = [offered EXCEPT ![t] = {}]
    /\ claimed' = [claimed EXCEPT ![t] = FALSE]
    /\ part' = [part EXCEPT ![t] = "waf"]

Init ==
    /\ choice = None
    /\ turn = [s \in Slots |-> None]
    /\ reset = [s \in Slots |-> "idle"]
    /\ status = [x \in Sessions |-> "unborn"]
    /\ place = [x \in Sessions |-> None]
    /\ pc = [t \in Threads |-> "idle"]
    /\ sess = [t \in Threads |-> None]
    /\ offered = [t \in Threads |-> {}]
    /\ claimed = [t \in Threads |-> FALSE]
    /\ part = [t \in Threads |-> "waf"]
    /\ worker = [x \in Sessions |-> "none"]
    /\ todo = [x \in Sessions |-> {}]
    /\ seen = [x \in Sessions |-> FALSE]
    /\ broken = [x \in Sessions |-> FALSE]
    /\ vm = [s \in Slots |-> "active"]
    /\ scope = [s \in Slots |-> {}]
    /\ conf = [s \in Slots |-> Groups]
    /\ leftover = [s \in Slots |-> [p \in Parts |-> None]]

-----------------------------------------------------------------------------
(* POST /api/sessions/ *)

\* (Mutant: the holders are not read.)
OpenBeginsUnread(t, x) ==
    /\ pc[t] = "idle" /\ choice = None
    /\ status[x] = "unborn" /\ \A u \in Threads : sess[u] # x
    /\ Cardinality(OpenSessions) < Cardinality(Slots)
    /\ choice' = t
    /\ pc' = [pc EXCEPT ![t] = "choosing"]
    /\ sess' = [sess EXCEPT ![t] = x]
    /\ offered' = [offered EXCEPT ![t] = {s \in Slots : ShowsActive(s)}]
    /\ UNCHANGED <<books, claimed, part, workers, range>>

\* A free thread takes SLOT_CHOICE, finds room, and reads the holders and
\* Nova's view of every slot.
OpenBegins(t, x) ==
    /\ pc[t] = "idle" /\ choice = None
    /\ status[x] = "unborn" /\ \A u \in Threads : sess[u] # x
    /\ Cardinality(OpenSessions) < Cardinality(Slots)
    /\ choice' = t
    /\ pc' = [pc EXCEPT ![t] = "choosing"]
    /\ sess' = [sess EXCEPT ![t] = x]
    /\ offered' = [offered EXCEPT ![t] = {s \in Slots \ Held : ShowsActive(s)}]
    /\ UNCHANGED <<books, claimed, part, workers, range>>

\* (Mutant: readiness does not ask for the reset state.)
OpenChecksWithoutReset(t, s) ==
    /\ pc[t] = "choosing" /\ s \in offered[t]
    /\ ChecksPass(s)
    /\ place' = [place EXCEPT ![sess[t]] = s]
    /\ pc' = [pc EXCEPT ![t] = "chosen"]
    /\ UNCHANGED <<reset, status, choice, sess, offered, claimed, part, workers, range>>

\* A slot of the snapshot passes the readiness checks made on it now.
OpenChecks(t, s) ==
    /\ pc[t] = "choosing" /\ s \in offered[t]
    /\ reset[s] = "idle" /\ ChecksPass(s)
    /\ place' = [place EXCEPT ![sess[t]] = s]
    /\ pc' = [pc EXCEPT ![t] = "chosen"]
    /\ UNCHANGED <<reset, status, choice, sess, offered, claimed, part, workers, range>>

\* 409: no slot of the snapshot is ready.
OpenRefused(t) ==
    /\ pc[t] = "choosing"
    /\ \A s \in offered[t] : reset[s] # "idle" \/ ~ChecksPass(s)
    /\ choice' = None
    /\ Return(t)
    /\ UNCHANGED <<books, workers, range>>

\* The row is created and SLOT_CHOICE given back.
OpenCreates(t) ==
    /\ pc[t] = "chosen"
    /\ status' = [status EXCEPT ![sess[t]] = "opening"]
    /\ choice' = None
    /\ pc' = [pc EXCEPT ![t] = "preparing"]
    /\ UNCHANGED <<reset, place, sess, offered, claimed, part, workers, range>>

\* _take_defense: the posture's WAF tuning, and its rule file when that is not
\* the baseline one, written without the slot's turn.
OpenPrepares(t) ==
    /\ pc[t] = "preparing"
    /\ Reachable(Where(t), "shells") /\ Reachable(Where(t), "inplace")
    /\ "late_opens" \in Mishaps \/ IsOpen(sess[t])
    /\ \E posture \in {{}, {"waf"}, {"waf", "rules"}} :
           leftover' = [leftover EXCEPT ![Where(t)] =
                           [p \in Parts |-> IF p \in posture THEN sess[t] ELSE @[p]]]
    /\ pc' = [pc EXCEPT ![t] = "prepared"]
    /\ UNCHANGED <<books, choice, sess, offered, claimed, part, workers, vm, scope, conf>>

\* The opening's own traffic reaches the target or not.
MayPlant(t) ==
    /\ "late_opens" \in Mishaps \/ IsOpen(sess[t])
    /\ \E planted \in BOOLEAN :
           leftover' = [leftover EXCEPT ![Where(t)]["target"] =
                           IF planted THEN sess[t] ELSE @]

\* The attacks that seed a lesson's log are fired and ready_at is stamped; a
\* row that was closed meanwhile stays closed.
OpenReadies(t) ==
    /\ pc[t] = "prepared"
    /\ MayPlant(t)
    /\ status' = [status EXCEPT ![sess[t]] = IF @ = "opening" THEN "ready" ELSE @]
    /\ pc' = [pc EXCEPT ![t] = "starting"]
    /\ UNCHANGED <<reset, place, choice, sess, offered, claimed, part, workers, vm, scope, conf>>

\* scenario_run.begin starts the customers, and the open answers.
OpenEnds(t) ==
    /\ pc[t] = "starting"
    /\ MayPlant(t)
    /\ Return(t)
    /\ UNCHANGED <<books, choice, workers, vm, scope, conf>>

\* 503 or a raise after the row exists: ended_at is stamped, nothing is reset.
OpenFails(t) ==
    /\ pc[t] \in {"preparing", "prepared", "starting"}
    /\ "open_fails" \in Mishaps \/ ~IsOpen(sess[t])
    /\ status' = [status EXCEPT ![sess[t]] = "closed"]
    /\ Return(t)
    /\ UNCHANGED <<reset, place, choice, workers, range>>

-----------------------------------------------------------------------------
(* POST /api/sessions/<id>/close/ *)

\* _refuse_closed lets the request through.
CloseBegins(t, x) ==
    /\ pc[t] = "idle" /\ IsOpen(x)
    /\ pc' = [pc EXCEPT ![t] = "closing"]
    /\ sess' = [sess EXCEPT ![t] = x]
    /\ UNCHANGED <<books, choice, offered, claimed, part, workers, range>>

\* (Mutant: the losing close releases whether it claimed or not.)
CloseMarksAndReleases(t) ==
    /\ pc[t] = "closing" /\ choice = None
    /\ LET s == Where(t)
           won == IsOpen(sess[t])
       IN  /\ reset' = [reset EXCEPT ![s] = IF won THEN "running" ELSE "idle"]
           /\ status' = [status EXCEPT ![sess[t]] = "closed"]
           /\ claimed' = [claimed EXCEPT ![t] = won /\ reset[s] # "running"]
           /\ pc' = [pc EXCEPT ![t] = IF won THEN "marked" ELSE "idle"]
           /\ sess' = [sess EXCEPT ![t] = IF won THEN @ ELSE None]
    /\ UNCHANGED <<place, choice, offered, part, workers, range>>

\* Under SLOT_CHOICE: reset.claim, then the conditional update of ended_at.
\* The close that finds the row ended already gives back what it claimed.
CloseMarks(t) ==
    /\ pc[t] = "closing" /\ choice = None
    /\ LET s == Where(t)
           won == IsOpen(sess[t])
           claim == reset[s] # "running"
       IN  /\ reset' = [reset EXCEPT ![s] =
                           IF won THEN "running" ELSE IF claim THEN "idle" ELSE @]
           /\ status' = [status EXCEPT ![sess[t]] = "closed"]
           /\ claimed' = [claimed EXCEPT ![t] = won /\ claim]
           /\ pc' = [pc EXCEPT ![t] = IF won THEN "marked" ELSE "idle"]
           /\ sess' = [sess EXCEPT ![t] = IF won THEN @ ELSE None]
    /\ UNCHANGED <<place, choice, offered, part, workers, range>>

\* reset_slot: Nova is asked to rebuild the VMs that hand out a shell.  The
\* turn is given back before the worker asks for it.
CloseAsks(t) ==
    /\ pc[t] = "marked"
    /\ AskNova(Where(t), {"shells"})
    /\ pc' = [pc EXCEPT ![t] = "asked"]
    /\ UNCHANGED <<books, choice, sess, offered, claimed, part, workers, conf, leftover>>

\* (Mutant: no finally clause.)
CloseBreaksHolding(t) ==
    /\ pc[t] = "marked"
    /\ "close_breaks" \in Mishaps \/ vm[Where(t)] # "active"
    /\ Return(t)
    /\ UNCHANGED <<books, choice, workers, range>>

\* The end of the scenario, the snapshot of the WAF or the rebuild raises, the
\* rebuild perhaps with some VMs asked for: the finally clause releases the slot.
CloseBreaks(t) ==
    /\ pc[t] = "marked"
    /\ "close_breaks" \in Mishaps \/ vm[Where(t)] # "active"
    /\ \/ UNCHANGED <<vm, scope>>
       \/ AskNova(Where(t), {"shells"})
    /\ reset' = [reset EXCEPT ![Where(t)] = IF claimed[t] THEN "idle" ELSE @]
    /\ Return(t)
    /\ UNCHANGED <<status, place, choice, workers, conf, leftover>>

\* reset.begin: the worker inherits the claim.
CloseHandsOver(t) ==
    /\ pc[t] = "asked"
    /\ worker' = [worker EXCEPT ![sess[t]] = IF claimed[t] THEN "begun" ELSE @]
    /\ todo' = [todo EXCEPT ![sess[t]] = Steps]
    /\ Return(t)
    /\ UNCHANGED <<books, choice, turn, seen, broken, range>>

-----------------------------------------------------------------------------
(* reset._reset on an adapter with reset_in_place: one hold of the turn around *)
(* two sides that run at once.                                                 *)

WorkerStarts(x) ==
    /\ worker[x] = "begun" /\ turn[place[x]] = None
    /\ turn' = [turn EXCEPT ![place[x]] = x]
    /\ worker' = [worker EXCEPT ![x] = "holding"]
    /\ UNCHANGED <<books, threads, todo, seen, broken, range>>

\* (Mutant: the rules go back, the targets keep their volumes.)
WorkerClearsRules(x) ==
    /\ worker[x] = "holding" /\ "start" \in todo[x]
    /\ Reachable(place[x], "inplace")
    /\ todo' = [todo EXCEPT ![x] = @ \ {"clear"}]
    /\ conf' = [conf EXCEPT ![place[x]] = @ \ {"inplace"}]
    /\ leftover' = [leftover EXCEPT ![place[x]]["rules"] = None]
    /\ UNCHANGED <<books, threads, turn, worker, seen, broken, vm, scope>>

\* Side one, reset_in_place: baseline rules, compose down -v (done again when
\* the range stops answering before the end and _until_answered retries) ...
WorkerClears(x) ==
    /\ worker[x] = "holding" /\ "start" \in todo[x]
    /\ Reachable(place[x], "inplace")
    /\ todo' = [todo EXCEPT ![x] = @ \ {"clear"}]
    /\ conf' = [conf EXCEPT ![place[x]] = @ \ {"inplace"}]
    /\ leftover' = [leftover EXCEPT ![place[x]] =
                       [p \in Parts |-> IF p = "waf" THEN @[p] ELSE None]]
    /\ UNCHANGED <<books, threads, turn, worker, seen, broken, vm, scope>>

\* ... and the targets and their sensor up again.
WorkerRestarts(x) ==
    /\ worker[x] = "holding" /\ "start" \in todo[x] /\ "clear" \notin todo[x]
    /\ Reachable(place[x], "inplace")
    /\ todo' = [todo EXCEPT ![x] = @ \ {"start"}]
    /\ conf' = [conf EXCEPT ![place[x]] = @ \cup {"inplace"}]
    /\ UNCHANGED <<books, threads, turn, worker, seen, broken, vm, scope, leftover>>

\* A step of that side drifts: the parts in `kept` were not cleared.
InPlaceFails(x) ==
    /\ worker[x] = "holding" /\ "start" \in todo[x]
    /\ "reset_fails" \in Mishaps
    /\ todo' = [todo EXCEPT ![x] = @ \ {"clear", "start"}]
    /\ broken' = [broken EXCEPT ![x] = TRUE]
    /\ \E kept \in SUBSET {"rules", "target"}, lost \in SUBSET {"inplace"} :
           /\ leftover' = [leftover EXCEPT ![place[x]] =
                              [p \in Parts |-> IF p \in kept \cup {"waf"} THEN @[p] ELSE None]]
           /\ conf' = [conf EXCEPT ![place[x]] = @ \ lost]
    /\ UNCHANGED <<books, threads, turn, worker, seen, vm, scope>>

\* Side two polls plan_slot until every VM the close rebuilt left ACTIVE ...
WorkerSees(x) ==
    /\ worker[x] = "holding" /\ "configure" \in todo[x]
    /\ ~seen[x] /\ vm[place[x]] = "rebuilding"
    /\ seen' = [seen EXCEPT ![x] = TRUE]
    /\ UNCHANGED <<books, threads, turn, worker, todo, broken, range>>

\* (Mutant: ACTIVE is enough.)
WorkerConfiguresUnseen(x) ==
    /\ worker[x] = "holding" /\ "configure" \in todo[x]
    /\ ShowsActive(place[x])
    /\ todo' = [todo EXCEPT ![x] = @ \ {"configure"}]
    /\ conf' = [conf EXCEPT ![place[x]] = @ \cup {"shells"}]
    /\ UNCHANGED <<books, threads, turn, worker, seen, broken, vm, scope, leftover>>

\* ... and came back, then configures them (configure_rebuilt).
WorkerConfigures(x) ==
    /\ worker[x] = "holding" /\ "configure" \in todo[x]
    /\ seen[x] /\ ShowsActive(place[x])
    /\ todo' = [todo EXCEPT ![x] = @ \ {"configure"}]
    /\ conf' = [conf EXCEPT ![place[x]] = @ \cup {"shells"}]
    /\ UNCHANGED <<books, threads, turn, worker, seen, broken, vm, scope, leftover>>

\* The rebuild was never seen within REBUILD_SHOWN (it came and went between two
\* polls; that Nova takes longer is a reset_fails), RESET_WAIT ran out, or a step
\* drifted.
RebuildFails(x) ==
    /\ worker[x] = "holding" /\ "configure" \in todo[x]
    /\ "reset_fails" \in Mishaps \/ (~seen[x] /\ vm[place[x]] = "active")
    /\ todo' = [todo EXCEPT ![x] = @ \ {"configure"}]
    /\ broken' = [broken EXCEPT ![x] = TRUE]
    /\ UNCHANGED <<books, threads, turn, worker, seen, range>>

\* _side_by_side waits for both sides; the with block gives the turn back.
WorkerLetsGo(x) ==
    /\ worker[x] = "holding" /\ todo[x] = {}
    /\ turn' = [turn EXCEPT ![place[x]] = None]
    /\ worker' = [worker EXCEPT ![x] = "finished"]
    /\ UNCHANGED <<books, threads, todo, seen, broken, range>>

\* (Mutant: a state no reader of reset._states knows.)
WorkerReportsDrift(x) ==
    /\ worker[x] = "finished"
    /\ reset' = [reset EXCEPT ![place[x]] = IF broken[x] THEN "drifted" ELSE "idle"]
    /\ worker' = [worker EXCEPT ![x] = "none"]
    /\ seen' = [seen EXCEPT ![x] = FALSE]
    /\ broken' = [broken EXCEPT ![x] = FALSE]
    /\ UNCHANGED <<status, place, threads, turn, todo, range>>

WorkerReports(x) ==
    /\ worker[x] = "finished"
    /\ reset' = [reset EXCEPT ![place[x]] = IF broken[x] THEN "failed" ELSE "idle"]
    /\ worker' = [worker EXCEPT ![x] = "none"]
    /\ seen' = [seen EXCEPT ![x] = FALSE]
    /\ broken' = [broken EXCEPT ![x] = FALSE]
    /\ UNCHANGED <<status, place, threads, turn, todo, range>>

-----------------------------------------------------------------------------
(* Writes: PUT /waf/ and the rule and suppression endpoints take the slot's    *)
(* turn after _refuse_closed; an attack takes nothing.                         *)

WriteBegins(t, x, p) ==
    /\ pc[t] = "idle" /\ IsOpen(x)
    /\ pc' = [pc EXCEPT ![t] = "writing"]
    /\ sess' = [sess EXCEPT ![t] = x]
    /\ part' = [part EXCEPT ![t] = p]
    /\ UNCHANGED <<books, choice, offered, claimed, workers, range>>

\* Restoring or discarding what was changed can put the rules back at baseline.
WriteLands(t) ==
    /\ pc[t] = "writing"
    /\ part[t] # "target" => turn[Where(t)] = None
    /\ Reachable(Where(t), HostOf(part[t]))
    /\ "late_writes" \in Mishaps \/ IsOpen(sess[t])
    /\ \E data \in {sess[t]} \cup (IF part[t] = "rules" THEN {None} ELSE {}) :
           leftover' = [leftover EXCEPT ![Where(t)][part[t]] = data]
    /\ Return(t)
    /\ UNCHANGED <<books, choice, workers, vm, scope, conf>>

WriteFails(t) ==
    /\ pc[t] = "writing"
    /\ Return(t)
    /\ UNCHANGED <<books, choice, workers, range>>

-----------------------------------------------------------------------------
(* Nova, the operator and the process. *)

NovaBegins(s) ==
    /\ vm[s] = "asked"
    /\ vm' = [vm EXCEPT ![s] = "rebuilding"]
    /\ UNCHANGED <<books, threads, workers, scope, conf, leftover>>

\* A rebuild wipes the disk, the pushed configuration with it.
NovaEnds(s) ==
    /\ vm[s] = "rebuilding"
    /\ vm' = [vm EXCEPT ![s] = "active"]
    /\ scope' = [scope EXCEPT ![s] = {}]
    /\ conf' = [conf EXCEPT ![s] = @ \ scope[s]]
    /\ leftover' = [leftover EXCEPT ![s] =
                       [p \in Parts |-> IF p \in PartsOf(scope[s]) THEN None ELSE @[p]]]
    /\ UNCHANGED <<books, threads, workers>>

\* POST /api/range/slot/rebuild/ asks for every VM of the slot, in the turn.
OperatorRebuilds(s) ==
    /\ "rebuild" \in Mishaps
    /\ AskNova(s, Groups)
    /\ UNCHANGED <<books, threads, workers, conf, leftover>>

\* POST /api/range/configure/ in the turn: every host is configured, the edge
\* and the sensors get the baseline rules, and configured_by_hand forgets a
\* failure.  Nothing clears the targets or the WAF tuning.
OperatorConfigures(s) ==
    /\ "configure" \in Mishaps
    /\ turn[s] = None /\ ShowsActive(s)
    /\ conf' = [conf EXCEPT ![s] = Groups]
    /\ leftover' = [leftover EXCEPT ![s]["rules"] = None]
    /\ reset' = [reset EXCEPT ![s] = IF @ = "failed" THEN "idle" ELSE @]
    /\ UNCHANGED <<status, place, threads, workers, vm, scope>>

\* The process restarts: its threads, locks and reset states are gone, the
\* rows and the range are not.
Restart ==
    /\ "restart" \in Mishaps
    /\ choice' = None
    /\ turn' = [s \in Slots |-> None]
    /\ reset' = [s \in Slots |-> "idle"]
    /\ pc' = [t \in Threads |-> "idle"]
    /\ sess' = [t \in Threads |-> None]
    /\ offered' = [t \in Threads |-> {}]
    /\ claimed' = [t \in Threads |-> FALSE]
    /\ part' = [t \in Threads |-> "waf"]
    /\ worker' = [x \in Sessions |-> "none"]
    /\ todo' = [x \in Sessions |-> {}]
    /\ seen' = [x \in Sessions |-> FALSE]
    /\ broken' = [x \in Sessions |-> FALSE]
    /\ place' = [x \in Sessions |-> IF status[x] = "unborn" THEN None ELSE place[x]]
    /\ UNCHANGED <<status, range>>

-----------------------------------------------------------------------------
OpenStep(t) ==
    \/ \E x \in Sessions : OpenBegins(t, x)
    \/ \E s \in Slots : OpenChecks(t, s)
    \/ OpenRefused(t) \/ OpenCreates(t) \/ OpenPrepares(t)
    \/ OpenReadies(t) \/ OpenEnds(t) \/ OpenFails(t)

CloseGoesOn(t) == CloseMarks(t) \/ CloseAsks(t) \/ CloseBreaks(t) \/ CloseHandsOver(t)
CloseStep(t) == (\E x \in Sessions : CloseBegins(t, x)) \/ CloseGoesOn(t)

WriteStep(t) ==
    \/ \E x \in Sessions, p \in Parts : WriteBegins(t, x, p)
    \/ WriteLands(t) \/ WriteFails(t)

WorkerStep(x) ==
    \/ WorkerStarts(x) \/ WorkerClears(x) \/ WorkerRestarts(x) \/ InPlaceFails(x)
    \/ WorkerSees(x) \/ WorkerConfigures(x) \/ RebuildFails(x)
    \/ WorkerLetsGo(x) \/ WorkerReports(x)

NovaStep(s) == NovaBegins(s) \/ NovaEnds(s)
OperatorStep(s) == OperatorRebuilds(s) \/ OperatorConfigures(s)

Next ==
    \/ \E t \in Threads : OpenStep(t) \/ CloseStep(t) \/ WriteStep(t)
    \/ \E x \in Sessions : WorkerStep(x)
    \/ \E s \in Slots : NovaStep(s) \/ OperatorStep(s)
    \/ Restart

Spec == Init /\ [][Next]_vars

\* A close in progress, a reset worker and Nova keep going; nobody has to open,
\* write, configure or fail.
FairSpec ==
    /\ Spec
    /\ \A t \in Threads : WF_vars(CloseGoesOn(t))
    /\ \A x \in Sessions : WF_vars(WorkerStep(x))
    /\ \A s \in Slots : WF_vars(NovaStep(s))

-----------------------------------------------------------------------------
(* Safety. *)

\* Those who may set the slot's reset state from running: the close that
\* claimed it, then the worker that close started.
Owners(s) ==
    {t \in Threads : pc[t] \in {"marked", "asked"} /\ claimed[t] /\ Where(t) = s}
    \cup {x \in Sessions : worker[x] # "none" /\ place[x] = s}

\* A slot's reset is running exactly while one close or one worker owns it:
\* no reset is left running with nobody to end it, and no two of them reset
\* the same slot, whatever the order of closes, failures and restarts.
OneOwnerPerReset ==
    \A s \in Slots :
        /\ \A o, p \in Owners(s) : o = p
        /\ reset[s] = "running" <=> Owners(s) # {}

\* The unique constraint one_open_session_per_slot never has to refuse a row:
\* SLOT_CHOICE and the readiness checks already keep two open sessions apart.
OneOpenSessionPerSlot ==
    \A x, y \in OpenSessions : place[x] = place[y] => x = y

\* While a session is open its slot is neither being reset nor marked as one
\* whose reset failed.
OpenSlotIsNotReset ==
    \A x \in OpenSessions : reset[place[x]] = "idle"

\* The close that ends the session always holds its slot's reset, so a rebuilt
\* slot is never left with nobody to configure it.
EndingCloseHoldsTheReset ==
    \A t \in Threads : pc[t] \in {"marked", "asked"} => claimed[t]

\* The worker never configures the VM from before the rebuild, which Nova
\* still shows ACTIVE just after it was asked (REBUILD_SHOWN).
ConfiguresOnlyRebuiltVMs ==
    [][\A x \in Sessions : WorkerConfigures(x) => vm[place[x]] = "active"]_vars

\* Every reset that runs ends, as ready or as failed: the slot is never left
\* RESETTING for good.
ResetEnds ==
    \A s \in Slots : reset[s] = "running" ~> reset[s] # "running"

\* The locks, threads and workers implement the plain service of SlotService.
Service == INSTANCE SlotService WITH
    uses <- {<<x, place[x]>> : x \in OpenSessions},
    served <- {x \in Sessions : status[x] # "unborn"},
    state <- [s \in Slots |-> CASE reset[s] = "idle" -> "free"
                               [] reset[s] = "running" -> "resetting"
                               [] reset[s] = "failed" -> "failed"]
ImplementsService == Service!SSpec

\* "A session therefore leaves the next one no edited rule or planted data."
\* (docs/ARCHITECTURE.md): what an opened session finds on its slot is its own.
LeavesNothing ==
    \A x \in Sessions, p \in Parts :
        status[x] = "ready" => leftover[place[x]][p] \in {None, x}

=============================================================================
