------------------------------ MODULE WafApply ------------------------------
(***************************************************************************)
(* How a tuning of the WAF reaches nginx: PUT /api/sessions/<id>/waf/      *)
(* (platform/api/views.py session_waf) and crs.apply, which writes the     *)
(* file, reloads nginx and puts the file that was there back when nginx    *)
(* refuses it.  Meanwhile the learner may edit the file in a terminal, and *)
(* a snapshot of it may be taken without the slot's turn.                  *)
(*                                                                         *)
(* What the file holds is a number: a tuning some PUT asks for, or what is *)
(* typed in the terminal.  Which ones nginx -t accepts is Valid.           *)
(***************************************************************************)
EXTENDS Naturals

CONSTANTS
    Tunings,     \* what PUTs ask for
    Typed,       \* what the terminal writes
    Valid,       \* what nginx accepts
    Baseline,    \* what the slot came with
    MaxPuts, MaxEdits, MaxLost

WafAssumption ==
    /\ Valid \subseteq Tunings \cup Typed \cup {Baseline} /\ Baseline \in Valid
    /\ Baseline \notin Tunings /\ Tunings \cap Typed = {}
    /\ MaxPuts \in Nat /\ MaxEdits \in Nat /\ MaxLost \in Nat

VARIABLES
    wafFile,   \* the exclusion file on the gateway
    serving,   \* what the newest worker was started on
    signalled, \* a reload nginx has not begun
    worker,    \* how many times new workers were started
    put,       \* the PUT that holds the slot's turn
    answer,    \* what the last one was answered
    saved,     \* session.waf, {} before there is one
    snapshot,  \* what _snapshot_waf read and has not written, or {}
    edited,    \* the terminal wrote, or an answer was lost, during the PUT
    puts, edits, lost

nginx == <<serving, signalled, worker>>
wafVars == <<wafFile, nginx, put, answer, saved, snapshot, edited, puts, edits, lost>>

Files == Tunings \cup Typed \cup {Baseline}
NoPut == [phase |-> "none", tuning |-> Baseline, previous |-> Baseline, old |-> 0]
PutPhases == {"none", "read", "write", "reload", "wait", "refused", "stuck", "again"}

WafTypeOK ==
    /\ wafFile \in Files /\ serving \in Files /\ worker \in Nat
    /\ signalled \in BOOLEAN /\ edited \in BOOLEAN
    /\ put \in [phase : PutPhases, tuning : Files, previous : Files, old : Nat]
    /\ answer \in {"none", "applied", "refused", "unwritten", "lost"}
    /\ saved \subseteq Files /\ snapshot \subseteq Files
    /\ puts \in 0..MaxPuts /\ edits \in 0..MaxEdits /\ lost \in 0..MaxLost

WafInit ==
    /\ wafFile = Baseline /\ serving = Baseline /\ signalled = FALSE /\ worker = 0
    /\ put = NoPut /\ answer = "none" /\ saved = {} /\ snapshot = {} /\ edited = FALSE
    /\ puts = 0 /\ edits = 0 /\ lost = 0

-----------------------------------------------------------------------------
(* session_waf and crs.apply, under the slot's turn. *)

Goes(now, next) == put.phase = now /\ put' = [put EXCEPT !.phase = next]

Ends(said) == put' = NoPut /\ answer' = said

PutBegins ==
    /\ put.phase = "none" /\ puts < MaxPuts /\ puts' = puts + 1
    /\ \E tuning \in Tunings : put' = [NoPut EXCEPT !.phase = "read", !.tuning = tuning]
    /\ answer' = "none" /\ edited' = FALSE
    /\ UNCHANGED <<wafFile, nginx, saved, snapshot, edits, lost>>

\* The file that is there and the workers that run.
PutReads ==
    /\ put.phase = "read"
    /\ put' = [put EXCEPT !.phase = "write", !.previous = wafFile, !.old = worker]
    /\ UNCHANGED <<wafFile, nginx, answer, saved, snapshot, edited, puts, edits, lost>>

PutWrites ==
    /\ Goes("write", "reload")
    /\ wafFile' = put.tuning
    /\ UNCHANGED <<nginx, answer, saved, snapshot, edited, puts, edits, lost>>

\* nginx -t, and the signal to reload.
Signals == signalled' = (signalled \/ wafFile \in Valid) /\ UNCHANGED <<serving, worker>>

PutReloads ==
    /\ Goes("reload", IF wafFile \in Valid THEN "wait" ELSE "refused")
    /\ Signals
    /\ UNCHANGED <<wafFile, answer, saved, snapshot, edited, puts, edits, lost>>

PutSeesWorker ==
    /\ put.phase = "wait" /\ worker > put.old
    /\ Ends("applied") /\ saved' = {put.tuning}
    /\ UNCHANGED <<wafFile, nginx, snapshot, edited, puts, edits, lost>>

\* No new worker in SETTLE_POLLS polls.
PutGivesUp ==
    /\ worker = put.old /\ Goes("wait", "stuck")
    /\ UNCHANGED <<wafFile, nginx, answer, saved, snapshot, edited, puts, edits, lost>>

\* (Mutant: nginx, which did not come up with the tuning, is not reloaded again.)
PutRollsBackOnce ==
    /\ wafFile' = put.previous
    /\ put.phase \in {"refused", "stuck"} /\ Ends("refused")
    /\ UNCHANGED <<nginx, saved, snapshot, edited, puts, edits, lost>>

PutRollsBack ==
    /\ wafFile' = put.previous
    /\ \/ put.phase = "refused" /\ Ends("refused")
       \/ Goes("stuck", "again") /\ UNCHANGED answer
    /\ UNCHANGED <<nginx, saved, snapshot, edited, puts, edits, lost>>

PutReloadsAgain ==
    /\ put.phase = "again" /\ Signals /\ Ends("refused")
    /\ UNCHANGED <<wafFile, saved, snapshot, edited, puts, edits, lost>>

\* The gateway cannot open the file, which stays as it is: the PUT is refused
\* for that, before its reload or in place of the answer it was about to give.
PutCannotWrite ==
    /\ put.phase \in {"write", "refused", "stuck"} /\ lost < MaxLost /\ lost' = lost + 1
    /\ Ends("unwritten")
    /\ UNCHANGED <<wafFile, nginx, saved, snapshot, edited, puts, edits>>

\* The gateway does not answer: 503, whether it did what it was told or not.
PutLost ==
    /\ put.phase # "none" /\ lost < MaxLost /\ lost' = lost + 1
    /\ \/ put.phase = "write" /\ wafFile' = put.tuning /\ UNCHANGED nginx
       \/ put.phase \in {"refused", "stuck"} /\ wafFile' = put.previous /\ UNCHANGED nginx
       \/ put.phase \in {"reload", "again"} /\ Signals /\ UNCHANGED wafFile
       \/ UNCHANGED <<wafFile, nginx>>
    /\ Ends("lost")
    /\ UNCHANGED <<saved, snapshot, edited, puts, edits>>

-----------------------------------------------------------------------------
(* nginx, the terminal and the snapshots. *)

\* The master reads the file when it takes the signal; one that is not valid
\* by then leaves the old workers.
NginxReloads ==
    /\ signalled /\ signalled' = FALSE
    /\ IF wafFile \in Valid
       THEN serving' = wafFile /\ worker' = worker + 1
       ELSE UNCHANGED <<serving, worker>>
    /\ UNCHANGED <<wafFile, put, answer, saved, snapshot, edited, puts, edits, lost>>

TerminalEdits ==
    /\ edits < MaxEdits /\ edits' = edits + 1 /\ edited' = TRUE
    /\ wafFile' \in Typed
    /\ IF wafFile' \in Valid THEN signalled' \in {signalled, TRUE} ELSE UNCHANGED signalled
    /\ UNCHANGED <<serving, worker, put, answer, saved, snapshot, puts, lost>>

\* _snapshot_waf reads the file, and writes the row in a transaction later.
SnapshotReads ==
    /\ snapshot = {} /\ snapshot' = {wafFile}
    /\ UNCHANGED <<wafFile, nginx, put, answer, saved, edited, puts, edits, lost>>

SnapshotWrites ==
    /\ snapshot # {} /\ saved' = snapshot /\ snapshot' = {}
    /\ UNCHANGED <<wafFile, nginx, put, answer, edited, puts, edits, lost>>

PutStep ==
    \/ PutReads \/ PutWrites \/ PutReloads \/ PutSeesWorker \/ PutGivesUp
    \/ PutRollsBack \/ PutReloadsAgain

WafNext ==
    \/ PutBegins \/ PutStep \/ PutCannotWrite \/ PutLost \/ NginxReloads
    \/ TerminalEdits \/ SnapshotReads \/ SnapshotWrites

WafSpec == WafInit /\ [][WafNext]_wafVars

-----------------------------------------------------------------------------
(* Properties. *)

\* Unless the learner typed in the terminal meanwhile, a PUT that is answered
\* 200 leaves its tuning in the file, and in nginx or in the reload nginx is
\* about to do; one that is refused leaves the file that was there, and nginx
\* serves the refused tuning only until the reload it is about to do, unless
\* that file was broken before.  A reload that an earlier PUT left behind, whose
\* worker the next one takes for its own, is no exception.
AnswerTells ==
    /\ answer' = "applied" /\ answer # "applied" /\ ~ edited =>
         wafFile' = put.tuning /\ (serving' = put.tuning \/ signalled')
    /\ answer' = "refused" /\ answer # "refused" /\ ~ edited =>
         /\ wafFile' = put.previous
         /\ serving' = put.tuning => \/ signalled' \/ put.previous \in {put.tuning} \cup (Files \ Valid)
AnswerTellsWhatServes == [][AnswerTells]_wafVars
=============================================================================
