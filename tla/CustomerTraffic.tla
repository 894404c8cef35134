--------------------------- MODULE CustomerTraffic ---------------------------
(***************************************************************************)
(* The customers of one session: deploy/traffic/users.py runs on the       *)
(* slot's box and appends a line to its records file for every request it  *)
(* sends; platform/api/customers.py starts it, reads the lines from an     *)
(* offset kept in the JSON column Session.traffic, stops it, and does that *)
(* again for the learner's PUT, GET and DELETE, for the scenario engine    *)
(* and for the close.                                                      *)
(*                                                                         *)
(* The file is counted in lines.  A line is a record, or garbled: a piece  *)
(* of a line a killed program left, which the next one ends.  A request    *)
(* holds its own copy of the column, and _keep writes that copy back.      *)
(***************************************************************************)
EXTENDS Naturals, Sequences, FiniteSets

CONSTANTS
    Threads,    \* the request threads, and the engine's
    None,       \* no thread
    Limit,      \* the lines PULL_LIMIT lets through in one reading
    MaxLines,   \* how many lines are ever written
    Ways        \* which of the following a behaviour may contain

AllWays ==
    {"overlap",     \* starts, stops and closes of the session run at once
     "unreachable", \* the box does not answer
     "dies",        \* the program dies by itself
     "restart"}     \* the platform process restarts

ASSUME TrafficAssumption ==
    /\ None \notin Threads
    /\ Limit \in Nat \ {0}
    /\ MaxLines \in Nat
    /\ Ways \subseteq AllWays

VARIABLES
    column,     \* Session.traffic: is it running, and the offset
    open,       \* Session.ended_at is unset
    rows,       \* the lines kept as CustomerRequest rows
    pulling,    \* the thread that holds PULLING
    task,       \* what each thread was asked for
    pc,         \* where it is in it
    mine,       \* its copy of the column
    got,        \* how many lines its last reading held
    program,    \* users.py on the box
    file,       \* the whole lines of records.jsonl
    half        \* a piece of a line ends it

requests == <<task, pc, mine, got>>
box      == <<program, file, half>>
vars     == <<column, open, rows, pulling, requests, box>>

Columns == [running : BOOLEAN, offset : Nat]
Tasks == {"start", "refresh", "stop", "close"}
Places == {"idle", "begun", "started", "marked", "asked", "waiting", "reading", "stored", "pulled"}

RecordsOf(lines) == {i \in DOMAIN lines : lines[i] = "record"}

TypeOK ==
    /\ column \in Columns /\ column.offset <= Len(file)
    /\ open \in BOOLEAN
    /\ rows \subseteq DOMAIN file
    /\ pulling \in Threads \cup {None}
    /\ task \in [Threads -> Tasks \cup {"none"}]
    /\ pc \in [Threads -> Places]
    /\ mine \in [Threads -> Columns]
    /\ got \in [Threads -> 0..Limit]
    /\ program \in {"off", "on", "stopping"}
    /\ file \in Seq({"record", "garbled"})
    /\ half \in BOOLEAN

Init ==
    /\ column = [running |-> FALSE, offset |-> 0]
    /\ open = TRUE
    /\ rows = {}
    /\ pulling = None
    /\ task = [t \in Threads |-> "none"]
    /\ pc = [t \in Threads |-> "idle"]
    /\ mine = [t \in Threads |-> [running |-> FALSE, offset |-> 0]]
    /\ got = [t \in Threads |-> 0]
    /\ program = "off" /\ file = <<>> /\ half = FALSE

Goes(t, place) == pc' = [pc EXCEPT ![t] = place]

\* The handler answers: its copy of the column goes.
Return(t) ==
    /\ task' = [task EXCEPT ![t] = "none"]
    /\ pc' = [pc EXCEPT ![t] = "idle"]
    /\ mine' = [mine EXCEPT ![t] = [running |-> FALSE, offset |-> 0]]
    /\ got' = [got EXCEPT ![t] = 0]

-----------------------------------------------------------------------------
(* Requests. *)

Changing == {t \in Threads : task[t] \in {"start", "stop", "close"}}

\* The session's row is read: a closed one is neither started nor closed, and
\* one that does not run is neither read nor stopped.
Begins(t, what) ==
    /\ pc[t] = "idle"
    /\ what \in {"start", "close"} => open
    /\ what \in {"refresh", "stop"} => column.running
    /\ what = "refresh" \/ Changing = {} \/ "overlap" \in Ways
    /\ task' = [task EXCEPT ![t] = what]
    /\ mine' = [mine EXCEPT ![t] = column]
    /\ Goes(t, "begun")
    /\ UNCHANGED <<column, open, rows, pulling, got, box>>

\* run_customers: a new plan; the program is started unless it runs, and ends
\* the piece of a line an earlier one left.
StartRuns(t) ==
    /\ task[t] = "start" /\ pc[t] = "begun"
    /\ IF program = "off"
       THEN /\ program' = "on"
            /\ file' = IF half THEN Append(file, "garbled") ELSE file
            /\ half' = FALSE
       ELSE UNCHANGED box
    /\ Goes(t, "started")
    /\ UNCHANGED <<column, open, rows, pulling, task, mine, got>>

StartKeeps(t) ==
    /\ pc[t] = "started"
    /\ column' = [mine[t] EXCEPT !.running = TRUE]
    /\ Return(t)
    /\ UNCHANGED <<open, rows, pulling, box>>

\* close_session ends the row; it stops the customers that its own copy of the
\* row says are running.
CloseMarks(t) ==
    /\ task[t] = "close" /\ pc[t] = "begun"
    /\ open' = FALSE
    /\ IF open /\ mine[t].running
       THEN Goes(t, "marked") /\ UNCHANGED <<task, mine, got>>
       ELSE Return(t)
    /\ UNCHANGED <<column, rows, pulling, box>>

\* stop_customers: the plan is removed and the program told to end ...
StopAsks(t) ==
    /\ <<task[t], pc[t]>> \in {<<"stop", "begun">>, <<"close", "marked">>}
    /\ program' = IF program = "on" THEN "stopping" ELSE program
    /\ Goes(t, "asked")
    /\ UNCHANGED <<column, open, rows, pulling, task, mine, got, file, half>>

\* (Mutant: nobody waits for the program.)
StopGoesOn(t) ==
    /\ pc[t] = "asked"
    /\ Goes(t, "waiting")
    /\ UNCHANGED <<column, open, rows, pulling, task, mine, got, box>>

\* ... waited for, and killed when it takes too long.
StopWaits(t) ==
    /\ pc[t] = "asked"
    /\ program' = "off"
    /\ Goes(t, "waiting")
    /\ UNCHANGED <<column, open, rows, pulling, task, mine, got, file, half>>

StopKeeps(t) ==
    /\ pc[t] = "pulled"
    /\ column' = [mine[t] EXCEPT !.running = FALSE]
    /\ Return(t)
    /\ UNCHANGED <<open, rows, pulling, box>>

-----------------------------------------------------------------------------
(* pull, under PULLING. *)

PullTakes(t) ==
    /\ pc[t] = "waiting" \/ (task[t] = "refresh" /\ pc[t] = "begun")
    /\ pulling = None
    /\ pulling' = t
    /\ mine' = [mine EXCEPT ![t] = column]
    /\ Goes(t, "reading")
    /\ UNCHANGED <<column, open, rows, task, got, box>>

\* How many whole lines lie behind the offset, within the limit.
Whole(t) ==
    LET left == Len(file) - mine[t].offset IN IF left < Limit THEN left ELSE Limit

\* (Mutant: the piece of a line is taken for a record.)
PullStoresThePiece(t) ==
    /\ pc[t] = "reading"
    /\ LET lines == (mine[t].offset + 1)..(mine[t].offset + Whole(t))
       IN  rows' = rows \cup (lines \cap RecordsOf(file))
                        \cup (IF half /\ Whole(t) < Limit THEN {Len(file) + 1} ELSE {})
    /\ got' = [got EXCEPT ![t] = Whole(t)]
    /\ Goes(t, "stored")
    /\ UNCHANGED <<column, open, pulling, task, mine, box>>

\* A chunk is read and the records of its whole lines are created; a marker the
\* session holds already is ignored.
PullStores(t) ==
    /\ pc[t] = "reading"
    /\ LET lines == (mine[t].offset + 1)..(mine[t].offset + Whole(t))
       IN  rows' = rows \cup (lines \cap RecordsOf(file))
    /\ got' = [got EXCEPT ![t] = Whole(t)]
    /\ Goes(t, "stored")
    /\ UNCHANGED <<column, open, pulling, task, mine, box>>

\* (Mutant: the offset moves by the chunk, not by its whole lines.)
PullKeepsTheChunk(t) ==
    /\ pc[t] = "stored"
    /\ LET chunk == IF half /\ got[t] < Limit THEN got[t] + 1 ELSE got[t]
           kept == [mine[t] EXCEPT !.offset = @ + chunk]
       IN  /\ column' = kept
           /\ pulling' = None
           /\ mine' = [mine EXCEPT ![t] = kept]
           /\ got' = [got EXCEPT ![t] = 0]
           /\ IF task[t] = "refresh"
              THEN task' = [task EXCEPT ![t] = "none"] /\ Goes(t, "idle")
              ELSE UNCHANGED task /\ Goes(t, "pulled")
    /\ UNCHANGED <<open, rows, box>>

\* The offset moves on in the thread's copy, which is written back.  A chunk
\* that was full is followed by another.
PullKeeps(t) ==
    /\ pc[t] = "stored"
    /\ LET kept == [mine[t] EXCEPT !.offset = @ + got[t]]
       IN  /\ column' = kept
           /\ IF got[t] = Limit
              THEN /\ mine' = [mine EXCEPT ![t] = kept]
                   /\ Goes(t, "reading")
                   /\ UNCHANGED <<pulling, task, got>>
              ELSE /\ pulling' = None
                   /\ IF task[t] = "refresh" THEN Return(t)
                      ELSE /\ mine' = [mine EXCEPT ![t] = kept]
                           /\ Goes(t, "pulled")
                           /\ UNCHANGED <<task, got>>
    /\ UNCHANGED <<open, rows, box>>

\* RangeUnavailable, before or after the box did what it was asked: a start and
\* a DELETE answer 503, a close and a refresh write their copy back.
Unreachable(t) ==
    /\ "unreachable" \in Ways
    /\ pc[t] \in {"started", "marked", "asked", "reading"} \/ (pc[t] = "begun" /\ task[t] # "close")
    /\ column' = CASE task[t] = "close" -> [mine[t] EXCEPT !.running = FALSE]
                   [] task[t] = "refresh" -> mine[t]
                   [] OTHER -> column
    /\ pulling' = IF pulling = t THEN None ELSE pulling
    /\ Return(t)
    /\ UNCHANGED <<open, rows, box>>

\* The process restarts: its threads and the lock are gone.
Restart ==
    /\ "restart" \in Ways
    /\ pulling' = None
    /\ task' = [t \in Threads |-> "none"]
    /\ pc' = [t \in Threads |-> "idle"]
    /\ mine' = [t \in Threads |-> [running |-> FALSE, offset |-> 0]]
    /\ got' = [t \in Threads |-> 0]
    /\ UNCHANGED <<column, open, rows, box>>

-----------------------------------------------------------------------------
(* The program on the box. *)

\* A reader may find a piece of the line that is being written.
WriteBegins ==
    /\ program # "off" /\ ~half /\ Len(file) < MaxLines
    /\ half' = TRUE
    /\ UNCHANGED <<column, open, rows, pulling, requests, program, file>>

WriteEnds ==
    /\ program # "off" /\ half
    /\ file' = Append(file, "record")
    /\ half' = FALSE
    /\ UNCHANGED <<column, open, rows, pulling, requests, program>>

\* Told to end, or by itself.
ProgramEnds ==
    /\ program = "stopping" \/ ("dies" \in Ways /\ program = "on")
    /\ program' = "off"
    /\ UNCHANGED <<column, open, rows, pulling, requests, file, half>>

-----------------------------------------------------------------------------
Pull(t) == PullTakes(t) \/ PullStores(t) \/ PullKeeps(t)

Request(t) ==
    \/ \E what \in Tasks : Begins(t, what)
    \/ StartRuns(t) \/ StartKeeps(t)
    \/ CloseMarks(t) \/ StopAsks(t) \/ StopWaits(t) \/ StopKeeps(t)
    \/ Pull(t) \/ Unreachable(t)

Program == WriteBegins \/ WriteEnds \/ ProgramEnds

Next == (\E t \in Threads : Request(t)) \/ Program \/ Restart

Spec == Init /\ [][Next]_vars

-----------------------------------------------------------------------------
(* Safety. *)

\* Nothing in front of the offset is lost: whatever pulls, stops, crashes and
\* stale copies of the column interleave, every record there is counted.
CountedUpToTheOffset ==
    \A i \in RecordsOf(file) : i <= column.offset => i \in rows

\* Only a whole record is counted, never what a reader found half written.
OnlyRecordsAreCounted == rows \subseteq RecordsOf(file)

\* "DELETE stops the generator and reads what it sent last. Closing the session
\* does the same" (docs/ARCHITECTURE.md): when a stop that reached the box ends,
\* the program has ended and every record of it is counted.
StopReadsTheLast ==
    [][\A t \in Threads :
           StopKeeps(t) => program = "off" /\ RecordsOf(file) \subseteq rows]_vars

\* "Closing the session does the same before the slot is rebuilt": once the
\* close of a session and what it overlapped are over, its customers are too.
CloseStopsTheCustomers ==
    ~open /\ Changing = {} => program = "off"
=============================================================================
