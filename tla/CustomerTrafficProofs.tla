----------------------- MODULE CustomerTrafficProofs -----------------------
(***************************************************************************)
(* What is proved of CustomerTraffic for any threads, limit and number of  *)
(* lines: its types, that nothing before the offset is lost and nothing    *)
(* but records is counted, whatever overlaps and fails; and, when starts,  *)
(* stops and closes do not overlap, that a stop reads the last record.     *)
(***************************************************************************)
EXTENDS CustomerTraffic, TLAPS

Lines == {"record", "garbled"}

\* No copy of the column points past the file.
Offsets ==
    \A t \in Threads :
        /\ mine[t].offset <= Len(file)
        /\ pc[t] = "stored" => mine[t].offset + got[t] <= Len(file)

Typed == TypeOK /\ Offsets

CountedTo(n) == \A i \in RecordsOf(file) : i <= n => i \in rows

\* Every offset some thread may write back has only counted records before it.
Counted ==
    /\ CountedTo(column.offset)
    /\ \A t \in Threads :
        /\ CountedTo(mine[t].offset)
        /\ pc[t] = "stored" => CountedTo(mine[t].offset + got[t])

-----------------------------------------------------------------------------
(* Helpers. *)

\* A line that is appended changes none of the lines before it.
LEMMA Appending ==
    ASSUME NEW lines \in Seq(Lines), NEW kind \in Lines
    PROVE  /\ Append(lines, kind) \in Seq(Lines)
           /\ Len(Append(lines, kind)) = Len(lines) + 1
           /\ RecordsOf(lines) \subseteq RecordsOf(Append(lines, kind))
           /\ \A i \in RecordsOf(Append(lines, kind)) :
                  i <= Len(lines) => i \in RecordsOf(lines)
<1>1. /\ Append(lines, kind) \in Seq(Lines)
      /\ Len(Append(lines, kind)) = Len(lines) + 1
      /\ \A i \in 1..Len(lines) : Append(lines, kind)[i] = lines[i]
  OBVIOUS
<1>2. /\ DOMAIN lines = 1..Len(lines)
      /\ DOMAIN Append(lines, kind) = 1..(Len(lines) + 1)
  BY <1>1
<1>3. Len(lines) \in Nat
  OBVIOUS
<1>4. RecordsOf(lines) \subseteq RecordsOf(Append(lines, kind))
  BY <1>1, <1>2, <1>3 DEF RecordsOf
<1>5. \A i \in RecordsOf(Append(lines, kind)) :
          i <= Len(lines) => i \in RecordsOf(lines)
  BY <1>1, <1>2, <1>3 DEF RecordsOf
<1>6. QED
  BY <1>1, <1>4, <1>5

\* How the program's steps and a start change the file.
Grows ==
    /\ file' = file \/ (\E kind \in Lines : file' = Append(file, kind))

LEMMA GrowingFile ==
    ASSUME file \in Seq(Lines), Grows
    PROVE  /\ file' \in Seq(Lines)
           /\ Len(file) <= Len(file')
           /\ DOMAIN file \subseteq DOMAIN file'
           /\ RecordsOf(file) \subseteq RecordsOf(file')
           /\ \A i \in RecordsOf(file') : i <= Len(file) => i \in RecordsOf(file)
<1>1. CASE file' = file
  <2>1. Len(file) \in Nat
    OBVIOUS
  <2>2. QED
    BY <1>1, <2>1
<1>2. ASSUME NEW kind \in Lines, file' = Append(file, kind)
      PROVE  /\ file' \in Seq(Lines)
             /\ Len(file) <= Len(file')
             /\ DOMAIN file \subseteq DOMAIN file'
             /\ RecordsOf(file) \subseteq RecordsOf(file')
             /\ \A i \in RecordsOf(file') : i <= Len(file) => i \in RecordsOf(file)
  <2>1. /\ file' \in Seq(Lines)
        /\ Len(file') = Len(file) + 1
        /\ RecordsOf(file) \subseteq RecordsOf(file')
        /\ \A i \in RecordsOf(file') : i <= Len(file) => i \in RecordsOf(file)
    BY <1>2, Appending
  <2>2. Len(file) \in Nat /\ DOMAIN file = 1..Len(file) /\ DOMAIN file' = 1..Len(file')
    BY <2>1
  <2>3. QED
    BY <2>1, <2>2
<1>3. QED
  BY <1>1, <1>2 DEF Grows

\* What is counted stays counted while the file grows.
LEMMA StaysCounted ==
    ASSUME file \in Seq(Lines), Grows, rows \subseteq rows',
           NEW n \in Nat, n <= Len(file), CountedTo(n)
    PROVE  CountedTo(n)'
<1>1. Len(file) \in Nat /\ \A i \in RecordsOf(file') : i \in Nat
  <2>1. file' \in Seq(Lines)
    BY GrowingFile
  <2>2. QED
    BY <2>1 DEF RecordsOf
<1>2. SUFFICES ASSUME NEW i \in RecordsOf(file'), i <= n PROVE i \in rows'
  BY DEF CountedTo
<1>3. i \in RecordsOf(file)
  BY <1>1, <1>2, GrowingFile
<1>4. QED
  BY <1>2, <1>3 DEF CountedTo

\* The whole lines behind a copy's offset.
LEMMA WholeLines ==
    ASSUME Typed, NEW t \in Threads
    PROVE  /\ Whole(t) \in 0..Limit
           /\ mine[t].offset + Whole(t) <= Len(file)
           /\ Whole(t) < Limit => mine[t].offset + Whole(t) = Len(file)
           /\ mine[t].offset \in Nat /\ Len(file) \in Nat
<1>1. mine[t].offset \in Nat /\ Len(file) \in Nat /\ mine[t].offset <= Len(file)
  BY DEF Typed, TypeOK, Columns, Offsets
<1>2. QED
  BY <1>1, TrafficAssumption DEF Whole

\* A handler that answers leaves a copy that points at the start of the file.
LEMMA Returned ==
    ASSUME Typed, NEW t \in Threads, Return(t)
    PROVE  /\ task' \in [Threads -> Tasks \cup {"none"}]
           /\ pc' \in [Threads -> Places]
           /\ mine' \in [Threads -> Columns]
           /\ got' \in [Threads -> 0..Limit]
           /\ \A u \in Threads :
                  \/ mine'[u].offset = 0 /\ pc'[u] = "idle"
                  \/ mine'[u] = mine[u] /\ pc'[u] = pc[u] /\ got'[u] = got[u]
           /\ \A u \in Threads :
                  /\ mine'[u].offset <= Len(file)
                  /\ pc'[u] = "stored" => mine'[u].offset + got'[u] <= Len(file)
<1>1. [running |-> FALSE, offset |-> 0] \in Columns /\ 0 \in 0..Limit /\ Len(file) \in Nat
  BY TrafficAssumption DEF Columns, Typed, TypeOK
<1>2. /\ task' \in [Threads -> Tasks \cup {"none"}]
      /\ pc' \in [Threads -> Places]
      /\ mine' \in [Threads -> Columns]
      /\ got' \in [Threads -> 0..Limit]
  BY <1>1 DEF Typed, TypeOK, Return, Places
<1>3. \A u \in Threads :
          \/ mine'[u].offset = 0 /\ pc'[u] = "idle"
          \/ mine'[u] = mine[u] /\ pc'[u] = pc[u] /\ got'[u] = got[u]
  BY <1>1 DEF Typed, TypeOK, Return, Places
<1>4. \A u \in Threads :
          /\ mine'[u].offset <= Len(file)
          /\ pc'[u] = "stored" => mine'[u].offset + got'[u] <= Len(file)
  BY <1>1, <1>3 DEF Typed, Offsets
<1>5. QED
  BY <1>2, <1>3, <1>4

-----------------------------------------------------------------------------
(* Types. *)

LEMMA TypedInit == Init => Typed
<1> SUFFICES ASSUME Init PROVE Typed
  OBVIOUS
<1>1. [running |-> FALSE, offset |-> 0] \in Columns /\ 0 \in 0..Limit
  BY TrafficAssumption DEF Columns
<1>2. <<>> \in Seq(Lines) /\ Len(<<>>) = 0
  OBVIOUS
<1>3. TypeOK
  <2>1. column \in Columns /\ column.offset <= Len(file) /\ rows \subseteq DOMAIN file
    BY <1>1, <1>2 DEF Init
  <2>2. file \in Seq({"record", "garbled"})
    BY <1>2 DEF Init, Lines
  <2>3. /\ task \in [Threads -> Tasks \cup {"none"}] /\ pc \in [Threads -> Places]
        /\ mine \in [Threads -> Columns] /\ got \in [Threads -> 0..Limit]
    BY <1>1 DEF Init, Places
  <2>4. QED
    BY <2>1, <2>2, <2>3 DEF Init, TypeOK
<1>4. Offsets
  BY <1>2 DEF Init, Offsets
<1>5. QED
  BY <1>3, <1>4 DEF Typed

\* A step of the box, with what it leaves of the requests.
LEMMA TypedBox ==
    ASSUME Typed, Grows, program' \in {"off", "on", "stopping"}, half' \in BOOLEAN,
           UNCHANGED <<column, open, rows, pulling, mine, got>>,
           task' \in [Threads -> Tasks \cup {"none"}], pc' \in [Threads -> Places],
           \A u \in Threads : pc'[u] = "stored" => pc[u] = "stored"
    PROVE  Typed'
<1>1. /\ file' \in Seq(Lines) /\ Len(file) <= Len(file') /\ DOMAIN file \subseteq DOMAIN file'
      /\ Len(file) \in Nat /\ Len(file') \in Nat
  BY GrowingFile DEF Typed, TypeOK, Lines
<1>2. TypeOK'
  BY <1>1 DEF Typed, TypeOK, Columns, Lines
<1>3. Offsets'
  BY <1>1 DEF Typed, TypeOK, Offsets, Columns
<1>4. QED
  BY <1>2, <1>3 DEF Typed

\* A step of a request that leaves the file alone.
LEMMA TypedRequest ==
    ASSUME Typed, UNCHANGED file,
           column' \in Columns, column'.offset <= Len(file), open' \in BOOLEAN,
           rows' \subseteq DOMAIN file, pulling' \in Threads \cup {None},
           task' \in [Threads -> Tasks \cup {"none"}], pc' \in [Threads -> Places],
           mine' \in [Threads -> Columns], got' \in [Threads -> 0..Limit],
           program' \in {"off", "on", "stopping"}, half' \in BOOLEAN,
           \A u \in Threads :
               /\ mine'[u].offset <= Len(file)
               /\ pc'[u] = "stored" => mine'[u].offset + got'[u] <= Len(file)
    PROVE  Typed'
BY DEF Typed, TypeOK, Offsets

LEMMA TypedNext == Typed /\ [Next]_vars => Typed'
<1> SUFFICES ASSUME Typed, [Next]_vars PROVE Typed'
  OBVIOUS
<1> USE DEF Goes, Places, Tasks, requests, box
<1>0. Len(file) \in Nat /\ file \in Seq(Lines) /\ Limit \in Nat
  BY TrafficAssumption DEF Typed, TypeOK, Lines
<1>1. ASSUME NEW t \in Threads, NEW what \in Tasks, Begins(t, what) PROVE Typed'
  <2>1. \A u \in Threads :
            \/ mine'[u] = column /\ pc'[u] = "begun"
            \/ mine'[u] = mine[u] /\ pc'[u] = pc[u] /\ got'[u] = got[u]
    BY <1>1 DEF Begins, Typed, TypeOK
  <2>2. QED
    BY <1>1, <2>1, TypedRequest DEF Begins, Typed, TypeOK, Offsets
<1>2. ASSUME NEW t \in Threads, StartRuns(t) PROVE Typed'
  <2>1. Grows
    BY <1>2 DEF StartRuns, Grows, Lines
  <2>2. QED
    BY <1>2, <2>1, TypedBox DEF StartRuns, Typed, TypeOK
<1>3. ASSUME NEW t \in Threads, StartKeeps(t) \/ StopKeeps(t) PROVE Typed'
  <2>1. column' \in Columns /\ column'.offset = mine[t].offset
    BY <1>3 DEF StartKeeps, StopKeeps, Typed, TypeOK, Columns
  <2>2. Return(t) /\ UNCHANGED <<open, rows, pulling, program, file, half>>
    BY <1>3 DEF StartKeeps, StopKeeps
  <2>3. column'.offset <= Len(file)
    BY <2>1 DEF Typed, Offsets
  <2>4. QED
    BY <2>1, <2>2, <2>3, Returned, TypedRequest DEF Typed, TypeOK
<1>4. ASSUME NEW t \in Threads, CloseMarks(t) PROVE Typed'
  <2>1. CASE open /\ mine[t].running
    BY <1>0, <1>4, <2>1, TypedRequest DEF CloseMarks, Typed, TypeOK, Offsets
  <2>2. CASE ~(open /\ mine[t].running)
    <3>1. /\ Return(t) /\ open' \in BOOLEAN
          /\ UNCHANGED <<column, rows, pulling, program, file, half>>
      BY <1>4, <2>2 DEF CloseMarks
    <3>2. QED
      BY <3>1, Returned, TypedRequest DEF Typed, TypeOK
  <2>3. QED
    BY <2>1, <2>2
<1>5. ASSUME NEW t \in Threads, StopAsks(t) \/ StopWaits(t) PROVE Typed'
  BY <1>0, <1>5, TypedRequest DEF StopAsks, StopWaits, Typed, TypeOK, Offsets
<1>6. ASSUME NEW t \in Threads, PullTakes(t) PROVE Typed'
  <2>1. \A u \in Threads :
            \/ mine'[u] = column /\ pc'[u] = "reading"
            \/ mine'[u] = mine[u] /\ pc'[u] = pc[u] /\ got'[u] = got[u]
    BY <1>6 DEF PullTakes, Typed, TypeOK
  <2>2. QED
    BY <1>6, <2>1, TypedRequest DEF PullTakes, Typed, TypeOK, Offsets
<1>7. ASSUME NEW t \in Threads, PullStores(t) PROVE Typed'
  <2>1. /\ Whole(t) \in 0..Limit
        /\ mine[t].offset + Whole(t) <= Len(file)
    BY WholeLines
  <2>2. rows' \subseteq DOMAIN file /\ got' \in [Threads -> 0..Limit]
    BY <1>7, <2>1 DEF PullStores, RecordsOf, Typed, TypeOK
  <2>3. \A u \in Threads :
            /\ mine'[u].offset <= Len(file)
            /\ pc'[u] = "stored" => mine'[u].offset + got'[u] <= Len(file)
    BY <1>7, <2>1 DEF PullStores, Typed, TypeOK, Offsets
  <2>4. QED
    BY <1>7, <2>2, <2>3, TypedRequest DEF PullStores, Typed, TypeOK
<1>8. ASSUME NEW t \in Threads, PullKeeps(t) PROVE Typed'
  <2> DEFINE kept == [mine[t] EXCEPT !.offset = @ + got[t]]
  <2>0. /\ mine[t] \in Columns /\ got[t] \in Nat
        /\ pc[t] = "stored" /\ mine[t].offset + got[t] <= Len(file)
    BY <1>0, <1>8 DEF PullKeeps, Typed, TypeOK, Offsets
  <2>1. kept \in Columns /\ kept.offset <= Len(file) /\ column' = kept
    <3>1. column' = kept
      BY <1>8 DEF PullKeeps
    <3>2. kept = [running |-> mine[t].running, offset |-> mine[t].offset + got[t]]
      BY <2>0 DEF Columns
    <3>3. mine[t].running \in BOOLEAN /\ mine[t].offset + got[t] \in Nat
      BY <2>0 DEF Columns
    <3>4. QED
      BY <2>0, <3>1, <3>2, <3>3 DEF Columns
  <2>2. CASE got[t] = Limit
    <3>1. /\ mine' = [mine EXCEPT ![t] = kept] /\ pc' = [pc EXCEPT ![t] = "reading"]
          /\ UNCHANGED <<pulling, task, got, open, rows, box>>
      BY <1>8, <2>2 DEF PullKeeps
    <3>2. QED
      BY <2>1, <3>1, TypedRequest DEF Typed, TypeOK, Offsets
  <2>3. CASE got[t] # Limit /\ task[t] = "refresh"
    <3>1. pulling' = None /\ Return(t) /\ UNCHANGED <<open, rows, box>>
      BY <1>8, <2>3 DEF PullKeeps
    <3>2. QED
      BY <2>1, <3>1, Returned, TypedRequest DEF Typed, TypeOK
  <2>4. CASE got[t] # Limit /\ task[t] # "refresh"
    <3>1. /\ mine' = [mine EXCEPT ![t] = kept] /\ pc' = [pc EXCEPT ![t] = "pulled"]
          /\ pulling' = None /\ UNCHANGED <<task, got, open, rows, box>>
      BY <1>8, <2>4 DEF PullKeeps
    <3>2. QED
      BY <2>1, <3>1, TypedRequest DEF Typed, TypeOK, Offsets
  <2>5. QED
    BY <2>2, <2>3, <2>4
<1>9. ASSUME NEW t \in Threads, Unreachable(t) PROVE Typed'
  <2>1. column' \in Columns /\ column'.offset <= Len(file)
    <3>1. /\ mine[t] \in Columns /\ mine[t].offset <= Len(file)
          /\ column \in Columns /\ column.offset <= Len(file)
      BY DEF Typed, TypeOK, Offsets
    <3>2. \/ column' = column
          \/ column' = mine[t]
          \/ column' = [mine[t] EXCEPT !.running = FALSE]
      BY <1>9 DEF Unreachable
    <3>3. /\ [mine[t] EXCEPT !.running = FALSE] \in Columns
          /\ [mine[t] EXCEPT !.running = FALSE].offset = mine[t].offset
      BY <3>1 DEF Columns
    <3>4. QED
      BY <3>1, <3>2, <3>3
  <2>2. pulling' \in Threads \cup {None}
    BY <1>9 DEF Unreachable, Typed, TypeOK
  <2>3. Return(t) /\ UNCHANGED <<open, rows, program, file, half>>
    BY <1>9 DEF Unreachable
  <2>4. QED
    BY <2>1, <2>2, <2>3, Returned, TypedRequest DEF Typed, TypeOK
<1>10. ASSUME Restart PROVE Typed'
  <2>1. [running |-> FALSE, offset |-> 0] \in Columns /\ 0 \in 0..Limit
    BY TrafficAssumption DEF Columns
  <2>2. QED
    BY <1>0, <1>10, <2>1, TypedRequest DEF Restart, Typed, TypeOK
<1>11. ASSUME Program PROVE Typed'
  <2>1. Grows
    BY <1>11 DEF Program, WriteBegins, WriteEnds, ProgramEnds, Grows, Lines
  <2>2. QED
    BY <1>11, <2>1, TypedBox DEF Program, WriteBegins, WriteEnds, ProgramEnds, Typed, TypeOK
<1>12. CASE UNCHANGED vars
  BY <1>12 DEF vars, Typed, TypeOK, Offsets
<1>13. QED
  BY <1>1, <1>2, <1>3, <1>4, <1>5, <1>6, <1>7, <1>8, <1>9, <1>10, <1>11, <1>12
     DEF Next, Request, Pull

\* Every variable keeps its type, and no offset points past the file.
THEOREM TypeCorrect == Spec => [](TypeOK /\ Offsets)
<1>1. Spec => []Typed
  BY TypedInit, TypedNext, PTL DEF Spec
<1>2. Typed <=> TypeOK /\ Offsets
  BY DEF Typed
<1>3. QED
  BY <1>1, <1>2, PTL
-----------------------------------------------------------------------------
(* What lies before an offset is counted. *)

\* Nothing lies before the first line.
LEMMA CountedToNothing == ASSUME Typed PROVE CountedTo(0)
BY DEF Typed, TypeOK, CountedTo, RecordsOf

\* A step that changes neither the file nor the rows needs only to look at the
\* offsets it writes.
LEMMA CountedRequest ==
    ASSUME UNCHANGED <<file, rows>>,
           CountedTo(column'.offset),
           \A u \in Threads :
               /\ CountedTo(mine'[u].offset)
               /\ pc'[u] = "stored" => CountedTo(mine'[u].offset + got'[u])
    PROVE  Counted'
<1>1. ASSUME NEW n, CountedTo(n) PROVE \A i \in RecordsOf(file') : i <= n => i \in rows'
  BY <1>1 DEF CountedTo
<1>2. QED
  BY <1>1 DEF Counted, CountedTo

\* A handler that answers.
LEMMA CountedReturn ==
    ASSUME Typed, Counted, NEW t \in Threads, Return(t), UNCHANGED <<file, rows>>,
           CountedTo(column'.offset)
    PROVE  Counted'
<1>1. \A u \in Threads :
          /\ CountedTo(mine'[u].offset)
          /\ pc'[u] = "stored" => CountedTo(mine'[u].offset + got'[u])
  BY Returned, CountedToNothing DEF Counted
<1>2. QED
  BY <1>1, CountedRequest

\* A step that leaves every offset alone, while the file and the rows grow.
LEMMA CountedBox ==
    ASSUME Typed, Counted, Grows, UNCHANGED <<column, mine, got>>, rows \subseteq rows',
           \A u \in Threads : pc'[u] = "stored" => pc[u] = "stored"
    PROVE  Counted'
<1>1. file \in Seq(Lines)
  BY DEF Typed, TypeOK, Lines
<1>2. ASSUME NEW n \in Nat, n <= Len(file), CountedTo(n) PROVE CountedTo(n)'
  BY <1>1, <1>2, StaysCounted
<1>3. CountedTo(column.offset)'
  <2>1. column.offset \in Nat /\ column.offset <= Len(file) /\ CountedTo(column.offset)
    BY DEF Typed, TypeOK, Columns, Counted
  <2>2. QED
    BY <1>2, <2>1 DEF CountedTo
<1>4. ASSUME NEW u \in Threads PROVE CountedTo(mine[u].offset)'
  <2>1. mine[u].offset \in Nat /\ mine[u].offset <= Len(file) /\ CountedTo(mine[u].offset)
    BY DEF Typed, TypeOK, Columns, Counted, Offsets
  <2>2. QED
    BY <1>2, <2>1 DEF CountedTo
<1>5. ASSUME NEW u \in Threads, pc'[u] = "stored" PROVE CountedTo(mine[u].offset + got[u])'
  <2>1. pc[u] = "stored"
    BY <1>5
  <2>2. mine[u].offset \in Nat /\ got[u] \in Nat
    BY TrafficAssumption DEF Typed, TypeOK, Columns
  <2>3. /\ mine[u].offset + got[u] \in Nat
        /\ mine[u].offset + got[u] <= Len(file)
        /\ CountedTo(mine[u].offset + got[u])
    BY <2>1, <2>2 DEF Typed, Counted, Offsets
  <2>4. QED
    BY <1>2, <2>3 DEF CountedTo
<1>6. QED
  BY <1>3, <1>4, <1>5 DEF Counted

LEMMA CountedInit == Init => Counted
BY DEF Init, Counted, CountedTo, RecordsOf

LEMMA CountedNext == Typed /\ Counted /\ [Next]_vars => Counted'
<1> SUFFICES ASSUME Typed, Counted, [Next]_vars PROVE Counted'
  OBVIOUS
<1> USE DEF Goes, requests, box
<1>0. /\ mine \in [Threads -> Columns] /\ pc \in [Threads -> Places]
      /\ got \in [Threads -> 0..Limit]
  BY DEF Typed, TypeOK
<1>1. ASSUME NEW t \in Threads, NEW what \in Tasks, Begins(t, what) PROVE Counted'
  <2>1. \A u \in Threads :
            \/ mine'[u] = column /\ pc'[u] = "begun"
            \/ mine'[u] = mine[u] /\ pc'[u] = pc[u] /\ got'[u] = got[u]
    BY <1>0, <1>1 DEF Begins
  <2>2. UNCHANGED <<file, rows, column>>
    BY <1>1 DEF Begins
  <2>3. QED
    BY <2>1, <2>2, CountedRequest DEF Counted
<1>2. ASSUME NEW t \in Threads, StartRuns(t) PROVE Counted'
  <2>1. Grows
    BY <1>2 DEF StartRuns, Grows, Lines
  <2>2. /\ UNCHANGED <<column, mine, got, rows>>
        /\ \A u \in Threads : pc'[u] = "stored" => pc[u] = "stored"
    BY <1>0, <1>2 DEF StartRuns
  <2>3. QED
    BY <2>1, <2>2, CountedBox
<1>3. ASSUME NEW t \in Threads, StartKeeps(t) \/ StopKeeps(t) PROVE Counted'
  <2>1. Return(t) /\ UNCHANGED <<file, rows>>
    BY <1>3 DEF StartKeeps, StopKeeps
  <2>2. column'.offset = mine[t].offset
    BY <1>0, <1>3 DEF StartKeeps, StopKeeps, Columns
  <2>3. QED
    BY <2>1, <2>2, CountedReturn DEF Counted
<1>4. ASSUME NEW t \in Threads, CloseMarks(t) PROVE Counted'
  <2>1. UNCHANGED <<file, rows, column>>
    BY <1>4 DEF CloseMarks
  <2>2. CASE Return(t)
    BY <2>1, <2>2, CountedReturn DEF Counted
  <2>3. CASE UNCHANGED <<mine, got>> /\ pc' = [pc EXCEPT ![t] = "marked"]
    <3>1. \A u \in Threads : mine'[u] = mine[u] /\ got'[u] = got[u]
                             /\ (pc'[u] = "stored" => pc[u] = "stored")
      BY <1>0, <2>3
    <3>2. QED
      BY <2>1, <3>1, CountedRequest DEF Counted
  <2>4. QED
    BY <1>4, <2>2, <2>3 DEF CloseMarks
<1>5. ASSUME NEW t \in Threads, StopAsks(t) \/ StopWaits(t) PROVE Counted'
  <2>1. /\ UNCHANGED <<file, rows, column, mine, got>>
        /\ \A u \in Threads : pc'[u] = "stored" => pc[u] = "stored"
    BY <1>0, <1>5 DEF StopAsks, StopWaits
  <2>2. QED
    BY <2>1, CountedRequest DEF Counted
<1>6. ASSUME NEW t \in Threads, PullTakes(t) PROVE Counted'
  <2>1. \A u \in Threads :
            \/ mine'[u] = column /\ pc'[u] = "reading"
            \/ mine'[u] = mine[u] /\ pc'[u] = pc[u] /\ got'[u] = got[u]
    BY <1>0, <1>6 DEF PullTakes
  <2>2. UNCHANGED <<file, rows, column>>
    BY <1>6 DEF PullTakes
  <2>3. QED
    BY <2>1, <2>2, CountedRequest DEF Counted
<1>7. ASSUME NEW t \in Threads, PullStores(t) PROVE Counted'
  <2> DEFINE Read == (mine[t].offset + 1)..(mine[t].offset + Whole(t))
  <2>1. /\ rows' = rows \cup (Read \cap RecordsOf(file))
        /\ UNCHANGED <<file, column, mine>>
    BY <1>7 DEF PullStores
  <2>2. ASSUME NEW n, CountedTo(n) PROVE CountedTo(n)'
    BY <2>1, <2>2 DEF CountedTo
  <2>3. CountedTo(column.offset)' /\ \A u \in Threads : CountedTo(mine[u].offset)'
    <3>1. CountedTo(column.offset) /\ \A u \in Threads : CountedTo(mine[u].offset)
      BY DEF Counted
    <3>2. QED
      BY <2>1, <2>2, <3>1 DEF CountedTo
  <2>4. ASSUME NEW i \in RecordsOf(file), i <= mine[t].offset + Whole(t) PROVE i \in rows'
    <3>1. i \in Nat /\ mine[t].offset \in Nat /\ Whole(t) \in Nat
      BY WholeLines, TrafficAssumption DEF RecordsOf, Typed, TypeOK
    <3>2. CASE i <= mine[t].offset
      BY <2>1, <3>2 DEF Counted, CountedTo
    <3>3. CASE i > mine[t].offset
      <4>1. i \in Read
        BY <2>4, <3>1, <3>3
      <4>2. QED
        BY <2>1, <4>1
    <3>4. QED
      BY <3>1, <3>2, <3>3
  <2>5. ASSUME NEW u \in Threads, pc'[u] = "stored" PROVE CountedTo(mine[u].offset + got[u])'
    <3>1. CASE u = t
      <4>1. got'[t] = Whole(t) /\ mine'[t] = mine[t]
        BY <1>0, <1>7 DEF PullStores
      <4>2. QED
        BY <2>1, <2>4, <3>1, <4>1 DEF CountedTo
    <3>2. CASE u # t
      <4>1. pc[u] = "stored" /\ got'[u] = got[u] /\ mine'[u] = mine[u]
        BY <1>0, <1>7, <2>5, <3>2 DEF PullStores
      <4>2. CountedTo(mine[u].offset + got[u])
        BY <4>1 DEF Counted
      <4>3. QED
        BY <2>1, <4>1, <4>2 DEF CountedTo
    <3>3. QED
      BY <3>1, <3>2
  <2>6. QED
    BY <2>3, <2>5 DEF Counted
<1>8. ASSUME NEW t \in Threads, PullKeeps(t) PROVE Counted'
  <2> DEFINE kept == [mine[t] EXCEPT !.offset = @ + got[t]]
  <2>1. /\ CountedTo(kept.offset) /\ column' = kept /\ UNCHANGED <<file, rows>>
    <3>1. column' = kept /\ pc[t] = "stored" /\ UNCHANGED <<file, rows>>
      BY <1>8 DEF PullKeeps
    <3>2. mine[t] \in Columns
      BY <1>0
    <3>3. kept.offset = mine[t].offset + got[t]
      BY <3>2 DEF Columns
    <3>4. QED
      BY <3>1, <3>3 DEF Counted
  <2>2. CASE Return(t)
    BY <2>1, <2>2, CountedReturn
  <2>3. ASSUME NEW place \in {"reading", "pulled"},
               mine' = [mine EXCEPT ![t] = kept], pc' = [pc EXCEPT ![t] = place], got' = got
        PROVE  Counted'
    <3>1. \A u \in Threads :
              \/ mine'[u] = kept /\ pc'[u] # "stored"
              \/ mine'[u] = mine[u] /\ pc'[u] = pc[u] /\ got'[u] = got[u]
      BY <1>0, <2>3
    <3>2. QED
      BY <2>1, <3>1, CountedRequest DEF Counted
  <2>4. QED
    BY <1>8, <2>2, <2>3 DEF PullKeeps
<1>9. ASSUME NEW t \in Threads, Unreachable(t) PROVE Counted'
  <2>1. Return(t) /\ UNCHANGED <<file, rows>>
    BY <1>9 DEF Unreachable
  <2>2. column'.offset \in {column.offset, mine[t].offset}
    BY <1>0, <1>9 DEF Unreachable, Columns
  <2>3. QED
    BY <2>1, <2>2, CountedReturn DEF Counted
<1>10. ASSUME Restart PROVE Counted'
  <2>1. \A u \in Threads : mine'[u].offset = 0 /\ pc'[u] # "stored"
    BY <1>10 DEF Restart
  <2>2. UNCHANGED <<file, rows, column>>
    BY <1>10 DEF Restart
  <2>3. QED
    BY <2>1, <2>2, CountedToNothing, CountedRequest DEF Counted
<1>11. ASSUME Program PROVE Counted'
  <2>1. Grows
    BY <1>11 DEF Program, WriteBegins, WriteEnds, ProgramEnds, Grows, Lines
  <2>2. QED
    BY <1>11, <2>1, CountedBox DEF Program, WriteBegins, WriteEnds, ProgramEnds
<1>12. CASE UNCHANGED vars
  BY <1>12 DEF vars, Counted, CountedTo, RecordsOf
<1>13. QED
  BY <1>1, <1>2, <1>3, <1>4, <1>5, <1>6, <1>7, <1>8, <1>9, <1>10, <1>11, <1>12
     DEF Next, Request, Pull

\* Whatever readings, crashes, lost replies and stale copies of the column
\* interleave, every record in front of the offset is counted.
THEOREM NothingIsLost == Spec => []CountedUpToTheOffset
<1>1. Typed /\ Counted /\ [Next]_vars => (Typed /\ Counted)'
  BY TypedNext, CountedNext
<1>2. Init => Typed /\ Counted
  BY TypedInit, CountedInit
<1>3. Typed /\ Counted => CountedUpToTheOffset
  BY DEF Counted, CountedTo, CountedUpToTheOffset
<1>4. QED
  BY <1>1, <1>2, <1>3, PTL DEF Spec

-----------------------------------------------------------------------------
(* Only records are counted. *)

LEMMA OnlyRecordsNext ==
    Typed /\ OnlyRecordsAreCounted /\ [Next]_vars => OnlyRecordsAreCounted'
<1> SUFFICES ASSUME Typed, OnlyRecordsAreCounted, [Next]_vars PROVE OnlyRecordsAreCounted'
  OBVIOUS
<1> USE DEF requests, box
<1>1. ASSUME NEW t \in Threads, Request(t) PROVE OnlyRecordsAreCounted'
  <2>1. CASE StartRuns(t)
    <3>1. Grows /\ rows' = rows
      BY <2>1 DEF StartRuns, Grows, Lines
    <3>2. RecordsOf(file) \subseteq RecordsOf(file')
      BY <3>1, GrowingFile DEF Typed, TypeOK, Lines
    <3>3. QED
      BY <3>1, <3>2 DEF OnlyRecordsAreCounted
  <2>2. CASE PullStores(t)
    BY <2>2 DEF PullStores, OnlyRecordsAreCounted
  <2>3. CASE UNCHANGED <<file, rows>>
    BY <2>3 DEF OnlyRecordsAreCounted, RecordsOf
  <2>4. QED
    BY <1>1, <2>1, <2>2, <2>3
       DEF Request, Begins, StartKeeps, CloseMarks, StopAsks, StopWaits, StopKeeps,
           Pull, PullTakes, PullKeeps, Unreachable
<1>2. ASSUME Program PROVE OnlyRecordsAreCounted'
  <2>1. Grows /\ rows' = rows
    BY <1>2 DEF Program, WriteBegins, WriteEnds, ProgramEnds, Grows, Lines
  <2>2. RecordsOf(file) \subseteq RecordsOf(file')
    BY <2>1, GrowingFile DEF Typed, TypeOK, Lines
  <2>3. QED
    BY <2>1, <2>2 DEF OnlyRecordsAreCounted
<1>3. CASE Restart \/ UNCHANGED vars
  BY <1>3 DEF Restart, vars, OnlyRecordsAreCounted, RecordsOf
<1>4. QED
  BY <1>1, <1>2, <1>3 DEF Next

\* No reader ever counts a piece of a line, nor what a killed program left.
THEOREM OnlyRecords == Spec => []OnlyRecordsAreCounted
<1>1. Init => OnlyRecordsAreCounted
  BY DEF Init, OnlyRecordsAreCounted
<1>2. Typed /\ OnlyRecordsAreCounted /\ [Next]_vars => (Typed /\ OnlyRecordsAreCounted)'
  BY TypedNext, OnlyRecordsNext
<1>3. QED
  BY <1>1, <1>2, TypedInit, PTL DEF Spec
-----------------------------------------------------------------------------
(* A stop reads the last record, when starts, stops and closes take turns. *)

Ending == {"stop", "close"}

\* A thread that has waited for the program to end.
HasWaited(t) == task[t] \in Ending /\ pc[t] \in {"waiting", "reading", "stored", "pulled"}

InPlace(t) ==
    /\ pc[t] \in {"asked", "waiting", "pulled"} => task[t] \in Ending
    /\ pc[t] \in {"reading", "stored"} => task[t] \in Ending \cup {"refresh"}

\* The program stays off, and what the thread has read comes nearer to its end.
ReadsOn(t) ==
    HasWaited(t) =>
        /\ program = "off"
        /\ pc[t] = "stored" /\ got[t] < Limit => mine[t].offset + got[t] = Len(file)
        /\ pc[t] = "pulled" => mine[t].offset = Len(file)

TakingTurns ==
    /\ \A t, u \in Changing : t = u
    /\ \A t \in Threads : InPlace(t) /\ ReadsOn(t)

Others(t) ==
    \A u \in Threads \ {t} :
        task'[u] = task[u] /\ pc'[u] = pc[u] /\ mine'[u] = mine[u] /\ got'[u] = got[u]

LEMMA OthersStay == ASSUME Typed, NEW t \in Threads, Request(t) PROVE Others(t)
<1> USE DEF Goes, Return, Others, Typed, TypeOK
<1>1. CASE \E what \in Tasks : Begins(t, what)
  BY <1>1 DEF Begins
<1>2. CASE StartRuns(t) \/ StartKeeps(t) \/ CloseMarks(t)
  BY <1>2 DEF StartRuns, StartKeeps, CloseMarks
<1>3. CASE StopAsks(t) \/ StopWaits(t) \/ StopKeeps(t)
  BY <1>3 DEF StopAsks, StopWaits, StopKeeps
<1>4. CASE PullTakes(t) \/ PullStores(t)
  BY <1>4 DEF PullTakes, PullStores
<1>5. CASE PullKeeps(t)
  BY <1>5 DEF PullKeeps
<1>6. CASE Unreachable(t)
  BY <1>6 DEF Unreachable
<1>7. QED
  BY <1>1, <1>2, <1>3, <1>4, <1>5, <1>6 DEF Request, Pull

\* A step of one thread that starts no program.
LEMMA TurnOfOne ==
    ASSUME TakingTurns, NEW t \in Threads, Others(t), UNCHANGED file,
           program' \in {program, "off"},
           task'[t] \in {"start", "stop", "close"} => t \in Changing \/ Changing = {},
           InPlace(t)', ReadsOn(t)'
    PROVE  TakingTurns'
<1>1. \A u, v \in Changing' : u = v
  BY DEF TakingTurns, Changing, Others
<1>2. ASSUME NEW u \in Threads PROVE InPlace(u)' /\ ReadsOn(u)'
  BY DEF TakingTurns, Others, InPlace, ReadsOn, HasWaited
<1>3. QED
  BY <1>1, <1>2 DEF TakingTurns

LEMMA TurnsNext ==
    ASSUME "overlap" \notin Ways
    PROVE  Typed /\ TakingTurns /\ [Next]_vars => TakingTurns'
<1> SUFFICES ASSUME Typed, TakingTurns, [Next]_vars PROVE TakingTurns'
  OBVIOUS
<1> USE DEF Goes, requests, box, Ending
<1>0. /\ mine \in [Threads -> Columns] /\ pc \in [Threads -> Places]
      /\ got \in [Threads -> 0..Limit] /\ task \in [Threads -> Tasks \cup {"none"}]
      /\ Limit \in Nat /\ Len(file) \in Nat
  BY TrafficAssumption DEF Typed, TypeOK
<1>1. ASSUME NEW t \in Threads, Request(t) PROVE TakingTurns'
  <2>0. Others(t) /\ InPlace(t) /\ ReadsOn(t)
    BY <1>1, OthersStay DEF TakingTurns
  <2>1. ASSUME NEW what \in Tasks, Begins(t, what) PROVE TakingTurns'
    <3>1. /\ task'[t] = what /\ pc'[t] = "begun" /\ UNCHANGED <<file, program>>
          /\ what = "refresh" \/ Changing = {}
      BY <1>0, <2>1 DEF Begins
    <3>2. InPlace(t)' /\ ReadsOn(t)'
      BY <3>1 DEF InPlace, ReadsOn, HasWaited
    <3>3. QED
      BY <2>0, <3>1, <3>2, TurnOfOne
  <2>2. CASE StartRuns(t)
    <3>1. /\ task[t] = "start" /\ task' = task
          /\ pc' = [pc EXCEPT ![t] = "started"]
      BY <2>2 DEF StartRuns
    <3>2. \A u \in Changing : u = t
      BY <3>1 DEF TakingTurns, Changing
    <3>3. \A u \in Threads : task'[u] \notin Ending
      BY <3>1, <3>2 DEF Changing
    <3>4. \A u \in Threads : InPlace(u)' /\ ReadsOn(u)'
      BY <1>0, <3>1, <3>3 DEF TakingTurns, InPlace, ReadsOn, HasWaited
    <3>5. QED
      BY <3>1, <3>4 DEF TakingTurns, Changing
  <2>3. ASSUME Return(t), UNCHANGED <<file, program>> PROVE TakingTurns'
    <3>1. task'[t] = "none" /\ pc'[t] = "idle"
      BY <1>0, <2>3 DEF Return
    <3>2. InPlace(t)' /\ ReadsOn(t)'
      BY <3>1 DEF InPlace, ReadsOn, HasWaited
    <3>3. QED
      BY <2>0, <2>3, <3>1, <3>2, TurnOfOne
  <2>4. CASE StartKeeps(t) \/ StopKeeps(t) \/ Unreachable(t)
    BY <2>3, <2>4 DEF StartKeeps, StopKeeps, Unreachable
  <2>5. CASE CloseMarks(t)
    <3>1. CASE Return(t)
      BY <2>3, <2>5, <3>1 DEF CloseMarks
    <3>2. CASE pc' = [pc EXCEPT ![t] = "marked"] /\ UNCHANGED <<task, mine, got>>
      <4>1. /\ task'[t] = "close" /\ t \in Changing /\ pc'[t] = "marked"
            /\ UNCHANGED <<file, program>>
        BY <1>0, <2>5, <3>2 DEF CloseMarks, Changing
      <4>2. InPlace(t)' /\ ReadsOn(t)'
        BY <4>1 DEF InPlace, ReadsOn, HasWaited
      <4>3. QED
        BY <2>0, <4>1, <4>2, TurnOfOne
    <3>3. QED
      BY <2>5, <3>1, <3>2 DEF CloseMarks
  <2>6. CASE StopAsks(t)
    <3>1. /\ task'[t] \in Ending /\ t \in Changing /\ pc'[t] = "asked" /\ file' = file
          /\ pc[t] \in {"begun", "marked"}
      BY <1>0, <2>6 DEF StopAsks, Changing
    <3>2. \A u \in Threads : ~HasWaited(u)
      BY <3>1 DEF TakingTurns, Changing, HasWaited
    <3>3. \A u \in Threads : InPlace(u)' /\ ~HasWaited(u)'
      BY <1>0, <2>0, <3>1, <3>2 DEF TakingTurns, Others, InPlace, HasWaited
    <3>4. Changing' = Changing
      BY <2>6 DEF StopAsks, Changing
    <3>5. QED
      BY <3>3, <3>4 DEF TakingTurns, ReadsOn
  <2>7. CASE StopWaits(t)
    <3>1. /\ task' = task /\ pc'[t] = "waiting" /\ program' = "off" /\ file' = file
          /\ pc[t] = "asked"
      BY <1>0, <2>7 DEF StopWaits
    <3>2. InPlace(t)' /\ ReadsOn(t)'
      BY <2>0, <3>1 DEF InPlace, ReadsOn, HasWaited
    <3>3. t \in Changing
      BY <2>0, <3>1 DEF InPlace, Changing
    <3>4. QED
      BY <2>0, <3>1, <3>2, <3>3, TurnOfOne
  <2>8. CASE PullTakes(t)
    <3>1. /\ task' = task /\ pc'[t] = "reading" /\ UNCHANGED <<program, file>>
          /\ pc[t] = "waiting" \/ (task[t] = "refresh" /\ pc[t] = "begun")
      BY <1>0, <2>8 DEF PullTakes
    <3>2. InPlace(t)' /\ ReadsOn(t)'
      BY <2>0, <3>1 DEF InPlace, ReadsOn, HasWaited
    <3>3. task'[t] \in {"start", "stop", "close"} => t \in Changing
      BY <3>1 DEF Changing
    <3>4. QED
      BY <2>0, <3>1, <3>2, <3>3, TurnOfOne
  <2>9. CASE PullStores(t)
    <3>1. /\ task' = task /\ pc'[t] = "stored" /\ UNCHANGED <<program, file, mine>>
          /\ pc[t] = "reading" /\ got'[t] = Whole(t)
      BY <1>0, <2>9 DEF PullStores
    <3>2. InPlace(t)' /\ ReadsOn(t)'
      BY <2>0, <3>1, WholeLines DEF InPlace, ReadsOn, HasWaited
    <3>3. task'[t] \in {"start", "stop", "close"} => t \in Changing
      BY <3>1 DEF Changing
    <3>4. QED
      BY <2>0, <3>1, <3>2, <3>3, TurnOfOne
  <2>10. CASE PullKeeps(t)
    <3> DEFINE kept == [mine[t] EXCEPT !.offset = @ + got[t]]
    <3>0. /\ pc[t] = "stored" /\ UNCHANGED <<program, file>>
          /\ got[t] \in 0..Limit /\ mine[t] \in Columns
      BY <1>0, <2>10 DEF PullKeeps
    <3>1. CASE got[t] = Limit
      <4>1. task' = task /\ pc'[t] = "reading"
        BY <1>0, <2>10, <3>1 DEF PullKeeps
      <4>2. InPlace(t)' /\ ReadsOn(t)'
        BY <2>0, <3>0, <4>1 DEF InPlace, ReadsOn, HasWaited
      <4>3. task'[t] \in {"start", "stop", "close"} => t \in Changing
        BY <4>1 DEF Changing
      <4>4. QED
        BY <2>0, <3>0, <4>1, <4>2, <4>3, TurnOfOne
    <3>2. CASE got[t] # Limit /\ task[t] = "refresh"
      BY <2>3, <2>10, <3>0, <3>2 DEF PullKeeps
    <3>3. CASE got[t] # Limit /\ task[t] # "refresh"
      <4>1. task' = task /\ pc'[t] = "pulled" /\ mine'[t] = kept
        BY <1>0, <2>10, <3>3 DEF PullKeeps
      <4>2. task[t] \in Ending /\ HasWaited(t) /\ t \in Changing
        BY <2>0, <3>0, <3>3 DEF InPlace, HasWaited, Changing
      <4>3. program = "off" /\ mine[t].offset + got[t] = Len(file)
        BY <1>0, <2>0, <3>0, <3>3, <4>2 DEF ReadsOn
      <4>4. mine'[t].offset = Len(file)
        BY <3>0, <4>1, <4>3 DEF Columns
      <4>5. InPlace(t)' /\ ReadsOn(t)'
        BY <3>0, <4>1, <4>2, <4>3, <4>4 DEF InPlace, ReadsOn
      <4>6. QED
        BY <2>0, <3>0, <4>2, <4>5, TurnOfOne
    <3>4. QED
      BY <3>1, <3>2, <3>3
  <2>11. QED
    BY <1>1, <2>1, <2>2, <2>4, <2>5, <2>6, <2>7, <2>8, <2>9, <2>10 DEF Request, Pull
<1>2. CASE Program
  <2>1. UNCHANGED <<task, pc, mine, got>>
    BY <1>2 DEF Program, WriteBegins, WriteEnds, ProgramEnds
  <2>2. (program' = program /\ program # "off") \/ (program' = "off" /\ file' = file)
    BY <1>2 DEF Program, WriteBegins, WriteEnds, ProgramEnds
  <2>3. \A u \in Threads : InPlace(u)' /\ ReadsOn(u)'
    BY <2>1, <2>2 DEF TakingTurns, InPlace, ReadsOn, HasWaited
  <2>4. QED
    BY <2>1, <2>3 DEF TakingTurns, Changing
<1>3. CASE Restart
  <2>1. \A u \in Threads : task'[u] = "none" /\ pc'[u] = "idle"
    BY <1>3 DEF Restart
  <2>2. QED
    BY <2>1 DEF TakingTurns, Changing, InPlace, ReadsOn, HasWaited
<1>4. CASE UNCHANGED vars
  BY <1>4 DEF vars, TakingTurns, Changing, InPlace, ReadsOn, HasWaited
<1>5. QED
  BY <1>1, <1>2, <1>3, <1>4 DEF Next

\* A stop or a close that reached the box ends with the program off and with
\* every record of the file counted, whatever fails meanwhile.
THEOREM StopsReadTheLast ==
    ASSUME "overlap" \notin Ways
    PROVE  Spec => StopReadsTheLast
<1>1. Init => TakingTurns
  BY DEF Init, TakingTurns, Changing, InPlace, ReadsOn, HasWaited, Ending
<1>2. Typed /\ Counted /\ TakingTurns /\ [Next]_vars => (Typed /\ Counted /\ TakingTurns)'
  BY TypedNext, CountedNext, TurnsNext
<1>3. ASSUME Typed, Counted, TakingTurns, NEW t \in Threads, StopKeeps(t)
      PROVE  program = "off" /\ RecordsOf(file) \subseteq rows
  <2>1. HasWaited(t) /\ pc[t] = "pulled"
    BY <1>3 DEF StopKeeps, TakingTurns, InPlace, HasWaited
  <2>2. program = "off" /\ mine[t].offset = Len(file)
    BY <1>3, <2>1 DEF TakingTurns, ReadsOn
  <2>3. \A i \in RecordsOf(file) : i <= Len(file)
    BY <1>3 DEF Typed, TypeOK, RecordsOf
  <2>4. QED
    BY <1>3, <2>2, <2>3 DEF Counted, CountedTo
<1>4. Typed /\ Counted /\ TakingTurns =>
        [\A t \in Threads :
             StopKeeps(t) => program = "off" /\ RecordsOf(file) \subseteq rows]_vars
  BY <1>3
<1>5. QED
  BY <1>1, <1>2, <1>4, TypedInit, CountedInit, PTL DEF Spec, StopReadsTheLast
=============================================================================
