------------------------ MODULE VerificationService ------------------------
(***************************************************************************)
(* What a scenario session promises of its attacks and of its verification *)
(* windows, whatever ticks, claims, threads and restarts the engine takes: *)
(* an attack is pending until it is settled, once; a window opens when the *)
(* last one has its result, with an attack of every declared case inside   *)
(* it; and it is judged once, after its end, on settled attacks.           *)
(***************************************************************************)
EXTENDS Naturals, Sequences

CONSTANTS
    Plan,     \* the declared attacks, [case, at]
    Length    \* window_minutes

VARIABLES
    time,
    over,     \* the session is closed
    attacks,  \* what was declared, and what each window added
    windows

vvars == <<time, over, attacks, windows>>

Declared == {Plan[i].case : i \in DOMAIN Plan}
Pending(case, due) == [case |-> case, due |-> due, state |-> "pending", outcome |-> "none"]

VInit ==
    /\ time = 0 /\ over = FALSE /\ windows = <<>>
    /\ attacks = [i \in DOMAIN Plan |-> Pending(Plan[i].case, Plan[i].at)]

-----------------------------------------------------------------------------
Within(window) ==
    {n \in DOMAIN attacks : window.start <= attacks[n].due /\ attacks[n].due < window.end}

LastWindow == windows[Len(windows)]
Waits == windows # <<>> /\ LastWindow.result = "none"

\* The cases of which no attack inside the window counts.
Lacks(window) ==
    {case \in Declared : \A n \in Within(window) :
        attacks[n].case = case => attacks[n].state = "cancelled"}

\* One attack of each case the window lacks joins it, in some order, at some
\* time inside it.
Opens(start) ==
    LET window == [start |-> start, end |-> start + Length, result |-> "none"]
        lacks == Lacks(window)
    IN  /\ ~Waits
        /\ windows # <<>> => LastWindow.end <= start
        /\ windows' = Append(windows, window)
        /\ \E k \in 0..Len(Plan) :
             \E order \in [1..k -> lacks], dues \in [1..k -> start..(window.end - 1)] :
                /\ \A case \in lacks : \E i \in 1..k : order[i] = case
                /\ \A i, j \in 1..k : order[i] = order[j] => i = j
                /\ attacks' = attacks \o [i \in 1..k |-> Pending(order[i], dues[i])]
        /\ UNCHANGED <<time, over>>

Fires(n) ==
    /\ attacks[n].state = "pending"
    /\ \/ \E outcome \in {"held", "leaked"} :
              attacks' = [attacks EXCEPT ![n].state = "fired", ![n].outcome = outcome]
       \/ attacks' = [attacks EXCEPT ![n].state = "failed"]
    /\ UNCHANGED <<time, over, windows>>

\* Only a closed session cancels.
Cancels ==
    /\ over
    /\ \E some \in SUBSET {n \in DOMAIN attacks : attacks[n].state = "pending"} :
          attacks' = [n \in DOMAIN attacks |->
                         IF n \in some THEN [attacks[n] EXCEPT !.state = "cancelled"] ELSE attacks[n]]
    /\ UNCHANGED <<time, over, windows>>

Holds(window) ==
    \A n \in Within(window) :
        attacks[n].state = "cancelled" \/ (attacks[n].state = "fired" /\ attacks[n].outcome = "held")

Judges(result) ==
    /\ Waits /\ LastWindow.end <= time
    /\ \A n \in Within(LastWindow) : attacks[n].state # "pending"
    /\ result = "passed" => Holds(LastWindow)
    /\ windows' = [windows EXCEPT ![Len(windows)].result = result]
    /\ UNCHANGED <<time, over, attacks>>

Closes ==
    /\ ~over /\ over' = TRUE
    /\ UNCHANGED <<time, attacks, windows>>

TimeGoesOn ==
    /\ time' = time + 1
    /\ UNCHANGED <<over, attacks, windows>>

VNext ==
    \/ \E start \in 0..time : Opens(start)
    \/ \E n \in DOMAIN attacks : Fires(n)
    \/ Cancels
    \/ \E result \in {"passed", "failed"} : Judges(result)
    \/ Closes \/ TimeGoesOn

VSpec == VInit /\ [][VNext]_vvars
=============================================================================
