----------------------------- MODULE SlotService -----------------------------
(***************************************************************************)
(* What the platform promises about slots, whatever its threads, locks and *)
(* workers do: a slot serves one session at a time, a session is served    *)
(* once, and a slot whose reset runs or has failed is given to nobody.     *)
(***************************************************************************)
CONSTANTS Slots, Sessions

VARIABLES
    uses,    \* the pairs <<session, slot>> of the sessions being served
    served,  \* the sessions that were ever given a slot
    state    \* free (or in use), resetting or failed, for each slot

svars == <<uses, served, state>>

SInit ==
    /\ uses = {}
    /\ served = {}
    /\ state = [s \in Slots |-> "free"]

Take(x, s) ==
    /\ x \notin served
    /\ state[s] = "free"
    /\ \A y \in Sessions : <<y, s>> \notin uses
    /\ uses' = uses \cup {<<x, s>>}
    /\ served' = served \cup {x}
    /\ UNCHANGED state

\* The session closes and its slot goes into its reset.
GiveBack(x, s) ==
    /\ <<x, s>> \in uses
    /\ state[s] = "free"
    /\ uses' = uses \ {<<x, s>>}
    /\ state' = [state EXCEPT ![s] = "resetting"]
    /\ UNCHANGED served

\* The session ends without a reset: its open failed.
Drop(x, s) ==
    /\ <<x, s>> \in uses
    /\ uses' = uses \ {<<x, s>>}
    /\ UNCHANGED <<served, state>>

ResetEnds(s) ==
    /\ state[s] = "resetting"
    /\ \E end \in {"free", "failed"} : state' = [state EXCEPT ![s] = end]
    /\ UNCHANGED <<uses, served>>

Forgive(s) ==
    /\ state[s] = "failed"
    /\ state' = [state EXCEPT ![s] = "free"]
    /\ UNCHANGED <<uses, served>>

\* A new process knows of no reset.
Forget ==
    /\ state' = [s \in Slots |-> "free"]
    /\ UNCHANGED <<uses, served>>

SNext ==
    \/ \E x \in Sessions, s \in Slots : Take(x, s) \/ GiveBack(x, s) \/ Drop(x, s)
    \/ \E s \in Slots : ResetEnds(s) \/ Forgive(s)
    \/ Forget

SSpec == SInit /\ [][SNext]_svars
=============================================================================
