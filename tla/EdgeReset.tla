----------------------------- MODULE EdgeReset -----------------------------
(***************************************************************************)
(* How a close puts the edge back: OpenStack.reset_edge, configure_edge and*)
(* the scripts platform/range/opnsense.py renders for the box.             *)
(*                                                                         *)
(* What the edge should hold is the number of a configuration; the one the *)
(* platform wants changes when it is deployed anew, and the one on the box *)
(* when somebody edits the box.  OPNsense rewrites its file when it boots, *)
(* so the box's copy is compared by the digest it had then: the record     *)
(* "settled" pairs the configuration that was pushed with that digest.     *)
(***************************************************************************)
EXTENDS Naturals

CONSTANTS
    Configs,       \* the configurations the platform comes to want, from 1
    MaxTries,      \* HOST_READS: how often a step that got no answer is repeated
    MaxTroubles,   \* how many answers are lost, edits made and checks failed
    MaxResets      \* how many resets begin

EdgeAssumption ==
    /\ MaxTries \in Nat /\ MaxTries > 0 /\ MaxTroubles \in Nat /\ MaxResets \in Nat
    /\ Configs \subseteq Nat \ {0} /\ 1 \in Configs

VARIABLES
    wanted,      \* the configuration the platform renders now
    asked,       \* the one this reset renders
    file,        \* config.xml on the box: <<configuration, rewritten>>
    running,     \* the configuration the box booted with
    settled,     \* <<configuration pushed, digest of config.xml after the boot>>
    rules,       \* the sensor's rule file: "baseline" or "session"
    loaded,      \* the rules its sensor runs
    states,      \* pf holds connections of a session
    rebooting,   \* the box goes down in three seconds
    boots,       \* when it last booted
    before,      \* ... by what the install printed
    step,        \* where the reset is
    tries,       \* how often this step was tried
    way,         \* what a repeated reset begins with
    troubles, resets

edgeVars == <<wanted, asked, file, running, settled, rules, loaded, states, rebooting,
              boots, before, step, tries, way, troubles, resets>>
boxVars == <<file, running, settled, rules, loaded, states, rebooting, boots>>

Edited == 0            \* a config.xml nobody rendered
Digest(f) == f         \* sha256 tells two files apart
Unsettled == <<Edited, <<Edited, FALSE>>>>     \* nothing was recorded
EdgeSteps == {"idle", "in_place", "verify", "install", "reboot", "record", "done", "failed"}

EdgeTypeOK ==
    /\ wanted \in Configs /\ asked \in Configs
    /\ file \in (Configs \cup {Edited}) \X BOOLEAN
    /\ running \in Configs \cup {Edited}
    /\ settled \in (Configs \cup {Edited}) \X ((Configs \cup {Edited}) \X BOOLEAN)
    /\ rules \in {"baseline", "session"} /\ loaded \in {"baseline", "session"}
    /\ states \in BOOLEAN /\ rebooting \in BOOLEAN /\ boots \in Nat /\ before \in Nat
    /\ step \in EdgeSteps /\ tries \in 0..MaxTries
    /\ way \in {"in_place", "install"}
    /\ troubles \in 0..MaxTroubles /\ resets \in 0..MaxResets

\* A slot that was just booted: the image's own configuration, nothing recorded.
EdgeInit ==
    /\ wanted = 1 /\ asked = 1
    /\ file = <<Edited, TRUE>> /\ running = Edited /\ settled = Unsettled
    /\ rules = "baseline" /\ loaded = "baseline" /\ states = FALSE
    /\ rebooting = FALSE /\ boots = 0 /\ before = 0
    /\ step = "idle" /\ tries = 0 /\ troubles = 0 /\ resets = 0 /\ way = "install"

Resting == step \in {"idle", "done", "failed"}

Trouble == troubles < MaxTroubles /\ troubles' = troubles + 1

-----------------------------------------------------------------------------
(* A session, an editor of the box, a new deployment of the platform. *)

SessionUses ==
    /\ step = "done"
    /\ rules' \in {"baseline", "session"} /\ loaded' = rules' /\ states' = TRUE
    /\ UNCHANGED <<wanted, asked, file, running, settled, rebooting, boots, before, step,
                   tries, way, troubles, resets>>

BoxEdited ==
    /\ Resting /\ Trouble
    /\ file' = <<Edited, FALSE>> /\ running' = Edited
    /\ UNCHANGED <<wanted, asked, settled, rules, loaded, states, rebooting, boots, before,
                   step, tries, way, resets>>

Deployed ==
    /\ Resting /\ Trouble
    /\ wanted' \in Configs \ {wanted}
    /\ UNCHANGED <<boxVars, asked, before, step, tries, way, resets>>

-----------------------------------------------------------------------------
(* The box. *)

\* The reboot the install left behind; OPNsense then rewrites its file.
BoxReboots ==
    /\ rebooting
    /\ rebooting' = FALSE /\ boots' = boots + 1
    /\ running' = file[1] /\ file' = <<file[1], TRUE>>
    /\ loaded' = rules /\ states' = FALSE
    /\ UNCHANGED <<wanted, asked, settled, rules, before, step, tries, way, troubles, resets>>

\* verify reads the addresses, the sensor, the collector and one rule.  Another
\* configuration may share them; and on the right one the sensor may not have
\* come up, or the rule may be missing from pf.
HoldsNot ==
    \/ running # asked /\ UNCHANGED troubles
    \/ Trouble

-----------------------------------------------------------------------------
(* The reset. *)

At(now, next) == step = now /\ step' = next /\ tries' = 0

\* A close or a configure: by hand the edge is installed anew.
EdgeBegins ==
    /\ Resting
    /\ resets < MaxResets /\ resets' = resets + 1
    /\ way' \in {"in_place", "install"} /\ step' = way'
    /\ asked' = wanted /\ tries' = 0
    /\ UNCHANGED <<boxVars, wanted, before, troubles>>

\* (Mutant: only the configuration that was pushed is compared.)
DriftOfThePush == settled[1] # asked

\* The rules go back before anything is compared, so they never drift here.
Drift == settled # <<asked, Digest(file)>>

InPlace ==
    /\ rules' = "baseline"
    /\ IF Drift
       THEN At("in_place", "install") /\ UNCHANGED <<loaded, states>>
       ELSE At("in_place", "verify") /\ loaded' = "baseline" /\ states' = FALSE
    /\ UNCHANGED <<wanted, asked, file, running, settled, rebooting, boots, before, way,
                   troubles, resets>>

\* The script failed on its way, or its restarted sensor never answered.
InPlaceFails ==
    /\ Trouble /\ At("in_place", "install")
    /\ rules' \in {rules, "baseline"} /\ loaded' \in {loaded, rules'}
    /\ states' \in {states, FALSE}
    /\ UNCHANGED <<wanted, asked, file, running, settled, rebooting, boots, before, way, resets>>

Verify ==
    /\ ~ rebooting
    /\ \/ At("verify", "done") /\ UNCHANGED troubles
       \/ At("verify", "install") /\ HoldsNot
    /\ UNCHANGED <<boxVars, wanted, asked, before, way, resets>>

\* The script answers with the time the box booted, and then it reboots.
Install ==
    /\ At("install", "reboot")
    /\ file' = <<asked, FALSE>> /\ rules' = "baseline" /\ rebooting' = TRUE
    /\ before' = boots
    /\ UNCHANGED <<wanted, asked, running, settled, loaded, states, boots, way, troubles, resets>>

\* A boot time that differs is the one waited for, and then it must hold, by
\* the last of EDGE_SETTLE_READS readings.
Rebooted ==
    /\ boots # before
    /\ \/ At("reboot", "record") /\ UNCHANGED troubles
       \/ At("reboot", "failed") /\ HoldsNot
    /\ UNCHANGED <<boxVars, wanted, asked, before, way, resets>>

Record ==
    /\ ~ rebooting
    /\ At("record", "done")
    /\ settled' = <<asked, Digest(file)>>
    /\ UNCHANGED <<wanted, asked, file, running, rules, loaded, states, rebooting, boots,
                   before, way, troubles, resets>>

\* It does not come back in time, which is not tried again.
NotBack ==
    /\ Trouble /\ At("reboot", "failed")
    /\ UNCHANGED <<boxVars, wanted, asked, before, way, resets>>

\* (Mutant: once_it_answers never counts its tries to the end.)
UnansweredForever ==
    /\ step \in {"in_place", "verify", "install", "record"} /\ Trouble
    /\ step' = way /\ tries' = tries + 1 /\ asked' = wanted
    /\ UNCHANGED <<boxVars, wanted, before, way, resets>>

\* The box did not answer.  What it was told it may have done; the whole of
\* reset_edge, or of configure_edge, is tried again (once_it_answers).
Unanswered ==
    /\ step \in {"in_place", "verify", "install", "record"} /\ Trouble
    /\ \/ /\ step = "in_place" /\ rules' = "baseline"
          /\ UNCHANGED <<file, running, settled, loaded, states, rebooting, boots>>
       \/ /\ step = "install"
          /\ file' = <<asked, FALSE>> /\ rules' = "baseline" /\ rebooting' = TRUE
          /\ UNCHANGED <<running, settled, loaded, states, boots>>
       \/ /\ step = "record" /\ settled' = <<asked, Digest(file)>>
          /\ UNCHANGED <<file, running, rules, loaded, states, rebooting, boots>>
       \/ UNCHANGED boxVars
    /\ IF tries + 1 < MaxTries
       THEN step' = way /\ tries' = tries + 1 /\ asked' = wanted
       ELSE step' = "failed" /\ tries' = 0 /\ UNCHANGED asked
    /\ UNCHANGED <<wanted, before, way, resets>>

EdgeWorks == InPlace \/ Verify \/ Install \/ Rebooted \/ Record

EdgeNext ==
    \/ SessionUses \/ BoxEdited \/ Deployed \/ BoxReboots
    \/ EdgeBegins \/ EdgeWorks \/ InPlaceFails \/ NotBack \/ Unanswered

EdgeFairness == WF_edgeVars(BoxReboots) /\ WF_edgeVars(EdgeWorks)

EdgeSpec == EdgeInit /\ [][EdgeNext]_edgeVars /\ EdgeFairness

-----------------------------------------------------------------------------
(* Properties. *)

\* A reset that is reported done leaves a box that runs the configuration that
\* was asked for, the baseline rules and nothing of the session: the in-place
\* way, which compares digests only, promises no less than the reinstall.
DoneIsWanted ==
    step # "done" /\ step' = "done" =>
        /\ running' = asked' /\ loaded' = "baseline" /\ rules' = "baseline"
        /\ ~ states' /\ ~ rebooting'
DoneMeansWanted == [][DoneIsWanted]_edgeVars

\* A reset ends, whatever the box fails to answer: a try that is repeated is
\* one of HOST_READS, and the wait for the reboot has a deadline.
EdgeResetEnds == ~ Resting ~> Resting
=============================================================================
