------------------------------ MODULE MCRange ------------------------------
(***************************************************************************)
(* Small instances of what the platform does to the cloud, in one run: the *)
(* images are built, the range is brought up, an edge is reset, the cloud  *)
(* is read and its settings are followed.  `part` says which of them a     *)
(* behaviour is about; the variables of the others stay as they begin.     *)
(* The modules are extended, with the constants Range.cfg gives.           *)
(***************************************************************************)
EXTENDS ImagePipeline, EdgeReset, CloudRange, CloudReading, CloudSettings

VARIABLE part

ASSUME RangeAssumptions ==
    /\ ImageAssumption /\ RangeAssumption /\ EdgeAssumption /\ ReadingAssumption

vars == <<part, imageVars, rangeVars, edgeVars, readingVars, settingsVars>>

\* What the other parts read and connect by is one range and one usual file.
Init ==
    /\ part \in {"images", "range", "edge", "reading", "settings"}
    /\ ImageInit /\ RangeInit /\ EdgeInit /\ ReadingInit
    /\ part # "reading" =>
         /\ \A r \in Adapters : reads[r].slot = 1
         /\ \A s \in ReadSlots : Complete(s)
         /\ \A row \in ServerRows : (row.host = Scorer) = (row.tag = 0) => row \in standing
    /\ part = "reading" => reads["r1"].slot = 1
    /\ IF part = "settings" THEN SettingsInit
       ELSE /\ doc = [unknown |-> FALSE, values |-> Usual] /\ secret = TRUE
            /\ stage = "written" /\ stack = <<>> /\ build = <<>>

\* Requests are alike, and slots: "r1" is the one that begins first, for slot 1.
BeginsFirst == reads'["r2"].phase # "new" => reads'["r1"].phase # "new"

Next ==
    /\ UNCHANGED part
    /\ \/ part = "images" /\ ImageNext
       \/ part = "range" /\ RangeNext
       \/ part = "edge" /\ EdgeNext
       \/ part = "reading" /\ ReadingNext /\ BeginsFirst
       \/ part = "settings" /\ SettingsNext
    /\ part # "images" => UNCHANGED imageVars
    /\ part # "range" => UNCHANGED rangeVars
    /\ part # "edge" => UNCHANGED edgeVars
    /\ part # "reading" => UNCHANGED readingVars
    /\ part # "settings" => UNCHANGED settingsVars

\* The fairness of each module, while the behaviour is about it.
Fairness ==
    /\ SF_imageVars(part = "images" /\ PostBegins)
    /\ SF_imageVars(part = "images" /\ CleanBegins)
    /\ WF_imageVars(part = "images" /\ RequestSteps)
    /\ \A b \in Bundles :
         /\ WF_imageVars(part = "images" /\ SetupEnds(b))
         /\ WF_imageVars(part = "images" /\ NovaStops(b))
         /\ WF_imageVars(part = "images" /\ SnapshotEnds(b))
    /\ WF_rangeVars(part = "range" /\ FabricPost)
    /\ \A s \in Slots : WF_rangeVars(part = "range" /\ Posts(s))
    /\ \A r \in Requests : WF_rangeVars(part = "range" /\ (Step(r) \/ RangeRequestEnds(r)))
    /\ \A h \in Servers : WF_rangeVars(part = "range" /\ NovaDeletes(h))
    /\ WF_edgeVars(part = "edge" /\ BoxReboots) /\ WF_edgeVars(part = "edge" /\ EdgeWorks)

Spec == Init /\ [][Next]_vars /\ Fairness

\* Every variable keeps its type.
RangeTypesOK == ImageTypeOK /\ RangeTypeOK /\ EdgeTypeOK /\ ReadingTypeOK /\ SettingsTypeOK

\* The repeated requests make every image ready and bring the range up, unless
\* a lost call left the management group without its rule, and a reset of the
\* edge ends.
CloudWorkEnds ==
    /\ <>[](/\ part = "images" => AllReady
            /\ part = "range" => AllUp \/ Fenced)
    /\ []<>(part = "edge" => Resting)
=============================================================================
