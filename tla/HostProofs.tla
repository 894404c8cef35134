----------------------------- MODULE HostProofs -----------------------------
(***************************************************************************)
(* What the platform makes of a host.  An image that is active was made    *)
(* from a builder that came to the end of its setup, for any hosts,        *)
(* digests, room and mishaps but one: a builder whose host is restarted is *)
(* SHUTOFF like one that was stopped because it was ready.  And a reset of *)
(* the edge that is done leaves the configuration that was asked for, for  *)
(* any configurations, any number of tries and any lost answers and edits: *)
(* what the digests of reset_edge are worth.                               *)
(***************************************************************************)
EXTENDS ImagePipeline, EdgeReset, TLAPS


-----------------------------------------------------------------------------
(* The images: the inductive invariant. *)

\* Only a builder that said it is ready is stopped.
StoppedWasReady == \A b \in Bundles : builder[b] \in {"stopping", "off"} => said[b] = "ready"

RecordedIsWhole == \A b \in Bundles : record[b] \in {"saving", "active"} => whole[b]

\* What a step of a POST relies on, of what the POST read when it began.
PlanHolds(st) ==
    /\ st.kind = "boot" => plan[st.bundle[1]] = "missing"
    /\ st.kind = "step" /\ plan[st.bundle[1]] \in {"built", "stopped"} => said[st.bundle] = "ready"
    /\ st.kind = "upload" => plan[st.bundle[1]] = "built" /\ said[st.bundle] = "ready"

PlansHold == request = "post" => \A st \in todo : PlanHolds(st)

ImageInv == ImageTypeOK /\ StoppedWasReady /\ RecordedIsWhole /\ PlansHold

-----------------------------------------------------------------------------
(* The planner. *)

LEMMA ABundleNamesItsHost ==
    ASSUME ImageTypeOK, NEW h \in Images
    PROVE  Current(h) \in Bundles /\ Current(h)[1] = h
  BY DEF ImageTypeOK, Current, Bundles

\* What the planner tells of a bundle is one of its states.
LEMMA StatesAreStates ==
    ASSUME NEW b \in Bundles
    PROVE  StateOf(b) \in States
<1>1. FromBuilder(b) \in States
  BY DEF FromBuilder, States
<1>2. StateOf(b) \in {"ready", "failed", "saving"} \cup {FromBuilder(b)}
  BY DEF StateOf
<1> QED BY <1>1, <1>2 DEF States

\* A bundle it calls built or stopped was ready.
LEMMA BuiltWasReady ==
    ASSUME NEW b \in Bundles, ImageTypeOK, StoppedWasReady, StateOf(b) \in {"built", "stopped"}
    PROVE  said[b] = "ready"
<1>1. FromBuilder(b) \in {"built", "stopped"}
  BY DEF StateOf
<1>2. builder[b] \in BuilderStates
  BY DEF ImageTypeOK
<1>3. Heard(b) = "ready" \/ builder[b] = "off"
  BY <1>1, <1>2 DEF FromBuilder, BuilderStates
<1>4. CASE Heard(b) = "ready"
  BY <1>4 DEF Heard
<1>5. CASE builder[b] = "off"
  BY <1>5 DEF StoppedWasReady
<1> QED BY <1>3, <1>4, <1>5

-----------------------------------------------------------------------------
(* Where it begins, and the two requests that begin. *)

LEMMA ImagesBeginSo == ASSUME ImageAssumption, ImageInit PROVE ImageInv
<1>1. 1 \in Digests /\ 0 \in 0..MaxMishaps
  BY DEF ImageAssumption
<1>2. builder \in [Bundles -> BuilderStates] /\ said \in [Bundles -> {"nothing", "ready", "failed"}]
  BY DEF ImageInit, BuilderStates
<1>3. record \in [Bundles -> RecordStates] /\ whole \in [Bundles -> BOOLEAN]
  BY DEF ImageInit, RecordStates
<1>4. plan \in [Images -> States]
  BY DEF ImageInit, States
<1>5. ImageTypeOK
  BY <1>1, <1>2, <1>3, <1>4 DEF ImageInit, ImageTypeOK
<1>6. StoppedWasReady /\ RecordedIsWhole /\ PlansHold
  BY DEF ImageInit, StoppedWasReady, RecordedIsWhole, PlansHold
<1> QED BY <1>5, <1>6 DEF ImageInv

\* A POST plans for what it read, of one digest.
LEMMA PostsBeginSo == ASSUME ImageInv, PostBegins PROVE ImageInv'
<1> DEFINE now == [h \in Images |-> StateOf(Current(h))]
<1> USE DEF ImageInv
<1>1. UNCHANGED <<digest, builder, said, record, whole, mishaps>> /\ plan' = now /\ request' = "post"
  BY DEF PostBegins
<1>2. now \in [Images -> States]
  BY ABundleNamesItsHost, StatesAreStates
<1>3. PICK hosts \in SUBSET Missing(now) :
        todo' = [kind : {"boot"}, bundle : {Current(h) : h \in hosts}] \cup
                [kind : {"step"}, bundle :
                   {Current(h) : h \in {g \in Images :
                       \/ now[g] \in {"built", "stopped"}
                       \/ now[g] = "ready" /\ Standing(Current(g))}}]
  BY DEF PostBegins
<1>4. ASSUME NEW st \in todo'
      PROVE  st \in Steps /\ PlanHolds(st)'
  <2>1. CASE st \in [kind : {"boot"}, bundle : {Current(h) : h \in hosts}]
    <3>1. PICK h \in hosts : st.bundle = Current(h)
      BY <2>1
    <3>2. h \in Images /\ now[h] = "missing"
      BY <3>1 DEF Missing
    <3>3. st \in Steps
      BY <2>1, <3>1, <3>2, ABundleNamesItsHost DEF Steps
    <3> QED BY <1>1, <2>1, <3>1, <3>2, <3>3, ABundleNamesItsHost DEF PlanHolds
  <2>2. CASE st \in [kind : {"step"}, bundle :
                       {Current(h) : h \in {g \in Images :
                          \/ now[g] \in {"built", "stopped"}
                          \/ now[g] = "ready" /\ Standing(Current(g))}}]
    <3>1. PICK h \in Images : st.bundle = Current(h)
      BY <2>2
    <3>2. st \in Steps /\ st.kind = "step" /\ st.bundle \in Bundles /\ st.bundle[1] = h
      BY <2>2, <3>1, ABundleNamesItsHost DEF Steps
    <3>3. now[h] \in {"built", "stopped"} => said[st.bundle] = "ready"
      BY <3>1, <3>2, BuiltWasReady
    <3> QED BY <1>1, <3>2, <3>3 DEF PlanHolds
  <2> QED BY <1>3, <1>4, <2>1, <2>2
<1>5. ImageTypeOK'
  BY <1>1, <1>2, <1>4 DEF ImageTypeOK
<1> QED BY <1>1, <1>4, <1>5 DEF StoppedWasReady, RecordedIsWhole, PlansHold

LEMMA CleansBeginSo == ASSUME ImageInv, CleanBegins PROVE ImageInv'
<1>1. Removable \subseteq Steps
  BY DEF Removable, Leftovers, Failed, Steps
<1> QED
  BY <1>1 DEF CleanBegins, ImageInv, ImageTypeOK, StoppedWasReady, RecordedIsWhole, PlansHold

-----------------------------------------------------------------------------
(* The steps of a POST. *)

\* What is left to do was to do before.
LEMMA FewerStepsHold ==
    ASSUME ImageInv, UNCHANGED <<request, plan>>, todo' \subseteq todo,
           request = "post" =>
             \A st \in todo' : st.kind \in {"step", "upload"} /\
                (plan[st.bundle[1]] \in {"built", "stopped"}) => said'[st.bundle] = said[st.bundle]
    PROVE  PlansHold' /\ todo' \subseteq Steps
<1>1. todo' \subseteq Steps
  BY DEF ImageInv, ImageTypeOK
<1>2. ASSUME request' = "post", NEW st \in todo'
      PROVE  PlanHolds(st)'
  BY <1>2 DEF ImageInv, PlansHold, PlanHolds
<1> QED BY <1>1, <1>2 DEF PlansHold

LEMMA BootsHold == ASSUME ImageInv, PostBoots PROVE ImageInv'
<1>1. PICK item \in todo :
        /\ request = "post" /\ item.kind = "boot"
        /\ builder' = [builder EXCEPT ![item.bundle] = "active"]
        /\ said' = [said EXCEPT ![item.bundle] = "nothing"]
        /\ todo' = todo \ {item}
        /\ UNCHANGED <<digest, record, whole, request, plan, mishaps>>
  BY DEF PostBoots, Done
<1>2. item \in Steps /\ item.bundle \in Bundles
  BY DEF ImageInv, ImageTypeOK, Steps
<1>3. plan[item.bundle[1]] = "missing"
  BY <1>1 DEF ImageInv, PlansHold, PlanHolds
<1>4. said \in [Bundles -> {"nothing", "ready", "failed"}]
  BY DEF ImageInv, ImageTypeOK
<1>5. ASSUME NEW st \in todo', plan[st.bundle[1]] \in {"built", "stopped"}
      PROVE  said'[st.bundle] = said[st.bundle]
  <2>1. st.bundle # item.bundle /\ st.bundle \in Bundles
    BY <1>1, <1>3, <1>5 DEF ImageInv, ImageTypeOK, Steps
  <2> QED BY <1>1, <1>4, <2>1
<1>6. PlansHold' /\ todo' \subseteq Steps
  BY <1>1, <1>5, FewerStepsHold
<1>7. builder' \in [Bundles -> BuilderStates]
  BY <1>1, <1>2 DEF ImageInv, ImageTypeOK, BuilderStates
<1>8. said' \in [Bundles -> {"nothing", "ready", "failed"}]
  BY <1>1, <1>2, <1>4
<1>9. ImageTypeOK'
  BY <1>1, <1>6, <1>7, <1>8 DEF ImageInv, ImageTypeOK
<1>10. StoppedWasReady'
  BY <1>1, <1>2 DEF ImageInv, ImageTypeOK, StoppedWasReady
<1>11. RecordedIsWhole'
  BY <1>1 DEF ImageInv, RecordedIsWhole
<1> QED BY <1>6, <1>9, <1>10, <1>11 DEF ImageInv

LEMMA StopsHold == ASSUME ImageInv, PostStops PROVE ImageInv'
<1>1. PICK item \in todo :
        /\ request = "post" /\ item.kind = "step" /\ plan[item.bundle[1]] = "built"
        /\ builder' = [builder EXCEPT ![item.bundle] = "stopping"]
        /\ todo' = todo \ {item}
        /\ UNCHANGED <<digest, said, record, whole, request, plan, mishaps>>
  BY DEF PostStops, Advancing, Done
<1>2. item.bundle \in Bundles
  BY DEF ImageInv, ImageTypeOK, Steps
<1>3. said[item.bundle] = "ready"
  BY <1>1 DEF ImageInv, PlansHold, PlanHolds
<1>4. PlansHold' /\ todo' \subseteq Steps
  BY <1>1, FewerStepsHold
<1>5. builder' \in [Bundles -> BuilderStates]
  BY <1>1, <1>2 DEF ImageInv, ImageTypeOK, BuilderStates
<1>6. ImageTypeOK'
  BY <1>1, <1>4, <1>5 DEF ImageInv, ImageTypeOK
<1>7. StoppedWasReady'
  BY <1>1, <1>2, <1>3 DEF ImageInv, ImageTypeOK, StoppedWasReady
<1>8. RecordedIsWhole'
  BY <1>1 DEF ImageInv, RecordedIsWhole
<1> QED BY <1>4, <1>6, <1>7, <1>8 DEF ImageInv

\* A snapshot or an upload fills a record with the disk of a builder that was
\* ready when the plan was read, and is still.
LEMMA FillsHold == ASSUME ImageInv, PostSnapshots \/ PostUploads PROVE ImageInv'
<1>1. PICK item \in todo : \E state \in {"saving", "active"} :
        /\ \/ item.kind = "step" /\ plan[item.bundle[1]] = "stopped"
           \/ item.kind = "upload"
        /\ request = "post"
        /\ record' = [record EXCEPT ![item.bundle] = state]
        /\ whole' = [whole EXCEPT ![item.bundle] = said[item.bundle] = "ready"]
        /\ todo' = todo \ {item}
        /\ UNCHANGED <<digest, builder, said, request, plan, mishaps>>
  BY DEF PostSnapshots, PostUploads, Advancing, Done
<1>2. item.bundle \in Bundles
  BY DEF ImageInv, ImageTypeOK, Steps
<1>3. said[item.bundle] = "ready"
  BY <1>1 DEF ImageInv, PlansHold, PlanHolds
<1>4. PlansHold' /\ todo' \subseteq Steps
  BY <1>1, FewerStepsHold
<1>5. record' \in [Bundles -> RecordStates]
  BY <1>1, <1>2 DEF ImageInv, ImageTypeOK, RecordStates
<1>6. whole' = [whole EXCEPT ![item.bundle] = TRUE]
  BY <1>1, <1>3
<1>7. whole' \in [Bundles -> BOOLEAN]
  BY <1>2, <1>6 DEF ImageInv, ImageTypeOK
<1>8. ImageTypeOK'
  BY <1>1, <1>4, <1>5, <1>7 DEF ImageInv, ImageTypeOK
<1>9. StoppedWasReady'
  BY <1>1 DEF ImageInv, StoppedWasReady
<1>10. ASSUME NEW b \in Bundles, record'[b] \in {"saving", "active"}
       PROVE  whole'[b]
  <2>1. CASE b = item.bundle
    BY <1>2, <1>6, <2>1 DEF ImageInv, ImageTypeOK
  <2>2. CASE b # item.bundle
    <3>1. record'[b] = record[b]
      BY <1>1, <1>2, <2>2 DEF ImageInv, ImageTypeOK
    <3>2. whole'[b] = whole[b]
      BY <1>6, <2>2 DEF ImageInv, ImageTypeOK
    <3>3. record[b] \in {"saving", "active"}
      BY <1>10, <3>1
    <3> QED BY <3>2, <3>3 DEF ImageInv, RecordedIsWhole
  <2> QED BY <2>1, <2>2
<1> QED BY <1>4, <1>8, <1>9, <1>10 DEF ImageInv, RecordedIsWhole

LEMMA RecordsHold == ASSUME ImageInv, PostRecords PROVE ImageInv'
<1>1. PICK item \in todo :
        /\ request = "post" /\ item.kind = "step" /\ plan[item.bundle[1]] = "built"
        /\ record' = [record EXCEPT ![item.bundle] = "queued"]
        /\ todo' = (todo \ {item}) \cup {[item EXCEPT !.kind = "upload"]}
        /\ UNCHANGED <<digest, builder, said, whole, request, plan, mishaps>>
  BY DEF PostRecords, Advancing
<1> DEFINE upload == [item EXCEPT !.kind = "upload"]
<1>2. item \in Steps /\ item.bundle \in Bundles
  BY DEF ImageInv, ImageTypeOK, Steps
<1>3. upload \in Steps /\ upload.kind = "upload" /\ upload.bundle = item.bundle
  BY <1>2 DEF Steps
<1>4. said[item.bundle] = "ready"
  BY <1>1 DEF ImageInv, PlansHold, PlanHolds
<1>5. PlanHolds(upload)'
  BY <1>1, <1>3, <1>4 DEF PlanHolds
<1>6. \A st \in todo : PlanHolds(st)'
  BY <1>1 DEF ImageInv, PlansHold, PlanHolds
<1>7. PlansHold'
  BY <1>1, <1>5, <1>6 DEF PlansHold
<1>8. todo' \subseteq Steps
  BY <1>1, <1>3 DEF ImageInv, ImageTypeOK
<1>9. record' \in [Bundles -> RecordStates]
  BY <1>1, <1>2 DEF ImageInv, ImageTypeOK, RecordStates
<1>10. ImageTypeOK'
  BY <1>1, <1>8, <1>9 DEF ImageInv, ImageTypeOK
<1>11. StoppedWasReady'
  BY <1>1 DEF ImageInv, StoppedWasReady
<1>12. RecordedIsWhole'
  BY <1>1, <1>2 DEF ImageInv, ImageTypeOK, RecordedIsWhole
<1> QED BY <1>7, <1>10, <1>11, <1>12 DEF ImageInv

LEMMA DeletesHold == ASSUME ImageInv, PostDeletes PROVE ImageInv'
<1>1. PICK item \in todo :
        /\ builder' = [builder EXCEPT ![item.bundle] = "absent"]
        /\ todo' = todo \ {item}
        /\ UNCHANGED <<digest, said, record, whole, request, plan, mishaps>>
  BY DEF PostDeletes, Done
<1>2. item.bundle \in Bundles
  BY DEF ImageInv, ImageTypeOK, Steps
<1>3. PlansHold' /\ todo' \subseteq Steps
  BY <1>1, FewerStepsHold
<1>4. builder' \in [Bundles -> BuilderStates]
  BY <1>1, <1>2 DEF ImageInv, ImageTypeOK, BuilderStates
<1>5. ImageTypeOK'
  BY <1>1, <1>3, <1>4 DEF ImageInv, ImageTypeOK
<1>6. StoppedWasReady'
  BY <1>1, <1>2 DEF ImageInv, ImageTypeOK, StoppedWasReady
<1>7. RecordedIsWhole'
  BY <1>1 DEF ImageInv, RecordedIsWhole
<1> QED BY <1>3, <1>5, <1>6, <1>7 DEF ImageInv

-----------------------------------------------------------------------------
(* A DELETE, and the end of a request. *)

LEMMA CleansHold == ASSUME ImageInv, CleanRemoves PROVE ImageInv'
<1>1. PICK item \in todo :
        /\ request = "clean"
        /\ IF item.kind = "server"
           THEN builder' = [builder EXCEPT ![item.bundle] = "absent"] /\ UNCHANGED <<record, whole>>
           ELSE /\ record' = [record EXCEPT ![item.bundle] = "absent"]
                /\ whole' = [whole EXCEPT ![item.bundle] = FALSE]
                /\ UNCHANGED builder
        /\ todo' = todo \ {item}
        /\ UNCHANGED <<digest, said, request, plan, mishaps>>
  BY DEF CleanRemoves, Done
<1>2. item.bundle \in Bundles
  BY DEF ImageInv, ImageTypeOK, Steps
<1>3. PlansHold' /\ todo' \subseteq Steps
  BY <1>1, FewerStepsHold
<1>4. CASE item.kind = "server"
  <2>1. builder' \in [Bundles -> BuilderStates]
    BY <1>1, <1>2, <1>4 DEF ImageInv, ImageTypeOK, BuilderStates
  <2>2. ImageTypeOK'
    BY <1>1, <1>3, <1>4, <2>1 DEF ImageInv, ImageTypeOK
  <2>3. StoppedWasReady'
    BY <1>1, <1>2, <1>4 DEF ImageInv, ImageTypeOK, StoppedWasReady
  <2>4. RecordedIsWhole'
    BY <1>1, <1>4 DEF ImageInv, RecordedIsWhole
  <2> QED BY <1>3, <2>2, <2>3, <2>4 DEF ImageInv
<1>5. CASE item.kind # "server"
  <2>1. record' \in [Bundles -> RecordStates]
    BY <1>1, <1>2, <1>5 DEF ImageInv, ImageTypeOK, RecordStates
  <2>2. whole' \in [Bundles -> BOOLEAN]
    BY <1>1, <1>2, <1>5 DEF ImageInv, ImageTypeOK
  <2>3. ImageTypeOK'
    BY <1>1, <1>3, <1>5, <2>1, <2>2 DEF ImageInv, ImageTypeOK
  <2>4. StoppedWasReady'
    BY <1>1, <1>5 DEF ImageInv, StoppedWasReady
  <2>5. RecordedIsWhole'
    BY <1>1, <1>2, <1>5 DEF ImageInv, ImageTypeOK, RecordedIsWhole
  <2> QED BY <1>3, <2>3, <2>4, <2>5 DEF ImageInv
<1> QED BY <1>4, <1>5

\* A request that ends, and a deployment that ends it, leave nothing to do.
LEMMA EndsHold == ASSUME ImageAssumption, ImageInv, RequestEnds \/ Redeployed PROVE ImageInv'
<1>1. /\ request' = "none" /\ todo' = {} /\ plan' = [h \in Images |-> "missing"]
      /\ UNCHANGED <<builder, said, record, whole>>
  BY DEF RequestEnds, Redeployed
<1>2. digest' \in Digests
  BY DEF RequestEnds, Redeployed, ImageInv, ImageTypeOK
<1>3. mishaps' \in 0..MaxMishaps
  <2>1. UNCHANGED mishaps \/ (mishaps < MaxMishaps /\ mishaps' = mishaps + 1)
    BY DEF RequestEnds, Redeployed, GoesWrong
  <2> QED BY <2>1 DEF ImageAssumption, ImageInv, ImageTypeOK
<1>4. plan' \in [Images -> States]
  BY <1>1 DEF States
<1> QED
  BY <1>1, <1>2, <1>3, <1>4
  DEF ImageInv, ImageTypeOK, StoppedWasReady, RecordedIsWhole, PlansHold

-----------------------------------------------------------------------------
(* The cloud. *)

\* A builder moves on: what it said while it was ready it goes on saying, and
\* nothing but a stop turns it off.
LEMMA BuildersMove ==
    ASSUME ImageAssumption, ImageInv, "poweroff" \notin BuildMishaps, NEW b \in Bundles,
           SetupEnds(b) \/ NovaStops(b) \/ BuilderBreaks(b)
    PROVE  ImageInv'
<1>1. PICK where \in BuilderStates, says \in {"nothing", "ready", "failed"} :
        /\ Settles(b, where, says)
        /\ said[b] # "nothing" => says = said[b]
        /\ where \in {"stopping", "off"} => builder[b] = "stopping" /\ says = said[b]
  BY DEF SetupEnds, NovaStops, BuilderBreaks, BuilderStates, GoesWrong, ImageInv, ImageTypeOK
<1>2. /\ builder' = [builder EXCEPT ![b] = where] /\ said' = [said EXCEPT ![b] = says]
      /\ UNCHANGED <<digest, record, whole, request, plan, todo>>
  BY <1>1 DEF Settles
<1>3. mishaps' \in 0..MaxMishaps
  <2>1. UNCHANGED mishaps \/ (mishaps < MaxMishaps /\ mishaps' = mishaps + 1)
    BY DEF SetupEnds, NovaStops, BuilderBreaks, GoesWrong
  <2> QED BY <2>1 DEF ImageAssumption, ImageInv, ImageTypeOK
<1>4. builder' \in [Bundles -> BuilderStates] /\ said' \in [Bundles -> {"nothing", "ready", "failed"}]
  BY <1>2 DEF ImageInv, ImageTypeOK
<1>5. ImageTypeOK'
  BY <1>2, <1>3, <1>4 DEF ImageInv, ImageTypeOK
<1>6. \A c \in Bundles : said[c] = "ready" => said'[c] = "ready"
  BY <1>1, <1>2 DEF ImageInv, ImageTypeOK
<1>7. StoppedWasReady'
  BY <1>1, <1>2, <1>6 DEF ImageInv, ImageTypeOK, StoppedWasReady
<1>8. RecordedIsWhole'
  BY <1>2 DEF ImageInv, RecordedIsWhole
<1>9. ASSUME NEW st \in todo, request = "post"
      PROVE  PlanHolds(st)'
  <2>1. st.bundle \in Bundles
    BY DEF ImageInv, ImageTypeOK, Steps
  <2>2. PlanHolds(st)
    BY <1>9 DEF ImageInv, PlansHold
  <2> QED BY <1>2, <1>6, <2>1, <2>2 DEF PlanHolds
<1>10. PlansHold'
  BY <1>2, <1>9 DEF PlansHold
<1> QED BY <1>5, <1>7, <1>8, <1>10 DEF ImageInv

LEMMA SnapshotsEnd ==
    ASSUME ImageAssumption, ImageInv, NEW b \in Bundles, SnapshotEnds(b)
    PROVE  ImageInv'
<1>1. PICK state \in {"active", "killed"} : record' = [record EXCEPT ![b] = state]
  BY DEF SnapshotEnds
<1>2. record[b] = "saving" /\ UNCHANGED <<digest, builder, said, whole, request, plan, todo>>
  BY DEF SnapshotEnds
<1>3. mishaps' \in 0..MaxMishaps
  <2>1. UNCHANGED mishaps \/ (mishaps < MaxMishaps /\ mishaps' = mishaps + 1)
    BY DEF SnapshotEnds, GoesWrong
  <2> QED BY <2>1 DEF ImageAssumption, ImageInv, ImageTypeOK
<1>4. record' \in [Bundles -> RecordStates]
  BY <1>1 DEF ImageInv, ImageTypeOK, RecordStates
<1>5. ImageTypeOK'
  BY <1>2, <1>3, <1>4 DEF ImageInv, ImageTypeOK
<1>6. \A c \in Bundles : record'[c] \in {"saving", "active"} => record[c] \in {"saving", "active"}
  BY <1>1, <1>2 DEF ImageInv, ImageTypeOK
<1>7. RecordedIsWhole'
  BY <1>2, <1>6 DEF ImageInv, RecordedIsWhole
<1>8. StoppedWasReady' /\ PlansHold'
  BY <1>2 DEF ImageInv, StoppedWasReady, PlansHold, PlanHolds
<1> QED BY <1>5, <1>7, <1>8 DEF ImageInv

-----------------------------------------------------------------------------

LEMMA ImagesStaySo ==
    ASSUME ImageAssumption, ImageInv, "poweroff" \notin BuildMishaps, [ImageNext]_imageVars
    PROVE  ImageInv'
<1>1. CASE UNCHANGED imageVars
  BY <1>1 DEF ImageInv, ImageTypeOK, StoppedWasReady, RecordedIsWhole, PlansHold, PlanHolds,
              imageVars
<1>2. CASE RequestSteps
  BY <1>2, BootsHold, StopsHold, FillsHold, RecordsHold, DeletesHold, CleansHold, EndsHold
  DEF RequestSteps
<1>3. CASE PostBegins \/ CleanBegins \/ Redeployed
  BY <1>3, PostsBeginSo, CleansBeginSo, EndsHold
<1>4. CASE CloudSteps \/ \E b \in Bundles : BuilderBreaks(b)
  BY <1>4, BuildersMove, SnapshotsEnd DEF CloudSteps
<1> QED BY <1>1, <1>2, <1>3, <1>4 DEF ImageNext

\* Where no builder's host is restarted, the types and the invariant hold.
THEOREM ImagesStayTyped ==
    ASSUME ImageAssumption, "poweroff" \notin BuildMishaps
    PROVE  ImageSpec => []ImageInv
<1>1. ImageInit => ImageInv
  BY ImagesBeginSo
<1>2. ImageInv /\ [ImageNext]_imageVars => ImageInv'
  BY ImagesStaySo
<1> QED BY <1>1, <1>2, PTL DEF ImageSpec

\* An image that is used to boot a host holds what its setup script made to
\* the end, whatever fails, is cut short or is deployed anew between the steps.
THEOREM ReadyImagesAreWhole ==
    ASSUME ImageAssumption, "poweroff" \notin BuildMishaps
    PROVE  ImageSpec => []ReadyIsWhole
<1>1. ImageInv => ReadyIsWhole
  BY DEF ImageInv, RecordedIsWhole, ReadyIsWhole
<1> QED BY <1>1, ImagesStayTyped, PTL


-----------------------------------------------------------------------------
(* The edge: the inductive invariant. *)

\* OPNsense rewrites its file when it boots, and runs what it then read.
FileTellsBoots ==
    /\ file[2] => running = file[1]
    /\ rebooting => ~ file[2]

\* What is recorded as settled is a file as a boot left it.
SettledIsABoot == settled[1] # Edited => settled[2] = <<settled[1], TRUE>>

Cleared == rules = "baseline" /\ loaded = "baseline" /\ ~ states

\* Where nothing drifted, the box's file is the recorded one.
VerifiesTheSettled ==
    step = "verify" => settled = <<asked, file>> /\ Cleared

Booted == file = <<asked, TRUE>> /\ Cleared /\ ~ rebooting

\* After an install the box is about to reboot, or has done so since.
WaitsForTheBoot ==
    /\ step = "reboot" =>
         IF boots = before THEN file = <<asked, FALSE>> /\ rules = "baseline" ELSE Booted
    /\ step = "record" => Booted

EdgeInv ==
    /\ EdgeTypeOK /\ FileTellsBoots /\ SettledIsABoot
    /\ VerifiesTheSettled /\ WaitsForTheBoot

-----------------------------------------------------------------------------

\* A reset begins with nothing recorded and the image's own file.
LEMMA EdgeBeginsSo == ASSUME EdgeAssumption, EdgeInit PROVE EdgeInv
<1>1. 1 \in Configs /\ MaxTries \in Nat /\ MaxTroubles \in Nat /\ MaxResets \in Nat
  BY DEF EdgeAssumption
<1>2. wanted \in Configs /\ asked \in Configs /\ running \in Configs \cup {Edited}
  BY <1>1 DEF EdgeInit
<1>3. file \in (Configs \cup {Edited}) \X BOOLEAN
  BY DEF EdgeInit
<1>4. settled \in (Configs \cup {Edited}) \X ((Configs \cup {Edited}) \X BOOLEAN)
  BY DEF EdgeInit, Unsettled
<1>5. /\ rules \in {"baseline", "session"} /\ loaded \in {"baseline", "session"}
      /\ states \in BOOLEAN /\ rebooting \in BOOLEAN /\ boots \in Nat /\ before \in Nat
  BY DEF EdgeInit
<1>6. step \in EdgeSteps /\ way \in {"in_place", "install"}
  BY DEF EdgeInit, EdgeSteps
<1>7. tries \in 0..MaxTries /\ troubles \in 0..MaxTroubles /\ resets \in 0..MaxResets
  BY <1>1 DEF EdgeInit
<1>8. EdgeTypeOK
  BY <1>2, <1>3, <1>4, <1>5, <1>6, <1>7 DEF EdgeTypeOK
<1>9. FileTellsBoots /\ SettledIsABoot
  BY DEF EdgeInit, FileTellsBoots, SettledIsABoot, Unsettled
<1>10. VerifiesTheSettled /\ WaitsForTheBoot
  BY DEF EdgeInit, VerifiesTheSettled, WaitsForTheBoot
<1> QED BY <1>8, <1>9, <1>10 DEF EdgeInv

\* The types of what goes on beside a reset, and of its steps.
LEMMA StepsKeepTheTypes ==
    ASSUME EdgeAssumption, EdgeTypeOK, EdgeNext
    PROVE  EdgeTypeOK'
<1>1. 0 \in 0..MaxTries /\ MaxTroubles \in Nat /\ MaxResets \in Nat /\ MaxTries \in Nat
  BY DEF EdgeAssumption
<1> USE DEF EdgeTypeOK
<1>2. CASE SessionUses
  BY <1>2 DEF SessionUses
<1>3. CASE BoxEdited
  <2>1. file' \in (Configs \cup {Edited}) \X BOOLEAN /\ running' \in Configs \cup {Edited}
    BY <1>3 DEF BoxEdited
  <2>2. troubles' \in 0..MaxTroubles
    BY <1>3, <1>1 DEF BoxEdited, Trouble
  <2> QED BY <1>3, <2>1, <2>2 DEF BoxEdited
<1>4. CASE Deployed
  BY <1>4, <1>1 DEF Deployed, Trouble, boxVars
<1>5. CASE BoxReboots
  <2>1. file[1] \in Configs \cup {Edited}
    OBVIOUS
  <2>2. file' \in (Configs \cup {Edited}) \X BOOLEAN /\ running' \in Configs \cup {Edited}
    BY <1>5, <2>1 DEF BoxReboots
  <2>3. boots' = boots + 1 /\ rebooting' = FALSE /\ states' = FALSE /\ loaded' = rules
    BY <1>5 DEF BoxReboots
  <2>4. UNCHANGED <<wanted, asked, settled, rules, before, step, tries, way, troubles, resets>>
    BY <1>5 DEF BoxReboots
  <2>5. boots \in Nat /\ rules \in {"baseline", "session"}
    OBVIOUS
  <2>6. boots' \in Nat
    <3> HIDE DEF EdgeTypeOK
    <3> QED BY <2>3, <2>5
  <2>7. rebooting' \in BOOLEAN /\ states' \in BOOLEAN
    <3> HIDE DEF EdgeTypeOK
    <3> QED BY <2>3
  <2>8. loaded' \in {"baseline", "session"}
    <3> HIDE DEF EdgeTypeOK
    <3> QED BY <2>3, <2>5
  <2> QED BY <2>2, <2>4, <2>6, <2>7, <2>8
<1>6. CASE EdgeBegins
  <2>1. step' \in EdgeSteps
    BY <1>6 DEF EdgeBegins, EdgeSteps
  <2> QED BY <1>6, <1>1, <2>1 DEF EdgeBegins, boxVars
<1>7. CASE InPlace
  <2>1. step' \in EdgeSteps
    BY <1>7 DEF InPlace, At, EdgeSteps
  <2>2. loaded' \in {"baseline", "session"} /\ states' \in BOOLEAN
    BY <1>7 DEF InPlace
  <2> QED BY <1>7, <1>1, <2>1, <2>2 DEF InPlace, At
<1>8. CASE Verify
  <2>1. step' \in EdgeSteps
    BY <1>8 DEF Verify, At, EdgeSteps
  <2>2. troubles' \in 0..MaxTroubles
    BY <1>8, <1>1 DEF Verify, HoldsNot, Trouble
  <2> QED BY <1>8, <1>1, <2>1, <2>2 DEF Verify, At, boxVars
<1>9. CASE Install
  <2>1. step' \in EdgeSteps
    BY <1>9 DEF Install, At, EdgeSteps
  <2> QED BY <1>9, <1>1, <2>1 DEF Install, At
<1>10. CASE Rebooted
  <2>1. step' \in EdgeSteps
    BY <1>10 DEF Rebooted, At, EdgeSteps
  <2>2. troubles' \in 0..MaxTroubles
    BY <1>10, <1>1 DEF Rebooted, HoldsNot, Trouble
  <2> QED BY <1>10, <1>1, <2>1, <2>2 DEF Rebooted, At, boxVars
<1>11. CASE Record
  <2>1. step' \in EdgeSteps
    BY <1>11 DEF Record, At, EdgeSteps
  <2>2. settled' \in (Configs \cup {Edited}) \X ((Configs \cup {Edited}) \X BOOLEAN)
    BY <1>11 DEF Record, Digest
  <2> QED BY <1>11, <1>1, <2>1, <2>2 DEF Record, At
<1>12. CASE NotBack
  <2>1. step' \in EdgeSteps
    BY <1>12 DEF NotBack, At, EdgeSteps
  <2> QED BY <1>12, <1>1, <2>1 DEF NotBack, At, Trouble, boxVars
<1>13. CASE Unanswered
  <2>1. step' \in EdgeSteps
    BY <1>13 DEF Unanswered, EdgeSteps
  <2>2. tries' \in 0..MaxTries /\ asked' \in Configs /\ troubles' \in 0..MaxTroubles
    BY <1>13, <1>1 DEF Unanswered, Trouble
  <2>3. file' \in (Configs \cup {Edited}) \X BOOLEAN
    <3>1. UNCHANGED file \/ file' = <<asked, FALSE>>
      BY <1>13 DEF Unanswered, boxVars
    <3>2. <<asked, FALSE>> \in (Configs \cup {Edited}) \X BOOLEAN
      OBVIOUS
    <3> QED BY <3>1, <3>2
  <2>4. settled' \in (Configs \cup {Edited}) \X ((Configs \cup {Edited}) \X BOOLEAN)
    <3>1. UNCHANGED settled \/ settled' = <<asked, file>>
      BY <1>13 DEF Unanswered, Digest, boxVars
    <3>2. <<asked, file>> \in (Configs \cup {Edited}) \X ((Configs \cup {Edited}) \X BOOLEAN)
      OBVIOUS
    <3> QED BY <3>1, <3>2
  <2>5. /\ rules' \in {"baseline", "session"} /\ rebooting' \in BOOLEAN
        /\ UNCHANGED <<running, loaded, states, boots>>
    BY <1>13 DEF Unanswered, boxVars
  <2> QED BY <1>13, <2>1, <2>2, <2>3, <2>4, <2>5 DEF Unanswered
<1>14. CASE InPlaceFails
  <2>1. step' \in EdgeSteps
    BY <1>14 DEF InPlaceFails, At, EdgeSteps
  <2>2. rules' \in {"baseline", "session"} /\ loaded' \in {"baseline", "session"}
        /\ states' \in BOOLEAN
    BY <1>14 DEF InPlaceFails
  <2>3. troubles' \in 0..MaxTroubles
    BY <1>14, <1>1 DEF InPlaceFails, Trouble
  <2> QED BY <1>14, <1>1, <2>1, <2>2, <2>3 DEF InPlaceFails, At
<1> QED
  BY <1>2, <1>3, <1>4, <1>5, <1>6, <1>7, <1>8, <1>9, <1>10, <1>11, <1>12, <1>13, <1>14
  DEF EdgeNext, EdgeWorks

-----------------------------------------------------------------------------
(* The four conjuncts that are not types. *)

\* Only a boot makes a file the box's own, and it runs that file.
LEMMA FilesTellBoots ==
    ASSUME EdgeInv, EdgeNext
    PROVE  FileTellsBoots'
<1> USE DEF EdgeInv, FileTellsBoots, EdgeTypeOK
<1>1. CASE SessionUses BY <1>1 DEF SessionUses
<1>2. CASE BoxEdited BY <1>2 DEF BoxEdited
<1>3. CASE Deployed BY <1>3 DEF Deployed, boxVars
<1>4. CASE BoxReboots BY <1>4 DEF BoxReboots
<1>5. CASE EdgeBegins BY <1>5 DEF EdgeBegins, boxVars
<1>6. CASE InPlace BY <1>6 DEF InPlace
<1>7. CASE Verify BY <1>7 DEF Verify, boxVars
<1>8. CASE Install BY <1>8 DEF Install
<1>9. CASE Rebooted BY <1>9 DEF Rebooted, boxVars
<1>10. CASE Record BY <1>10 DEF Record
<1>11. CASE NotBack BY <1>11 DEF NotBack, boxVars
<1>12. CASE Unanswered
  <2>1. CASE UNCHANGED <<file, running, rebooting>>
    BY <2>1
  <2>2. CASE UNCHANGED running /\ file' = <<asked, FALSE>>
    BY <2>2
  <2> QED BY <1>12, <2>1, <2>2 DEF Unanswered, boxVars
<1>13. CASE InPlaceFails BY <1>13 DEF InPlaceFails
<1> QED
  BY <1>1, <1>2, <1>3, <1>4, <1>5, <1>6, <1>7, <1>8, <1>9, <1>10, <1>11, <1>12, <1>13
  DEF EdgeNext, EdgeWorks

\* What is recorded is the file of a box that booted with it.
LEMMA RecordsABoot ==
    ASSUME EdgeInv, EdgeNext
    PROVE  SettledIsABoot'
<1> USE DEF EdgeInv, SettledIsABoot
<1>1. step = "record" => file = <<asked, TRUE>>
  BY DEF WaitsForTheBoot, Booted
<1>2. CASE UNCHANGED settled
  BY <1>2
<1>3. CASE step = "record" /\ settled' = <<asked, Digest(file)>>
  BY <1>3, <1>1 DEF Digest
<1>4. UNCHANGED settled \/ (step = "record" /\ settled' = <<asked, Digest(file)>>)
  BY DEF EdgeNext, SessionUses, BoxEdited, Deployed, BoxReboots, EdgeBegins, EdgeWorks,
         InPlace, InPlaceFails, Verify, Install, Rebooted, Record, NotBack, Unanswered, At, boxVars
<1> QED BY <1>2, <1>3, <1>4

\* A verification begins where nothing drifted, and nothing disturbs it.
LEMMA VerificationsAreDue ==
    ASSUME EdgeAssumption, EdgeInv, EdgeNext
    PROVE  VerifiesTheSettled'
<1> SUFFICES ASSUME step' = "verify"
             PROVE  (settled = <<asked, file>> /\ Cleared)'
  BY DEF VerifiesTheSettled
<1>1. InPlace \/ (step = "verify" /\ (SessionUses \/ BoxEdited \/ Deployed \/ BoxReboots))
  BY DEF EdgeNext, SessionUses, BoxEdited, Deployed, BoxReboots, EdgeBegins, EdgeWorks, InPlaceFails, Verify,
         Install, Rebooted, Record, NotBack, Unanswered, At, EdgeInv, EdgeTypeOK
<1>2. CASE InPlace
  BY <1>2 DEF InPlace, Drift, Digest, At, Cleared
<1>3. CASE step = "verify" /\ BoxReboots
  <2>1. settled = <<asked, file>>
    BY <1>3 DEF EdgeInv, VerifiesTheSettled
  <2>2. ~ file[2]
    BY <1>3 DEF EdgeInv, FileTellsBoots, BoxReboots
  <2>3. asked # Edited
    BY DEF EdgeInv, EdgeTypeOK, EdgeAssumption, Edited
  <2>4. file = <<asked, TRUE>>
    BY <2>1, <2>3 DEF EdgeInv, SettledIsABoot
  <2> QED BY <2>2, <2>4
<1>4. ~ (step = "verify" /\ (SessionUses \/ BoxEdited \/ Deployed))
  BY DEF SessionUses, BoxEdited, Deployed, Resting
<1> QED BY <1>1, <1>2, <1>3, <1>4

\* The reboot that is waited for is the one the install left behind.
LEMMA WaitsForItsBoot ==
    ASSUME EdgeInv, EdgeNext
    PROVE  WaitsForTheBoot'
<1> USE DEF EdgeInv, WaitsForTheBoot
<1>1. CASE step' \notin {"reboot", "record"}
  BY <1>1
<1>2. CASE BoxReboots
  <2>1. step # "record"
    BY <1>2 DEF BoxReboots, Booted
  <2>2. CASE step = "reboot"
    <3>1. boots = before /\ file = <<asked, FALSE>> /\ rules = "baseline"
      BY <1>2, <2>2 DEF BoxReboots, Booted
    <3>2. boots' # before'
      BY <1>2, <3>1 DEF BoxReboots, EdgeTypeOK
    <3>3. Booted'
      BY <1>2, <3>1 DEF BoxReboots, Booted, Cleared
    <3> QED BY <1>2, <2>2, <3>2, <3>3 DEF BoxReboots
  <2> QED BY <1>2, <2>1, <2>2 DEF BoxReboots
<1>3. CASE Install
  BY <1>3 DEF Install, At, EdgeTypeOK
<1>4. CASE Rebooted
  BY <1>4 DEF Rebooted, At, boxVars, Booted, Cleared
<1>5. step' \notin {"reboot", "record"} \/ BoxReboots \/ Install \/ Rebooted
  BY DEF EdgeNext, SessionUses, BoxEdited, Deployed, Resting, EdgeBegins, EdgeWorks, InPlace, InPlaceFails,
         Verify, Record, NotBack, Unanswered, At, EdgeTypeOK
<1> QED BY <1>1, <1>2, <1>3, <1>4, <1>5

LEMMA EdgeStaysSo ==
    ASSUME EdgeAssumption, EdgeInv, [EdgeNext]_edgeVars
    PROVE  EdgeInv'
<1>1. CASE UNCHANGED edgeVars
  BY <1>1 DEF EdgeInv, EdgeTypeOK, FileTellsBoots, SettledIsABoot, VerifiesTheSettled,
              WaitsForTheBoot, Booted, Cleared, edgeVars
<1>2. CASE EdgeNext
  BY <1>2, StepsKeepTheTypes, FilesTellBoots, RecordsABoot, VerificationsAreDue,
     WaitsForItsBoot DEF EdgeInv
<1> QED
  BY <1>1, <1>2

\* Every variable of the edge keeps its type, and the invariant holds.
THEOREM EdgeStaysTyped == ASSUME EdgeAssumption PROVE EdgeSpec => []EdgeInv
<1>1. EdgeInit => EdgeInv
  BY EdgeBeginsSo
<1>2. EdgeInv /\ [EdgeNext]_edgeVars => EdgeInv'
  BY EdgeStaysSo
<1> QED BY <1>1, <1>2, PTL DEF EdgeSpec

-----------------------------------------------------------------------------

\* The only steps into "done" are the verification of a box whose file is the
\* recorded one, and the record of one that booted.
LEMMA DoneFromTheInvariant ==
    ASSUME EdgeAssumption, EdgeInv, EdgeNext
    PROVE  DoneIsWanted
<1> SUFFICES ASSUME step # "done", step' = "done"
             PROVE  /\ running' = asked' /\ loaded' = "baseline" /\ rules' = "baseline"
                    /\ ~ states' /\ ~ rebooting'
  BY DEF DoneIsWanted
<1> USE DEF EdgeInv, EdgeTypeOK, At
<1>1. Verify \/ Record
  BY DEF EdgeNext, SessionUses, BoxEdited, Deployed, BoxReboots, EdgeBegins, EdgeWorks, InPlace, InPlaceFails,
         Install, Rebooted, NotBack, Unanswered
<1>2. CASE Verify
  <2>1. settled = <<asked, file>> /\ Cleared
    BY <1>2 DEF Verify, VerifiesTheSettled
  <2>2. asked # Edited
    BY DEF EdgeAssumption, Edited
  <2>3. file = <<asked, TRUE>>
    BY <2>1, <2>2 DEF SettledIsABoot
  <2>4. running = asked
    BY <2>3 DEF FileTellsBoots
  <2> QED
    BY <1>2, <2>1, <2>4 DEF Verify, Cleared, boxVars
<1>3. CASE Record
  <2>1. file = <<asked, TRUE>> /\ Cleared /\ ~ rebooting
    BY <1>3 DEF Record, WaitsForTheBoot, Booted
  <2>2. running = asked
    BY <2>1 DEF FileTellsBoots
  <2> QED BY <1>3, <2>1, <2>2 DEF Record, Cleared
<1> QED BY <1>1, <1>2, <1>3

\* Done means wanted: though verify sees little of the box and any answer may
\* be lost, a reset that reports done leaves the configuration that was asked
\* for, the baseline rules and nothing of the session.
THEOREM ResetsToTheWanted == ASSUME EdgeAssumption PROVE EdgeSpec => DoneMeansWanted
<1>1. EdgeInv /\ [EdgeNext]_edgeVars => [DoneIsWanted]_edgeVars
  BY DoneFromTheInvariant
<1> QED
  BY <1>1, EdgeStaysTyped, PTL DEF EdgeSpec, DoneMeansWanted
=============================================================================
