--------------------------- MODULE ImagePipeline ---------------------------
(***************************************************************************)
(* The golden images: platform/range/images.py tells from Glance, Nova and *)
(* a builder's console how far each image is, and ensure_images and        *)
(* clean_images of platform/range/openstack.py take one step further or    *)
(* remove what failed.  An operator repeats the POST until all is clean.   *)
(*                                                                         *)
(* A bundle is its digest, a number that grows when the sources change.    *)
(* One builder and one record of each host and digest is all the planner   *)
(* ever makes: it boots, and records, only what it did not find.           *)
(***************************************************************************)
EXTENDS Naturals, FiniteSets

CONSTANTS
    Images,        \* the hosts that boot from an image a builder makes
    Uploading,     \* those whose builder serves its disk (the edge)
    Digests,       \* the digests of the bundles, from 1
    Room,          \* the builders the quota leaves room for
    MaxMishaps,    \* how many steps go wrong
    BuildMishaps   \* which ways of going wrong there are

AllBuildMishaps ==
    {"call",      \* a call is refused, or its answer is lost
     "setup",     \* a builder's setup script fails
     "nova",      \* Nova puts a builder in ERROR
     "glance",    \* Glance kills an image
     "sources",   \* the platform is deployed anew, with other sources
     "poweroff"}  \* a builder's host is restarted: it is SHUTOFF

ImageAssumption ==
    /\ Uploading \subseteq Images /\ IsFiniteSet(Images)
    /\ Digests = 1..Cardinality(Digests) /\ 1 \in Digests
    /\ Room \in Nat \ {0} /\ MaxMishaps \in Nat
    /\ BuildMishaps \subseteq AllBuildMishaps

VARIABLES
    digest,    \* the digest of what the sources hold now
    builder,   \* Nova's servers named fsl-build-<host>: where each is
    said,      \* what its console ends with
    record,    \* Glance's image of a host and digest
    whole,     \* its disk is that of a builder that finished its setup
    request,   \* the POST or DELETE that holds RULE_CHANGES
    plan,      \* the states it read
    todo,      \* what it still does
    mishaps    \* how many steps went wrong

imageVars == <<digest, builder, said, record, whole, request, plan, todo, mishaps>>

Bundles == Images \X Digests
BuilderStates == {"absent", "active", "stopping", "off", "error"}
RecordStates == {"absent", "queued", "saving", "active", "killed"}
States == {"missing", "building", "built", "stopped", "saving", "ready", "failed"}
Steps == [kind : {"boot", "step", "upload", "server", "image"}, bundle : Bundles]

ImageTypeOK ==
    /\ digest \in Digests
    /\ builder \in [Bundles -> BuilderStates]
    /\ said \in [Bundles -> {"nothing", "ready", "failed"}]
    /\ record \in [Bundles -> RecordStates]
    /\ whole \in [Bundles -> BOOLEAN]
    /\ request \in {"none", "post", "clean"}
    /\ plan \in [Images -> States]
    /\ todo \subseteq Steps
    /\ mishaps \in 0..MaxMishaps

ImageInit ==
    /\ digest = 1
    /\ builder = [b \in Bundles |-> "absent"]
    /\ said = [b \in Bundles |-> "nothing"]
    /\ record = [b \in Bundles |-> "absent"]
    /\ whole = [b \in Bundles |-> FALSE]
    /\ request = "none" /\ todo = {} /\ mishaps = 0
    /\ plan = [h \in Images |-> "missing"]

Current(h) == <<h, digest>>

GoesWrong(how) ==
    /\ how \in BuildMishaps /\ mishaps < MaxMishaps
    /\ mishaps' = mishaps + 1

-----------------------------------------------------------------------------
(* The planner. *)

\* A console is read only of a builder that is ACTIVE.
Heard(b) == IF builder[b] = "active" THEN said[b] ELSE "nothing"

\* (Mutant: what the setup said last is not looked at.)
FromBuilderDeaf(b) ==
    CASE builder[b] = "absent"   -> IF record[b] = "absent" THEN "missing" ELSE "failed"
      [] builder[b] = "stopping" -> "building"
      [] builder[b] = "off"      -> IF b[1] \in Uploading THEN "failed" ELSE "stopped"
      [] builder[b] = "error"    -> "failed"
      [] said[b] = "nothing"     -> "building"
      [] OTHER                   -> "built"

FromBuilder(b) ==
    CASE builder[b] = "absent"   -> IF record[b] = "absent" THEN "missing" ELSE "failed"
      [] builder[b] = "stopping" -> "building"
      [] Heard(b) = "failed"     -> "failed"
      [] builder[b] = "off"      -> IF b[1] \in Uploading THEN "failed" ELSE "stopped"
      [] Heard(b) = "ready"      -> "built"
      [] builder[b] = "error"    -> "failed"
      [] OTHER                   -> "building"

StateOf(b) ==
    CASE record[b] = "active" -> "ready"
      [] record[b] = "killed" -> "failed"
      [] record[b] = "saving" \/ (record[b] = "queued" /\ b[1] \notin Uploading) -> "saving"
      [] OTHER -> FromBuilder(b)

Standing(b) == builder[b] # "absent"

\* What no plan of the current bundles needs.
Leftovers ==
    [kind : {"server"}, bundle : {b \in Bundles : b[2] # digest /\ Standing(b)}]
    \cup [kind : {"image"}, bundle : {b \in Bundles : b[2] # digest /\ record[b] # "absent"}]

Failed ==
    {[kind |-> IF Standing(b) THEN "server" ELSE "image", bundle |-> b] :
        b \in {c \in Bundles : c[2] = digest /\ StateOf(c) = "failed"}}

Removable == Leftovers \cup Failed

RoomLeft == LET taken == Cardinality({b \in Bundles : Standing(b)})
            IN  IF taken < Room THEN Room - taken ELSE 0

Whole(states) == \A h \in Images : states[h] = "ready" /\ ~ Standing(Current(h))

-----------------------------------------------------------------------------
(* A POST: ensure_images. *)

Missing(states) == {h \in Images : states[h] = "missing"}

\* It reads all it needs, and does not begin when nothing fits the quota and
\* nothing that is being built would make room.
PostBegins ==
    LET states == [h \in Images |-> StateOf(Current(h))]
    IN  /\ request = "none" /\ ~ Whole(states)
        /\ Missing(states) = {} \/ RoomLeft > 0 \/ \E h \in Images : Standing(Current(h))
        /\ \E boots \in SUBSET Missing(states) :
            /\ Cardinality(boots) = IF Cardinality(Missing(states)) < RoomLeft
                                    THEN Cardinality(Missing(states)) ELSE RoomLeft
            /\ todo' = [kind : {"boot"}, bundle : {Current(h) : h \in boots}] \cup
                       [kind : {"step"}, bundle :
                          {Current(h) : h \in {g \in Images :
                              \/ states[g] \in {"built", "stopped"}
                              \/ states[g] = "ready" /\ Standing(Current(g))}}]
        /\ plan' = states
        /\ request' = "post"
        /\ UNCHANGED <<digest, builder, said, record, whole, mishaps>>

Done(step) == todo' = todo \ {step}

\* Nova boots a builder with the bundle in its user data.
PostBoots ==
    \E step \in todo :
        /\ request = "post" /\ step.kind = "boot"
        /\ builder' = [builder EXCEPT ![step.bundle] = "active"]
        /\ said' = [said EXCEPT ![step.bundle] = "nothing"]
        /\ Done(step)
        /\ UNCHANGED <<digest, record, whole, request, plan, mishaps>>

Advancing(step, state) ==
    /\ request = "post" /\ step \in todo /\ step.kind = "step"
    /\ \A s \in todo : s.kind # "boot"
    /\ plan[step.bundle[1]] = state

\* A builder that said it is ready is stopped.
PostStops ==
    \E step \in todo :
        /\ Advancing(step, "built") /\ step.bundle[1] \notin Uploading
        /\ builder[step.bundle] = "active"
        /\ builder' = [builder EXCEPT ![step.bundle] = "stopping"]
        /\ Done(step)
        /\ UNCHANGED <<digest, said, record, whole, request, plan, mishaps>>

\* A stopped one is snapshotted: createImage makes the record, Nova fills it.
PostSnapshots ==
    \E step \in todo :
        /\ Advancing(step, "stopped")
        /\ record' = [record EXCEPT ![step.bundle] = "saving"]
        /\ whole' = [whole EXCEPT ![step.bundle] = said[step.bundle] = "ready"]
        /\ Done(step)
        /\ UNCHANGED <<digest, builder, said, request, plan, mishaps>>

\* The disk of one that serves it is pulled and compared with the checksum on
\* its console.  Then its record is made, unless a request that ended left one.
PostRecords ==
    \E step \in todo :
        /\ Advancing(step, "built") /\ step.bundle[1] \in Uploading
        /\ builder[step.bundle] = "active"
        /\ record' = [record EXCEPT ![step.bundle] = "queued"]
        /\ todo' = (todo \ {step}) \cup {[step EXCEPT !.kind = "upload"]}
        /\ UNCHANGED <<digest, builder, said, whole, request, plan, mishaps>>

\* The disk that was pulled is uploaded into the record.
PostUploads ==
    \E step \in todo :
        /\ request = "post" /\ step.kind = "upload"
        /\ record' = [record EXCEPT ![step.bundle] = "active"]
        /\ whole' = [whole EXCEPT ![step.bundle] = said[step.bundle] = "ready"]
        /\ Done(step)
        /\ UNCHANGED <<digest, builder, said, request, plan, mishaps>>

\* The builder of an image that is ready is deleted.
PostDeletes ==
    \E step \in todo :
        /\ Advancing(step, "ready")
        /\ builder' = [builder EXCEPT ![step.bundle] = "absent"]
        /\ Done(step)
        /\ UNCHANGED <<digest, said, record, whole, request, plan, mishaps>>

-----------------------------------------------------------------------------
(* A DELETE: clean_images. *)

CleanBegins ==
    /\ request = "none" /\ Removable # {}
    /\ todo' = Removable
    /\ request' = "clean"
    /\ UNCHANGED <<digest, builder, said, record, whole, plan, mishaps>>

CleanRemoves ==
    \E step \in todo :
        /\ request = "clean"
        /\ IF step.kind = "server"
           THEN builder' = [builder EXCEPT ![step.bundle] = "absent"] /\ UNCHANGED <<record, whole>>
           ELSE /\ record' = [record EXCEPT ![step.bundle] = "absent"]
                /\ whole' = [whole EXCEPT ![step.bundle] = FALSE]
                /\ UNCHANGED builder
        /\ Done(step)
        /\ UNCHANGED <<digest, said, request, plan, mishaps>>

\* Either ends when nothing is left to do, or where a call fails (so does one
\* to a builder that broke since the plan was read): the rest of what it read
\* is for the next one.
RequestEnds ==
    /\ request # "none"
    /\ \/ todo = {} /\ UNCHANGED mishaps
       \/ todo # {} /\ GoesWrong("call")
       \/ /\ \E step \in todo : Advancing(step, "built") /\ builder[step.bundle] # "active"
          /\ UNCHANGED mishaps
    /\ request' = "none" /\ todo' = {}
    /\ plan' = [h \in Images |-> "missing"]
    /\ UNCHANGED <<digest, builder, said, record, whole>>

-----------------------------------------------------------------------------
(* The cloud. *)

Settles(b, where, says) ==
    /\ builder' = [builder EXCEPT ![b] = where]
    /\ said' = [said EXCEPT ![b] = says]
    /\ UNCHANGED <<digest, record, whole, request, plan, todo>>

\* The setup script ends, and the console says how.
SetupEnds(b) ==
    /\ builder[b] = "active" /\ said[b] = "nothing"
    /\ \/ Settles(b, "active", "ready") /\ UNCHANGED mishaps
       \/ Settles(b, "active", "failed") /\ GoesWrong("setup")

NovaStops(b) ==
    /\ builder[b] = "stopping"
    /\ Settles(b, "off", said[b]) /\ UNCHANGED mishaps

BuilderBreaks(b) ==
    /\ builder[b] \in {"active", "stopping"}
    /\ \/ Settles(b, "error", said[b]) /\ GoesWrong("nova")
       \/ Settles(b, "off", said[b]) /\ GoesWrong("poweroff")

SnapshotEnds(b) ==
    /\ record[b] = "saving"
    /\ \/ record' = [record EXCEPT ![b] = "active"] /\ UNCHANGED mishaps
       \/ record' = [record EXCEPT ![b] = "killed"] /\ GoesWrong("glance")
    /\ UNCHANGED <<digest, builder, said, whole, request, plan, todo>>

\* The platform's container is replaced: a request ends, the bundles change.
Redeployed ==
    /\ digest + 1 \in Digests /\ GoesWrong("sources")
    /\ digest' = digest + 1
    /\ request' = "none" /\ todo' = {}
    /\ plan' = [h \in Images |-> "missing"]
    /\ UNCHANGED <<builder, said, record, whole>>

-----------------------------------------------------------------------------

RequestSteps ==
    \/ PostBoots \/ PostStops \/ PostSnapshots \/ PostRecords \/ PostUploads
    \/ PostDeletes \/ CleanRemoves \/ RequestEnds

CloudSteps == \E b \in Bundles : SetupEnds(b) \/ NovaStops(b) \/ SnapshotEnds(b)

ImageNext ==
    \/ PostBegins \/ CleanBegins \/ RequestSteps
    \/ CloudSteps \/ \E b \in Bundles : BuilderBreaks(b)
    \/ Redeployed

\* bin/cloud repeats the POST until the images are ready, and where one failed
\* it stops and names the DELETE: the operator sends each in turn, so neither
\* waits for ever behind the other.  Nova and Glance end what they begin.
ImageFairness ==
    /\ SF_imageVars(PostBegins) /\ SF_imageVars(CleanBegins)
    /\ WF_imageVars(RequestSteps)
    /\ \A b \in Bundles : /\ WF_imageVars(SetupEnds(b))
                          /\ WF_imageVars(NovaStops(b))
                          /\ WF_imageVars(SnapshotEnds(b))

ImageSpec == ImageInit /\ [][ImageNext]_imageVars /\ ImageFairness

-----------------------------------------------------------------------------
(* Properties. *)

\* An image that is used to boot a host holds what its setup script made to
\* the end (ensure_images 944-954: stop once it is done, then snapshot).
ReadyIsWhole == \A b \in Bundles : record[b] = "active" => whole[b]

\* Whatever failed on the way, the repeated POST (and the DELETE where it
\* says so) makes every image ready and leaves no builder behind.
AllReady == \A h \in Images : record[Current(h)] = "active" /\ ~ Standing(Current(h))
ImagesGetReady == <>[]AllReady
=============================================================================
