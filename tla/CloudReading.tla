---------------------------- MODULE CloudReading ----------------------------
(***************************************************************************)
(* How a request reads the range from the cloud, platform/range/           *)
(* openstack.py: connect and its cache of the catalogue, the token that    *)
(* http_reader holds, describe with its one rediscovery, and the shape of  *)
(* a slot that _read makes of what is listed; and how runner reaches a host *)
(* of it over ssh, by the host key it knows under an alias.  The catalogue *)
(* moves, tokens expire, and servers are rebuilt, deleted and made again   *)
(* while requests run.                                                     *)
(***************************************************************************)
EXTENDS Naturals, FiniteSets

CONSTANTS
    Adapters,    \* the requests, each with an adapter of its own
    ReadSlots,   \* the slots
    Shared,      \* the segment that all slots share a network for
    Estate,      \* one that each has its own for
    Waf, Scorer, \* a host of every slot, and the platform's own server
    MaxEvents    \* how often the catalogue moves, a token expires, a server
                 \* is rebuilt, deleted or made

ReadingAssumption ==
    /\ IsFiniteSet(ReadSlots) /\ ReadSlots = 1..Cardinality(ReadSlots) /\ ReadSlots # {}
    /\ MaxEvents \in Nat
    /\ Shared # Estate /\ Waf # Scorer

VARIABLES
    catalogue,  \* which endpoints the catalogue names now
    valid,      \* the token Keystone accepts now
    connected,  \* the endpoints the process keeps for the next request, or 0
    held,       \* the token the reader of each endpoints holds, or 0
    reads,      \* where each request is, and for which slot
    shapes,     \* the shape it read
    listed, standing, \* the networks and the servers the cloud lists
    rebuilds,   \* how often each slot's hosts were rebuilt or made anew: their keys are new
    known,      \* known_hosts: the key of a slot's host under each alias
    events      \* how many of these changes there were

cloudVars == <<listed, standing>>
keyVars == <<rebuilds, known>>
readingVars == <<catalogue, valid, connected, held, reads, shapes, cloudVars, keyVars, events>>

Segs == {Shared, Estate}
Numbers == 0..MaxEvents + 1
Networks == [segment : Segs, tag : ReadSlots \cup {0}]       \* fsl.slot, 0 where it is no number
ServerRows == [host : {Waf, Scorer}, tag : ReadSlots \cup {0}] \* fsl_slot, 0 without fsl_host
Calls == {"networks", "servers", "subnets"}
Phases == {"new", "describing", "again", "described", "failed", "reached", "refused"}
Aliases == ReadSlots \X Numbers      \* fsl-<server>-<launched_at>
NoShape == [segments |-> {}, nodes |-> {}]
Own(slot) == [host |-> Waf, tag |-> slot]

ReadingTypeOK ==
    /\ {catalogue, valid, connected, events} \subseteq Numbers
    /\ held \in [Numbers -> Numbers]
    /\ \A r \in Adapters :
         /\ reads[r].phase \in Phases /\ reads[r].slot \in ReadSlots
         /\ reads[r].at \in Numbers /\ reads[r].since \in Numbers
         /\ reads[r].calls \subseteq Calls
         /\ reads[r].alias \in Numbers /\ reads[r].booted \in Numbers
         /\ reads[r].rows \subseteq ServerRows
         /\ shapes[r].nodes \subseteq ServerRows \X Segs
    /\ standing \subseteq ServerRows
    /\ rebuilds \in [ReadSlots -> Numbers] /\ known \subseteq Aliases \X Numbers

-----------------------------------------------------------------------------
(* What is made of a listing. *)

TagFor(segment, slot) == IF segment = Shared THEN 1 ELSE slot

\* The network of a segment for a slot; two are refused.
Binds(slot, segment) ==
    {n \in listed : n.segment = segment /\ n.tag = TagFor(segment, slot)}

\* (Mutant: the servers of all slots, for the names are the same.)
VisibleToAll(slot) == standing

\* Servers of other slots are left out: on mgmt they share a network.
Visible(slot) == {s \in standing : s.tag \in {0, slot}}

\* Of the servers that were listed, those with an address on a network: a
\* server of a slot is on mgmt and on the estate network its slot is bound to,
\* the platform's own on mgmt.
AddressesOn(network, rows) == {s \in rows : network.segment = Shared \/ s.tag = network.tag}

Nodes(slot, rows) ==
    UNION {{<<s, segment>> : s \in UNION {AddressesOn(n, rows) : n \in Binds(slot, segment)}} :
              segment \in Segs}

\* Every segment needs its network.
Complete(slot) == \A segment \in Segs : Binds(slot, segment) # {}

ShapeOf(slot, rows) == [segments |-> Segs, nodes |-> Nodes(slot, rows)]

\* The management address of a host is tried first; none is RangeUnavailable.
Reached(shape, host) ==
    LET on(segment) == {n \in shape.nodes : n[1].host = host /\ n[2] = segment}
    IN  IF on(Shared) # {} THEN on(Shared) ELSE on(Estate)

-----------------------------------------------------------------------------

ReadingInit ==
    /\ catalogue = 1 /\ valid = 1 /\ connected = 0 /\ events = 0
    /\ held = [n \in Numbers |-> 0]
    /\ reads \in [Adapters -> {[phase |-> "new", slot |-> s, at |-> 0, since |-> 0,
                             calls |-> {}, rows |-> {}, alias |-> 0, booted |-> 0] : s \in ReadSlots}]
    /\ shapes = [r \in Adapters |-> NoShape]
    /\ rebuilds = [s \in ReadSlots |-> 0] /\ known = {}
    /\ \E unmade \in SUBSET Networks, absent \in SUBSET ServerRows :   \* one is missing, if any
         /\ Cardinality(unmade) + Cardinality(absent) <= 1
         /\ listed = {n \in Networks : n.tag # 0 /\ (n.segment = Shared => n.tag = 1)} \ unmade
         /\ standing = {s \in ServerRows : (s.host = Scorer) = (s.tag = 0)} \ absent

Turns(r, phase, at, calls) ==
    reads' = [reads EXCEPT ![r] = [@ EXCEPT !.phase = phase, !.at = at, !.calls = calls]]

\* connect: the catalogue of the last request, or Keystone is asked for it.
Connects(r) ==
    /\ reads[r].phase = "new"
    /\ connected' = IF connected = 0 THEN catalogue ELSE connected
    /\ reads' = [reads EXCEPT ![r] =
         [@ EXCEPT !.phase = "describing", !.at = connected', !.since = events,
                   !.calls = Calls, !.booted = rebuilds[reads[r].slot]]]
    /\ UNCHANGED <<catalogue, valid, held, shapes, cloudVars, keyVars, events>>

\* A call is answered with the token that is held, or with a fresh one after
\* the first is refused.
Answers(r) ==
    /\ reads[r].at = catalogue
    /\ held' = [held EXCEPT ![reads[r].at] = valid]
    /\ UNCHANGED connected

Reading(r) == reads[r].phase \in {"describing", "again"}

\* (Mutant: the alias of a host is the same after a rebuild.)
GenerationOfTheSlot(slot) == 0

\* What ssh knows the hosts of a slot by: the address stays, the alias does not.
Generation(slot) == rebuilds[slot]

\* The networks, the servers, then the subnets of each network.
Order == [networks |-> 1, servers |-> 2, subnets |-> 3]
Lists(r) ==
    /\ Reading(r) /\ reads[r].calls # {} /\ Answers(r)
    /\ \E c \in reads[r].calls :
         /\ \A d \in reads[r].calls : Order[c] <= Order[d]
         /\ reads' = [reads EXCEPT ![r] =
              [@ EXCEPT
                 !.phase = IF c = "servers" /\ ~ Complete(reads[r].slot) THEN "failed" ELSE reads[r].phase,
                 !.alias = IF c = "servers" THEN Generation(reads[r].slot) ELSE reads[r].alias,
                 !.rows = IF c = "servers" THEN Visible(reads[r].slot) ELSE reads[r].rows,
                 !.calls = reads[r].calls \ {c}]]
    /\ UNCHANGED <<catalogue, valid, shapes, cloudVars, keyVars, events>>

Described(r) ==
    /\ Reading(r) /\ reads[r].calls = {}
    /\ shapes' = [shapes EXCEPT ![r] = ShapeOf(reads[r].slot, reads[r].rows)]
    /\ Turns(r, "described", reads[r].at, {})
    /\ UNCHANGED <<catalogue, valid, connected, held, cloudVars, keyVars, events>>

\* The endpoint is gone: the catalogue is asked again, once.
Rediscovers(r) ==
    /\ reads[r].phase = "describing" /\ reads[r].calls # {} /\ reads[r].at # catalogue
    /\ connected' = catalogue
    /\ held' = [held EXCEPT ![catalogue] = 0]
    /\ Turns(r, "again", catalogue, Calls)
    /\ UNCHANGED <<catalogue, valid, shapes, cloudVars, keyVars, events>>

\* The shape that was read is dropped, and the next use reads the range again.
Forgets(r) ==
    /\ shapes' = [shapes EXCEPT ![r] = NoShape]
    /\ reads' = [reads EXCEPT ![r] =
         [@ EXCEPT !.phase = "describing", !.calls = Calls,
                   !.since = events', !.booted = rebuilds'[reads[r].slot]]]

GivesUp(r) ==
    /\ reads[r].phase = "again" /\ reads[r].calls # {} /\ reads[r].at # catalogue
    /\ Turns(r, "failed", reads[r].at, {})
    /\ UNCHANGED <<catalogue, valid, connected, held, shapes, cloudVars, keyVars, events>>

CloudChanges ==
    /\ events < MaxEvents /\ events' = events + 1
    /\ \/ catalogue' = catalogue + 1 /\ UNCHANGED valid
       \/ valid' = valid + 1 /\ UNCHANGED catalogue
    /\ UNCHANGED <<connected, held, reads, shapes, cloudVars, keyVars>>

\* A reset rebuilds its slot; configure_rebuilt then forgets the shape and
\* reads it again before it configures.
Rebuilds(r) ==
    /\ reads[r].phase = "described"
    /\ events < MaxEvents /\ events' = events + 1
    /\ rebuilds' = [rebuilds EXCEPT ![reads[r].slot] = @ + 1]
    /\ Forgets(r)
    /\ UNCHANGED <<catalogue, valid, connected, held, cloudVars, known>>

\* Other requests delete the server of a slot, make it where there is none, or
\* rebuild it: what was made or rebuilt has a key of its own.
ServerGoes(slot) ==
    /\ standing' = standing \ {Own(slot)}
    /\ UNCHANGED rebuilds
ServerIsNew(slot) ==
    /\ standing' = standing \cup {Own(slot)}
    /\ rebuilds' = [rebuilds EXCEPT ![slot] = @ + 1]
ServerChanges ==
    /\ events < MaxEvents /\ events' = events + 1
    /\ \E slot \in ReadSlots : (Own(slot) \in standing /\ ServerGoes(slot)) \/ ServerIsNew(slot)
    /\ UNCHANGED <<catalogue, valid, connected, held, reads, shapes, listed, known>>

\* A command for a host of the slot, at the address the shape has.  A server
\* that is gone does not answer, nor need one that was rebuilt or made anew
\* since the shape was read: it boots, or has another address.
Answering(r) == Own(reads[r].slot) \in standing
Replaced(r) == reads[r].alias # rebuilds[reads[r].slot]
Misses(r) ==
    /\ ~ Answering(r) \/ Replaced(r)
    /\ Turns(r, "failed", reads[r].at, {}) /\ UNCHANGED known

\* ssh takes a key it sees for the first time under an alias and refuses
\* another one ever after (accept-new).
KnownOtherwise(slot, alias) == \E key \in Numbers \ {rebuilds[slot]} : <<<<slot, alias>>, key>> \in known
Refuses(r) ==
    /\ Answering(r) /\ KnownOtherwise(reads[r].slot, reads[r].alias)
    /\ Turns(r, "refused", reads[r].at, {}) /\ UNCHANGED known
Accepts(r) ==
    LET slot == reads[r].slot
    IN  /\ Answering(r) /\ ~ KnownOtherwise(slot, reads[r].alias)
        /\ Turns(r, "reached", reads[r].at, {})
        /\ known' = known \cup {<<<<slot, reads[r].alias>>, rebuilds[slot]>>}

Runs(r) ==
    /\ reads[r].phase = "described" /\ Reached(shapes[r], Waf) # {}
    /\ Misses(r) \/ Refuses(r) \/ Accepts(r)
    /\ UNCHANGED <<catalogue, valid, connected, held, shapes, cloudVars, rebuilds, events>>

ReadingNext ==
    \/ CloudChanges \/ ServerChanges
    \/ \E r \in Adapters : Rebuilds(r) \/ Runs(r)
    \/ \E r \in Adapters : Connects(r) \/ Lists(r) \/ Described(r) \/ Rediscovers(r) \/ GivesUp(r)

ReadingSpec == ReadingInit /\ [][ReadingNext]_readingVars

-----------------------------------------------------------------------------
(* Properties. *)

\* A command for a host of a slot goes to that slot's server and no other,
\* though all slots stand on one management network under the same host names
\* and servers come and go while the request reads; and it goes to one that is
\* gone, or misses one that stands, only if the cloud changed under the request.
SlotsReadApart ==
    \A r \in Adapters : shapes[r] # NoShape =>
        LET to == {n[1] : n \in Reached(shapes[r], Waf)}
        IN  /\ to \subseteq {Own(reads[r].slot)}
            /\ to # {Own(reads[r].slot)} \cap standing => events > reads[r].since

\* A request that finds the range whole fails to read it, or to reach a host it
\* read of, only if the cloud changed meanwhile: what changed before it began, a
\* catalogue that moved or a token that expired, it finds out and follows.
ReadsFollowTheCloud ==
    \A r \in Adapters :
        reads[r].phase = "failed" /\ Complete(reads[r].slot) => events > reads[r].since

\* A host that was rebuilt or made anew has a new key.  A request is refused for
\* it only if that was done by another one after it began, or after it last
\* rebuilt the slot itself: an old key is never held against a new host.
HostKeysFollowRebuilds ==
    \A r \in Adapters : reads[r].phase = "refused" => rebuilds[reads[r].slot] > reads[r].booted

\* A reading fails, and a host is refused, only by what changed while it went on.
RequestsFollowTheCloud == ReadsFollowTheCloud /\ HostKeysFollowRebuilds
=============================================================================
