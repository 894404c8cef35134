----------------------------- MODULE CloudRange -----------------------------
(***************************************************************************)
(* The range in the project: the fabric (networks, subnets, the keypair,   *)
(* the security groups, the platform's own port on the management network) *)
(* and the servers of each slot that stand on it.  platform/range/fabric.py*)
(* and slot.py plan from what the cloud lists; OpenStack.ensure_fabric,    *)
(* teardown_fabric, ensure_slot, teardown_slot and open_collector act, one *)
(* call at a time, and an operator repeats them.                           *)
(*                                                                         *)
(* The fabric's requests take RULE_CHANGES, a slot's take its own turn: a  *)
(* request of each may run at once.  Every call may be refused, or carried *)
(* out with its answer lost; both end the request where it stands.         *)
(***************************************************************************)
EXTENDS Naturals, Sequences, FiniteSets

CONSTANTS
    Slots,          \* the slots the cloud settings ask for, from 1
    Hosts,          \* the hosts of the declaration
    Segments,       \* its segments
    Mgmt,           \* the management segment, the only one the slots share
    Senders,        \* the hosts that send to the collector
    MaxRangeMishaps, \* how many calls fail, and fabric DELETEs are sent
    FabricMishaps   \* what may go wrong with the fabric's own calls

AllFabricMishaps ==
    {"call",    \* a call is refused, its answer lost, or the platform restarted
     "delete",  \* a DELETE of the fabric, by an operator who does one thing at a time
     "race"}    \* a DELETE of the fabric while a slot's request runs

RangeAssumption ==
    /\ IsFiniteSet(Slots) /\ Slots = 1..Cardinality(Slots) /\ Slots # {}
    /\ IsFiniteSet(Hosts) /\ Senders \subseteq Hosts
    /\ Mgmt \in Segments /\ MaxRangeMishaps \in Nat
    /\ FabricMishaps \subseteq AllFabricMishaps

\* A segment of a slot is carried by a network of its own; mgmt by slot 1's.
Owner(g, s) == IF g = Mgmt THEN 1 ELSE s
Carrier(g, s) == <<g, Owner(g, s)>>
Carriers == {Carrier(g, s) : g \in Segments, s \in Slots}
Groups == {"fsl-range", "fsl-reach", "fsl-mgmt"}
GroupOrder == <<"fsl-range", "fsl-reach", "fsl-mgmt">>  \* removed the other way round
Servers == Slots \X Hosts
Ports == Servers \X Segments
On(p) == Carrier(p[2], p[1][1])

VARIABLES
    networks,   \* how many networks carry the tag of a carrier
    subnets,    \* the carriers whose declared subnet stands
    keypair,    \* the platform's key is in the project
    groups,     \* each security group: "none", "bare" or "whole" (its rule is in)
    ntp,        \* the reach group lets the range ask the platform the time
    reach,      \* the platform has its port on mgmt
    ports,      \* the ports of the slots
    servers,    \* the server of each host: "none", "up" or "going"
    heard,      \* the servers a rule of the reach group lets send syslog
    configured, \* the slots whose collector was opened since they booted
    work,       \* what each request still does, in order of Rank
    rmishaps    \* how many mishaps were used up

fabricVars == <<networks, subnets, keypair, groups, ntp, reach>>
slotVars == <<ports, servers, heard, configured>>
rangeVars == <<fabricVars, slotVars, work, rmishaps>>

Fabric == 0  \* the turn of the fabric's requests, RULE_CHANGES
Requests == {Fabric} \cup Slots
Kinds == <<"server", "rport", "unreach", "rsubnet", "rnetwork", "rkeypair", "rgroup",
           "network", "subnets", "keypair", "group", "ntp", "reach",
           "port", "boot", "drop", "admit", "opened">>
Rank(kind) == CHOOSE i \in DOMAIN Kinds : Kinds[i] = kind
Idle == [busy |-> FALSE, todo |-> {}]
Item(kind, what) == [kind |-> kind, what |-> what]
If(condition, kind, what) == {Item(kind, what) : x \in {y \in {1} : condition}}

RangeTypeOK ==
    /\ networks \in [Carriers -> 0..2]
    /\ subnets \subseteq Carriers
    /\ {keypair, ntp, reach} \subseteq BOOLEAN
    /\ groups \in [Groups -> {"none", "bare", "whole"}]
    /\ ports \subseteq Ports
    /\ servers \in [Servers -> {"none", "up", "going"}]
    /\ heard \subseteq Servers /\ configured \subseteq Slots
    /\ \A r \in Requests : \A i \in work[r].todo : Rank(i.kind) \in 1..Len(Kinds)
    /\ rmishaps \in 0..MaxRangeMishaps

RangeInit ==
    /\ networks = [c \in Carriers |-> 0] /\ subnets = {}
    /\ keypair = FALSE /\ ntp = FALSE /\ reach = FALSE
    /\ groups = [g \in Groups |-> "none"]
    /\ ports = {} /\ servers = [h \in Servers |-> "none"]
    /\ heard = {} /\ configured = {}
    /\ work = [r \in Requests |-> Idle] /\ rmishaps = 0

-----------------------------------------------------------------------------
(* What the plans read. *)

Bound(c) == networks[c] > 0

\* Two networks with one tag are drift: ensure_fabric refuses to go on.
FabricDrifted == \E c \in Carriers : networks[c] > 1

MissingNetworks == {c \in Carriers : ~ Bound(c)}
MissingSubnets == Carriers \ subnets
MissingGroups == {g \in Groups : groups[g] = "none"}

\* The only rule a plan reads is the one for ntp (_serves_time).
FabricClean ==
    /\ ~ FabricDrifted /\ MissingNetworks = {} /\ MissingSubnets = {}
    /\ keypair /\ MissingGroups = {} /\ ntp /\ reach

\* (Mutant: only a network made by this request gets its subnet.)
EnsureFabricNewOnly ==
    {Item("network", {c}) : c \in MissingNetworks}
    \cup If(MissingNetworks # {}, "subnets", MissingNetworks)
    \cup If(~ keypair, "keypair", {})
    \cup {Item("group", {g}) : g \in MissingGroups}
    \cup If(~ ntp, "ntp", {}) \cup If(~ reach, "reach", {})

EnsureFabric ==
    {Item("network", {c}) : c \in MissingNetworks}
    \cup If(MissingSubnets # {}, "subnets", MissingSubnets)
    \cup If(~ keypair, "keypair", {})
    \cup {Item("group", {g}) : g \in MissingGroups}
    \cup If(~ ntp, "ntp", {}) \cup If(~ reach, "reach", {})

\* A host that has a server stands, whatever Nova is doing to it.
Stands(h) == servers[h] # "none"
Attached(p) == servers[p[1]] # "none"
PortsOf(h) == {h} \X Segments
ToBoot(s) == {h \in {s} \X Hosts : ~ Stands(h)}
SlotBlocked(s) == ToBoot(s) # {} /\ \E g \in Segments : ~ Bound(Carrier(g, s))

EnsureSlot(s) ==
    {Item("port", {p}) : p \in (UNION {PortsOf(h) : h \in ToBoot(s)}) \ ports}
    \cup {Item("boot", {h}) : h \in ToBoot(s)}

TeardownSlot(s) ==
    {Item("server", {h}) : h \in {g \in {s} \X Hosts : Stands(g)}}
    \cup {Item("rport", {p}) : p \in {q \in ports : q[1][1] = s}}

TeardownFabric ==
    {Item("rport", {p}) : p \in {q \in ports : ~ Attached(q)}}
    \cup If(reach, "unreach", {})
    \cup {Item("rsubnet", {c}) : c \in subnets}
    \cup {Item("rnetwork", {c}) : c \in {d \in Carriers : Bound(d)}}
    \cup If(keypair, "rkeypair", {})
    \cup {Item("rgroup", {g}) : g \in Groups \ MissingGroups}

\* (Mutant: the rules of the other slots' senders are not kept.)
OpenCollectorAlone(s) ==
    LET senders == {s} \X Senders
    IN  {Item("drop", {h}) : h \in heard \ senders}
        \cup {Item("admit", {h}) : h \in senders \ heard}
        \cup {Item("opened", {s})}

\* open_collector: rules for this slot's senders, none for a server no slot has.
OpenCollector(s) ==
    LET senders == {s} \X Senders
        kept == {h \in Servers : h[1] # s /\ h[2] \in Senders /\ Stands(h)}
    IN  {Item("drop", {h}) : h \in heard \ (senders \cup kept)}
        \cup {Item("admit", {h}) : h \in senders \ heard}
        \cup {Item("opened", {s})}

-----------------------------------------------------------------------------
(* A request begins with what it read, and does one call at a time. *)

Begins(r, todo) ==
    /\ ~ work[r].busy
    /\ work' = [work EXCEPT ![r] = [busy |-> TRUE, todo |-> todo]]
    /\ UNCHANGED <<fabricVars, slotVars>>

FabricPost ==
    /\ ~ FabricDrifted /\ ~ FabricClean
    /\ Begins(Fabric, EnsureFabric) /\ UNCHANGED rmishaps

\* One operator waits for a DELETE of the fabric; two may not know of each other.
Tearing == \E i \in work[Fabric].todo : Rank(i.kind) <= Rank("rgroup")
Apart == "race" \in FabricMishaps \/ ~ Tearing

\* (Mutant: a server that stands does not stop it.)
FabricDeleteAtOnce ==
    /\ rmishaps < MaxRangeMishaps /\ rmishaps' = rmishaps + 1
    /\ "delete" \in FabricMishaps /\ \A s \in Slots : ~ work[s].busy
    /\ Begins(Fabric, {Item("rport", {p}) : p \in ports})

\* It is refused while a port of a server stands on a network of the range.
FabricDelete ==
    /\ rmishaps < MaxRangeMishaps /\ rmishaps' = rmishaps + 1
    /\ \/ "race" \in FabricMishaps
       \/ "delete" \in FabricMishaps /\ \A s \in Slots : ~ work[s].busy
    /\ \A p \in ports : ~ Attached(p)
    /\ Begins(Fabric, TeardownFabric)

\* It needs the fabric's groups and a network for every segment; bin/cloud
\* sends it after a POST of the fabric that made the subnets.
SlotPost(s) ==
    /\ groups["fsl-range"] # "none" /\ groups["fsl-mgmt"] # "none"
    /\ MissingSubnets = {} /\ Apart
    /\ ~ SlotBlocked(s) /\ ToBoot(s) # {}
    /\ Begins(s, EnsureSlot(s)) /\ UNCHANGED rmishaps

SlotDelete(s) ==
    /\ rmishaps < MaxRangeMishaps /\ rmishaps' = rmishaps + 1
    /\ Begins(s, TeardownSlot(s))

\* Configuring a slot needs the address of each sender.  The servers and the
\* group are read at once, and what another slot's configuring drops it drops
\* before a server that was not there for it is up: a boot takes minutes, the
\* calls of open_collector a moment.
SlotConfigure(s) ==
    /\ \A r \in Slots : \A i \in work[r].todo : i.kind = "drop" => i.what \cap ({s} \X Hosts) = {}
    /\ \A h \in {s} \X Hosts : servers[h] = "up" /\ PortsOf(h) \subseteq ports
    /\ groups["fsl-reach"] # "none"
    /\ s \notin configured /\ Apart
    /\ Begins(s, OpenCollector(s)) /\ UNCHANGED rmishaps

RangeRequestEnds(r) ==
    /\ work[r].busy /\ work[r].todo = {}
    /\ work' = [work EXCEPT ![r] = Idle]
    /\ UNCHANGED <<fabricVars, slotVars, rmishaps>>

Next1(r) == {i \in work[r].todo : \A j \in work[r].todo : Rank(i.kind) <= Rank(j.kind)}

Abandoned(r) == work' = [work EXCEPT ![r] = Idle]

Mishap(how) ==
    /\ how \in FabricMishaps /\ rmishaps < MaxRangeMishaps
    /\ rmishaps' = rmishaps + 1

\* The cloud carries a call out and answers; refuses it, when what it names is
\* gone or in use; or the answer, or the call, is lost.
Call(r, i, allowed, effect) ==
    \/ /\ allowed /\ effect
       /\ work' = [work EXCEPT ![r].todo = @ \ {i}] /\ UNCHANGED rmishaps
    \/ /\ ~ allowed /\ Abandoned(r) /\ UNCHANGED <<fabricVars, slotVars, rmishaps>>
    \/ /\ allowed /\ Mishap("call") /\ Abandoned(r)
       /\ effect \/ UNCHANGED <<fabricVars, slotVars>>

Free(c) == /\ \A p \in ports : On(p) # c
           /\ reach => c # Carrier(Mgmt, 1)

\* The group a port is in: the management group fences mgmt.
GroupOf(g) == IF g = Mgmt THEN "fsl-mgmt" ELSE "fsl-range"
Used(g) == (g = "fsl-reach" /\ reach) \/ \E p \in ports : GroupOf(p[2]) = g

OfNetwork(r, i, c) ==
    \/ /\ i.kind = "network"
       /\ Call(r, i, TRUE, /\ networks' = [networks EXCEPT ![c] = @ + 1]
                           /\ UNCHANGED <<subnets, keypair, groups, ntp, reach, slotVars>>)
    \/ /\ i.kind = "rsubnet"
       /\ Call(r, i, c \in subnets /\ Free(c),
                    /\ subnets' = subnets \ {c}
                    /\ UNCHANGED <<networks, keypair, groups, ntp, reach, slotVars>>)
    \/ /\ i.kind = "rnetwork"
       /\ Call(r, i, Bound(c) /\ Free(c),
                    /\ networks' = [networks EXCEPT ![c] = @ - 1]
                    /\ subnets' = subnets \ {c}
                    /\ UNCHANGED <<keypair, groups, ntp, reach, slotVars>>)

\* All the subnets that are missing are one call.
MakeSubnets(r, i) ==
    /\ i.kind = "subnets"
    /\ Call(r, i, \A c \in i.what : Bound(c),
                 /\ subnets' = subnets \cup i.what
                 /\ UNCHANGED <<networks, keypair, groups, ntp, reach, slotVars>>)

OfKey(r, i) ==
    /\ i.kind \in {"keypair", "rkeypair"}
    /\ Call(r, i, TRUE, /\ keypair' = (i.kind = "keypair")
                        /\ UNCHANGED <<networks, subnets, groups, ntp, reach, slotVars>>)

\* The groups are made in their order and removed against it: fsl-mgmt's rule
\* names fsl-reach, which stands as long as it.
Earlier(g, h) == \E m, n \in DOMAIN GroupOrder : m < n /\ GroupOrder[m] = g /\ GroupOrder[n] = h
Left(r, kind) == UNION {j.what : j \in {k \in work[r].todo : k.kind = kind}}

\* A group is one call and its rule a second; the reach group has none.
MakeGroup(r, i, g) ==
    LET GroupIs(how) == /\ groups' = [groups EXCEPT ![g] = how]
                        /\ UNCHANGED <<networks, subnets, keypair, ntp, reach, slotVars>>
    IN  /\ i.kind = "group" /\ \A h \in Left(r, "group") : ~ Earlier(h, g)
        /\ \/ Call(r, i, TRUE, GroupIs("whole"))
           \/ /\ g # "fsl-reach" /\ Mishap("call") /\ Abandoned(r)
              /\ GroupIs("bare")

\* With a group go its rules, and those that name it.
RemoveGroup(r, i, g) ==
    /\ i.kind = "rgroup" /\ \A h \in Left(r, "rgroup") : ~ Earlier(g, h)
    /\ Call(r, i, groups[g] # "none" /\ ~ Used(g),
                 /\ groups' = [groups EXCEPT ![g] = "none"]
                 /\ ntp' = (ntp /\ g = "fsl-range")
                 /\ heard' = IF g = "fsl-reach" THEN {} ELSE heard
                 /\ UNCHANGED <<networks, subnets, keypair, reach, ports, servers, configured>>)

OfReach(r, i) ==
    \/ /\ i.kind = "ntp"
       /\ Call(r, i, groups["fsl-reach"] # "none" /\ groups["fsl-mgmt"] # "none",
                    ntp' = TRUE /\ UNCHANGED <<networks, subnets, keypair, groups, reach, slotVars>>)
    \/ /\ i.kind \in {"reach", "unreach"}
       /\ Call(r, i, Bound(Carrier(Mgmt, 1)),
                    /\ reach' = (i.kind = "reach")
                    /\ UNCHANGED <<networks, subnets, keypair, groups, ntp, slotVars>>)

OfPort(r, i, p) ==
    /\ i.kind \in {"port", "rport"}
    /\ Call(r, i, (p \in ports) = (i.kind = "rport") /\ Bound(On(p)),
                 /\ ports' = IF i.kind = "port" THEN ports \cup {p} ELSE ports \ {p}
                 /\ UNCHANGED <<fabricVars, servers, heard, configured>>)

OfServer(r, i, h) ==
    \/ /\ i.kind = "boot"
       /\ Call(r, i, PortsOf(h) \subseteq ports,
                    /\ servers' = [servers EXCEPT ![h] = "up"]
                    /\ configured' = configured \ {h[1]}
                    /\ UNCHANGED <<fabricVars, ports, heard>>)
    \/ /\ i.kind = "server"
       /\ Call(r, i, Stands(h),
                    /\ servers' = [servers EXCEPT ![h] = "going"]
                    /\ UNCHANGED <<fabricVars, ports, heard, configured>>)

\* Another slot may have dropped the rule first: then this request ends.
OfRule(r, i, h) ==
    /\ i.kind \in {"drop", "admit"}
    /\ Call(r, i, groups["fsl-reach"] # "none" /\ (h \in heard) = (i.kind = "drop"),
                 /\ heard' = IF i.kind = "drop" THEN heard \ {h} ELSE heard \cup {h}
                 /\ UNCHANGED <<fabricVars, ports, servers, configured>>)

\* The platform's ssh gets to a host on mgmt: from its own port, past the group
\* that fences the host's.  One whose rule was never made lets nothing in, and
\* no POST makes it: plan and ensure_fabric look for the group alone.
Fenced == groups["fsl-mgmt"] = "bare"
SshReaches == reach /\ groups["fsl-mgmt"] = "whole"

\* configure_slot opens the collector alongside what it does on the hosts, and
\* fails when one of them is not reached; the rules it made stay.
Opened(r, i) ==
    /\ i.kind = "opened"
    /\ UNCHANGED <<fabricVars, ports, servers, heard, rmishaps>>
    /\ \/ /\ SshReaches
          /\ configured' = configured \cup i.what
          /\ work' = [work EXCEPT ![r].todo = @ \ {i}]
       \/ ~ SshReaches /\ Abandoned(r) /\ UNCHANGED configured

Step(r) ==
    \E i \in Next1(r) :
        \/ \E c \in i.what : OfNetwork(r, i, c)
        \/ MakeSubnets(r, i) \/ OfKey(r, i) \/ OfReach(r, i) \/ Opened(r, i)
        \/ \E g \in i.what : MakeGroup(r, i, g) \/ RemoveGroup(r, i, g)
        \/ \E p \in i.what : OfPort(r, i, p)
        \/ \E h \in i.what : OfServer(r, i, h) \/ OfRule(r, i, h)

\* Nova needs a while to delete a server, and lists it until then.
NovaDeletes(h) ==
    /\ servers[h] = "going"
    /\ servers' = [servers EXCEPT ![h] = "none"]
    /\ UNCHANGED <<fabricVars, ports, heard, configured, work, rmishaps>>

-----------------------------------------------------------------------------

Posts(s) == SlotPost(s) \/ SlotConfigure(s)

RangeNext ==
    \/ FabricPost \/ FabricDelete
    \/ \E s \in Slots : Posts(s) \/ SlotDelete(s)
    \/ \E r \in Requests : Step(r) \/ RangeRequestEnds(r)
    \/ \E h \in Servers : NovaDeletes(h)

\* The operator (or bin/cloud) repeats the POSTs while something is missing; a
\* request goes on once begun, and Nova deletes what it was told to.
RangeFairness ==
    /\ WF_rangeVars(FabricPost)
    /\ \A s \in Slots : WF_rangeVars(Posts(s))
    /\ \A r \in Requests : WF_rangeVars(Step(r) \/ RangeRequestEnds(r))
    /\ \A h \in Servers : WF_rangeVars(NovaDeletes(h))

RangeSpec == RangeInit /\ [][RangeNext]_rangeVars /\ RangeFairness

-----------------------------------------------------------------------------
(* Properties. *)

\* A slot whose collector was opened is heard while its servers are up,
\* whatever the other slots' requests do to the rules they share.
OpenedSlotsStayHeard ==
    \A s \in configured : \A h \in {s} \X Senders : servers[h] = "up" => h \in heard

\* A server that is up has all the ports it was booted with: DELETE of the
\* fabric is refused while a server is attached (README.md 505-506).
ServersKeepTheirPorts ==
    \A h \in Servers : servers[h] = "up" => PortsOf(h) \subseteq ports

\* After any calls that failed and requests that were repeated, the POSTs that
\* README.md 495-550 lists bring the whole range up, configured and reached;
\* all but a management group left without its rule, which stays that way until
\* an operator takes the fabric down and makes it again.
AllUp == /\ FabricClean /\ SshReaches /\ configured = Slots
         /\ \A h \in Servers : servers[h] = "up" /\ PortsOf(h) \subseteq ports
RangeComesUp == <>[](AllUp \/ Fenced)
=============================================================================
