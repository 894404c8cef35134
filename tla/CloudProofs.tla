---------------------------- MODULE CloudProofs ----------------------------
(***************************************************************************)
(* What the platform promises of the cloud, for any slots, hosts, segments *)
(* and number of mishaps: a server keeps its ports and an opened slot is   *)
(* heard (CloudRange), a request reaches the hosts of its own slot and     *)
(* fails only of what changed under it (CloudReading), and the settings    *)
(* arrive as the file says (CloudSettings).  At the end, with what         *)
(* HostProofs has of images and the edge, all of them keep their types     *)
(* together (MCRange).                                                     *)
(***************************************************************************)
EXTENDS MCRange, HostProofs, FiniteSetTheorems, TLAPS

-----------------------------------------------------------------------------
(* The fabric and its slots: the inductive invariant. *)

SlotKinds == {"server", "rport", "port", "boot", "drop", "admit", "opened"}
FabricKinds == {"rport", "unreach", "rsubnet", "rnetwork", "rkeypair", "rgroup",
                "network", "subnets", "keypair", "group", "ntp", "reach"}
Whats == SUBSET (Servers \cup Ports \cup Carriers \cup Groups \cup Slots)
Items == [kind : SlotKinds \cup FabricKinds, what : Whats]

WorkTyped ==
    /\ work \in [Requests -> [busy : BOOLEAN, todo : SUBSET Items]]
    /\ \A r \in Requests : ~ work[r].busy => work[r].todo = {}

\* A slot's request is about its own servers and ports, but for the rules of
\* servers that no slot has any more; it takes down, builds or opens.
SlotItem(s, i) ==
    /\ i.kind \in SlotKinds
    /\ i.kind \in {"server", "boot"} => i.what \subseteq {s} \X Hosts
    /\ i.kind \in {"rport", "port"} => i.what \subseteq ({s} \X Hosts) \X Segments
    /\ i.kind = "drop" => i.what \subseteq Servers
    /\ i.kind = "admit" => i.what \subseteq {s} \X Senders
    /\ i.kind = "opened" => i.what = {s}

FabricItem(i) ==
    /\ i.kind \in FabricKinds
    /\ i.kind \in {"network", "rsubnet", "rnetwork", "subnets"} => i.what \subseteq Carriers
    /\ i.kind \in {"group", "rgroup"} => i.what \subseteq Groups
    /\ i.kind = "rport" => i.what \subseteq Ports

AllOf(r, kinds) == \A i \in work[r].todo : i.kind \in kinds

WorkSorted ==
    /\ \A i \in work[Fabric].todo : FabricItem(i)
    /\ \A s \in Slots : \A i \in work[s].todo : SlotItem(s, i)
    /\ \A s \in Slots : \/ AllOf(s, {"server", "rport"})
                        \/ AllOf(s, {"port", "boot"})
                        \/ AllOf(s, {"drop", "admit", "opened"})

\* While the fabric is taken down no server is up, and none is being made.
TearsDownTheEmpty ==
    Tearing => /\ \A h \in Servers : servers[h] # "up"
               /\ \A s \in Slots : AllOf(s, {"server", "rport"})

\* A slot's ports go when its servers have been told to.
PortsGoLast ==
    \A s \in Slots : (\E i \in work[s].todo : i.kind = "rport") =>
        \A h \in {s} \X Hosts : servers[h] = "up" => Item("server", {h}) \in work[s].todo

\* A network is made of a carrier that has none.
NetworksOnce ==
    \A i \in work[Fabric].todo : i.kind = "network" =>
        \E c \in Carriers : i = Item("network", {c}) /\ networks[c] = 0

Opening(s) == \E i \in work[s].todo : i.kind = "opened"

\* A slot that is being opened hears its servers or is about to.
OpeningHears ==
    \A s \in Slots : Opening(s) =>
        \A h \in {s} \X Senders : servers[h] = "up" => h \in heard \/ Item("admit", {h}) \in work[s].todo

\* The rules to be dropped are no opened slot's.
DropsNothingOpened ==
    \A r \in Slots : \A i \in work[r].todo : i.kind = "drop" =>
        \A h \in i.what : servers[h] = "up" => h[1] \notin configured /\ ~ Opening(h[1])

HeardAreSenders == heard \subseteq Slots \X Senders

RangeInv ==
    /\ RangeTypeOK /\ WorkTyped /\ WorkSorted /\ NetworksOnce
    /\ TearsDownTheEmpty /\ PortsGoLast /\ ServersKeepTheirPorts
    /\ HeardAreSenders /\ OpeningHears /\ DropsNothingOpened /\ OpenedSlotsStayHeard

-----------------------------------------------------------------------------
(* What is in a request's list. *)

LEMMA Ranks ==
    /\ Rank("server") = 1 /\ Rank("rport") = 2 /\ Rank("unreach") = 3 /\ Rank("rsubnet") = 4
    /\ Rank("rnetwork") = 5 /\ Rank("rkeypair") = 6 /\ Rank("rgroup") = 7 /\ Rank("network") = 8
    /\ Rank("subnets") = 9 /\ Rank("keypair") = 10 /\ Rank("group") = 11 /\ Rank("ntp") = 12
    /\ Rank("reach") = 13 /\ Rank("port") = 14 /\ Rank("boot") = 15 /\ Rank("drop") = 16
    /\ Rank("admit") = 17 /\ Rank("opened") = 18
<1>1. DOMAIN Kinds = 1..18 BY DEF Kinds
<1>2. ASSUME NEW k, NEW n \in 1..18, Kinds[n] = k, \A m \in 1..18 : Kinds[m] = k => m = n
      PROVE  Rank(k) = n
  BY <1>1, <1>2 DEF Rank
<1> QED BY <1>2 DEF Kinds

TearingKinds == {"rport", "unreach", "rsubnet", "rnetwork", "rkeypair", "rgroup"}

\* The fabric is taken down by what comes before "rgroup".
LEMMA TearingIs ==
    ASSUME WorkSorted
    PROVE  Tearing <=> \E i \in work[Fabric].todo : i.kind \in TearingKinds
<1>1. ASSUME NEW i \in work[Fabric].todo
      PROVE  Rank(i.kind) <= Rank("rgroup") <=> i.kind \in TearingKinds
  <2>1. i.kind \in FabricKinds BY DEF WorkSorted, FabricItem
  <2> QED BY <2>1, Ranks DEF FabricKinds, TearingKinds
<1> QED BY <1>1 DEF Tearing

LEMMA RequestsApart ==
    ASSUME RangeAssumption
    PROVE  /\ Fabric \in Requests /\ Fabric \notin Slots /\ Slots \subseteq Requests
           /\ Slots \subseteq Nat \ {0} /\ 1 \in Slots
<1>1. Cardinality(Slots) \in Nat BY FS_CardinalityType DEF RangeAssumption
<1>2. Slots = 1..Cardinality(Slots) /\ Slots # {} BY DEF RangeAssumption
<1> QED BY <1>1, <1>2 DEF Fabric, Requests

LEMMA IfMakes ==
    ASSUME NEW condition, NEW kind, NEW what, NEW i \in If(condition, kind, what)
    PROVE  i = Item(kind, what) /\ condition
BY DEF If

LEMMA WhatsAre ==
    /\ {} \in Whats /\ SUBSET Carriers \subseteq Whats
    /\ \A h \in Servers : {h} \in Whats
    /\ \A p \in Ports : {p} \in Whats
    /\ \A c \in Carriers : {c} \in Whats
    /\ \A g \in Groups : {g} \in Whats
    /\ \A s \in Slots : {s} \in Whats
BY DEF Whats

LEMMA ItemsTyped ==
    /\ \A p \in Ports : Item("port", {p}) \in Items /\ Item("rport", {p}) \in Items
    /\ \A h \in Servers : /\ Item("boot", {h}) \in Items /\ Item("server", {h}) \in Items
                          /\ Item("drop", {h}) \in Items /\ Item("admit", {h}) \in Items
    /\ \A c \in Carriers : /\ Item("network", {c}) \in Items /\ Item("rnetwork", {c}) \in Items
                           /\ Item("rsubnet", {c}) \in Items
    /\ \A carriers \in SUBSET Carriers : Item("subnets", carriers) \in Items
    /\ \A g \in Groups : Item("group", {g}) \in Items /\ Item("rgroup", {g}) \in Items
    /\ \A s \in Slots : Item("opened", {s}) \in Items
    /\ \A kind \in {"ntp", "reach", "unreach", "keypair", "rkeypair"} : Item(kind, {}) \in Items
<1>1. ASSUME NEW kind \in SlotKinds \cup FabricKinds, NEW what \in Whats
      PROVE  Item(kind, what) \in Items
  BY DEF Item, Items
<1>2. {"port", "rport", "boot", "server", "drop", "admit", "network", "rnetwork", "rsubnet",
       "subnets", "group", "rgroup", "opened", "ntp", "reach", "unreach", "keypair", "rkeypair"}
      \subseteq SlotKinds \cup FabricKinds
  BY DEF SlotKinds, FabricKinds
<1> QED BY <1>1, <1>2, WhatsAre

\* What a request's list may begin with, one lemma for each plan.
LEMMA EnsureFabricTyped ==
    ASSUME RangeTypeOK
    PROVE  /\ EnsureFabric \subseteq Items
           /\ \A i \in EnsureFabric : FabricItem(i) /\ i.kind \notin TearingKinds
           /\ \A i \in EnsureFabric : i.kind = "network" =>
                \E c \in Carriers : i = Item("network", {c}) /\ networks[c] = 0
<1>1. ASSUME NEW i \in EnsureFabric
      PROVE  \/ \E c \in MissingNetworks : i = Item("network", {c})
             \/ i = Item("subnets", MissingSubnets)
             \/ i = Item("keypair", {})
             \/ \E g \in MissingGroups : i = Item("group", {g})
             \/ i = Item("ntp", {})
             \/ i = Item("reach", {})
  BY IfMakes DEF EnsureFabric
<1>2. MissingNetworks \subseteq Carriers /\ MissingSubnets \subseteq Carriers /\ MissingGroups \subseteq Groups
  BY DEF MissingNetworks, MissingSubnets, MissingGroups
<1>3. \A c \in MissingNetworks : networks[c] = 0
  BY DEF MissingNetworks, Bound, RangeTypeOK
<1>4. ASSUME NEW i \in EnsureFabric PROVE i \in Items
  BY <1>1, <1>2, ItemsTyped
<1>5. ASSUME NEW i \in EnsureFabric PROVE FabricItem(i) /\ i.kind \notin TearingKinds
  BY <1>1, <1>2 DEF FabricItem, FabricKinds, TearingKinds, Item
<1>6. ASSUME NEW i \in EnsureFabric, i.kind = "network"
      PROVE  \E c \in Carriers : i = Item("network", {c}) /\ networks[c] = 0
  BY <1>1, <1>2, <1>3, <1>6 DEF Item
<1> QED BY <1>4, <1>5, <1>6

LEMMA TeardownFabricTyped ==
    ASSUME RangeTypeOK
    PROVE  /\ TeardownFabric \subseteq Items
           /\ \A i \in TeardownFabric : FabricItem(i) /\ i.kind \in TearingKinds
<1>1. ASSUME NEW i \in TeardownFabric
      PROVE  \/ \E p \in ports : i = Item("rport", {p})
             \/ i = Item("unreach", {})
             \/ \E c \in subnets : i = Item("rsubnet", {c})
             \/ \E c \in Carriers : i = Item("rnetwork", {c})
             \/ i = Item("rkeypair", {})
             \/ \E g \in Groups : i = Item("rgroup", {g})
  BY IfMakes DEF TeardownFabric
<1>2. ports \subseteq Ports /\ subnets \subseteq Carriers BY DEF RangeTypeOK
<1>3. ASSUME NEW i \in TeardownFabric PROVE i \in Items
  BY <1>1, <1>2, ItemsTyped
<1>4. ASSUME NEW i \in TeardownFabric PROVE FabricItem(i) /\ i.kind \in TearingKinds
  BY <1>1, <1>2 DEF FabricItem, FabricKinds, TearingKinds, Item
<1> QED BY <1>3, <1>4

LEMMA EnsureSlotTyped ==
    ASSUME NEW s \in Slots
    PROVE  /\ EnsureSlot(s) \subseteq Items
           /\ \A i \in EnsureSlot(s) : SlotItem(s, i) /\ i.kind \in {"port", "boot"}
<1>1. ToBoot(s) \subseteq {s} \X Hosts BY DEF ToBoot
<1>2. (UNION {PortsOf(h) : h \in ToBoot(s)}) \subseteq ({s} \X Hosts) \X Segments
  BY <1>1 DEF PortsOf
<1>3. ASSUME NEW i \in EnsureSlot(s)
      PROVE  \/ \E p \in ({s} \X Hosts) \X Segments : i = Item("port", {p})
             \/ \E h \in {s} \X Hosts : i = Item("boot", {h})
  BY <1>1, <1>2 DEF EnsureSlot
<1>4. {s} \X Hosts \subseteq Servers /\ ({s} \X Hosts) \X Segments \subseteq Ports
  BY DEF Servers, Ports
<1>5. ASSUME NEW i \in EnsureSlot(s) PROVE i \in Items
  <2>1. ASSUME NEW p \in ({s} \X Hosts) \X Segments PROVE Item("port", {p}) \in Items
    BY <1>4, ItemsTyped, Zenon
  <2>2. ASSUME NEW h \in {s} \X Hosts PROVE Item("boot", {h}) \in Items
    BY <1>4, ItemsTyped, Zenon
  <2> QED BY <1>3, <2>1, <2>2, Zenon
<1>6. ASSUME NEW i \in EnsureSlot(s) PROVE SlotItem(s, i) /\ i.kind \in {"port", "boot"}
  BY <1>3, <1>4 DEF SlotItem, SlotKinds, Item
<1> QED BY <1>5, <1>6

LEMMA TeardownSlotTyped ==
    ASSUME RangeTypeOK, NEW s \in Slots
    PROVE  /\ TeardownSlot(s) \subseteq Items
           /\ \A i \in TeardownSlot(s) : SlotItem(s, i) /\ i.kind \in {"server", "rport"}
           /\ \A h \in {s} \X Hosts : servers[h] = "up" => Item("server", {h}) \in TeardownSlot(s)
<1>1. ASSUME NEW p \in ports, p[1][1] = s PROVE p \in ({s} \X Hosts) \X Segments
  <2>1. p \in Ports BY DEF RangeTypeOK
  <2> QED BY <1>1, <2>1 DEF Ports, Servers
<1>2. ASSUME NEW i \in TeardownSlot(s)
      PROVE  \/ \E h \in {s} \X Hosts : i = Item("server", {h})
             \/ \E p \in ({s} \X Hosts) \X Segments : i = Item("rport", {p})
  BY <1>1 DEF TeardownSlot
<1>3. {s} \X Hosts \subseteq Servers /\ ({s} \X Hosts) \X Segments \subseteq Ports
  BY DEF Servers, Ports
<1>4. ASSUME NEW i \in TeardownSlot(s) PROVE i \in Items
  <2>1. ASSUME NEW p \in ({s} \X Hosts) \X Segments PROVE Item("rport", {p}) \in Items
    BY <1>3, ItemsTyped, Zenon
  <2>2. ASSUME NEW h \in {s} \X Hosts PROVE Item("server", {h}) \in Items
    BY <1>3, ItemsTyped, Zenon
  <2> QED BY <1>2, <2>1, <2>2, Zenon
<1>5. ASSUME NEW i \in TeardownSlot(s) PROVE SlotItem(s, i) /\ i.kind \in {"server", "rport"}
  BY <1>2, <1>3 DEF SlotItem, SlotKinds, Item
<1>6. ASSUME NEW h \in {s} \X Hosts, servers[h] = "up"
      PROVE  Item("server", {h}) \in TeardownSlot(s)
  BY <1>6 DEF TeardownSlot, Stands
<1> QED BY <1>4, <1>5, <1>6

\* Opening a collector drops the rules of servers that do not stand, and admits
\* the senders of its slot that are not heard.
LEMMA OpenCollectorTyped ==
    ASSUME RangeAssumption, HeardAreSenders, NEW s \in Slots
    PROVE  /\ OpenCollector(s) \subseteq Items
           /\ \A i \in OpenCollector(s) : SlotItem(s, i) /\ i.kind \in {"drop", "admit", "opened"}
           /\ \A i \in OpenCollector(s) : i.kind = "drop" => \A h \in i.what : servers[h] # "up"
           /\ \A h \in {s} \X Senders : h \in heard \/ Item("admit", {h}) \in OpenCollector(s)
<1> DEFINE senders == {s} \X Senders
           kept == {h \in Servers : h[1] # s /\ h[2] \in Senders /\ Stands(h)}
<1>1. Senders \subseteq Hosts BY DEF RangeAssumption
<1>2. senders \subseteq Servers BY <1>1 DEF Servers
<1>3. ASSUME NEW h \in heard \ (senders \cup kept) PROVE h \in Servers /\ servers[h] # "up"
  <2>1. h \in Slots \X Senders /\ h \in Servers BY <1>1 DEF HeardAreSenders, Servers
  <2>2. h[1] # s /\ h[2] \in Senders BY <1>3, <2>1
  <2> QED BY <1>3, <2>1, <2>2 DEF Stands
<1>4. ASSUME NEW i \in OpenCollector(s)
      PROVE  \/ \E h \in heard \ (senders \cup kept) : i = Item("drop", {h})
             \/ \E h \in senders : i = Item("admit", {h})
             \/ i = Item("opened", {s})
  BY DEF OpenCollector
<1>5. \A h \in senders : h \in heard \/ Item("admit", {h}) \in OpenCollector(s)
  BY DEF OpenCollector
<1> HIDE DEF senders, kept
<1>6. ASSUME NEW i \in OpenCollector(s) PROVE i \in Items
  BY <1>2, <1>3, <1>4, ItemsTyped
<1>7. ASSUME NEW i \in OpenCollector(s)
      PROVE  SlotItem(s, i) /\ i.kind \in {"drop", "admit", "opened"}
  <2>1. CASE \E h \in heard \ (senders \cup kept) : i = Item("drop", {h})
    BY <1>3, <2>1 DEF SlotItem, SlotKinds, Item
  <2>2. CASE \E h \in senders : i = Item("admit", {h})
    BY <2>2 DEF SlotItem, SlotKinds, Item, senders
  <2>3. CASE i = Item("opened", {s})
    BY <2>3 DEF SlotItem, SlotKinds, Item
  <2> QED BY <1>4, <2>1, <2>2, <2>3
<1>8. ASSUME NEW i \in OpenCollector(s), i.kind = "drop", NEW h \in i.what
      PROVE  servers[h] # "up"
  BY <1>3, <1>4, <1>8 DEF Item
<1> QED BY <1>5, <1>6, <1>7, <1>8 DEF senders

-----------------------------------------------------------------------------
(* What a request's call does to its list and to the slots. *)

Struck(r, i) == work' = [work EXCEPT ![r].todo = @ \ {i}]
Takes(r, i) == Struck(r, i) \/ Abandoned(r)

\* A list that begins is the plan's; the others stay.
LEMMA WorkBegins ==
    ASSUME WorkTyped, NEW r \in Requests, NEW list \in SUBSET Items, Begins(r, list)
    PROVE  /\ WorkTyped' /\ work'[r].todo = list
           /\ \A q \in Requests : q # r => work'[q] = work[q]
<1>1. work' = [work EXCEPT ![r] = [busy |-> TRUE, todo |-> list]] BY DEF Begins
<1>2. work'[r] = [busy |-> TRUE, todo |-> list] /\ \A q \in Requests : q # r => work'[q] = work[q]
  BY <1>1 DEF WorkTyped
<1>3. work' \in [Requests -> [busy : BOOLEAN, todo : SUBSET Items]]
  BY <1>1 DEF WorkTyped
<1> QED BY <1>2, <1>3 DEF WorkTyped

\* A call that is done leaves the list, one that fails ends the request.
LEMMA WorkShrinks ==
    ASSUME WorkTyped, NEW r \in Requests, NEW i, Takes(r, i)
    PROVE  /\ WorkTyped'
           /\ work'[r].todo = work[r].todo \ {i} \/ work'[r].todo = {}
           /\ \A q \in Requests : q # r => work'[q] = work[q]
           /\ \A q \in Requests : work'[q].todo \subseteq work[q].todo
<1>1. work[r] \in [busy : BOOLEAN, todo : SUBSET Items] BY DEF WorkTyped
<1>2. CASE Struck(r, i)
  <2>1. work' = [work EXCEPT ![r] = [work[r] EXCEPT !.todo = @ \ {i}]]
    BY <1>2 DEF Struck
  <2>2. [work[r] EXCEPT !.todo = @ \ {i}] = [busy |-> work[r].busy, todo |-> work[r].todo \ {i}]
    BY <1>1
  <2>3. work'[r] = [busy |-> work[r].busy, todo |-> work[r].todo \ {i}]
        /\ \A q \in Requests : q # r => work'[q] = work[q]
    BY <2>1, <2>2 DEF WorkTyped
  <2>4. work' \in [Requests -> [busy : BOOLEAN, todo : SUBSET Items]]
    BY <2>1, <2>2, <1>1 DEF WorkTyped
  <2> QED BY <2>3, <2>4 DEF WorkTyped
<1>3. CASE Abandoned(r)
  <2>1. work'[r] = [busy |-> FALSE, todo |-> {}]
        /\ \A q \in Requests : q # r => work'[q] = work[q]
    BY <1>3 DEF Abandoned, Idle, WorkTyped
  <2>2. work' \in [Requests -> [busy : BOOLEAN, todo : SUBSET Items]]
    BY <1>3 DEF Abandoned, Idle, WorkTyped
  <2> QED BY <2>1, <2>2 DEF WorkTyped
<1> QED BY <1>2, <1>3 DEF Takes

\* The calls, by what they do to the slots.
SlotMoves(r, i) ==
    \/ UNCHANGED slotVars /\ Abandoned(r)
    \/ i.kind \notin SlotKinds /\ UNCHANGED slotVars /\ Takes(r, i)
    \/ i.kind = "rgroup" /\ Takes(r, i) /\ heard' \in {heard, {}}
       /\ UNCHANGED <<ports, servers, configured>>
    \/ \E p \in i.what : /\ i.kind = "port" /\ ports' = ports \cup {p}
                         /\ Takes(r, i) /\ UNCHANGED <<servers, heard, configured>>
    \/ \E p \in i.what : /\ i.kind = "rport" /\ ports' = ports \ {p}
                         /\ Takes(r, i) /\ UNCHANGED <<servers, heard, configured>>
    \/ \E h \in i.what : /\ i.kind = "boot" /\ PortsOf(h) \subseteq ports
                         /\ servers' = [servers EXCEPT ![h] = "up"]
                         /\ configured' = configured \ {h[1]}
                         /\ Takes(r, i) /\ UNCHANGED <<ports, heard>>
    \/ \E h \in i.what : /\ i.kind = "server" /\ servers' = [servers EXCEPT ![h] = "going"]
                         /\ Takes(r, i) /\ UNCHANGED <<ports, heard, configured>>
    \/ \E h \in i.what : /\ i.kind = "drop" /\ heard' = heard \ {h}
                         /\ Takes(r, i) /\ UNCHANGED <<ports, servers, configured>>
    \/ \E h \in i.what : /\ i.kind = "admit" /\ heard' = heard \cup {h}
                         /\ Takes(r, i) /\ UNCHANGED <<ports, servers, configured>>
    \/ /\ i.kind = "opened" /\ configured' = configured \cup i.what
       /\ Struck(r, i) /\ UNCHANGED <<ports, servers, heard>>

\* What a call may do, one fact for each that an invariant needs.
LEMMA StepDoes ==
    ASSUME RangeTypeOK, WorkTyped, WorkSorted, NEW r \in Requests, NEW i \in Next1(r), SlotMoves(r, i)
    PROVE  /\ i \in work[r].todo /\ Takes(r, i)
           /\ \A h \in Servers : servers'[h] = "up" =>
                \/ servers[h] = "up"
                \/ /\ r \in Slots /\ i.kind = "boot" /\ h \in i.what /\ h[1] \notin configured'
                   /\ PortsOf(h) \subseteq ports /\ ports' = ports
           /\ \A p \in ports : p \in ports' \/ (i.kind = "rport" /\ p \in i.what)
           /\ \A h \in heard : h \in heard' \/ i.kind = "rgroup" \/ (i.kind = "drop" /\ h \in i.what)
           /\ \A h : i = Item("server", {h}) => servers'[h] # "up" \/ work'[r].todo = {}
           /\ \A h : i = Item("admit", {h}) => h \in heard' \/ work'[r].todo = {}
           /\ \A s \in configured' : s \in configured \/ (i.kind = "opened" /\ s \in i.what)
<1>1. i \in work[r].todo BY DEF Next1
<1>2. work[r].todo \subseteq Items /\ servers \in [Servers -> {"none", "up", "going"}]
  BY DEF WorkTyped, RangeTypeOK
<1>3. i.kind \in SlotKinds \ FabricKinds => r \in Slots
  BY <1>1 DEF Requests, WorkSorted, FabricItem
<1>4. Abandoned(r) => work'[r].todo = {}
  BY DEF Abandoned, Idle, WorkTyped
<1>5. i.kind = "boot" => i.what \subseteq Servers
  BY <1>1, <1>3 DEF WorkSorted, SlotItem, Servers, SlotKinds, FabricKinds
<1>6. i.kind = "server" => i.what \subseteq Servers
  BY <1>1, <1>3 DEF WorkSorted, SlotItem, Servers, SlotKinds, FabricKinds
<1>7. ASSUME NEW h, i = Item("server", {h}) PROVE i.kind = "server" /\ i.what = {h}
  BY <1>7 DEF Item
<1>8. ASSUME NEW h, i = Item("admit", {h}) PROVE i.kind = "admit" /\ i.what = {h}
  BY <1>8 DEF Item
<1>9. CASE UNCHANGED slotVars /\ Abandoned(r)
  BY <1>1, <1>4, <1>9 DEF slotVars, Takes
<1>10. CASE i.kind \notin SlotKinds /\ UNCHANGED slotVars /\ Takes(r, i)
  BY <1>1, <1>7, <1>8, <1>10 DEF slotVars, SlotKinds
<1>11. CASE i.kind = "rgroup" /\ Takes(r, i) /\ heard' \in {heard, {}} /\ UNCHANGED <<ports, servers, configured>>
  BY <1>1, <1>7, <1>8, <1>11
<1>12. CASE \E p \in i.what : /\ i.kind = "port" /\ ports' = ports \cup {p}
                              /\ Takes(r, i) /\ UNCHANGED <<servers, heard, configured>>
  BY <1>1, <1>7, <1>8, <1>12
<1>13. CASE \E p \in i.what : /\ i.kind = "rport" /\ ports' = ports \ {p}
                              /\ Takes(r, i) /\ UNCHANGED <<servers, heard, configured>>
  BY <1>1, <1>7, <1>8, <1>13
<1>14. ASSUME NEW h \in i.what, i.kind = "boot", PortsOf(h) \subseteq ports,
              servers' = [servers EXCEPT ![h] = "up"], configured' = configured \ {h[1]},
              Takes(r, i), UNCHANGED <<ports, heard>>
       PROVE  \A g \in Servers : servers'[g] = "up" =>
                servers[g] = "up" \/ (g = h /\ r \in Slots /\ g[1] \notin configured')
  BY <1>2, <1>3, <1>14 DEF SlotKinds, FabricKinds
<1>15. CASE \E h \in i.what : /\ i.kind = "boot" /\ PortsOf(h) \subseteq ports
                              /\ servers' = [servers EXCEPT ![h] = "up"]
                              /\ configured' = configured \ {h[1]}
                              /\ Takes(r, i) /\ UNCHANGED <<ports, heard>>
  BY <1>1, <1>7, <1>8, <1>14, <1>15
<1>16. CASE \E h \in i.what : /\ i.kind = "server" /\ servers' = [servers EXCEPT ![h] = "going"]
                              /\ Takes(r, i) /\ UNCHANGED <<ports, heard, configured>>
  BY <1>1, <1>2, <1>6, <1>7, <1>8, <1>16
<1>17. CASE \E h \in i.what : /\ i.kind = "drop" /\ heard' = heard \ {h}
                              /\ Takes(r, i) /\ UNCHANGED <<ports, servers, configured>>
  BY <1>1, <1>7, <1>8, <1>17
<1>18. CASE \E h \in i.what : /\ i.kind = "admit" /\ heard' = heard \cup {h}
                              /\ Takes(r, i) /\ UNCHANGED <<ports, servers, configured>>
  BY <1>1, <1>7, <1>8, <1>18
<1>19. CASE /\ i.kind = "opened" /\ configured' = configured \cup i.what
            /\ Struck(r, i) /\ UNCHANGED <<ports, servers, heard>>
  BY <1>1, <1>7, <1>8, <1>19 DEF Takes
<1> QED BY <1>9, <1>10, <1>11, <1>12, <1>13, <1>15, <1>16, <1>17, <1>18, <1>19 DEF SlotMoves

\* Which requests have which calls.
LEMMA WhoseCall ==
    ASSUME RangeAssumption, WorkSorted, NEW r \in Requests, NEW i \in work[r].todo
    PROVE  /\ i.kind \in {"server", "port", "boot", "drop", "admit", "opened"} => r \in Slots
           /\ i.kind \notin SlotKinds => r = Fabric
           /\ i.kind = "rgroup" => Tearing
           /\ i.kind = "rport" /\ r = Fabric => Tearing
           /\ r \in Slots => SlotItem(r, i)
<1>1. r = Fabric \/ r \in Slots BY DEF Requests
<1>2. r = Fabric => FabricItem(i) BY DEF WorkSorted
<1>3. r \in Slots => SlotItem(r, i) BY DEF WorkSorted
<1>4. r = Fabric /\ i.kind \in TearingKinds => Tearing BY TearingIs
<1> QED BY <1>1, <1>2, <1>3, <1>4 DEF FabricItem, FabricKinds, SlotItem, SlotKinds, TearingKinds

\* A list that boots neither takes down nor opens.
LEMMA BootsOnly ==
    ASSUME WorkSorted, NEW s \in Slots, NEW i \in work[s].todo, i.kind = "boot"
    PROVE  \A j \in work[s].todo : j.kind \in {"port", "boot"}
BY DEF WorkSorted, AllOf

LEMMA StepKeepsSorted ==
    ASSUME WorkSorted, \A q \in Requests : work'[q].todo \subseteq work[q].todo, RangeAssumption
    PROVE  WorkSorted' /\ (Tearing' => Tearing) /\ \A s \in Slots : Opening(s)' => Opening(s)
<1>1. Fabric \in Requests /\ Slots \subseteq Requests BY RequestsApart
<1>2. WorkSorted'
  <2>1. \A i \in work'[Fabric].todo : FabricItem(i) BY <1>1 DEF WorkSorted
  <2>2. \A s \in Slots : \A i \in work'[s].todo : SlotItem(s, i) BY <1>1 DEF WorkSorted
  <2>3. ASSUME NEW s \in Slots
        PROVE  \/ AllOf(s, {"server", "rport"})'
               \/ AllOf(s, {"port", "boot"})'
               \/ AllOf(s, {"drop", "admit", "opened"})'
    BY <1>1 DEF WorkSorted, AllOf
  <2>4. \A i \in work'[Fabric].todo : FabricItem(i)' BY <2>1 DEF FabricItem
  <2>5. \A s \in Slots : \A i \in work'[s].todo : SlotItem(s, i)' BY <2>2 DEF SlotItem
  <2> QED BY <2>3, <2>4, <2>5 DEF WorkSorted
<1>3. Tearing' => Tearing BY <1>1 DEF Tearing, Rank, Kinds
<1>4. \A s \in Slots : Opening(s)' => Opening(s) BY <1>1 DEF Opening
<1> QED BY <1>2, <1>3, <1>4

\* What the invariants of the slots say, together.
SlotsInv ==
    /\ TearsDownTheEmpty /\ PortsGoLast /\ ServersKeepTheirPorts
    /\ OpeningHears /\ DropsNothingOpened /\ OpenedSlotsStayHeard

LEMMA StepKeepsPorts ==
    ASSUME RangeAssumption, RangeTypeOK, WorkTyped, WorkSorted, SlotsInv,
           NEW r \in Requests, NEW i \in Next1(r), SlotMoves(r, i)
    PROVE  TearsDownTheEmpty' /\ PortsGoLast' /\ ServersKeepTheirPorts'
<1>1. i \in work[r].todo /\ Takes(r, i) BY StepDoes
<1>2. /\ work'[r].todo = work[r].todo \ {i} \/ work'[r].todo = {}
      /\ \A q \in Requests : q # r => work'[q] = work[q]
      /\ \A q \in Requests : work'[q].todo \subseteq work[q].todo
  BY <1>1, WorkShrinks
<1>3. ASSUME NEW h \in Servers, servers'[h] = "up"
      PROVE  \/ servers[h] = "up"
             \/ /\ r \in Slots /\ i.kind = "boot" /\ h \in i.what /\ h[1] = r
                /\ PortsOf(h) \subseteq ports /\ ports' = ports
  <2>1. \/ servers[h] = "up"
        \/ /\ r \in Slots /\ i.kind = "boot" /\ h \in i.what
           /\ PortsOf(h) \subseteq ports /\ ports' = ports
    BY <1>3, StepDoes
  <2>2. r \in Slots /\ i.kind = "boot" => i.what \subseteq {r} \X Hosts
    BY <1>1, WhoseCall DEF SlotItem
  <2>3. r \in Slots /\ i.kind = "boot" /\ h \in i.what => h[1] = r BY <2>2
  <2> QED BY <2>1, <2>3
<1>4. TearsDownTheEmpty'
  <2> SUFFICES ASSUME Tearing'
               PROVE  /\ \A h \in Servers : servers'[h] # "up"
                      /\ \A s \in Slots : AllOf(s, {"server", "rport"})'
    BY DEF TearsDownTheEmpty
  <2>1. Tearing BY <1>2, StepKeepsSorted
  <2>2. /\ \A h \in Servers : servers[h] # "up"
        /\ \A s \in Slots : AllOf(s, {"server", "rport"})
    BY <2>1 DEF SlotsInv, TearsDownTheEmpty
  <2>3. r \in Slots => i.kind # "boot" BY <1>1, <2>2 DEF AllOf
  <2>4. Slots \subseteq Requests BY RequestsApart
  <2>5. \A s \in Slots : AllOf(s, {"server", "rport"})' BY <1>2, <2>2, <2>4 DEF AllOf
  <2> QED BY <1>3, <2>2, <2>3, <2>5
<1>5. PortsGoLast'
  <2> SUFFICES ASSUME NEW s \in Slots, NEW j \in work'[s].todo, j.kind = "rport",
                      NEW h \in {s} \X Hosts, servers'[h] = "up"
               PROVE  Item("server", {h}) \in work'[s].todo
    BY DEF PortsGoLast
  <2>1. s \in Requests /\ j \in work[s].todo BY <1>2, RequestsApart
  <2>2. h \in Servers /\ h[1] = s BY DEF Servers
  <2>3. servers[h] = "up"
    <3>1. CASE r \in Slots /\ i.kind = "boot" /\ h[1] = r
      <4>1. r = s BY <2>2, <3>1
      <4> QED BY <1>1, <2>1, <3>1, <4>1, BootsOnly
    <3> QED BY <1>3, <2>2, <3>1
  <2>4. Item("server", {h}) \in work[s].todo
    BY <2>1, <2>3 DEF SlotsInv, PortsGoLast
  <2>5. CASE s # r BY <1>2, <2>1, <2>4, <2>5
  <2>6. CASE s = r
    <3>1. work'[r].todo # {} BY <2>6
    <3>2. i # Item("server", {h}) BY <3>1, StepDoes
    <3> QED BY <1>2, <2>4, <2>6, <3>1, <3>2
  <2> QED BY <2>5, <2>6
<1>6. ServersKeepTheirPorts'
  <2> SUFFICES ASSUME NEW h \in Servers, servers'[h] = "up" PROVE PortsOf(h) \subseteq ports'
    BY DEF ServersKeepTheirPorts, PortsOf
  <2>1. CASE servers[h] = "up"
    <3>1. PortsOf(h) \subseteq ports BY <2>1 DEF SlotsInv, ServersKeepTheirPorts
    <3>2. ASSUME i.kind = "rport", NEW p \in PortsOf(h), p \in i.what PROVE FALSE
      <4>1. CASE r = Fabric
        BY <1>1, <2>1, <3>2, <4>1, WhoseCall DEF SlotsInv, TearsDownTheEmpty
      <4>2. CASE r \in Slots
        <5>1. p \in ({r} \X Hosts) \X Segments BY <1>1, <3>2, <4>2, WhoseCall DEF SlotItem
        <5>2. p[1] = h /\ h \in {r} \X Hosts BY <3>2, <5>1 DEF PortsOf
        <5>3. Item("server", {h}) \in work[r].todo
          BY <1>1, <2>1, <3>2, <4>2, <5>2 DEF SlotsInv, PortsGoLast
        <5>4. Rank(i.kind) <= Rank(Item("server", {h}).kind) BY <5>3 DEF Next1
        <5>5. Item("server", {h}).kind = "server" BY DEF Item
        <5> QED BY <3>2, <5>4, <5>5, Ranks
      <4> QED BY <4>1, <4>2 DEF Requests
    <3>3. \A p \in ports : p \in ports' \/ (i.kind = "rport" /\ p \in i.what) BY StepDoes
    <3> QED BY <3>1, <3>2, <3>3
  <2>2. CASE PortsOf(h) \subseteq ports /\ ports' = ports BY <2>2
  <2> QED BY <1>3, <2>1, <2>2
<1> QED BY <1>4, <1>5, <1>6

LEMMA StepKeepsRules ==
    ASSUME RangeAssumption, RangeTypeOK, WorkTyped, WorkSorted, SlotsInv,
           NEW r \in Requests, NEW i \in Next1(r), SlotMoves(r, i)
    PROVE  OpeningHears' /\ DropsNothingOpened' /\ OpenedSlotsStayHeard'
<1>1. i \in work[r].todo /\ Takes(r, i) BY StepDoes
<1>2. /\ work'[r].todo = work[r].todo \ {i} \/ work'[r].todo = {}
      /\ \A q \in Requests : q # r => work'[q] = work[q]
      /\ \A q \in Requests : work'[q].todo \subseteq work[q].todo
  BY <1>1, WorkShrinks
<1>3. Slots \subseteq Requests /\ \A s \in Slots : Opening(s)' => Opening(s)
  BY <1>2, RequestsApart, StepKeepsSorted
<1>4. ASSUME NEW h \in Servers, servers'[h] = "up"
      PROVE  servers[h] = "up" \/ (~ Opening(h[1]) /\ h[1] \notin configured')
  <2>1. CASE r \in Slots /\ i.kind = "boot" /\ h \in i.what /\ h[1] \notin configured'
    <3>1. h[1] = r BY <1>1, <2>1, WhoseCall DEF SlotItem
    <3>2. ~ Opening(r) BY <1>1, <2>1, BootsOnly DEF Opening
    <3> QED BY <2>1, <3>1, <3>2
  <2> QED BY <1>4, <2>1, StepDoes
\* A rule that goes is of a server that is not up, or of a slot not opened.
<1>5. ASSUME NEW h \in heard, h \in Servers, servers[h] = "up", h[1] \in configured \/ Opening(h[1])
      PROVE  h \in heard'
  <2>1. h[1] \in Slots BY <1>5 DEF Servers
  <2>2. ASSUME i.kind = "rgroup" PROVE FALSE
    <3>1. Tearing BY <1>1, <2>2, WhoseCall
    <3> QED BY <1>5, <3>1 DEF SlotsInv, TearsDownTheEmpty
  <2>3. ASSUME i.kind = "drop", h \in i.what PROVE FALSE
    <3>1. r \in Slots BY <1>1, <2>3, WhoseCall
    <3> QED BY <1>1, <1>5, <2>3, <3>1 DEF SlotsInv, DropsNothingOpened
  <2> QED BY <2>2, <2>3, StepDoes
<1>6. ASSUME NEW s \in Slots PROVE {s} \X Senders \subseteq Servers /\ \A h \in {s} \X Senders : h[1] = s
  BY DEF RangeAssumption, Servers
<1>7. OpeningHears'
  <2> SUFFICES ASSUME NEW s \in Slots, Opening(s)', NEW h \in {s} \X Senders, servers'[h] = "up"
               PROVE  h \in heard' \/ Item("admit", {h}) \in work'[s].todo
    BY DEF OpeningHears
  <2>1. h \in Servers /\ h[1] = s BY <1>6
  <2>2. Opening(s) BY <1>3
  <2>3. servers[h] = "up" BY <1>4, <2>1, <2>2
  <2>4. h \in heard \/ Item("admit", {h}) \in work[s].todo
    BY <2>2, <2>3 DEF SlotsInv, OpeningHears
  <2>5. CASE h \in heard BY <1>5, <2>1, <2>2, <2>3, <2>5
  <2>6. CASE Item("admit", {h}) \in work[s].todo /\ s # r
    BY <1>2, <1>3, <2>6
  <2>7. CASE Item("admit", {h}) \in work[s].todo /\ s = r
    <3>1. work'[r].todo # {} BY <2>7 DEF Opening
    <3>2. i = Item("admit", {h}) => h \in heard' BY <3>1, StepDoes
    <3> QED BY <1>2, <2>7, <3>1, <3>2
  <2> QED BY <2>4, <2>5, <2>6, <2>7
<1>8. DropsNothingOpened'
  <2> SUFFICES ASSUME NEW q \in Slots, NEW j \in work'[q].todo, j.kind = "drop",
                      NEW h \in j.what, servers'[h] = "up"
               PROVE  h[1] \notin configured' /\ ~ Opening(h[1])'
    BY DEF DropsNothingOpened, Opening
  <2>1. j \in work[q].todo BY <1>2, <1>3
  <2>2. h \in Servers BY <2>1 DEF WorkSorted, SlotItem
  <2>3. h[1] \in Slots BY <2>2 DEF Servers
  <2>4. CASE servers[h] = "up"
    <3>1. h[1] \notin configured /\ ~ Opening(h[1])
      BY <2>1, <2>4 DEF SlotsInv, DropsNothingOpened
    <3>2. ASSUME i.kind = "opened", h[1] \in i.what PROVE FALSE
      <4>1. r \in Slots /\ i.what = {r} BY <1>1, <3>2, WhoseCall DEF SlotItem
      <4>2. Opening(r) BY <1>1, <3>2 DEF Opening
      <4> QED BY <3>1, <3>2, <4>1, <4>2
    <3>3. h[1] \notin configured' BY <3>1, <3>2, StepDoes
    <3> QED BY <1>3, <2>3, <3>1, <3>3
  <2>5. CASE ~ Opening(h[1]) /\ h[1] \notin configured' BY <1>3, <2>3, <2>5
  <2> QED BY <1>4, <2>2, <2>4, <2>5
<1>9. OpenedSlotsStayHeard'
  <2> SUFFICES ASSUME NEW s \in configured', NEW h \in {s} \X Senders, servers'[h] = "up"
               PROVE  h \in heard'
    BY DEF OpenedSlotsStayHeard
  <2>1. CASE s \in configured
    <3>1. s \in Slots BY <2>1 DEF RangeTypeOK
    <3>2. h \in Servers /\ h[1] = s BY <1>6, <3>1
    <3>3. servers[h] = "up" BY <1>4, <3>2
    <3>4. h \in heard BY <2>1, <3>3 DEF SlotsInv, OpenedSlotsStayHeard
    <3> QED BY <1>5, <2>1, <3>2, <3>3, <3>4
  <2>2. CASE i.kind = "opened" /\ s \in i.what
    <3>1. r \in Slots /\ s = r BY <1>1, <2>2, WhoseCall DEF SlotItem
    <3>2. Opening(r) BY <1>1, <2>2 DEF Opening
    <3>3. h \in Servers /\ h[1] = r BY <1>6, <3>1
    <3>4. servers[h] = "up" BY <1>4, <3>2, <3>3
    <3>5. h \in heard \/ Item("admit", {h}) \in work[r].todo
      BY <3>1, <3>2, <3>4 DEF SlotsInv, OpeningHears
    <3>6. ASSUME Item("admit", {h}) \in work[r].todo PROVE FALSE
      <4>1. Rank(i.kind) <= Rank(Item("admit", {h}).kind) BY <3>6 DEF Next1
      <4>2. Item("admit", {h}).kind = "admit" BY DEF Item
      <4> QED BY <2>2, <4>1, <4>2, Ranks
    <3> QED BY <1>5, <3>2, <3>3, <3>4, <3>5, <3>6
  <2>3. s \in configured \/ (i.kind = "opened" /\ s \in i.what) BY StepDoes
  <2> QED BY <2>1, <2>2, <2>3
<1> QED BY <1>7, <1>8, <1>9

-----------------------------------------------------------------------------
(* The types, and the networks that are made once. *)

\* Of the slots' variables, and of what no call but a fabric's changes.
LEMMA StepKeepsSlotTypes ==
    ASSUME RangeAssumption, RangeTypeOK, WorkTyped, WorkSorted, HeardAreSenders,
           NEW r \in Requests, NEW i \in Next1(r), SlotMoves(r, i)
    PROVE  /\ ports' \subseteq Ports /\ servers' \in [Servers -> {"none", "up", "going"}]
           /\ heard' \subseteq Servers /\ configured' \subseteq Slots /\ HeardAreSenders'
<1>1. i \in work[r].todo BY DEF Next1
<1>2. /\ ports \subseteq Ports /\ servers \in [Servers -> {"none", "up", "going"}]
      /\ heard \subseteq Servers /\ configured \subseteq Slots /\ heard \subseteq Slots \X Senders
  BY DEF RangeTypeOK, HeardAreSenders
<1>3. i.kind \in {"port", "rport"} => i.what \subseteq Ports
  <2>1. r \in Slots => SlotItem(r, i) BY <1>1, WhoseCall
  <2>2. r \notin Slots => FabricItem(i) BY <1>1 DEF Requests, WorkSorted
  <2>3. ASSUME r \in Slots, i.kind \in {"port", "rport"} PROVE i.what \subseteq Ports
    BY <2>1, <2>3 DEF SlotItem, Ports, Servers
  <2>4. ASSUME r \notin Slots, i.kind \in {"port", "rport"} PROVE i.what \subseteq Ports
    BY <2>2, <2>4 DEF FabricItem, FabricKinds
  <2> QED BY <2>3, <2>4
<1>4. i.kind = "admit" => i.what \subseteq Slots \X Senders
  BY <1>1, WhoseCall DEF SlotItem
<1>5. i.kind = "opened" => i.what \subseteq Slots
  BY <1>1, WhoseCall DEF SlotItem
<1>6. Slots \X Senders \subseteq Servers BY DEF RangeAssumption, Servers
<1>7. ports' \subseteq Ports BY <1>2, <1>3 DEF SlotMoves, slotVars
<1>8. servers' \in [Servers -> {"none", "up", "going"}] BY <1>2 DEF SlotMoves, slotVars
<1>9. heard' \subseteq Slots \X Senders BY <1>2, <1>4 DEF SlotMoves, slotVars
<1>10. configured' \subseteq Slots BY <1>2, <1>5 DEF SlotMoves, slotVars
<1> QED BY <1>6, <1>7, <1>8, <1>9, <1>10 DEF HeardAreSenders

\* A call of a request leaves the networks alone, or is one of the fabric's
\* that makes or removes one.
NetworkMoves(i) ==
    \/ UNCHANGED networks
    \/ \E c \in i.what : i.kind = "network" /\ networks' = [networks EXCEPT ![c] = @ + 1]
    \/ \E c \in i.what : /\ i.kind = "rnetwork" /\ Bound(c)
                         /\ networks' = [networks EXCEPT ![c] = @ - 1]

LEMMA StepMoves ==
    ASSUME NEW r \in Requests, Step(r)
    PROVE  \E i \in Next1(r) : SlotMoves(r, i) /\ NetworkMoves(i)
                              /\ (rmishaps' = rmishaps \/ Mishap("call"))
<1>1. PICK i \in Next1(r) :
        \/ \E c \in i.what : OfNetwork(r, i, c)
        \/ MakeSubnets(r, i) \/ OfKey(r, i) \/ OfReach(r, i) \/ Opened(r, i)
        \/ \E g \in i.what : MakeGroup(r, i, g) \/ RemoveGroup(r, i, g)
        \/ \E p \in i.what : OfPort(r, i, p)
        \/ \E h \in i.what : OfServer(r, i, h) \/ OfRule(r, i, h)
  BY DEF Step
<1> DEFINE Kept == NetworkMoves(i) /\ (rmishaps' = rmishaps \/ Mishap("call"))
<1>2. ASSUME NEW c \in i.what, OfNetwork(r, i, c) PROVE SlotMoves(r, i) /\ Kept
  <2>1. SlotMoves(r, i) BY <1>2 DEF OfNetwork, Call, SlotMoves, Takes, Struck, SlotKinds, slotVars
  <2>2. NetworkMoves(i) BY <1>2 DEF OfNetwork, Call, NetworkMoves, fabricVars
  <2>3. rmishaps' = rmishaps \/ Mishap("call") BY <1>2 DEF OfNetwork, Call
  <2> QED BY <2>1, <2>2, <2>3
<1>3. ASSUME MakeSubnets(r, i) PROVE SlotMoves(r, i) /\ Kept
  <2>1. SlotMoves(r, i) BY <1>3 DEF MakeSubnets, Call, SlotMoves, Takes, Struck, SlotKinds, slotVars
  <2>2. NetworkMoves(i) BY <1>3 DEF MakeSubnets, Call, NetworkMoves, fabricVars
  <2>3. rmishaps' = rmishaps \/ Mishap("call") BY <1>3 DEF MakeSubnets, Call
  <2> QED BY <2>1, <2>2, <2>3
<1>4. ASSUME OfKey(r, i) PROVE SlotMoves(r, i) /\ Kept
  <2>1. SlotMoves(r, i) BY <1>4 DEF OfKey, Call, SlotMoves, Takes, Struck, SlotKinds, slotVars
  <2>2. NetworkMoves(i) BY <1>4 DEF OfKey, Call, NetworkMoves, fabricVars
  <2>3. rmishaps' = rmishaps \/ Mishap("call") BY <1>4 DEF OfKey, Call
  <2> QED BY <2>1, <2>2, <2>3
<1>5. ASSUME OfReach(r, i) PROVE SlotMoves(r, i) /\ Kept
  <2>1. SlotMoves(r, i) BY <1>5 DEF OfReach, Call, SlotMoves, Takes, Struck, SlotKinds, slotVars
  <2>2. NetworkMoves(i) BY <1>5 DEF OfReach, Call, NetworkMoves, fabricVars
  <2>3. rmishaps' = rmishaps \/ Mishap("call") BY <1>5 DEF OfReach, Call
  <2> QED BY <2>1, <2>2, <2>3
<1>6. ASSUME Opened(r, i) PROVE SlotMoves(r, i) /\ Kept
  <2>4. ASSUME SshReaches PROVE SlotMoves(r, i)
    BY <1>6, <2>4 DEF Opened, SlotMoves, Takes, Struck
  <2>5. ASSUME ~ SshReaches PROVE SlotMoves(r, i)
    <3>1. UNCHANGED slotVars /\ Abandoned(r) BY <1>6, <2>5 DEF Opened, slotVars
    <3> QED BY <3>1 DEF SlotMoves
  <2>1. SlotMoves(r, i) BY <2>4, <2>5
  <2>2. NetworkMoves(i) BY <1>6 DEF Opened, NetworkMoves, fabricVars
  <2>3. rmishaps' = rmishaps \/ Mishap("call") BY <1>6 DEF Opened
  <2> QED BY <2>1, <2>2, <2>3
<1>7. ASSUME NEW g \in i.what, MakeGroup(r, i, g) PROVE SlotMoves(r, i) /\ Kept
  <2>1. SlotMoves(r, i) BY <1>7 DEF MakeGroup, Call, SlotMoves, Takes, Struck, SlotKinds, slotVars
  <2>2. NetworkMoves(i) BY <1>7 DEF MakeGroup, Call, NetworkMoves, fabricVars
  <2>3. rmishaps' = rmishaps \/ Mishap("call") BY <1>7 DEF MakeGroup, Call
  <2> QED BY <2>1, <2>2, <2>3
<1>8. ASSUME NEW g \in i.what, RemoveGroup(r, i, g) PROVE SlotMoves(r, i) /\ Kept
  <2>1. SlotMoves(r, i) BY <1>8 DEF RemoveGroup, Call, SlotMoves, Takes, Struck
  <2>2. NetworkMoves(i) BY <1>8 DEF RemoveGroup, Call, NetworkMoves, fabricVars
  <2>3. rmishaps' = rmishaps \/ Mishap("call") BY <1>8 DEF RemoveGroup, Call
  <2> QED BY <2>1, <2>2, <2>3
<1>9. ASSUME NEW p \in i.what, OfPort(r, i, p) PROVE SlotMoves(r, i) /\ Kept
  <2>1. SlotMoves(r, i) BY <1>9 DEF OfPort, Call, SlotMoves, Takes, Struck
  <2>2. NetworkMoves(i) BY <1>9 DEF OfPort, Call, NetworkMoves, fabricVars
  <2>3. rmishaps' = rmishaps \/ Mishap("call") BY <1>9 DEF OfPort, Call
  <2> QED BY <2>1, <2>2, <2>3
<1>10. ASSUME NEW h \in i.what, OfServer(r, i, h) PROVE SlotMoves(r, i) /\ Kept
  <2>1. SlotMoves(r, i) BY <1>10 DEF OfServer, Call, SlotMoves, Takes, Struck
  <2>2. NetworkMoves(i) BY <1>10 DEF OfServer, Call, NetworkMoves, fabricVars
  <2>3. rmishaps' = rmishaps \/ Mishap("call") BY <1>10 DEF OfServer, Call
  <2> QED BY <2>1, <2>2, <2>3
<1>11. ASSUME NEW h \in i.what, OfRule(r, i, h) PROVE SlotMoves(r, i) /\ Kept
  <2>1. SlotMoves(r, i) BY <1>11 DEF OfRule, Call, SlotMoves, Takes, Struck
  <2>2. NetworkMoves(i) BY <1>11 DEF OfRule, Call, NetworkMoves, fabricVars
  <2>3. rmishaps' = rmishaps \/ Mishap("call") BY <1>11 DEF OfRule, Call
  <2> QED BY <2>1, <2>2, <2>3
<1> HIDE DEF Kept
<1>12. SlotMoves(r, i) /\ Kept BY <1>1, <1>2, <1>3, <1>4, <1>5, <1>6, <1>7, <1>8, <1>9, <1>10, <1>11, Zenon
<1> QED BY <1>12 DEF Kept

LEMMA StepKeepsFabricTypes ==
    ASSUME RangeAssumption, RangeTypeOK, WorkSorted, NEW r \in Requests, Step(r)
    PROVE  /\ subnets' \subseteq Carriers /\ {keypair', ntp', reach'} \subseteq BOOLEAN
           /\ groups' \in [Groups -> {"none", "bare", "whole"}]
<1>1. PICK i \in Next1(r) :
        \/ \E c \in i.what : OfNetwork(r, i, c)
        \/ MakeSubnets(r, i) \/ OfKey(r, i) \/ OfReach(r, i) \/ Opened(r, i)
        \/ \E g \in i.what : MakeGroup(r, i, g) \/ RemoveGroup(r, i, g)
        \/ \E p \in i.what : OfPort(r, i, p)
        \/ \E h \in i.what : OfServer(r, i, h) \/ OfRule(r, i, h)
  BY DEF Step
<1> DEFINE Typed == /\ subnets' \subseteq Carriers
                    /\ groups' \in [Groups -> {"none", "bare", "whole"}]
                    /\ keypair' \in BOOLEAN /\ ntp' \in BOOLEAN /\ reach' \in BOOLEAN
<1>12. subnets \subseteq Carriers /\ groups \in [Groups -> {"none", "bare", "whole"}]
  BY DEF RangeTypeOK
<1>13. keypair \in BOOLEAN /\ ntp \in BOOLEAN /\ reach \in BOOLEAN BY DEF RangeTypeOK
<1>14. i.kind = "subnets" => i.what \subseteq Carriers
  <2>1. i \in work[r].todo BY DEF Next1
  <2> QED BY <2>1, WhoseCall DEF WorkSorted, FabricItem, SlotKinds
<1>2. ASSUME NEW c \in i.what, OfNetwork(r, i, c) PROVE Typed
  <2>1. subnets' \subseteq Carriers BY <1>12, <1>14, <1>2 DEF OfNetwork, Call, fabricVars
  <2>2. groups' \in [Groups -> {"none", "bare", "whole"}] BY <1>12, <1>2 DEF OfNetwork, Call, fabricVars
  <2>3. keypair' \in BOOLEAN BY <1>13, <1>2 DEF OfNetwork, Call, fabricVars
  <2>4. ntp' \in BOOLEAN BY <1>13, <1>2 DEF OfNetwork, Call, fabricVars
  <2>5. reach' \in BOOLEAN BY <1>13, <1>2 DEF OfNetwork, Call, fabricVars
  <2> QED BY <2>1, <2>2, <2>3, <2>4, <2>5
<1>3. ASSUME MakeSubnets(r, i) PROVE Typed
  <2>1. subnets' \subseteq Carriers BY <1>12, <1>14, <1>3 DEF MakeSubnets, Call, fabricVars
  <2>2. groups' \in [Groups -> {"none", "bare", "whole"}] BY <1>12, <1>3 DEF MakeSubnets, Call, fabricVars
  <2>3. keypair' \in BOOLEAN BY <1>13, <1>3 DEF MakeSubnets, Call, fabricVars
  <2>4. ntp' \in BOOLEAN BY <1>13, <1>3 DEF MakeSubnets, Call, fabricVars
  <2>5. reach' \in BOOLEAN BY <1>13, <1>3 DEF MakeSubnets, Call, fabricVars
  <2> QED BY <2>1, <2>2, <2>3, <2>4, <2>5
<1>4. ASSUME OfKey(r, i) PROVE Typed
  <2>1. subnets' \subseteq Carriers BY <1>12, <1>14, <1>4 DEF OfKey, Call, fabricVars
  <2>2. groups' \in [Groups -> {"none", "bare", "whole"}] BY <1>12, <1>4 DEF OfKey, Call, fabricVars
  <2>3. keypair' \in BOOLEAN BY <1>13, <1>4 DEF OfKey, Call, fabricVars
  <2>4. ntp' \in BOOLEAN BY <1>13, <1>4 DEF OfKey, Call, fabricVars
  <2>5. reach' \in BOOLEAN BY <1>13, <1>4 DEF OfKey, Call, fabricVars
  <2> QED BY <2>1, <2>2, <2>3, <2>4, <2>5
<1>5. ASSUME OfReach(r, i) PROVE Typed
  <2>1. subnets' \subseteq Carriers BY <1>12, <1>14, <1>5 DEF OfReach, Call, fabricVars
  <2>2. groups' \in [Groups -> {"none", "bare", "whole"}] BY <1>12, <1>5 DEF OfReach, Call, fabricVars
  <2>3. keypair' \in BOOLEAN BY <1>13, <1>5 DEF OfReach, Call, fabricVars
  <2>4. ntp' \in BOOLEAN BY <1>13, <1>5 DEF OfReach, Call, fabricVars
  <2>5. reach' \in BOOLEAN BY <1>13, <1>5 DEF OfReach, Call, fabricVars
  <2> QED BY <2>1, <2>2, <2>3, <2>4, <2>5
<1>6. ASSUME Opened(r, i) PROVE Typed
  <2>1. subnets' \subseteq Carriers BY <1>12, <1>14, <1>6 DEF Opened, fabricVars
  <2>2. groups' \in [Groups -> {"none", "bare", "whole"}] BY <1>12, <1>6 DEF Opened, fabricVars
  <2>3. keypair' \in BOOLEAN BY <1>13, <1>6 DEF Opened, fabricVars
  <2>4. ntp' \in BOOLEAN BY <1>13, <1>6 DEF Opened, fabricVars
  <2>5. reach' \in BOOLEAN BY <1>13, <1>6 DEF Opened, fabricVars
  <2> QED BY <2>1, <2>2, <2>3, <2>4, <2>5
<1>7. ASSUME NEW g \in i.what, MakeGroup(r, i, g) PROVE Typed
  <2>1. subnets' \subseteq Carriers BY <1>12, <1>14, <1>7 DEF MakeGroup, Call, fabricVars
  <2>2. groups' \in [Groups -> {"none", "bare", "whole"}] BY <1>12, <1>7 DEF MakeGroup, Call, fabricVars
  <2>3. keypair' \in BOOLEAN BY <1>13, <1>7 DEF MakeGroup, Call, fabricVars
  <2>4. ntp' \in BOOLEAN BY <1>13, <1>7 DEF MakeGroup, Call, fabricVars
  <2>5. reach' \in BOOLEAN BY <1>13, <1>7 DEF MakeGroup, Call, fabricVars
  <2> QED BY <2>1, <2>2, <2>3, <2>4, <2>5
<1>8. ASSUME NEW g \in i.what, RemoveGroup(r, i, g) PROVE Typed
  <2>1. subnets' \subseteq Carriers BY <1>12, <1>14, <1>8 DEF RemoveGroup, Call, fabricVars
  <2>2. groups' \in [Groups -> {"none", "bare", "whole"}] BY <1>12, <1>8 DEF RemoveGroup, Call, fabricVars
  <2>3. keypair' \in BOOLEAN BY <1>13, <1>8 DEF RemoveGroup, Call, fabricVars
  <2>4. ntp' \in BOOLEAN BY <1>13, <1>8 DEF RemoveGroup, Call, fabricVars
  <2>5. reach' \in BOOLEAN BY <1>13, <1>8 DEF RemoveGroup, Call, fabricVars
  <2> QED BY <2>1, <2>2, <2>3, <2>4, <2>5
<1>9. ASSUME NEW p \in i.what, OfPort(r, i, p) PROVE Typed
  <2>1. subnets' \subseteq Carriers BY <1>12, <1>14, <1>9 DEF OfPort, Call, fabricVars
  <2>2. groups' \in [Groups -> {"none", "bare", "whole"}] BY <1>12, <1>9 DEF OfPort, Call, fabricVars
  <2>3. keypair' \in BOOLEAN BY <1>13, <1>9 DEF OfPort, Call, fabricVars
  <2>4. ntp' \in BOOLEAN BY <1>13, <1>9 DEF OfPort, Call, fabricVars
  <2>5. reach' \in BOOLEAN BY <1>13, <1>9 DEF OfPort, Call, fabricVars
  <2> QED BY <2>1, <2>2, <2>3, <2>4, <2>5
<1>10. ASSUME NEW h \in i.what, OfServer(r, i, h) PROVE Typed
  <2>1. subnets' \subseteq Carriers BY <1>12, <1>14, <1>10 DEF OfServer, Call, fabricVars
  <2>2. groups' \in [Groups -> {"none", "bare", "whole"}] BY <1>12, <1>10 DEF OfServer, Call, fabricVars
  <2>3. keypair' \in BOOLEAN BY <1>13, <1>10 DEF OfServer, Call, fabricVars
  <2>4. ntp' \in BOOLEAN BY <1>13, <1>10 DEF OfServer, Call, fabricVars
  <2>5. reach' \in BOOLEAN BY <1>13, <1>10 DEF OfServer, Call, fabricVars
  <2> QED BY <2>1, <2>2, <2>3, <2>4, <2>5
<1>11. ASSUME NEW h \in i.what, OfRule(r, i, h) PROVE Typed
  <2>1. subnets' \subseteq Carriers BY <1>12, <1>14, <1>11 DEF OfRule, Call, fabricVars
  <2>2. groups' \in [Groups -> {"none", "bare", "whole"}] BY <1>12, <1>11 DEF OfRule, Call, fabricVars
  <2>3. keypair' \in BOOLEAN BY <1>13, <1>11 DEF OfRule, Call, fabricVars
  <2>4. ntp' \in BOOLEAN BY <1>13, <1>11 DEF OfRule, Call, fabricVars
  <2>5. reach' \in BOOLEAN BY <1>13, <1>11 DEF OfRule, Call, fabricVars
  <2> QED BY <2>1, <2>2, <2>3, <2>4, <2>5
<1> HIDE DEF Typed
<1>15. Typed BY <1>1, <1>2, <1>3, <1>4, <1>5, <1>6, <1>7, <1>8, <1>9, <1>10, <1>11, Zenon
<1> QED BY <1>15 DEF Typed

LEMMA StepKeepsNetworks ==
    ASSUME RangeAssumption, RangeTypeOK, WorkTyped, WorkSorted, NetworksOnce,
           NEW r \in Requests, NEW i \in Next1(r), SlotMoves(r, i), NetworkMoves(i)
    PROVE  networks' \in [Carriers -> 0..2] /\ NetworksOnce'
<1>1. i \in work[r].todo /\ Takes(r, i) BY StepDoes
<1>2. /\ work'[r].todo = work[r].todo \ {i} \/ work'[r].todo = {}
      /\ \A q \in Requests : q # r => work'[q] = work[q]
      /\ \A q \in Requests : work'[q].todo \subseteq work[q].todo
  BY <1>1, WorkShrinks
<1>3. Fabric \in Requests BY RequestsApart
<1>4. i.kind \in {"network", "rnetwork"} => r = Fabric
  BY <1>1, WhoseCall DEF SlotKinds
<1>5. networks \in [Carriers -> 0..2] BY DEF RangeTypeOK
<1>6. CASE UNCHANGED networks
  BY <1>2, <1>3, <1>5, <1>6 DEF NetworksOnce
<1>7. ASSUME NEW c \in i.what, i.kind = "network", networks' = [networks EXCEPT ![c] = @ + 1]
      PROVE  networks' \in [Carriers -> 0..2] /\ NetworksOnce'
  <2>1. PICK d \in Carriers : i = Item("network", {d}) /\ networks[d] = 0
    BY <1>1, <1>4, <1>7 DEF NetworksOnce
  <2>2. c = d BY <1>7, <2>1 DEF Item
  <2>3. networks' \in [Carriers -> 0..2] BY <1>5, <1>7, <2>1, <2>2
  <2>4. ASSUME NEW j \in work'[Fabric].todo, j.kind = "network"
        PROVE  \E e \in Carriers : j = Item("network", {e}) /\ networks'[e] = 0
    <3>1. j \in work[Fabric].todo /\ j # i BY <1>2, <1>3, <1>4, <1>7, <2>4
    <3>2. PICK e \in Carriers : j = Item("network", {e}) /\ networks[e] = 0
      BY <2>4, <3>1 DEF NetworksOnce
    <3>3. e # c BY <2>1, <2>2, <3>1, <3>2
    <3> QED BY <1>5, <1>7, <3>2, <3>3
  <2> QED BY <2>3, <2>4 DEF NetworksOnce, Carriers, Carrier, Owner, Item
<1>8. ASSUME NEW c \in i.what, i.kind = "rnetwork", Bound(c), networks' = [networks EXCEPT ![c] = @ - 1]
      PROVE  networks' \in [Carriers -> 0..2] /\ NetworksOnce'
  <2>1. c \in Carriers
    BY <1>1, <1>4, <1>8 DEF WorkSorted, FabricItem
  <2>2. networks' \in [Carriers -> 0..2] BY <1>5, <1>8, <2>1 DEF Bound
  <2>3. ASSUME NEW j \in work'[Fabric].todo, j.kind = "network"
        PROVE  \E e \in Carriers : j = Item("network", {e}) /\ networks'[e] = 0
    <3>1. j \in work[Fabric].todo BY <1>2, <1>3
    <3>2. PICK e \in Carriers : j = Item("network", {e}) /\ networks[e] = 0
      BY <2>3, <3>1 DEF NetworksOnce
    <3>3. e # c BY <1>8, <3>2 DEF Bound
    <3> QED BY <1>5, <1>8, <3>2, <3>3
  <2> QED BY <2>2, <2>3 DEF NetworksOnce, Carriers, Carrier, Owner, Item
<1> QED BY <1>6, <1>7, <1>8 DEF NetworkMoves

-----------------------------------------------------------------------------
(* The invariant of the range. *)

LEMMA RangeBeginsSo == ASSUME RangeAssumption, RangeInit PROVE RangeInv
<1>1. \A r \in Requests : work[r] = [busy |-> FALSE, todo |-> {}]
  BY DEF RangeInit, Idle
<1>2. work \in [Requests -> [busy : BOOLEAN, todo : SUBSET Items]]
  BY DEF RangeInit, Idle
<1>3. Fabric \in Requests /\ Slots \subseteq Requests BY RequestsApart
<1>4. RangeTypeOK
  <2>1. 0 \in 0..MaxRangeMishaps BY DEF RangeAssumption
  <2>2. networks \in [Carriers -> 0..2] /\ groups \in [Groups -> {"none", "bare", "whole"}]
        /\ servers \in [Servers -> {"none", "up", "going"}]
    BY DEF RangeInit
  <2>3. {keypair, ntp, reach} \subseteq BOOLEAN BY Zenon DEF RangeInit
  <2>4. /\ subnets = {} /\ ports = {} /\ heard = {} /\ configured = {}
        /\ rmishaps \in 0..MaxRangeMishaps
    BY <2>1 DEF RangeInit
  <2> QED BY <1>1, <2>2, <2>3, <2>4 DEF RangeTypeOK
<1>5. \A r \in Requests : work[r].todo = {} BY <1>1
<1>6. \A h \in Servers : servers[h] # "up" BY DEF RangeInit
<1>7. WorkTyped BY <1>2, <1>5 DEF WorkTyped
<1>8. WorkSorted /\ NetworksOnce BY <1>3, <1>5 DEF WorkSorted, AllOf, NetworksOnce
<1>9. TearsDownTheEmpty /\ PortsGoLast
  BY <1>3, <1>5 DEF TearsDownTheEmpty, Tearing, PortsGoLast
<1>10. ServersKeepTheirPorts BY <1>6 DEF ServersKeepTheirPorts
<1>11. OpeningHears /\ DropsNothingOpened
  BY <1>3, <1>5 DEF OpeningHears, Opening, DropsNothingOpened
<1>12. OpenedSlotsStayHeard /\ HeardAreSenders
  BY DEF OpenedSlotsStayHeard, HeardAreSenders, RangeInit
<1> QED BY <1>4, <1>7, <1>8, <1>9, <1>10, <1>11, <1>12 DEF RangeInv

\* Every call that is listed has its rank.
WorkRanked == \A r \in Requests : \A i \in work[r].todo : Rank(i.kind) \in 1..Len(Kinds)

LEMMA WorkIsRanked == ASSUME WorkTyped PROVE WorkRanked
<1>1. Len(Kinds) = 18 BY DEF Kinds
<1>2. \A kind \in SlotKinds \cup FabricKinds : Rank(kind) \in 1..18
  BY Ranks DEF SlotKinds, FabricKinds
<1>3. ASSUME NEW r \in Requests, NEW i \in work[r].todo PROVE i.kind \in SlotKinds \cup FabricKinds
  BY <1>3 DEF WorkTyped, Items
<1> QED BY <1>1, <1>2, <1>3 DEF WorkRanked

\* What goes on in the cloud when a request begins or ends: nothing.
LEMMA NothingMovesTypes ==
    ASSUME RangeTypeOK, WorkTyped', UNCHANGED <<fabricVars, slotVars>>,
           rmishaps' \in 0..MaxRangeMishaps
    PROVE  RangeTypeOK'
<1>1. WorkRanked' BY WorkIsRanked, PTL
<1> QED BY <1>1 DEF WorkRanked, RangeTypeOK, fabricVars, slotVars

\* A request begins with a list: the other lists and the cloud stay.
LEMMA BeginKeepsTypes ==
    ASSUME RangeTypeOK, WorkTyped, NEW r \in Requests, NEW list \in SUBSET Items, Begins(r, list),
           rmishaps' \in 0..MaxRangeMishaps
    PROVE  RangeTypeOK' /\ WorkTyped'
BY WorkBegins, NothingMovesTypes DEF Begins

\* A slot's request begins: what its list must be for the invariants to hold.
LEMMA SlotBegins ==
    ASSUME RangeAssumption, RangeInv, NEW s \in Slots, NEW list \in SUBSET Items, Begins(s, list),
           rmishaps' \in 0..MaxRangeMishaps,
           \A i \in list : SlotItem(s, i),
           \/ \A i \in list : i.kind \in {"server", "rport"}
           \/ ~ Tearing /\ \A i \in list : i.kind \in {"port", "boot"}
           \/ ~ Tearing /\ \A i \in list : i.kind \in {"drop", "admit", "opened"},
           (\E i \in list : i.kind = "rport") =>
               \A h \in {s} \X Hosts : servers[h] = "up" => Item("server", {h}) \in list,
           (\E i \in list : i.kind = "opened") =>
               /\ \A h \in {s} \X Senders :
                    servers[h] = "up" => h \in heard \/ Item("admit", {h}) \in list
               /\ \A r \in Slots : \A i \in work[r].todo :
                    i.kind = "drop" => i.what \cap ({s} \X Hosts) = {},
           \A i \in list : i.kind = "drop" => \A h \in i.what : servers[h] # "up"
    PROVE  RangeInv'
<1>1. /\ Fabric \in Requests /\ Fabric \notin Slots /\ Slots \subseteq Requests
  BY RequestsApart
<1>2. WorkTyped /\ RangeTypeOK /\ WorkSorted BY DEF RangeInv
<1>3. /\ WorkTyped' /\ work'[s].todo = list /\ RangeTypeOK'
      /\ \A q \in Requests : q # s => work'[q] = work[q]
  BY <1>1, <1>2, WorkBegins, BeginKeepsTypes
<1>4. work'[Fabric] = work[Fabric] /\ \A q \in Slots : q # s => work'[q] = work[q]
  BY <1>1, <1>3
<1>5. UNCHANGED <<fabricVars, slotVars>> BY DEF Begins
<1>6. Tearing' <=> Tearing BY <1>4 DEF Tearing, Rank, Kinds
<1>7. WorkSorted'
  <2>1. \A i \in work'[Fabric].todo : FabricItem(i)' BY <1>2, <1>4 DEF WorkSorted, FabricItem
  <2>2. \A q \in Slots : \A i \in work'[q].todo : SlotItem(q, i)
    BY <1>2, <1>3, <1>4 DEF WorkSorted
  <2>3. ASSUME NEW q \in Slots
        PROVE  \/ AllOf(q, {"server", "rport"})'
               \/ AllOf(q, {"port", "boot"})'
               \/ AllOf(q, {"drop", "admit", "opened"})'
    <3>1. CASE q = s BY <1>3, <3>1 DEF AllOf
    <3>2. CASE q # s BY <1>2, <1>4, <3>2 DEF AllOf, WorkSorted
    <3> QED BY <3>1, <3>2
  <2>4. \A q \in Slots : \A i \in work'[q].todo : SlotItem(q, i)' BY <2>2 DEF SlotItem
  <2> QED BY <2>1, <2>3, <2>4 DEF WorkSorted
<1>8. NetworksOnce' /\ HeardAreSenders' /\ ServersKeepTheirPorts' /\ OpenedSlotsStayHeard'
  BY <1>4, <1>5 DEF RangeInv, NetworksOnce, HeardAreSenders, ServersKeepTheirPorts, PortsOf,
     OpenedSlotsStayHeard, fabricVars, slotVars
<1>9. TearsDownTheEmpty'
  BY <1>3, <1>4, <1>5, <1>6 DEF RangeInv, TearsDownTheEmpty, AllOf, slotVars
<1>10. PortsGoLast' BY <1>3, <1>4, <1>5 DEF RangeInv, PortsGoLast, slotVars
<1>11. \A q \in Slots : q # s => (Opening(q)' <=> Opening(q)) BY <1>4 DEF Opening
<1>12. Opening(s)' <=> \E i \in list : i.kind = "opened" BY <1>3 DEF Opening
<1>13. OpeningHears'
  BY <1>3, <1>4, <1>5, <1>11, <1>12 DEF RangeInv, OpeningHears, slotVars
<1>14. DropsNothingOpened'
  <2> SUFFICES ASSUME NEW q \in Slots, NEW i \in work'[q].todo, i.kind = "drop",
                      NEW h \in i.what, servers'[h] = "up"
               PROVE  h[1] \notin configured' /\ ~ Opening(h[1])'
    BY DEF DropsNothingOpened, Opening
  <2>1. q # s /\ i \in work[q].todo BY <1>3, <1>4, <1>5 DEF slotVars
  <2>2. h \in Servers BY <1>2, <2>1 DEF WorkSorted, SlotItem
  <2>3. h[1] \notin configured /\ ~ Opening(h[1])
    BY <1>5, <2>1 DEF RangeInv, DropsNothingOpened, slotVars
  <2>4. h[1] = s => h \in {s} \X Hosts BY <2>2 DEF Servers
  <2>5. h[1] = s => ~ Opening(s)' BY <1>12, <2>1, <2>4
  <2>6. h[1] \in Slots BY <2>2 DEF Servers
  <2> QED BY <1>5, <1>11, <2>3, <2>5, <2>6 DEF slotVars
<1> QED BY <1>3, <1>7, <1>8, <1>9, <1>10, <1>13, <1>14 DEF RangeInv

\* The fabric's request begins: what its list must be.
LEMMA FabricBegins ==
    ASSUME RangeAssumption, RangeInv, NEW list \in SUBSET Items, Begins(Fabric, list),
           rmishaps' \in 0..MaxRangeMishaps,
           \A i \in list : FabricItem(i),
           \/ \A i \in list : i.kind \notin TearingKinds
           \/ (\A h \in Servers : servers[h] # "up") /\ (\A s \in Slots : work[s].todo = {}),
           \A i \in list : i.kind = "network" =>
               \E c \in Carriers : i = Item("network", {c}) /\ networks[c] = 0
    PROVE  RangeInv'
<1>1. /\ Fabric \in Requests /\ Fabric \notin Slots /\ Slots \subseteq Requests
  BY RequestsApart
<1>2. WorkTyped /\ RangeTypeOK /\ WorkSorted BY DEF RangeInv
<1>3. /\ WorkTyped' /\ work'[Fabric].todo = list /\ RangeTypeOK'
      /\ \A q \in Requests : q # Fabric => work'[q] = work[q]
  BY <1>1, <1>2, WorkBegins, BeginKeepsTypes
<1>4. \A q \in Slots : work'[q] = work[q] BY <1>1, <1>3
<1>5. UNCHANGED <<fabricVars, slotVars>> BY DEF Begins
<1>6. WorkSorted'
  <2>1. \A i \in work'[Fabric].todo : FabricItem(i)' BY <1>3 DEF FabricItem
  <2>2. \A q \in Slots : \A i \in work'[q].todo : SlotItem(q, i)'
    BY <1>2, <1>4 DEF WorkSorted, SlotItem
  <2> QED BY <1>2, <1>4, <2>1, <2>2 DEF WorkSorted, AllOf
<1>7. NetworksOnce' BY <1>3, <1>5 DEF NetworksOnce, fabricVars
<1>8. HeardAreSenders' /\ ServersKeepTheirPorts' /\ OpenedSlotsStayHeard'
  BY <1>5 DEF RangeInv, HeardAreSenders, ServersKeepTheirPorts, PortsOf, OpenedSlotsStayHeard, slotVars
<1>9. \A q \in Slots : Opening(q)' <=> Opening(q) BY <1>4 DEF Opening
<1>10. PortsGoLast' BY <1>4, <1>5 DEF RangeInv, PortsGoLast, slotVars
<1>11. OpeningHears' BY <1>4, <1>5, <1>9 DEF RangeInv, OpeningHears, slotVars
<1>12. DropsNothingOpened'
  <2> SUFFICES ASSUME NEW q \in Slots, NEW i \in work'[q].todo, i.kind = "drop",
                      NEW h \in i.what, servers'[h] = "up"
               PROVE  h[1] \notin configured' /\ ~ Opening(h[1])'
    BY DEF DropsNothingOpened, Opening
  <2>1. i \in work[q].todo BY <1>4
  <2>2. h[1] \in Slots BY <1>2, <2>1 DEF WorkSorted, SlotItem, Servers
  <2> QED BY <1>5, <1>9, <2>1, <2>2 DEF RangeInv, DropsNothingOpened, slotVars
<1>13. TearsDownTheEmpty'
  <2>1. CASE \A i \in list : i.kind \notin TearingKinds
    <3>1. ~ Tearing'
      <4>1. (Tearing <=> \E i \in work[Fabric].todo : i.kind \in TearingKinds)'
        BY <1>6, TearingIs, PTL
      <4> QED BY <1>3, <2>1, <4>1
    <3> QED BY <3>1 DEF TearsDownTheEmpty
  <2>2. CASE (\A h \in Servers : servers[h] # "up") /\ (\A s \in Slots : work[s].todo = {})
    BY <1>4, <1>5, <2>2 DEF TearsDownTheEmpty, AllOf, slotVars
  <2> QED BY <2>1, <2>2
<1> QED BY <1>3, <1>6, <1>7, <1>8, <1>10, <1>11, <1>12, <1>13 DEF RangeInv

\* A request that ends, and a server that Nova has deleted, undo nothing.
LEMMA EndsKeep == ASSUME RangeAssumption, RangeInv, NEW r \in Requests, RangeRequestEnds(r)
                 PROVE RangeInv'
<1>1. Takes(r, Item("none", {})) BY DEF RangeRequestEnds, Takes, Abandoned
<1>2. /\ WorkTyped' /\ WorkTyped /\ WorkSorted
      /\ \A q \in Requests : work'[q].todo \subseteq work[q].todo
      /\ \A q \in Requests : q # r => work'[q] = work[q]
  BY <1>1, WorkShrinks DEF RangeInv
<1>3. \A q \in Requests : work'[q].todo = work[q].todo
  BY <1>2 DEF RangeRequestEnds
<1>4. UNCHANGED <<fabricVars, slotVars>> /\ UNCHANGED rmishaps BY DEF RangeRequestEnds
<1>5. Fabric \in Requests /\ Slots \subseteq Requests BY RequestsApart
<1>6. WorkSorted' BY <1>2, StepKeepsSorted
<1>7. RangeTypeOK' BY <1>2, <1>4, NothingMovesTypes DEF RangeInv, RangeTypeOK
<1>8. NetworksOnce' BY <1>3, <1>4, <1>5 DEF RangeInv, NetworksOnce, fabricVars
<1>9. HeardAreSenders' /\ ServersKeepTheirPorts' /\ OpenedSlotsStayHeard'
  BY <1>4 DEF RangeInv, HeardAreSenders, ServersKeepTheirPorts, PortsOf, OpenedSlotsStayHeard, slotVars
<1>10. Tearing' <=> Tearing BY <1>3, <1>5 DEF Tearing, Rank, Kinds
<1>11. TearsDownTheEmpty' BY <1>3, <1>4, <1>5, <1>10 DEF RangeInv, TearsDownTheEmpty, AllOf, slotVars
<1>12. PortsGoLast' BY <1>3, <1>4, <1>5 DEF RangeInv, PortsGoLast, slotVars
<1>13. \A q \in Slots : Opening(q)' <=> Opening(q) BY <1>3, <1>5 DEF Opening
<1>14. OpeningHears' BY <1>3, <1>4, <1>5, <1>13 DEF RangeInv, OpeningHears, slotVars
<1>15. DropsNothingOpened'
  <2> SUFFICES ASSUME NEW q \in Slots, NEW i \in work'[q].todo, i.kind = "drop",
                      NEW h \in i.what, servers'[h] = "up"
               PROVE  h[1] \notin configured' /\ ~ Opening(h[1])'
    BY DEF DropsNothingOpened, Opening
  <2>1. i \in work[q].todo BY <1>3, <1>5
  <2>2. h[1] \in Slots BY <1>2, <2>1 DEF WorkSorted, SlotItem, Servers
  <2> QED BY <1>4, <1>13, <2>1, <2>2 DEF RangeInv, DropsNothingOpened, slotVars
<1> QED BY <1>2, <1>6, <1>7, <1>8, <1>9, <1>11, <1>12, <1>14, <1>15 DEF RangeInv

LEMMA NovaKeeps == ASSUME RangeAssumption, RangeInv, NEW h \in Servers, NovaDeletes(h) PROVE RangeInv'
<1>1. /\ servers' = [servers EXCEPT ![h] = "none"]
      /\ UNCHANGED <<fabricVars, ports, heard, configured, work, rmishaps>>
  BY DEF NovaDeletes
<1>2. RangeTypeOK BY DEF RangeInv
<1>3. servers' \in [Servers -> {"none", "up", "going"}]
      /\ \A g \in Servers : servers'[g] = "up" => servers[g] = "up"
  BY <1>1, <1>2 DEF RangeTypeOK
<1>4. RangeTypeOK' BY <1>1, <1>2, <1>3 DEF RangeTypeOK, fabricVars
<1>5. WorkTyped' /\ WorkSorted' /\ NetworksOnce' /\ HeardAreSenders'
  BY <1>1 DEF RangeInv, WorkTyped, WorkSorted, AllOf, SlotItem, FabricItem, NetworksOnce,
     HeardAreSenders, fabricVars
<1>6. TearsDownTheEmpty' BY <1>1, <1>3 DEF RangeInv, TearsDownTheEmpty, Tearing, Rank, Kinds, AllOf
<1>7. \A s \in Slots : {s} \X Hosts \subseteq Servers /\ {s} \X Senders \subseteq Servers
  BY DEF RangeAssumption, Servers
<1>8. PortsGoLast' BY <1>1, <1>3, <1>7 DEF RangeInv, PortsGoLast
<1>9. ServersKeepTheirPorts' BY <1>1, <1>3 DEF RangeInv, ServersKeepTheirPorts, PortsOf
<1>10. OpeningHears' BY <1>1, <1>3, <1>7 DEF RangeInv, OpeningHears, Opening
<1>11. DropsNothingOpened'
  <2> SUFFICES ASSUME NEW q \in Slots, NEW i \in work[q].todo, i.kind = "drop",
                      NEW g \in i.what, servers'[g] = "up"
               PROVE  g[1] \notin configured /\ ~ Opening(g[1])
    BY <1>1 DEF DropsNothingOpened, Opening
  <2>1. g \in Servers BY DEF RangeInv, WorkSorted, SlotItem
  <2>2. servers[g] = "up" BY <1>3, <2>1
  <2> QED BY <2>2 DEF RangeInv, DropsNothingOpened
<1>12. OpenedSlotsStayHeard'
  <2> SUFFICES ASSUME NEW s \in configured, NEW g \in {s} \X Senders, servers'[g] = "up"
               PROVE  g \in heard
    BY <1>1 DEF OpenedSlotsStayHeard
  <2>1. g \in Servers BY <1>2, <1>7 DEF RangeTypeOK
  <2> QED BY <1>3, <2>1 DEF RangeInv, OpenedSlotsStayHeard
<1> QED BY <1>4, <1>5, <1>6, <1>8, <1>9, <1>10, <1>11, <1>12 DEF RangeInv

LEMMA StepKeeps == ASSUME RangeAssumption, RangeInv, NEW r \in Requests, Step(r) PROVE RangeInv'
<1>1. PICK i \in Next1(r) : SlotMoves(r, i) /\ NetworkMoves(i) /\ (rmishaps' = rmishaps \/ Mishap("call"))
  BY StepMoves
<1>2. RangeTypeOK /\ WorkTyped /\ WorkSorted /\ NetworksOnce /\ HeardAreSenders /\ SlotsInv
  BY DEF RangeInv, SlotsInv
<1>3. i \in work[r].todo /\ Takes(r, i) BY <1>1, <1>2, StepDoes
<1>4. WorkTyped' /\ \A q \in Requests : work'[q].todo \subseteq work[q].todo
  BY <1>2, <1>3, WorkShrinks
<1>5. WorkSorted' BY <1>2, <1>4, StepKeepsSorted
<1>6. networks' \in [Carriers -> 0..2] /\ NetworksOnce' BY <1>1, <1>2, StepKeepsNetworks
<1>7. rmishaps' \in 0..MaxRangeMishaps BY <1>1, <1>2 DEF RangeAssumption, RangeTypeOK, Mishap
<1>8. WorkRanked'
  <2>1. WorkTyped' BY <1>4
  <2> QED BY <2>1, WorkIsRanked, PTL
<1>9. /\ ports' \subseteq Ports /\ servers' \in [Servers -> {"none", "up", "going"}]
      /\ heard' \subseteq Servers /\ configured' \subseteq Slots /\ HeardAreSenders'
  BY <1>1, <1>2, StepKeepsSlotTypes
<1>10. /\ subnets' \subseteq Carriers /\ {keypair', ntp', reach'} \subseteq BOOLEAN
       /\ groups' \in [Groups -> {"none", "bare", "whole"}]
  BY <1>2, StepKeepsFabricTypes
<1>11. RangeTypeOK' BY <1>6, <1>7, <1>8, <1>9, <1>10 DEF WorkRanked, RangeTypeOK
<1>12. TearsDownTheEmpty' /\ PortsGoLast' /\ ServersKeepTheirPorts' BY <1>1, <1>2, StepKeepsPorts
<1>13. OpeningHears' /\ DropsNothingOpened' /\ OpenedSlotsStayHeard' BY <1>1, <1>2, StepKeepsRules
<1> QED BY <1>4, <1>5, <1>6, <1>9, <1>11, <1>12, <1>13 DEF RangeInv

\* Each of the requests that may begin.
LEMMA BeginningsKeep ==
    ASSUME RangeAssumption, "race" \notin FabricMishaps, RangeInv,
           \/ FabricPost \/ FabricDelete
           \/ \E s \in Slots : Posts(s) \/ SlotDelete(s)
    PROVE  RangeInv'
<1>1. RangeTypeOK /\ WorkTyped /\ HeardAreSenders BY DEF RangeInv
<1>2. MaxRangeMishaps \in Nat /\ rmishaps \in 0..MaxRangeMishaps
  BY DEF RangeInv, RangeTypeOK, RangeAssumption
<1>3. CASE FabricPost
  <2>1. Begins(Fabric, EnsureFabric) /\ rmishaps' \in 0..MaxRangeMishaps
    BY <1>2, <1>3 DEF FabricPost
  <2> QED BY <1>1, <2>1, EnsureFabricTyped, FabricBegins
<1>4. CASE FabricDelete
  <2>1. Begins(Fabric, TeardownFabric) /\ rmishaps' \in 0..MaxRangeMishaps
    BY <1>2, <1>4 DEF FabricDelete
  <2>2. \A s \in Slots : work[s].todo = {}
    BY <1>1, <1>4, RequestsApart DEF FabricDelete, WorkTyped
  <2>3. ASSUME NEW h \in Servers, servers[h] = "up" PROVE FALSE
    <3>1. <<h, Mgmt>> \in PortsOf(h) BY DEF PortsOf, RangeAssumption
    <3>2. <<h, Mgmt>> \in ports BY <2>3, <3>1 DEF RangeInv, ServersKeepTheirPorts
    <3>3. Attached(<<h, Mgmt>>) BY <2>3 DEF Attached
    <3> QED BY <1>4, <3>2, <3>3 DEF FabricDelete
  <2>4. \A i \in TeardownFabric : i.kind # "network"
    BY <1>1, TeardownFabricTyped DEF TearingKinds
  <2> QED BY <1>1, <2>1, <2>2, <2>3, <2>4, TeardownFabricTyped, FabricBegins
<1>5. ASSUME NEW s \in Slots, SlotPost(s) PROVE RangeInv'
  <2>1. Begins(s, EnsureSlot(s)) /\ rmishaps' \in 0..MaxRangeMishaps /\ ~ Tearing
    BY <1>2, <1>5 DEF SlotPost, Apart
  <2>2. /\ EnsureSlot(s) \subseteq Items
        /\ \A i \in EnsureSlot(s) : SlotItem(s, i) /\ i.kind \in {"port", "boot"}
    BY EnsureSlotTyped
  <2> QED BY <2>1, <2>2, SlotBegins
<1>6. ASSUME NEW s \in Slots, SlotConfigure(s) PROVE RangeInv'
  <2>1. Begins(s, OpenCollector(s)) /\ rmishaps' \in 0..MaxRangeMishaps /\ ~ Tearing
    BY <1>2, <1>6 DEF SlotConfigure, Apart
  <2>2. \A r \in Slots : \A i \in work[r].todo : i.kind = "drop" => i.what \cap ({s} \X Hosts) = {}
    BY <1>6 DEF SlotConfigure
  <2>3. /\ OpenCollector(s) \subseteq Items
        /\ \A i \in OpenCollector(s) : SlotItem(s, i) /\ i.kind \in {"drop", "admit", "opened"}
        /\ \A i \in OpenCollector(s) : i.kind = "drop" => \A h \in i.what : servers[h] # "up"
        /\ \A h \in {s} \X Senders : h \in heard \/ Item("admit", {h}) \in OpenCollector(s)
    BY <1>1, OpenCollectorTyped
  <2> QED BY <2>1, <2>2, <2>3, SlotBegins
<1>7. ASSUME NEW s \in Slots, SlotDelete(s) PROVE RangeInv'
  <2>1. Begins(s, TeardownSlot(s)) /\ rmishaps' \in 0..MaxRangeMishaps
    BY <1>2, <1>7 DEF SlotDelete
  <2>2. /\ TeardownSlot(s) \subseteq Items
        /\ \A i \in TeardownSlot(s) : SlotItem(s, i) /\ i.kind \in {"server", "rport"}
        /\ \A h \in {s} \X Hosts : servers[h] = "up" => Item("server", {h}) \in TeardownSlot(s)
    BY <1>1, TeardownSlotTyped
  <2> QED BY <2>1, <2>2, SlotBegins
<1> QED BY <1>3, <1>4, <1>5, <1>6, <1>7 DEF Posts

LEMMA RangeStutters == ASSUME RangeInv, UNCHANGED rangeVars PROVE RangeInv'
<1>1. WorkTyped' BY DEF RangeInv, WorkTyped, rangeVars
<1>2. RangeTypeOK' BY <1>1, NothingMovesTypes DEF RangeInv, RangeTypeOK, rangeVars
<1>3. /\ WorkSorted' /\ NetworksOnce' /\ HeardAreSenders'
  BY DEF RangeInv, WorkSorted, AllOf, SlotItem, FabricItem, NetworksOnce, HeardAreSenders,
     rangeVars, fabricVars, slotVars
<1>4. TearsDownTheEmpty' /\ PortsGoLast' /\ ServersKeepTheirPorts'
  BY DEF RangeInv, TearsDownTheEmpty, Tearing, Rank, Kinds, AllOf, PortsGoLast,
     ServersKeepTheirPorts, PortsOf, rangeVars, slotVars
<1>5. OpeningHears' /\ DropsNothingOpened' /\ OpenedSlotsStayHeard'
  BY DEF RangeInv, OpeningHears, Opening, DropsNothingOpened, OpenedSlotsStayHeard, rangeVars, slotVars
<1> QED BY <1>1, <1>2, <1>3, <1>4, <1>5 DEF RangeInv

LEMMA RangeStaysSo ==
    ASSUME RangeAssumption, "race" \notin FabricMishaps, RangeInv, [RangeNext]_rangeVars
    PROVE  RangeInv'
BY BeginningsKeep, StepKeeps, EndsKeep, NovaKeeps, RangeStutters DEF RangeNext

\* While one operator does one thing at a time to the fabric, whatever calls
\* fail and whatever the slots' requests do at once, the range keeps its types,
\* a server that is up has its ports (README.md 505-506), and a slot whose
\* collector was opened is heard (openstack.py open_collector).
THEOREM TheRangeStands ==
    ASSUME RangeAssumption, "race" \notin FabricMishaps
    PROVE  RangeSpec => []RangeInv
<1>1. RangeInit => RangeInv BY RangeBeginsSo
<1>2. RangeInv /\ [RangeNext]_rangeVars => RangeInv' BY RangeStaysSo
<1> QED BY <1>1, <1>2, PTL DEF RangeSpec

\* An opened slot is heard while its servers are up (openstack.py open_collector).
THEOREM OpenedSlotsAreHeard ==
    ASSUME RangeAssumption, "race" \notin FabricMishaps
    PROVE  RangeSpec => []OpenedSlotsStayHeard
<1>1. RangeInv => OpenedSlotsStayHeard BY DEF RangeInv
<1> QED BY <1>1, TheRangeStands, PTL

\* A server that is up has the ports it was booted with: DELETE of the fabric,
\* which removes the ports of no server, is refused while one is attached.
THEOREM ServersStayPlugged ==
    ASSUME RangeAssumption, "race" \notin FabricMishaps
    PROVE  RangeSpec => []ServersKeepTheirPorts
<1>1. RangeInv => ServersKeepTheirPorts BY DEF RangeInv
<1> QED BY <1>1, TheRangeStands, PTL

-----------------------------------------------------------------------------
(* How the range is read: the inductive invariant. *)

ReadStates == [phase : Phases, slot : ReadSlots, at : Numbers, since : Numbers,
               calls : SUBSET Calls, rows : SUBSET ServerRows, alias : Numbers, booted : Numbers]

Shapes == {NoShape} \cup {ShapeOf(s, rows) : s \in ReadSlots, rows \in SUBSET ServerRows}

ReadingTyped ==
    /\ reads \in [Adapters -> ReadStates]
    /\ held \in [Numbers -> Numbers] /\ connected \in Numbers
    /\ rebuilds \in [ReadSlots -> Numbers] /\ known \subseteq Aliases \X Numbers
    /\ shapes \in [Adapters -> Shapes]

\* What is counted is bounded by the events there were.
EventsCount ==
    /\ events \in 0..MaxEvents
    /\ catalogue \in 0..events + 1 /\ valid \in 0..events + 1
    /\ \A s \in ReadSlots : rebuilds[s] \in 0..events

\* A row of the platform's own has no slot, the others have theirs.
Tagged(rows) == \A s \in rows : s \in ServerRows /\ (s.host = Scorer <=> s.tag = 0)
RowsTagged == Tagged(standing)

\* What a request listed is its slot's and the platform's own; the slot's server
\* is among it if it stands, unless the cloud changed since the request began.
RowsSound(r) ==
    /\ Tagged(reads[r].rows) /\ \A s \in reads[r].rows : s.tag \in {0, reads[r].slot}
    /\ \/ Own(reads[r].slot) \in reads[r].rows <=> Own(reads[r].slot) \in standing
       \/ reads[r].since < events

\* A request past the listing of the servers found its slot whole, under the
\* alias the hosts had then.
Past(r) ==
    \/ Reading(r) /\ "servers" \notin reads[r].calls
    \/ reads[r].phase \in {"described", "reached", "refused"}

\* What holds of one request: its shape is its slot's, its counts are past ones,
\* an endpoint that was found out again is stale only if it moved once more, and
\* it failed or was refused by what changed since it began.
ReadSound(r) ==
    LET slot == reads[r].slot
    IN  /\ Past(r) => Complete(slot) /\ reads[r].booted <= reads[r].alias /\ RowsSound(r)
        /\ shapes[r] # NoShape =>
             /\ shapes[r] = ShapeOf(slot, reads[r].rows) /\ Complete(slot) /\ RowsSound(r)
             /\ reads[r].phase \in {"described", "reached", "refused", "failed"}
        /\ reads[r].phase # "new" /\ reads[r].booted < rebuilds[slot] => reads[r].since < events
        /\ reads[r].alias <= rebuilds[slot] /\ reads[r].booted <= rebuilds[slot]
        /\ reads[r].since <= events
        /\ reads[r].phase = "again" /\ reads[r].at # catalogue => reads[r].since < events
        /\ reads[r].phase = "failed" /\ Complete(slot) => reads[r].since < events
        /\ reads[r].phase = "refused" => reads[r].booted < rebuilds[slot]

\* A key is known under the alias of its server or of an earlier one.
KeysInOrder == \A k \in known : k[1][2] <= k[2] /\ k[2] <= rebuilds[k[1][1]]

ReadingInv ==
    /\ ReadingTyped /\ EventsCount /\ RowsTagged /\ KeysInOrder
    /\ \A r \in Adapters : ReadSound(r)

\* Of a slot that is whole, its server is found if it was listed, and no other's.
LEMMA ShapeFindsOwn ==
    ASSUME ReadingAssumption, NEW slot \in ReadSlots, Complete(slot),
           NEW rows, Tagged(rows), \A s \in rows : s.tag \in {0, slot}
    PROVE  {n[1] : n \in Reached(ShapeOf(slot, rows), Waf)} = {Own(slot)} \cap rows
<1> DEFINE own == Own(slot)
           on(segment) == {n \in ShapeOf(slot, rows).nodes : n[1].host = Waf /\ n[2] = segment}
<1>1. ReadSlots \subseteq Nat \ {0} /\ Shared # Estate /\ Waf # Scorer
  BY FS_CardinalityType DEF ReadingAssumption
<1>2. Shared \in Segs /\ Binds(slot, Shared) # {} BY DEF Segs, Complete
<1>3. ASSUME NEW row \in rows, row.host = Waf PROVE row = own
  <2>1. row \in ServerRows /\ row.tag # 0 BY <1>1, <1>3 DEF Tagged
  <2> QED BY <1>3, <2>1 DEF ServerRows, Own
<1>4. ShapeOf(slot, rows).nodes = Nodes(slot, rows) BY DEF ShapeOf
<1>5. ASSUME NEW n \in Nodes(slot, rows), n[1].host = Waf PROVE n[1] = own /\ own \in rows
  <2>1. PICK segment \in Segs :
          n \in {<<s, segment>> : s \in UNION {AddressesOn(m, rows) : m \in Binds(slot, segment)}}
    BY DEF Nodes
  <2>2. n[1] \in rows BY <2>1 DEF AddressesOn
  <2> QED BY <1>3, <1>5, <2>2
<1>6. ASSUME own \in rows PROVE <<own, Shared>> \in Nodes(slot, rows)
  <2>1. PICK m : m \in Binds(slot, Shared) BY <1>2
  <2>2. m.segment = Shared BY <2>1 DEF Binds
  <2>3. own \in AddressesOn(m, rows) BY <1>6, <2>2 DEF AddressesOn
  <2>4. own \in UNION {AddressesOn(k, rows) : k \in Binds(slot, Shared)} BY <2>1, <2>3
  <2> QED BY <1>2, <2>4 DEF Nodes
<1>7. Reached(ShapeOf(slot, rows), Waf) = IF on(Shared) # {} THEN on(Shared) ELSE on(Estate)
  BY DEF Reached
<1>8. \A n \in on(Shared) \cup on(Estate) : n[1] = own /\ own \in rows BY <1>4, <1>5
<1>9. own \in rows => <<own, Shared>> \in on(Shared)
  <2>1. own.host = Waf BY DEF Own
  <2> QED BY <1>4, <1>6, <2>1
<1>10. Reached(ShapeOf(slot, rows), Waf) \subseteq on(Shared) \cup on(Estate) BY <1>7
<1>11. own \in rows => <<own, Shared>> \in Reached(ShapeOf(slot, rows), Waf) BY <1>7, <1>9
<1> HIDE DEF own, on
<1>12. ASSUME own \in rows PROVE {n[1] : n \in Reached(ShapeOf(slot, rows), Waf)} = {own}
  <2>1. \A n \in Reached(ShapeOf(slot, rows), Waf) : n[1] = own BY <1>8, <1>10
  <2>2. <<own, Shared>>[1] = own OBVIOUS
  <2> QED BY <1>11, <1>12, <2>1, <2>2
<1>13. ASSUME own \notin rows PROVE {n[1] : n \in Reached(ShapeOf(slot, rows), Waf)} = {}
  BY <1>8, <1>10, <1>13
<1>14. {n[1] : n \in Reached(ShapeOf(slot, rows), Waf)} = {own} \cap rows BY <1>12, <1>13
<1> QED BY <1>14 DEF own

LEMMA ReadingBeginsSo == ASSUME ReadingAssumption, ReadingInit PROVE ReadingInv
<1>1. MaxEvents \in Nat /\ ReadSlots \subseteq Nat BY FS_CardinalityType DEF ReadingAssumption
<1>2. 0 \in Numbers /\ 1 \in Numbers BY <1>1 DEF Numbers
<1>3. reads \in [Adapters -> {[phase |-> "new", slot |-> s, at |-> 0, since |-> 0,
                               calls |-> {}, rows |-> {}, alias |-> 0, booted |-> 0] : s \in ReadSlots}]
  BY DEF ReadingInit
<1>4. reads \in [Adapters -> ReadStates] BY <1>2, <1>3 DEF ReadStates, Phases
<1>5. \A r \in Adapters : /\ reads[r].phase = "new" /\ reads[r].since = 0 /\ reads[r].alias = 0
                          /\ reads[r].booted = 0 /\ reads[r].slot \in ReadSlots
  BY <1>3
<1>6. ReadingTyped BY <1>2, <1>4 DEF ReadingTyped, ReadingInit, Shapes
<1>7. EventsCount BY <1>1 DEF EventsCount, ReadingInit
<1>8. RowsTagged
  <2>1. PICK absent \in SUBSET ServerRows :
          standing = {s \in ServerRows : (s.host = Scorer) = (s.tag = 0)} \ absent
    BY DEF ReadingInit
  <2> QED BY <2>1 DEF RowsTagged, Tagged
<1>9. \A r \in Adapters : ReadSound(r) BY <1>1, <1>5 DEF ReadSound, Past, Reading, ReadingInit
<1>10. KeysInOrder BY DEF KeysInOrder, ReadingInit
<1> QED BY <1>6, <1>7, <1>8, <1>9, <1>10 DEF ReadingInv

\* What is listed stays, and so does what is made of it.
LEMMA ListingStays ==
    ASSUME UNCHANGED listed
    PROVE  /\ \A s : Complete(s)' <=> Complete(s)
           /\ \A s, rows : ShapeOf(s, rows)' = ShapeOf(s, rows)
           /\ Shapes' = Shapes
<1>1. \A s : Complete(s)' <=> Complete(s) BY DEF Complete, Binds, TagFor
<1>2. \A s, rows : ShapeOf(s, rows)' = ShapeOf(s, rows)
  BY DEF Binds, TagFor, ShapeOf, Nodes, AddressesOn
<1> QED BY <1>1, <1>2 DEF Shapes

\* A request that others' doings leave where it is stays sound.
LEMMA OthersStaySound ==
    ASSUME ReadingInv, EventsCount', UNCHANGED listed, standing' = standing \/ events < events',
           events <= events', catalogue' = catalogue \/ events < events',
           \A s \in ReadSlots : rebuilds[s] <= rebuilds'[s], rebuilds' = rebuilds \/ events < events',
           NEW r \in Adapters, reads'[r] = reads[r], shapes'[r] = shapes[r]
    PROVE  ReadSound(r)'
<1>1. ReadSound(r) /\ reads[r] \in ReadStates /\ EventsCount BY DEF ReadingInv, ReadingTyped
<1>2. /\ reads[r].slot \in ReadSlots /\ reads[r].since \in Int /\ reads[r].alias \in Int
      /\ reads[r].booted \in Int
  BY <1>1 DEF ReadStates, Numbers
<1>3. /\ rebuilds[reads[r].slot] \in Int /\ rebuilds'[reads[r].slot] \in Int
      /\ rebuilds[reads[r].slot] <= rebuilds'[reads[r].slot]
      /\ events \in Int /\ events' \in Int
  BY <1>1, <1>2 DEF EventsCount
<1>4. Past(r)' <=> Past(r) BY DEF Past, Reading
<1>5. \A s : Complete(s)' <=> Complete(s) BY ListingStays
<1>6. \A s, rows : ShapeOf(s, rows)' = ShapeOf(s, rows) BY ListingStays
<1>7. ASSUME RowsSound(r) PROVE RowsSound(r)'
  <2>1. CASE standing' = standing
    <3>1. reads[r].since < events => reads[r].since < events' BY <1>2, <1>3
    <3> QED BY <1>7, <2>1, <3>1 DEF RowsSound, Tagged
  <2>2. CASE events < events'
    <3>1. reads[r].since < events' BY <1>1, <1>2, <1>3, <2>2 DEF ReadSound
    <3> QED BY <1>7, <3>1 DEF RowsSound, Tagged
  <2> QED BY <2>1, <2>2
<1> QED BY <1>1, <1>2, <1>3, <1>4, <1>5, <1>6, <1>7 DEF ReadSound

\* A request that turns keeps its slot, and when and of what it began.
LEMMA Turning ==
    ASSUME ReadingTyped, NEW r \in Adapters, NEW phase \in Phases, NEW at \in Numbers,
           NEW calls \in SUBSET Calls, Turns(r, phase, at, calls)
    PROVE  /\ reads' \in [Adapters -> ReadStates]
           /\ \A q \in Adapters : q # r => reads'[q] = reads[q]
           /\ reads'[r].phase = phase /\ reads'[r].slot = reads[r].slot /\ reads'[r].at = at
           /\ reads'[r].since = reads[r].since /\ reads'[r].calls = calls
           /\ reads'[r].alias = reads[r].alias /\ reads'[r].booted = reads[r].booted
           /\ reads'[r].rows = reads[r].rows
<1>1. reads[r] \in ReadStates BY DEF ReadingTyped
<1> DEFINE state == [reads[r] EXCEPT !.phase = phase, !.at = at, !.calls = calls]
<1>2. state \in ReadStates BY <1>1 DEF ReadStates
<1>3. /\ state.phase = phase /\ state.slot = reads[r].slot /\ state.at = at
      /\ state.since = reads[r].since /\ state.calls = calls
      /\ state.alias = reads[r].alias /\ state.booted = reads[r].booted
      /\ state.rows = reads[r].rows
  BY <1>1 DEF ReadStates
<1>4. reads' = [reads EXCEPT ![r] = state] BY DEF Turns
<1> HIDE DEF state
<1>5. reads' \in [Adapters -> ReadStates] /\ reads'[r] = state
      /\ \A q \in Adapters : q # r => reads'[q] = reads[q]
  BY <1>2, <1>4 DEF ReadingTyped
<1> QED BY <1>3, <1>5

\* What follows for the invariant when one request moves and the rest is as it was.
LEMMA OneMoves ==
    ASSUME ReadingInv, NEW r \in Adapters,
           reads' \in [Adapters -> ReadStates], \A q \in Adapters : q # r => reads'[q] = reads[q],
           shapes' \in [Adapters -> Shapes],
           \A q \in Adapters : q # r => shapes'[q] = shapes[q],
           held' \in [Numbers -> Numbers], connected' \in Numbers,
           ReadSound(r)', KeysInOrder', known' \subseteq Aliases \X Numbers,
           UNCHANGED <<catalogue, valid, listed, standing, rebuilds, events>>
    PROVE  ReadingInv'
<1>1. EventsCount' BY DEF ReadingInv, EventsCount
<1>2. RowsTagged' BY DEF ReadingInv, RowsTagged, Tagged
<1>3. ReadingTyped' BY ListingStays DEF ReadingInv, ReadingTyped
<1>4. ASSUME NEW q \in Adapters, q # r PROVE ReadSound(q)'
  <2>1. /\ events <= events' /\ \A s \in ReadSlots : rebuilds[s] <= rebuilds'[s]
    BY DEF ReadingInv, EventsCount
  <2> QED BY <1>1, <1>4, <2>1, OthersStaySound
<1> QED BY <1>1, <1>2, <1>3, <1>4 DEF ReadingInv

\* The counts of a request, for arithmetic.
LEMMA ReadCounts ==
    ASSUME ReadingAssumption, ReadingInv, NEW r \in Adapters
    PROVE  /\ reads[r] \in ReadStates /\ ReadSound(r) /\ reads[r].slot \in ReadSlots
           /\ reads[r].since \in Int /\ reads[r].alias \in Int /\ reads[r].booted \in Int
           /\ reads[r].at \in Numbers /\ events \in Int /\ events \in Numbers
           /\ catalogue \in Numbers /\ valid \in Numbers /\ connected \in Numbers
           /\ rebuilds[reads[r].slot] \in Int /\ rebuilds[reads[r].slot] \in Numbers
           /\ rebuilds[reads[r].slot] <= events
<1>1. reads[r] \in ReadStates /\ ReadSound(r) /\ EventsCount /\ ReadingTyped
  BY DEF ReadingInv, ReadingTyped
<1>2. /\ reads[r].slot \in ReadSlots /\ reads[r].since \in Numbers /\ reads[r].alias \in Numbers
      /\ reads[r].booted \in Numbers /\ reads[r].at \in Numbers
  BY <1>1 DEF ReadStates
<1>3. events \in 0..MaxEvents /\ catalogue \in 0..events + 1 /\ valid \in 0..events + 1
      /\ rebuilds[reads[r].slot] \in 0..events
  BY <1>1, <1>2 DEF EventsCount
<1>4. Numbers = 0..MaxEvents + 1 BY DEF Numbers
<1>5. catalogue \in Numbers /\ valid \in Numbers /\ events \in Numbers
      /\ rebuilds[reads[r].slot] \in Numbers
  BY <1>1, <1>3 DEF Numbers, EventsCount, ReadingAssumption
<1> QED BY <1>1, <1>2, <1>3, <1>5 DEF ReadingTyped, Numbers

\* What a request listed stays sound while neither it nor the cloud changes.
LEMMA RowsStaySound ==
    ASSUME NEW r \in Adapters, reads'[r].slot = reads[r].slot, reads'[r].rows = reads[r].rows,
           reads'[r].since = reads[r].since, UNCHANGED <<standing, events>>
    PROVE  RowsSound(r) <=> RowsSound(r)'
BY DEF RowsSound, Tagged

LEMMA ConnectsKeeps ==
    ASSUME ReadingAssumption, ReadingInv, NEW r \in Adapters, Connects(r) PROVE ReadingInv'
<1> DEFINE state == [reads[r] EXCEPT !.phase = "describing", !.at = connected', !.since = events,
                                     !.calls = Calls, !.booted = rebuilds[reads[r].slot]]
<1>1. /\ reads[r].slot \in ReadSlots /\ reads[r] \in ReadStates /\ reads[r].alias \in Int
      /\ ReadSound(r) /\ events \in Numbers /\ rebuilds[reads[r].slot] \in Numbers
      /\ catalogue \in Numbers /\ connected \in Numbers
      /\ events \in Int /\ rebuilds[reads[r].slot] \in Int
  BY ReadCounts
<1>2. connected' \in Numbers BY <1>1 DEF Connects
<1>3. state \in ReadStates BY <1>1, <1>2 DEF ReadStates, Phases
<1>4. /\ state.phase = "describing" /\ state.calls = Calls /\ state.since = events
      /\ state.rows = reads[r].rows
      /\ state.slot = reads[r].slot /\ state.alias = reads[r].alias
      /\ state.booted = rebuilds[reads[r].slot]
  BY <1>1 DEF ReadStates
<1>5. reads' = [reads EXCEPT ![r] = state] BY DEF Connects
<1> HIDE DEF state
<1>6. /\ reads' \in [Adapters -> ReadStates] /\ reads'[r] = state
      /\ \A q \in Adapters : q # r => reads'[q] = reads[q]
  BY <1>3, <1>5 DEF ReadingInv, ReadingTyped
<1>7. shapes[r] = NoShape BY <1>1 DEF ReadSound, Connects
<1>8. ReadSound(r)'
  BY <1>1, <1>4, <1>6, <1>7 DEF ReadSound, Past, Reading, Connects, keyVars, Calls
<1>9. KeysInOrder' BY DEF ReadingInv, KeysInOrder, Connects, keyVars
<1> QED BY <1>2, <1>6, <1>8, <1>9, OneMoves DEF Connects, ReadingInv, ReadingTyped, keyVars, cloudVars

LEMMA DescribedKeeps ==
    ASSUME ReadingAssumption, ReadingInv, NEW r \in Adapters, Described(r) PROVE ReadingInv'
<1>1. ReadingTyped /\ ReadSound(r) /\ reads[r].at \in Numbers /\ reads[r].slot \in ReadSlots
  BY ReadCounts DEF ReadingInv
<1>2. Turns(r, "described", reads[r].at, {}) /\ "described" \in Phases BY DEF Described, Phases
<1>3. /\ reads' \in [Adapters -> ReadStates]
      /\ \A q \in Adapters : q # r => reads'[q] = reads[q]
      /\ reads'[r].phase = "described" /\ reads'[r].slot = reads[r].slot
      /\ reads'[r].since = reads[r].since
      /\ reads'[r].alias = reads[r].alias /\ reads'[r].booted = reads[r].booted
      /\ reads'[r].rows = reads[r].rows
  BY <1>1, <1>2, Turning
<1>4. /\ shapes' = [shapes EXCEPT ![r] = ShapeOf(reads[r].slot, reads[r].rows)]
      /\ UNCHANGED <<catalogue, valid, connected, held, listed, standing, rebuilds, known, events>>
  BY DEF Described, keyVars, cloudVars
<1>5. /\ shapes'[r] = ShapeOf(reads[r].slot, reads[r].rows) /\ \A q \in Adapters : q # r => shapes'[q] = shapes[q]
      /\ shapes' \in [Adapters -> Shapes]
  <2>1. reads[r].rows \in SUBSET ServerRows BY <1>1 DEF ReadingTyped, ReadStates
  <2>2. ShapeOf(reads[r].slot, reads[r].rows) \in Shapes BY <1>1, <2>1 DEF Shapes
  <2> QED BY <1>1, <1>4, <2>2 DEF ReadingTyped
<1>6. Past(r) /\ Past(r)' BY <1>3 DEF Past, Described
<1>7. \A s : Complete(s)' <=> Complete(s) BY <1>4, ListingStays
<1>8. \A s, rows : ShapeOf(s, rows)' = ShapeOf(s, rows) BY <1>4, ListingStays
<1>11. RowsSound(r)' /\ Complete(reads[r].slot) /\ reads[r].booted <= reads[r].alias
  BY <1>1, <1>3, <1>4, <1>6, RowsStaySound DEF ReadSound
<1>12. reads[r].phase # "new" BY DEF Described, Reading
<1>9. ReadSound(r)' BY <1>1, <1>3, <1>4, <1>5, <1>7, <1>8, <1>11, <1>12 DEF ReadSound
<1>10. KeysInOrder' BY <1>4 DEF ReadingInv, KeysInOrder
<1> QED BY <1>1, <1>3, <1>4, <1>5, <1>9, <1>10, OneMoves DEF ReadingTyped

LEMMA RediscoversKeeps ==
    ASSUME ReadingAssumption, ReadingInv, NEW r \in Adapters, Rediscovers(r) PROVE ReadingInv'
<1>1. ReadingTyped /\ ReadSound(r) /\ catalogue \in Numbers BY ReadCounts DEF ReadingInv
<1>2. Turns(r, "again", catalogue, Calls) /\ "again" \in Phases BY DEF Rediscovers, Phases
<1>3. /\ reads' \in [Adapters -> ReadStates]
      /\ \A q \in Adapters : q # r => reads'[q] = reads[q]
      /\ reads'[r].phase = "again" /\ reads'[r].slot = reads[r].slot /\ reads'[r].at = catalogue
      /\ reads'[r].since = reads[r].since /\ reads'[r].calls = Calls
      /\ reads'[r].alias = reads[r].alias /\ reads'[r].booted = reads[r].booted
      /\ reads'[r].rows = reads[r].rows
  BY <1>1, <1>2, Turning
<1>4. /\ connected' = catalogue /\ held' = [held EXCEPT ![catalogue] = 0]
      /\ UNCHANGED <<catalogue, valid, shapes, listed, standing, rebuilds, known, events>>
  BY DEF Rediscovers, keyVars, cloudVars
<1>5. held' \in [Numbers -> Numbers]
  BY <1>1, <1>4 DEF ReadingTyped, Numbers, ReadingAssumption
<1>6. shapes[r] = NoShape BY <1>1 DEF ReadSound, Rediscovers
<1>9. reads[r].phase = "describing" BY DEF Rediscovers
<1>10. ~ Past(r)' BY <1>3 DEF Past, Reading, Calls
<1>7. ReadSound(r)' BY <1>1, <1>3, <1>4, <1>6, <1>9, <1>10 DEF ReadSound
<1>8. KeysInOrder' BY <1>4 DEF ReadingInv, KeysInOrder
<1> QED BY <1>1, <1>3, <1>4, <1>5, <1>7, <1>8, OneMoves DEF ReadingTyped

LEMMA GivesUpKeeps ==
    ASSUME ReadingAssumption, ReadingInv, NEW r \in Adapters, GivesUp(r) PROVE ReadingInv'
<1>1. ReadingTyped /\ ReadSound(r) /\ reads[r].at \in Numbers BY ReadCounts DEF ReadingInv
<1>2. Turns(r, "failed", reads[r].at, {}) /\ "failed" \in Phases BY DEF GivesUp, Phases
<1>3. /\ reads' \in [Adapters -> ReadStates]
      /\ \A q \in Adapters : q # r => reads'[q] = reads[q]
      /\ reads'[r].phase = "failed" /\ reads'[r].slot = reads[r].slot
      /\ reads'[r].since = reads[r].since
      /\ reads'[r].alias = reads[r].alias /\ reads'[r].booted = reads[r].booted
      /\ reads'[r].rows = reads[r].rows
  BY <1>1, <1>2, Turning
<1>4. UNCHANGED <<catalogue, valid, connected, held, shapes, listed, standing, rebuilds, known, events>>
  BY DEF GivesUp, keyVars, cloudVars
<1>5. shapes[r] = NoShape BY <1>1 DEF ReadSound, GivesUp
<1>6. ReadSound(r)' BY <1>1, <1>3, <1>4, <1>5 DEF ReadSound, Past, Reading, GivesUp
<1>7. KeysInOrder' BY <1>4 DEF ReadingInv, KeysInOrder
<1> QED BY <1>1, <1>3, <1>4, <1>6, <1>7, OneMoves DEF ReadingTyped

\* A listing that is answered: the servers' tells whether the slot is whole, and
\* by what generation its hosts are known.
LEMMA ListsKeeps ==
    ASSUME ReadingAssumption, ReadingInv, NEW r \in Adapters, Lists(r) PROVE ReadingInv'
<1>1. PICK c \in reads[r].calls :
        reads' = [reads EXCEPT ![r] =
          [@ EXCEPT
             !.phase = IF c = "servers" /\ ~ Complete(reads[r].slot) THEN "failed" ELSE reads[r].phase,
             !.alias = IF c = "servers" THEN Generation(reads[r].slot) ELSE reads[r].alias,
             !.rows = IF c = "servers" THEN Visible(reads[r].slot) ELSE reads[r].rows,
             !.calls = reads[r].calls \ {c}]]
  BY DEF Lists
<1> DEFINE phase == IF c = "servers" /\ ~ Complete(reads[r].slot) THEN "failed" ELSE reads[r].phase
           alias == IF c = "servers" THEN Generation(reads[r].slot) ELSE reads[r].alias
           rows == IF c = "servers" THEN Visible(reads[r].slot) ELSE reads[r].rows
           state == [reads[r] EXCEPT !.phase = phase, !.alias = alias, !.rows = rows,
                                     !.calls = reads[r].calls \ {c}]
<1>2. /\ reads[r].slot \in ReadSlots /\ reads[r] \in ReadStates /\ ReadSound(r)
      /\ rebuilds[reads[r].slot] \in Numbers /\ valid \in Numbers /\ ReadingTyped
      /\ rebuilds[reads[r].slot] \in Int /\ reads[r].booted \in Int /\ reads[r].alias \in Int
  BY ReadCounts DEF ReadingInv
<1>3. reads' = [reads EXCEPT ![r] = state] BY <1>1
<1>4. /\ phase \in Phases /\ alias \in Numbers /\ reads[r].calls \ {c} \in SUBSET Calls
      /\ rows \in SUBSET ServerRows
  BY <1>2 DEF Phases, Generation, ReadStates, Visible, ReadingInv, RowsTagged, Tagged
<1>5. /\ c = "servers" => alias = rebuilds[reads[r].slot] /\ (phase = "failed" \/ Complete(reads[r].slot))
      /\ c # "servers" => alias = reads[r].alias /\ phase = reads[r].phase /\ rows = reads[r].rows
      /\ c = "servers" => rows = Visible(reads[r].slot)
      /\ phase = reads[r].phase \/ (phase = "failed" /\ ~ Complete(reads[r].slot))
  BY DEF Generation
<1> HIDE DEF phase, alias, rows
<1>6. state \in ReadStates BY <1>2, <1>4 DEF ReadStates
<1>7. /\ state.phase = phase /\ state.slot = reads[r].slot /\ state.at = reads[r].at
      /\ state.since = reads[r].since /\ state.calls = reads[r].calls \ {c}
      /\ state.alias = alias /\ state.booted = reads[r].booted /\ state.rows = rows
  BY <1>2 DEF ReadStates
<1> HIDE DEF state
<1>8. /\ reads' \in [Adapters -> ReadStates] /\ reads'[r] = state
      /\ \A q \in Adapters : q # r => reads'[q] = reads[q]
  BY <1>2, <1>3, <1>6 DEF ReadingTyped
<1>9. /\ held' = [held EXCEPT ![reads[r].at] = valid] /\ reads[r].phase \in {"describing", "again"}
      /\ UNCHANGED <<connected, catalogue, valid, shapes, listed, standing, rebuilds, known, events>>
  BY DEF Lists, Answers, Reading, keyVars, cloudVars
<1>10. held' \in [Numbers -> Numbers] BY <1>2, <1>9 DEF ReadingTyped
<1>11. shapes[r] = NoShape BY <1>2, <1>9 DEF ReadSound
<1>12. \A s : Complete(s)' <=> Complete(s) BY <1>9, ListingStays
<1>13. c = "servers" => RowsSound(r)'
  <2> SUFFICES ASSUME c = "servers" PROVE RowsSound(r)' OBVIOUS
  <2>1. reads'[r].rows = Visible(reads[r].slot) /\ reads'[r].slot = reads[r].slot
    BY <1>5, <1>7, <1>8
  <2>2. Tagged(Visible(reads[r].slot)) BY DEF ReadingInv, RowsTagged, Tagged, Visible
  <2>3. Own(reads[r].slot) \in Visible(reads[r].slot) <=> Own(reads[r].slot) \in standing
    BY DEF Own, Visible
  <2> QED BY <1>9, <2>1, <2>2, <2>3 DEF RowsSound, Tagged, Visible
<1>14. alias <= rebuilds[reads[r].slot] BY <1>2, <1>5 DEF ReadSound
<1>17. Past(r)' => Complete(reads[r].slot) /\ reads[r].booted <= alias /\ RowsSound(r)'
  <2> SUFFICES ASSUME Past(r)'
               PROVE Complete(reads[r].slot) /\ reads[r].booted <= alias /\ RowsSound(r)'
    OBVIOUS
  <2>1. phase \in {"describing", "again"} /\ "servers" \notin reads[r].calls \ {c}
    BY <1>5, <1>7, <1>8, <1>9 DEF Past, Reading
  <2>2. CASE c = "servers" BY <1>2, <1>5, <1>13, <2>1, <2>2 DEF ReadSound
  <2>3. CASE c # "servers"
    <3>1. Past(r) BY <1>9, <2>1, <2>3 DEF Past, Reading
    <3>2. RowsSound(r)' BY <1>2, <1>5, <1>7, <1>8, <1>9, <2>3, <3>1, RowsStaySound DEF ReadSound
    <3> QED BY <1>2, <1>5, <2>3, <3>1, <3>2 DEF ReadSound
  <2> QED BY <2>2, <2>3
<1>15. ReadSound(r)'
  BY <1>2, <1>5, <1>7, <1>8, <1>9, <1>11, <1>12, <1>14, <1>17 DEF ReadSound
<1>16. KeysInOrder' BY <1>9 DEF ReadingInv, KeysInOrder
<1> QED BY <1>2, <1>8, <1>9, <1>10, <1>15, <1>16, OneMoves DEF ReadingTyped

\* The cloud changes: one event more, and whoever read it is excused.
LEMMA CloudChangesKeeps ==
    ASSUME ReadingAssumption, ReadingInv, CloudChanges PROVE ReadingInv'
<1>1. /\ events' = events + 1 /\ events < MaxEvents
      /\ \/ catalogue' = catalogue + 1 /\ valid' = valid
         \/ valid' = valid + 1 /\ catalogue' = catalogue
      /\ UNCHANGED <<connected, held, reads, shapes, listed, standing, rebuilds, known>>
  BY DEF CloudChanges, keyVars, cloudVars
<1>2. EventsCount /\ MaxEvents \in Nat /\ events \in Int BY DEF ReadingInv, EventsCount, ReadingAssumption
<1>3. EventsCount' BY <1>1, <1>2 DEF EventsCount
<1>4. RowsTagged' BY <1>1 DEF ReadingInv, RowsTagged, Tagged
<1>5. ReadingTyped' BY <1>1, ListingStays DEF ReadingInv, ReadingTyped
<1>6. KeysInOrder' BY <1>1 DEF ReadingInv, KeysInOrder
<1>7. ASSUME NEW r \in Adapters PROVE ReadSound(r)'
  <2>1. \A s \in ReadSlots : rebuilds[s] <= rebuilds'[s] BY <1>1, <1>2 DEF EventsCount
  <2>2. events <= events' /\ events < events' BY <1>1, <1>2
  <2> QED BY <1>1, <1>3, <2>1, <2>2, OthersStaySound
<1> QED BY <1>3, <1>4, <1>5, <1>6, <1>7 DEF ReadingInv

LEMMA RebuildsKeeps ==
    ASSUME ReadingAssumption, ReadingInv, NEW r \in Adapters, Rebuilds(r) PROVE ReadingInv'
<1> DEFINE slot == reads[r].slot
           state == [reads[r] EXCEPT !.phase = "describing", !.calls = Calls,
                                     !.since = events', !.booted = rebuilds'[slot]]
<1>1. /\ slot \in ReadSlots /\ reads[r] \in ReadStates /\ ReadSound(r) /\ reads[r].alias \in Int
      /\ rebuilds[slot] \in Int /\ events \in Int /\ ReadingTyped /\ EventsCount /\ MaxEvents \in Nat
      /\ rebuilds[slot] <= events
  BY ReadCounts DEF ReadingInv, ReadingAssumption
<1>2. /\ events' = events + 1 /\ events < MaxEvents
      /\ rebuilds' = [rebuilds EXCEPT ![slot] = @ + 1]
      /\ shapes' = [shapes EXCEPT ![r] = NoShape] /\ reads' = [reads EXCEPT ![r] = state]
      /\ reads[r].phase = "described"
      /\ UNCHANGED <<catalogue, valid, connected, held, listed, standing, known>>
  BY DEF Rebuilds, Forgets, cloudVars
<1>3. rebuilds'[slot] = rebuilds[slot] + 1 /\ \A s \in ReadSlots : s # slot => rebuilds'[s] = rebuilds[s]
  BY <1>1, <1>2 DEF ReadingTyped
<1>4. events' \in Numbers /\ rebuilds'[slot] \in Numbers /\ rebuilds'[slot] \in Int /\ events' \in Int
  BY <1>1, <1>2, <1>3 DEF Numbers, EventsCount
<1>5. rebuilds' \in [ReadSlots -> Numbers] BY <1>1, <1>2, <1>3, <1>4 DEF ReadingTyped
<1>6. EventsCount' BY <1>1, <1>2, <1>3 DEF EventsCount
<1>7. \A s \in ReadSlots : rebuilds[s] <= rebuilds'[s] BY <1>1, <1>3 DEF EventsCount
<1>8. state \in ReadStates BY <1>1, <1>4 DEF ReadStates, Phases
<1>9. /\ state.phase = "describing" /\ state.slot = slot /\ state.since = events' /\ state.calls = Calls
      /\ state.alias = reads[r].alias /\ state.booted = rebuilds'[slot]
  BY <1>1 DEF ReadStates
<1> HIDE DEF state
<1>10. /\ reads' \in [Adapters -> ReadStates] /\ reads'[r] = state
       /\ \A q \in Adapters : q # r => reads'[q] = reads[q]
  BY <1>1, <1>2, <1>8 DEF ReadingTyped
<1>11. /\ shapes' \in [Adapters -> Shapes]
       /\ shapes'[r] = NoShape /\ \A q \in Adapters : q # r => shapes'[q] = shapes[q]
  <2>1. NoShape \in Shapes BY DEF Shapes
  <2> QED BY <1>1, <1>2, <2>1 DEF ReadingTyped
<1>12. RowsTagged' BY <1>2 DEF ReadingInv, RowsTagged, Tagged
<1>13. ReadingTyped' BY <1>1, <1>2, <1>5, <1>10, <1>11, ListingStays DEF ReadingTyped
<1>14. ReadSound(r)'
  <2>1. ~ Past(r)' BY <1>9, <1>10 DEF Past, Reading, Calls
  <2>2. reads[r].alias <= rebuilds'[slot] BY <1>1, <1>3 DEF ReadSound
  <2> QED BY <1>4, <1>9, <1>10, <1>11, <2>1, <2>2 DEF ReadSound
<1>15. ASSUME NEW q \in Adapters, q # r PROVE ReadSound(q)'
  <2>1. events <= events' /\ events < events' /\ UNCHANGED <<catalogue, listed, standing>> BY <1>1, <1>2
  <2> QED BY <1>2, <1>6, <1>7, <1>10, <1>11, <1>15, <2>1, OthersStaySound
<1>16. KeysInOrder'
  <2> SUFFICES ASSUME NEW k \in known PROVE k[1][2] <= k[2] /\ k[2] <= rebuilds'[k[1][1]]
    BY <1>2 DEF KeysInOrder
  <2>1. k[1][2] <= k[2] /\ k[2] <= rebuilds[k[1][1]] BY DEF ReadingInv, KeysInOrder
  <2>2. k[1][1] \in ReadSlots /\ k[2] \in Int BY <1>1 DEF ReadingTyped, Aliases, Numbers
  <2>3. rebuilds[k[1][1]] \in Int /\ rebuilds'[k[1][1]] \in Int BY <1>1, <1>5, <2>2 DEF ReadingTyped, Numbers
  <2> QED BY <1>7, <2>1, <2>2, <2>3
<1> QED BY <1>6, <1>12, <1>13, <1>14, <1>15, <1>16 DEF ReadingInv

\* A server goes, or one comes that is new: one event more, and whoever listed
\* the servers before is excused.
LEMMA ServerChangesKeeps ==
    ASSUME ReadingAssumption, ReadingInv, ServerChanges PROVE ReadingInv'
<1>1. /\ events' = events + 1 /\ events < MaxEvents
      /\ UNCHANGED <<catalogue, valid, connected, held, reads, shapes, listed, known>>
  BY DEF ServerChanges
<1>2. PICK slot \in ReadSlots : ServerGoes(slot) \/ ServerIsNew(slot) BY DEF ServerChanges
<1>3. /\ EventsCount /\ MaxEvents \in Nat /\ events \in Int /\ ReadingTyped
      /\ \A s \in ReadSlots : rebuilds[s] \in Int /\ rebuilds[s] <= events
  BY DEF ReadingInv, EventsCount, ReadingAssumption
<1>4. \/ rebuilds' = rebuilds
      \/ rebuilds' = [rebuilds EXCEPT ![slot] = @ + 1]
  BY <1>2 DEF ServerGoes, ServerIsNew
<1>5. \A s \in ReadSlots : rebuilds'[s] \in {rebuilds[s], rebuilds[s] + 1}
  BY <1>3, <1>4 DEF ReadingTyped
<1>6. \A s \in ReadSlots : rebuilds'[s] \in 0..events' /\ rebuilds[s] <= rebuilds'[s]
  BY <1>1, <1>3, <1>5 DEF EventsCount
<1>7. EventsCount' BY <1>1, <1>3, <1>6 DEF EventsCount
<1>8. rebuilds' \in [ReadSlots -> Numbers]
  <2>1. \A s \in ReadSlots : rebuilds'[s] \in Numbers BY <1>1, <1>3, <1>6 DEF Numbers
  <2>2. rebuilds' = [s \in ReadSlots |-> rebuilds'[s]] BY <1>3, <1>4 DEF ReadingTyped
  <2> QED BY <2>1, <2>2
<1>9. RowsTagged'
  <2>1. Waf # Scorer /\ 0 \notin ReadSlots BY FS_CardinalityType DEF ReadingAssumption
  <2>2. Own(slot) \in ServerRows /\ (Own(slot).host = Scorer <=> Own(slot).tag = 0)
    BY <2>1 DEF Own, ServerRows
  <2>3. \A s \in standing' : s \in standing \/ s = Own(slot) BY <1>2 DEF ServerGoes, ServerIsNew
  <2> QED BY <2>2, <2>3 DEF ReadingInv, RowsTagged, Tagged
<1>10. ReadingTyped' BY <1>1, <1>3, <1>8, ListingStays DEF ReadingTyped
<1>11. KeysInOrder'
  <2> SUFFICES ASSUME NEW k \in known PROVE k[1][2] <= k[2] /\ k[2] <= rebuilds'[k[1][1]]
    BY <1>1 DEF KeysInOrder
  <2>1. k[1][2] <= k[2] /\ k[2] <= rebuilds[k[1][1]] BY DEF ReadingInv, KeysInOrder
  <2>2. k[1][1] \in ReadSlots /\ k[2] \in Int BY <1>3 DEF ReadingTyped, Aliases, Numbers
  <2>3. rebuilds[k[1][1]] \in Int /\ rebuilds'[k[1][1]] \in Int BY <1>3, <1>6, <2>2
  <2> QED BY <1>6, <2>1, <2>2, <2>3
<1>12. ASSUME NEW r \in Adapters PROVE ReadSound(r)'
  <2>1. events <= events' /\ events < events' BY <1>1, <1>3
  <2> QED BY <1>1, <1>6, <1>7, <2>1, OthersStaySound
<1> QED BY <1>7, <1>9, <1>10, <1>11, <1>12 DEF ReadingInv

\* The counts of a request that has read its range, which was whole then: a host
\* that is gone or was replaced since was so by an event after it began.
LEMMA OfAReadRange ==
    ASSUME ReadingAssumption, ReadingInv, NEW r \in Adapters, reads[r].phase = "described",
           Reached(shapes[r], Waf) # {}
    PROVE  /\ RowsSound(r) /\ Complete(reads[r].slot)
           /\ reads[r].booted <= reads[r].alias /\ reads[r].alias <= rebuilds[reads[r].slot]
           /\ shapes[r] = NoShape \/ shapes[r] = ShapeOf(reads[r].slot, reads[r].rows)
           /\ ~ Answering(r) => reads[r].since < events
           /\ Replaced(r) => reads[r].since < events
<1> DEFINE slot == reads[r].slot
<1>1. /\ slot \in ReadSlots /\ ReadSound(r) /\ reads[r].alias \in Int /\ reads[r].booted \in Int
      /\ rebuilds[slot] \in Int
  BY ReadCounts
<1>2. Past(r) BY DEF Past
<1>3. /\ RowsSound(r) /\ Complete(slot) /\ reads[r].booted <= reads[r].alias
      /\ reads[r].alias <= rebuilds[slot]
      /\ shapes[r] = NoShape \/ shapes[r] = ShapeOf(slot, reads[r].rows)
  BY <1>1, <1>2 DEF ReadSound
<1>4. ASSUME ~ Answering(r) PROVE reads[r].since < events
  <2>1. shapes[r] # NoShape
    <3>1. NoShape.nodes = {} BY DEF NoShape
    <3>2. Reached(NoShape, Waf) = {} BY <3>1 DEF Reached
    <3> QED BY <3>2
  <2>2. {n[1] : n \in Reached(shapes[r], Waf)} = {Own(slot)} \cap reads[r].rows
    BY <1>1, <1>3, <2>1, ShapeFindsOwn DEF RowsSound
  <2>3. Own(slot) \in reads[r].rows BY <2>2
  <2> QED BY <1>3, <1>4, <2>3 DEF RowsSound, Answering
<1>5. ASSUME Replaced(r) PROVE reads[r].since < events
  <2>1. reads[r].booted < rebuilds[slot] BY <1>1, <1>3, <1>5 DEF Replaced
  <2> QED BY <1>1, <2>1 DEF ReadSound
<1> QED BY <1>3, <1>4, <1>5

\* A command: ssh misses a host, or refuses its key, only of what changed since.
LEMMA RunsKeeps ==
    ASSUME ReadingAssumption, ReadingInv, NEW r \in Adapters, Runs(r) PROVE ReadingInv'
<1> DEFINE slot == reads[r].slot
           alias == <<slot, reads[r].alias>>
<1>1. /\ slot \in ReadSlots /\ ReadSound(r) /\ reads[r].alias \in Int /\ reads[r].booted \in Int
      /\ rebuilds[slot] \in Int /\ rebuilds[slot] \in Numbers /\ reads[r].at \in Numbers /\ ReadingTyped
      /\ reads[r].alias \in Numbers
  BY ReadCounts DEF ReadingInv, ReadStates
<1>2. /\ reads[r].phase = "described" /\ Reached(shapes[r], Waf) # {}
      /\ Misses(r) \/ Refuses(r) \/ Accepts(r)
      /\ UNCHANGED <<catalogue, valid, connected, held, shapes, listed, standing, rebuilds, events>>
  BY DEF Runs, cloudVars
<1>3. /\ RowsSound(r) /\ Complete(slot)
      /\ reads[r].booted <= reads[r].alias /\ reads[r].alias <= rebuilds[slot]
      /\ shapes[r] = NoShape \/ shapes[r] = ShapeOf(slot, reads[r].rows)
      /\ ~ Answering(r) => reads[r].since < events
      /\ Replaced(r) => reads[r].since < events
  BY <1>2, OfAReadRange
<1>4. ASSUME KnownOtherwise(slot, reads[r].alias) PROVE reads[r].booted < rebuilds[slot]
  <2>1. PICK key \in Numbers \ {rebuilds[slot]} : <<alias, key>> \in known
    BY <1>4 DEF KnownOtherwise
  <2>2. reads[r].alias <= key /\ key <= rebuilds[slot]
    BY <2>1 DEF ReadingInv, KeysInOrder
  <2>3. key \in Int BY <2>1 DEF Numbers
  <2> QED BY <1>1, <1>3, <2>1, <2>2, <2>3
<1>5. PICK phase \in {"refused", "reached", "failed"} :
        /\ Turns(r, phase, reads[r].at, {})
        /\ phase = "refused" => reads[r].booted < rebuilds[slot]
        /\ phase = "failed" => reads[r].since < events
        /\ known' = known \/ known' = known \cup {<<alias, rebuilds[slot]>>}
  <2>1. CASE Misses(r) BY <1>3, <2>1 DEF Misses
  <2>2. CASE Refuses(r) BY <1>4, <2>2 DEF Refuses
  <2>3. CASE Accepts(r) BY <2>3 DEF Accepts
  <2> QED BY <1>2, <2>1, <2>2, <2>3
<1>6. phase \in Phases BY DEF Phases
<1>7. /\ reads' \in [Adapters -> ReadStates]
      /\ \A q \in Adapters : q # r => reads'[q] = reads[q]
      /\ reads'[r].phase = phase /\ reads'[r].slot = slot
      /\ reads'[r].since = reads[r].since
      /\ reads'[r].alias = reads[r].alias /\ reads'[r].booted = reads[r].booted
      /\ reads'[r].rows = reads[r].rows
  BY <1>1, <1>5, <1>6, Turning
<1>8. \A s : Complete(s)' <=> Complete(s) BY <1>2, ListingStays
<1>9. \A s, rows : ShapeOf(s, rows)' = ShapeOf(s, rows) BY <1>2, ListingStays
<1>10. RowsSound(r)' BY <1>2, <1>3, <1>7, RowsStaySound
<1>11. ReadSound(r)'
  <2>1. phase # "again" /\ phase # "new" /\ phase \in {"described", "reached", "refused", "failed"}
    BY <1>5
  <2> QED BY <1>1, <1>2, <1>3, <1>5, <1>7, <1>8, <1>9, <1>10, <2>1 DEF ReadSound
<1>12. KeysInOrder'
  <2> SUFFICES ASSUME NEW k \in known' PROVE k[1][2] <= k[2] /\ k[2] <= rebuilds[k[1][1]]
    BY <1>2 DEF KeysInOrder
  <2>1. CASE k \in known BY <2>1 DEF ReadingInv, KeysInOrder
  <2>2. CASE k = <<alias, rebuilds[slot]>> BY <1>1, <1>3, <2>2
  <2> QED BY <1>5, <2>1, <2>2
<1>13. known' \subseteq Aliases \X Numbers
  <2>1. <<alias, rebuilds[slot]>> \in Aliases \X Numbers BY <1>1 DEF Aliases
  <2> QED BY <1>1, <1>5, <2>1 DEF ReadingTyped
<1> QED BY <1>1, <1>2, <1>7, <1>11, <1>12, <1>13, OneMoves DEF ReadingTyped

LEMMA ReadingStutters == ASSUME ReadingInv, UNCHANGED readingVars PROVE ReadingInv'
<1>1. UNCHANGED <<catalogue, valid, connected, held, reads, shapes, listed, standing, rebuilds, known, events>>
  BY DEF readingVars, keyVars, cloudVars
<1>2. (\A s : Complete(s)' <=> Complete(s)) /\ (\A s, rows : ShapeOf(s, rows)' = ShapeOf(s, rows)) /\ Shapes' = Shapes
  BY <1>1, ListingStays
<1>3. ReadingTyped' /\ EventsCount' /\ KeysInOrder' /\ RowsTagged'
  BY <1>1, <1>2 DEF ReadingInv, ReadingTyped, EventsCount, KeysInOrder, RowsTagged, Tagged
<1>4. \A r \in Adapters : (Past(r)' <=> Past(r)) /\ (RowsSound(r)' <=> RowsSound(r))
  BY <1>1 DEF Past, Reading, RowsSound, Tagged
<1>5. \A r \in Adapters : ReadSound(r)'
  BY <1>1, <1>2, <1>4 DEF ReadingInv, ReadSound
<1> QED BY <1>3, <1>5 DEF ReadingInv

LEMMA ReadingStaysSo ==
    ASSUME ReadingAssumption, ReadingInv, [ReadingNext]_readingVars PROVE ReadingInv'
BY CloudChangesKeeps, ServerChangesKeeps, RebuildsKeeps, RunsKeeps, ConnectsKeeps, ListsKeeps,
   DescribedKeeps, RediscoversKeeps, GivesUpKeeps, ReadingStutters DEF ReadingNext

\* A command for a host of a slot goes to that slot's server and to no other's,
\* while servers are rebuilt, deleted and made on the network they share; one
\* that is gone is addressed, or one that stands is missed, only if the cloud
\* changed since the request began (openstack.py _read, _address, runner).
THEOREM SlotsAreReadApart == ASSUME ReadingAssumption PROVE ReadingSpec => []SlotsReadApart
<1>1. ReadingInv => SlotsReadApart
  <2> SUFFICES ASSUME ReadingInv, NEW r \in Adapters, shapes[r] # NoShape
               PROVE  /\ {n[1] : n \in Reached(shapes[r], Waf)} \subseteq {Own(reads[r].slot)}
                      /\ {n[1] : n \in Reached(shapes[r], Waf)} # {Own(reads[r].slot)} \cap standing
                           => events > reads[r].since
    BY DEF SlotsReadApart
  <2>1. ReadSound(r) /\ reads[r].slot \in ReadSlots /\ events \in Int /\ reads[r].since \in Int
    BY ReadCounts
  <2>2. /\ shapes[r] = ShapeOf(reads[r].slot, reads[r].rows) /\ Complete(reads[r].slot) /\ RowsSound(r)
    BY <2>1 DEF ReadSound
  <2>3. {n[1] : n \in Reached(shapes[r], Waf)} = {Own(reads[r].slot)} \cap reads[r].rows
    BY <2>1, <2>2, ShapeFindsOwn DEF RowsSound
  <2>4. \/ Own(reads[r].slot) \in reads[r].rows <=> Own(reads[r].slot) \in standing
        \/ reads[r].since < events
    BY <2>2 DEF RowsSound
  <2> HIDE DEF ReadingInv
  <2> QED BY <2>1, <2>3, <2>4
<1>2. ReadingInit => ReadingInv BY ReadingBeginsSo
<1>3. ReadingInv /\ [ReadingNext]_readingVars => ReadingInv' BY ReadingStaysSo
<1> QED BY <1>1, <1>2, <1>3, PTL DEF ReadingSpec

\* A reading fails, and a host is refused for its key, only by what changed in
\* the cloud while the request went on (openstack.py describe, runner.py ssh).
THEOREM RequestsKeepUp == ASSUME ReadingAssumption PROVE ReadingSpec => []RequestsFollowTheCloud
<1>1. ReadingInv => RequestsFollowTheCloud
  <2> SUFFICES ASSUME ReadingInv, NEW r \in Adapters
               PROVE  /\ reads[r].phase = "failed" /\ Complete(reads[r].slot) => events > reads[r].since
                      /\ reads[r].phase = "refused" => rebuilds[reads[r].slot] > reads[r].booted
    BY DEF RequestsFollowTheCloud, ReadsFollowTheCloud, HostKeysFollowRebuilds
  <2> QED BY ReadCounts DEF ReadSound
<1>2. ReadingInit => ReadingInv BY ReadingBeginsSo
<1>3. ReadingInv /\ [ReadingNext]_readingVars => ReadingInv' BY ReadingStaysSo
<1> QED BY <1>1, <1>2, <1>3, PTL DEF ReadingSpec

-----------------------------------------------------------------------------
(* The settings. *)

Accepted == stage \in {"parsed", "up", "connected", "unreachable"} => ~ Complaints(doc)
StackIsParsed ==
    stage \in {"up", "connected", "unreachable"} => stack = HeatParameters(Parsed(doc.values))
BuiltOfTheStack ==
    /\ stage = "connected" => Splits(stack) /\ build = Builds(stack)
    /\ stage = "unreachable" => ~ Splits(stack)

SettingsInv == SettingsTypeOK /\ Accepted /\ StackIsParsed /\ BuiltOfTheStack

\* Which setting is of which kind.
LEMMA SettingsSorted ==
    /\ "mirror" \in Carried /\ "keystone" \in Carried /\ "mirror" # "keystone"
    /\ "mirror" \in Settings \ Optional /\ "keystone" \in Settings \ Optional
    /\ Cidrs \subseteq Carried /\ Cidrs \subseteq Settings \ Optional
    /\ "mirror" \notin Cidrs /\ "keystone" \notin Cidrs
    /\ Carried \subseteq Settings /\ Carried \cap Counts = {"slots"}
BY DEF Carried, Settings, Optional, Cidrs, Names, Urls, Texts, Counts, Patterns

\* The usual values, and those a document has instead.
LEMMA UsualIsTyped ==
    /\ Usual \in [Settings -> {"good", "absent"}]
    /\ \A s : {"good", "absent"} \subseteq Values(s)
BY DEF Usual, Values

LEMMA SettingsBeginSo == ASSUME SettingsInit PROVE SettingsInv
<1>1. PICK s \in Settings, t \in Settings : \E v \in Values(s), w \in Values(t), unknown \in BOOLEAN :
         doc = [unknown |-> unknown, values |-> [Usual EXCEPT ![s] = v, ![t] = w]]
  BY DEF SettingsInit
<1>2. PICK v \in Values(s), w \in Values(t), unknown \in BOOLEAN :
         doc = [unknown |-> unknown, values |-> [Usual EXCEPT ![s] = v, ![t] = w]]
  BY <1>1
<1>3. doc.unknown \in BOOLEAN /\ doc.values = [Usual EXCEPT ![s] = v, ![t] = w]
  BY <1>2
<1>4. ASSUME NEW r \in Settings PROVE doc.values[r] \in Values(r)
  <2>1. Usual[r] \in Values(r) BY UsualIsTyped
  <2>2. doc.values[r] = IF r = t THEN w ELSE IF r = s THEN v ELSE Usual[r]
    BY <1>3, UsualIsTyped
  <2> QED BY <2>1, <2>2, <1>2
<1>5. SettingsTypeOK BY <1>3, <1>4 DEF SettingsTypeOK, SettingsInit
<1> QED BY <1>5 DEF SettingsInv, SettingsInit, Accepted, StackIsParsed, BuiltOfTheStack

LEMMA SettingsStaySo == ASSUME SettingsInv, [SettingsNext]_settingsVars PROVE SettingsInv'
<1>1. CASE Read
  BY <1>1 DEF SettingsInv, SettingsTypeOK, Accepted, StackIsParsed, BuiltOfTheStack, Read
<1>2. CASE Ups
  BY <1>2 DEF SettingsInv, SettingsTypeOK, Accepted, StackIsParsed, BuiltOfTheStack, Ups
<1>3. CASE Connect
  BY <1>3 DEF SettingsInv, SettingsTypeOK, Accepted, StackIsParsed, BuiltOfTheStack, Connect
<1>4. CASE UNCHANGED settingsVars
  BY <1>4 DEF SettingsInv, SettingsTypeOK, Accepted, StackIsParsed, BuiltOfTheStack, settingsVars
<1> QED BY <1>1, <1>2, <1>3, <1>4 DEF SettingsNext

\* What connect builds of a setting that the file gives, and of one it does not.
LEMMA BuiltAsGiven ==
    ASSUME SettingsInv, stage \in {"connected", "unreachable"}, NEW s \in Carried
    PROVE  stack[s] = IF s = "keystone" THEN "good"
                      ELSE IF doc.values[s] # "absent" THEN doc.values[s]
                      ELSE IF s = "slots" THEN "one" ELSE "none"
<1>1. stack[s] = Parsed(doc.values)[s]
  BY DEF SettingsInv, StackIsParsed, HeatParameters
<1>2. s \in Settings BY SettingsSorted
<1>3. Parsed(doc.values)[s] = IF ~ Given(doc.values, s) THEN Default(s)
                              ELSE IF s = "keystone" THEN "good" ELSE doc.values[s]
  BY <1>2 DEF Parsed
<1>4. Given(doc.values, "keystone")
  BY SettingsSorted DEF SettingsInv, Accepted, Complaints
<1>5. s \in Counts <=> s = "slots" BY SettingsSorted
<1>6. Default(s) = IF s = "slots" THEN "one" ELSE "none" BY <1>5 DEF Default
<1> QED BY <1>1, <1>3, <1>4, <1>6 DEF Given

\* The file that was accepted gives its networks, and they share no address.
LEMMA NetworksApart ==
    ASSUME SettingsInv, stage = "connected", NEW s \in Cidrs, NEW t \in Cidrs, s # t
    PROVE  /\ Held(s, doc.values[s]) \cap Held(t, doc.values[t]) = {}
           /\ Held(s, doc.values[s]) \cap Taken = {}
<1>1. ~ Complaints(doc) BY DEF SettingsInv, Accepted
<1>2. \A r \in Cidrs : doc.values[r] # "absent" /\ Passes(r, doc.values[r])
  BY <1>1, SettingsSorted DEF Complaints, Given
<1>3. ~ Overlaps(doc.values) BY <1>1 DEF Complaints
<1>4. t \in Cidrs \ {s} OBVIOUS
<1> QED BY <1>2, <1>3, <1>4 DEF Overlaps

\* A file that is accepted is one the platform connects by, and what connect
\* builds the range of is what the file says (cloud.py, openstack.py connect).
THEOREM TheFileArrives == SettingsSpec => []SettingsArrive
<1>1. SettingsInv => SettingsArrive
  <2> SUFFICES ASSUME SettingsInv PROVE SettingsArrive OBVIOUS
  <2>1. ASSUME stage = "connected", doc.values["mirror"] # "tail", NEW s \in Carried
        PROVE  build[s] = IF s = "keystone" THEN "good"
                          ELSE IF doc.values[s] # "absent" THEN doc.values[s]
                          ELSE IF s = "slots" THEN "one" ELSE "none"
    <3>1. stack["mirror"] # "tail" BY <2>1, BuiltAsGiven, SettingsSorted
    <3>2. build[s] = stack[s]
      BY <2>1, <3>1 DEF SettingsInv, BuiltOfTheStack, Builds
    <3> QED BY <2>1, <3>2, BuiltAsGiven
  <2>2. ASSUME stage = "connected", NEW s \in Cidrs PROVE build[s] = doc.values[s]
    <3>1. s \in Carried /\ s # "mirror" /\ s # "keystone" BY SettingsSorted
    <3>2. build[s] = stack[s] BY <2>2, <3>1 DEF SettingsInv, BuiltOfTheStack, Builds
    <3>3. doc.values[s] # "absent"
      BY <2>2, SettingsSorted DEF SettingsInv, Accepted, Complaints, Given
    <3> QED BY <2>2, <3>1, <3>2, <3>3, BuiltAsGiven
  <2>3. ASSUME stage = "connected", NEW s \in Cidrs, NEW t \in Cidrs, s # t
        PROVE  /\ Held(s, build[s]) \cap Held(t, build[t]) = {}
               /\ Held(s, build[s]) \cap Taken = {}
    <3>1. build[s] = doc.values[s] /\ build[t] = doc.values[t] BY <2>2, <2>3
    <3> QED BY <2>3, <3>1, NetworksApart
  <2>4. ASSUME stage = "unreachable" PROVE doc.values["mirror"] = "blank"
    <3>1. stack["mirror"] = "blank" BY <2>4 DEF SettingsInv, BuiltOfTheStack, Splits
    <3> QED BY <2>4, <3>1, BuiltAsGiven, SettingsSorted
  <2> QED BY <2>1, <2>3, <2>4 DEF SettingsArrive
<1>2. SettingsSpec => []SettingsInv
  BY SettingsBeginSo, SettingsStaySo, PTL DEF SettingsSpec
<1> QED BY <1>1, <1>2, PTL

-----------------------------------------------------------------------------
(* What one run keeps of all that the platform does to the cloud. *)

\* What a request knows of the cloud is typed: its shape is made of rows.
LEMMA ReadingIsTyped == ASSUME ReadingAssumption, ReadingInv PROVE ReadingTypeOK
<1>1. ReadingTyped /\ EventsCount /\ RowsTagged /\ MaxEvents \in Nat
  BY DEF ReadingInv, ReadingAssumption
<1>2. {catalogue, valid, connected, events} \subseteq Numbers
  BY <1>1 DEF ReadingTyped, EventsCount, Numbers
<1>3. \A s \in ReadSlots, rows \in SUBSET ServerRows : ShapeOf(s, rows).nodes \subseteq ServerRows \X Segs
  <2> SUFFICES ASSUME NEW s \in ReadSlots, NEW rows \in SUBSET ServerRows, NEW n \in Nodes(s, rows)
               PROVE  n \in ServerRows \X Segs
    BY DEF ShapeOf
  <2>1. PICK segment \in Segs :
          n \in {<<row, segment>> : row \in UNION {AddressesOn(m, rows) : m \in Binds(s, segment)}}
    BY DEF Nodes
  <2>2. PICK row \in rows : n = <<row, segment>> BY <2>1 DEF AddressesOn
  <2> QED BY <2>2
<1>4. \A r \in Adapters : shapes[r].nodes \subseteq ServerRows \X Segs
  <2> SUFFICES ASSUME NEW r \in Adapters PROVE shapes[r].nodes \subseteq ServerRows \X Segs OBVIOUS
  <2>1. \/ shapes[r] = NoShape
        \/ \E s \in ReadSlots, rows \in SUBSET ServerRows : shapes[r] = ShapeOf(s, rows)
    BY <1>1 DEF ReadingTyped, Shapes
  <2>2. NoShape.nodes = {} BY DEF NoShape
  <2> QED BY <1>3, <2>1, <2>2
<1>7. standing \subseteq ServerRows BY <1>1 DEF RowsTagged, Tagged
<1>5. \A r \in Adapters : reads[r] \in ReadStates BY <1>1 DEF ReadingTyped
<1>6. \A r \in Adapters :
        /\ reads[r].phase \in Phases /\ reads[r].slot \in ReadSlots
        /\ reads[r].at \in Numbers /\ reads[r].since \in Numbers
        /\ reads[r].calls \subseteq Calls
        /\ reads[r].alias \in Numbers /\ reads[r].booted \in Numbers
        /\ reads[r].rows \subseteq ServerRows
  BY <1>5 DEF ReadStates
<1> QED BY <1>1, <1>2, <1>4, <1>6, <1>7 DEF ReadingTypeOK, ReadingTyped

CloudInv == ImageInv /\ RangeInv /\ EdgeInv /\ ReadingInv /\ SettingsInv

\* A behaviour that is about another part has the usual settings.
LEMMA CloudBeginsSo == ASSUME RangeAssumptions, Init PROVE CloudInv
<1>1. ImageInv /\ RangeInv /\ EdgeInv /\ ReadingInv
  BY ImagesBeginSo, RangeBeginsSo, EdgeBeginsSo, ReadingBeginsSo DEF RangeAssumptions, Init
<1>2. part = "settings" => SettingsInv BY SettingsBeginSo DEF Init
<1>3. ASSUME part # "settings" PROVE SettingsInv
  <2>1. doc = [unknown |-> FALSE, values |-> Usual] /\ secret = TRUE /\ stage = "written"
    BY <1>3 DEF Init
  <2>2. SettingsTypeOK BY <2>1, UsualIsTyped DEF SettingsTypeOK
  <2> QED BY <2>1, <2>2 DEF SettingsInv, Accepted, StackIsParsed, BuiltOfTheStack
<1> QED BY <1>1, <1>2, <1>3 DEF CloudInv

\* Whatever a behaviour is about, each part takes a step of its own or none.
LEMMA PartsStep ==
    ASSUME [Next]_vars
    PROVE  /\ [ImageNext]_imageVars /\ [RangeNext]_rangeVars /\ [EdgeNext]_edgeVars
           /\ [ReadingNext]_readingVars /\ [SettingsNext]_settingsVars
<1>1. CASE Next BY <1>1 DEF Next
<1>2. CASE UNCHANGED vars BY <1>2 DEF vars
<1> QED BY <1>1, <1>2

\* Every variable keeps its type and every part its invariant, whichever of
\* them a behaviour is about: the builds of images, the requests that make and
\* remove the range, a reset of the edge, the reading of the cloud and the file
\* of its settings.
THEOREM CloudStaysTyped ==
    ASSUME RangeAssumptions, "poweroff" \notin BuildMishaps, "race" \notin FabricMishaps
    PROVE  Spec => [](CloudInv /\ RangeTypesOK)
<1>1. Init => CloudInv BY CloudBeginsSo
<1>2. ASSUME CloudInv, [Next]_vars PROVE CloudInv'
  <2>1. /\ [ImageNext]_imageVars /\ [RangeNext]_rangeVars /\ [EdgeNext]_edgeVars
        /\ [ReadingNext]_readingVars /\ [SettingsNext]_settingsVars
    BY <1>2, PartsStep
  <2>2. ImageInv' BY <1>2, <2>1, ImagesStaySo DEF CloudInv, RangeAssumptions
  <2>3. RangeInv' BY <1>2, <2>1, RangeStaysSo DEF CloudInv, RangeAssumptions
  <2>4. EdgeInv' BY <1>2, <2>1, EdgeStaysSo DEF CloudInv, RangeAssumptions
  <2>5. ReadingInv' BY <1>2, <2>1, ReadingStaysSo DEF CloudInv, RangeAssumptions
  <2>6. SettingsInv' BY <1>2, <2>1, SettingsStaySo DEF CloudInv
  <2> QED BY <2>2, <2>3, <2>4, <2>5, <2>6 DEF CloudInv
<1>3. CloudInv => RangeTypesOK
  BY ReadingIsTyped DEF CloudInv, ImageInv, RangeInv, EdgeInv, SettingsInv, RangeTypesOK, RangeAssumptions
<1> QED BY <1>1, <1>2, <1>3, PTL DEF Spec
=============================================================================
