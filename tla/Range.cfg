SPECIFICATION Spec
CONSTANTS
    Images = {"edge", "waf"}
    Uploading = {"edge"}
    Digests = {1, 2}
    Room = 1
    MaxMishaps = 2
    BuildMishaps = {"call", "setup", "nova", "glance", "sources"}
    Configs = {1, 2}
    MaxTries = 2
    MaxTroubles = 3
    MaxResets = 3
    Slots = {1, 2}
    Hosts = {"gw"}
    Segments = {"mgmt", "estate"}
    Mgmt = "mgmt"
    Senders = {"gw"}
    MaxRangeMishaps = 2
    FabricMishaps = {"call", "delete"}
    Adapters = {"r1", "r2"}
    ReadSlots = {1, 2}
    Shared = "mgmt"
    Estate = "estate"
    Waf = "waf"
    Scorer = "scorer"
    MaxEvents = 2
INVARIANTS
    RangeTypesOK
    ReadyIsWhole
    OpenedSlotsStayHeard
    ServersKeepTheirPorts
    SlotsReadApart
    RequestsFollowTheCloud
    SettingsArrive
PROPERTIES
    DoneMeansWanted
    CloudWorkEnds
CHECK_DEADLOCK FALSE
