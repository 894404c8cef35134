SPECIFICATION Spec
CONSTANTS
    Tabs = {t, u}
    Favicon = "favicon"
    KeptPerSession = 2
    MaxNumber = 3
    MaxRestarts = 1
    Attackers = {"a"}
    Customers = {"c"}
    LearnerTabs = {"t", "u"}
    HintCount = 1
    WrongsBeforeOffer = 2
    IdleTime = 1
    MaxNow = 2
    MaxVerdicts = 2
    MaxVersion = 2
    Lessons = {1, 2}
    First = 1
    Gaps = {1}
    Steps = {"sent", "answer", "kali", "loot", "waf_changed", "replay"}
    Panes = {"p", "q"}
    Slack = 1
    TopRung = 3
    WrongsPerHint = 2
    Overlap = FALSE
    MaxRecords = 2
    MaxMoves = 1
    MaxClicks = 2
    Attacks = {"a", "b"}
    Keys = {"k"}
    Second = 2
    Skew = 1
    Attribution = 2
    MaxTime = 4
    Tunings = {1, 2}
    Typed = {3, 4}
    Valid = {0, 1, 3}
    Baseline = 0
    MaxPuts = 2
    MaxEdits = 1
    MaxLost = 1
    Cases = {"a", "b"}
    Replays = {"b"}
    Ingests = {"i", "j"}
    Readers = {"r"}
    MaxIngests = 2
SYMMETRY Symmetry
INVARIANTS
    SessionTypesOK
    PanelFollowsTheSite
    HelpFitsWhatIsLeft
    VerdictsStayTrue
    StepsAreEarned
    CreditStaysWithItsAttack
    CachedResultIsFresh
PROPERTIES
    AnswerTellsWhatServes
CHECK_DEADLOCK FALSE
