SPECIFICATION FairSpec
CONSTANTS
    sqlmap = sqlmap
    dump = dump
    Plan <- MCPlan
    WindowAt = 2
    Length = 3
    PoolSize = 1
    Horizon = 4
    MaxWindows = 2
    MaxRestarts = 1
    EarlyRequests = FALSE
CHECK_DEADLOCK FALSE
INVARIANTS
    TypeOK
    FiredOnceAtATime
    JudgedWindowsAreSettled
    PassedHeldEveryCase
PROPERTIES
    ImplementsVerification
    WindowsAreJudged
