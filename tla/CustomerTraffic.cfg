SPECIFICATION Spec
CONSTANTS
    Threads = {t1, t2, t3}
    None = None
    Limit = 2
    MaxLines = 3
    Ways = {"unreachable", "dies", "restart"}
SYMMETRY Symmetry
INVARIANTS
    TypeOK
    CountedUpToTheOffset
    OnlyRecordsAreCounted
PROPERTIES
    StopReadsTheLast
CHECK_DEADLOCK FALSE
