SPECIFICATION FairSpec
CONSTANTS
    Slots = {s1}
    Sessions = {x1, x2}
    Threads = {t1, t2}
    None = None
    Mishaps = {"open_fails", "close_breaks", "reset_fails", "late_writes", "late_opens",
               "configure", "rebuild", "restart"}
INVARIANTS
    TypeOK
    OneOwnerPerReset
    OpenSlotIsNotReset
    EndingCloseHoldsTheReset
PROPERTIES
    ConfiguresOnlyRebuiltVMs
    ImplementsService
    ResetEnds
CHECK_DEADLOCK FALSE
