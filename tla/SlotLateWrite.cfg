SPECIFICATION Spec
CONSTANTS
    Slots = {s1}
    Sessions = {x1, x2}
    Threads = {t1, t2}
    None = None
    Mishaps = {"late_writes"}
INVARIANT LeavesNothing
CHECK_DEADLOCK FALSE
