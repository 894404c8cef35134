SPECIFICATION Spec
CONSTANTS
    Slots = {s1}
    Sessions = {x1, x2}
    Threads = {t1}
    None = None
    Mishaps = {"reset_fails", "configure"}
INVARIANT LeavesNothing
CHECK_DEADLOCK FALSE
