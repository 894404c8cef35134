SPECIFICATION Spec
CONSTANTS
    Slots = {s1, s2}
    Sessions = {x1, x2}
    Threads = {t1, t2}
    None = None
    Mishaps = {"configure"}
SYMMETRY Symmetry
INVARIANTS
    OneOpenSessionPerSlot
    LeavesNothing
CHECK_DEADLOCK FALSE
