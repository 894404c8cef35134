SPECIFICATION Spec
CONSTANTS
    Threads = {t1, t2}
    None = None
    Limit = 2
    MaxLines = 1
    Ways = {}
SYMMETRY Symmetry
INVARIANTS
    CloseStopsTheCustomers
CHECK_DEADLOCK FALSE
