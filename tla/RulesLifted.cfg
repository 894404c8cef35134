SPECIFICATION Spec
CONSTANTS
    N = 3
    Records = {r1, r2, r3}
    Sessions = {x1, x2}
    Threads = {t1, t2}
    Texts = {v1, v2}
    Baseline = v1
    None = none
    Ways = {"gone", "restart", "opening", "unloaded"}
SYMMETRY Symmetry
INVARIANTS
    SensorsAgree
PROPERTIES
    LiftsOnlyItsOwn
