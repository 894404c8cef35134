SPECIFICATION Spec
CONSTANTS
    N = 2
    Records = {r1, r2}
    Sessions = {x1, x2}
    Threads = {t1, t2}
    Texts = {v1, v2}
    Baseline = v1
    None = none
    Ways = {"edit", "posture", "late", "restart"}
SYMMETRY Symmetry
INVARIANTS
    TypeOK
    SilencedRulesComeBack
