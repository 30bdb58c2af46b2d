CONSTANTS
    capacity_ = 2
    Thread = {t1, t2, t3}
    Item = {a, b}
    Batch = {1, 2}
SYMMETRY Symmetry
SPECIFICATION Spec
INVARIANTS
    NoLostWakeup
CHECK_DEADLOCK FALSE
