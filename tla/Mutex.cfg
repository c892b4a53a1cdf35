SPECIFICATION Spec
CONSTANTS
    t1 = t1
    t2 = t2
    t3 = t3
    t4 = t4
    Threads = {t1, t2, t3, t4}
    None = None
SYMMETRY Symmetric
INVARIANTS
    OwnerIsAlone
    HangsOnlyBehindUnlock
    ListedOnce
CHECK_DEADLOCK FALSE
