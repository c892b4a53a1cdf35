SPECIFICATION Spec
CONSTANTS
    t1 = t1
    t2 = t2
    Threads = {t1, t2}
    None = None
INVARIANT SleepsRegistered
CHECK_DEADLOCK FALSE
