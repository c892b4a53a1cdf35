SPECIFICATION Spec
SYMMETRY ThreadSymmetry
CONSTANTS
    t1 = t1
    t2 = t2
    t3 = t3
    HANDLE_LEVELS = 2
    HANDLE_ENTRIES = 4
    HandleBits = 5
    Chosen <- StdoutOrHighest
    Callers <- ThreeThreads
    MaxCopies = 2
    MaxObjects = 3
INVARIANTS
    HandlesInv
PROPERTIES
    FreshHandle
CHECK_DEADLOCK FALSE
