SPECIFICATION FairSpec
CONSTANTS
    w = w
    v = v
    s = s
    a = a
    b = b
    None = None
    Threads = {w, v, s}
    Events = {a, b}
    Requests <- SharedWaits
    Quantum = 2
    MaxSignals = 2
INVARIANTS
    WaitListInv
    OneWinnerPerSignal
    NoWaiterLeftBehind
PROPERTIES
    SignaledWaitReturns
CHECK_DEADLOCK FALSE
