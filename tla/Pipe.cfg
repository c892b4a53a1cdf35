SPECIFICATION FairSpec
CONSTANTS
    r1 = r1
    r2 = r2
    w = w
    None = None
    Readers = {r1, r2}
    Writer = w
    Size = 3
    MaxCount = 3
    MaxBytes = 5
INVARIANTS
    RingInv
    ReceivedInOrder
    FreedUnderCutCallsOnly
PROPERTIES
    ReadReturns
CHECK_DEADLOCK FALSE
