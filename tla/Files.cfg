SPECIFICATION Spec
SYMMETRY DriverSymmetry
CONSTANTS
    d1 = d1
    d2 = d2
    Drivers = {d1, d2}
    DeviceNames = {"a"}
    MaxDevices = 2
    Components = {"a", "b"}
    MaxDepth = 3
    BufferSize = 6
    Stale <- NothingOrB
    Archive <- SmallArchive
    DirLength = 2
    MaxNodes = 3
INVARIANTS
    TreeInv
    NothingSkipped
    DuplicateOnlyByRace
CHECK_DEADLOCK FALSE
