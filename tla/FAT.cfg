SPECIFICATION Spec
CONSTANTS
    SectorCounts = {10, 12}
    PerCluster = 1
    UnitsPerSector = 3
    LinksPerSector = 5
    Length <- ThreeNames
    Paths <- FewPaths
    Handles = {h1}
    Offsets = {0, 4}
    Counts = {2, 3}
    MaxWrites = 2
INVARIANTS
    VolumeInv
    FilesInv
    DirectoryInv
    RunsOutOnlyWhenFull
CHECK_DEADLOCK FALSE
