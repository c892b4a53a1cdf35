SPECIFICATION HeapSpec
CONSTANTS
    Units = 16
    Header = 2
    Requests = {1, 2, 3, 5}
    GrowUnits = 8
    PageSize = 4
    FreeBytes = 2
INVARIANTS
    Tiled
    Coalesced
    OwnedExactly
VIEW OnList
