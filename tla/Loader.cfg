SPECIFICATION Spec
SYMMETRY Symmetry
CONSTANTS
    r1 = r1
    r2 = r2
    b1 = b1
    Memory <- TwoRegions
    High = 50
    Files <- SomeFiles
    Present <- NotGone
    Imports <- TheirImports
    Bases = {b1}
    Runners = {r1, r2}
    CodePages = 2
    DataPages = 2
    StackPages = 4
    MaxModules = 3
    MaxKernelLoads = 2
INVARIANTS
    PagesInv
    
    
CHECK_DEADLOCK FALSE
