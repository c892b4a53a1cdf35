SPECIFICATION Spec
CONSTANTS
    MaxThreads = 3
    MaxBorn = 4
    MaxMisused = 0
    Processes = {"kernel", "user"}
    KernelProcess = "kernel"
    HeapContents = {2}
INVARIANTS
    ThreadsInv
    WakesItsWaiters
    KernelOutlivesPrograms
PROPERTIES
    JoinGetsExitCode
CHECK_DEADLOCK FALSE
