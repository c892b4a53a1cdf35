SPECIFICATION FairSpec
CONSTANTS
    MaxThreads = 3
    Quantum = 3
    SleepTimes = {0, 1, 2, Forever}
    Forever = Forever
INVARIANTS
    ProcessorInv
PROPERTIES
    RunnableIsScheduled
    SleepEnds
