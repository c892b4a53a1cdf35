SPECIFICATION FairSpec
CONSTANTS
    t1 = t1
    t2 = t2
    t3 = t3
    t4 = t4
    Threads = {t1, t2, t3, t4}
    Writers = {t1, t2, t3, t4}
    NonBlocking = {t4}
    AllocMayFail = TRUE
INVARIANTS
    TypeOK
    HoldersMatchCount
    SleepersAreQueued
    NoLostWakeup
PROPERTIES
    ImplementsRWLock
    SleepingWriterIsWoken
CHECK_DEADLOCK FALSE
