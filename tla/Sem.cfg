SPECIFICATION FairSpec
CONSTANTS
    Task = {t1, t2, t3}
    WaitList = {s1}
    Cpu = {c0}
    FreezeOnSuspend = FALSE
    None = None
    SemCountMax = 2
    SemGen = 2
INVARIANTS
    TypeOK
    OkMeansWoken
    TimeoutQueueExact
    NoLostWakeup
    WaitersKeepTheirSem
    PermitsConserved
    BlockOwnedOnce
PROPERTIES
    ImplementsTaskWait
    TimedPendEnds
