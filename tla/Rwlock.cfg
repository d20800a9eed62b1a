SPECIFICATION Spec
CONSTANTS
    t1 = t1
    t2 = t2
    t3 = t3
    t4 = t4
    Task = {t1, t2, t3, t4}
    Rwlock = {l1}
    WaitList <- MCWaitList
    Cpu = {c0}
    FreezeOnSuspend = FALSE
    None = None
    Priority <- MCPriority
    CountMax = 2
    CountMin <- MCCountMin
    Managed = {t1}
    RdTimed = {TRUE, FALSE}
    WrTimed = {TRUE, FALSE}
SYMMETRY Symmetry
INVARIANTS
    TypeOK
    WriterExcludesOthers
    CountExact
    WaitersOnHeldLock
PROPERTIES
    ReadersDoNotOvertake
    ImplementsTaskWait
CHECK_DEADLOCK FALSE
