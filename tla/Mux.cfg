SPECIFICATION Spec
CONSTANTS
    t1 = t1
    t2 = t2
    t3 = t3
    t4 = t4
    t5 = t5
    m1 = m1
    m2 = m2
    Task = {t1, t2, t3}
    WaitList = {m1, m2}
    Cpu = {c0}
    FreezeOnSuspend = FALSE
    None = None
    Prio <- MCPrio
    BasePrio <- OwnerPrio
    MuxType <- MCType
    Protocol <- MCProtocol
    Ceiling <- MCCeiling
    SetPrio = {1}
    LockTimed = {TRUE, FALSE}
    Managed = {t1}
    LockDepth = 2
    MuxCountMax = 2
SYMMETRY OwnerSymmetry
INVARIANTS
    TypeOK
    MutualExclusion
    OwnerConsistent
PROPERTY ImplementsTaskWait
CHECK_DEADLOCK FALSE
