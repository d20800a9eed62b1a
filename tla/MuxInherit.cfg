SPECIFICATION Spec
CONSTANTS
    t1 = t1
    t2 = t2
    t3 = t3
    t4 = t4
    t5 = t5
    m1 = m1
    m2 = m2
    Task = {t1, t2, t3, t4, t5}
    WaitList = {m1}
    Cpu = {c0}
    FreezeOnSuspend = FALSE
    None = None
    Prio <- MCPrio
    BasePrio <- InheritPrio
    MuxType <- InheritType
    Protocol <- MCProtocol
    Ceiling <- MCCeiling
    SetPrio = {}
    LockTimed = {FALSE}
    Managed = {}
    LockDepth = 1
    MuxCountMax = 1
INVARIANTS
    InheritanceKept
    PriorityRestored
    WaitersByPriority
CHECK_DEADLOCK FALSE
