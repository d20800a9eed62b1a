SPECIFICATION Spec
CONSTANTS
    Task = {t1, t2}
    WaitList = {s1}
    Cpu = {c0}
    FreezeOnSuspend = TRUE
    None = None
    SemCountMax = 2
    SemGen = 2
INVARIANT PermitsConserved
CHECK_DEADLOCK FALSE
