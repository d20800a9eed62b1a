SPECIFICATION WaitSpec
CONSTANTS
    Task = {t1, t2, t3}
    WaitList = {l1, l2}
    Cpu = {c0, c1}
    FreezeOnSuspend = TRUE
    None = None
SYMMETRY Symmetry
INVARIANTS
    WaitTypeOK
    PendListConsistent
    ReadyOrBlocked
    TimeoutNotLost
CHECK_DEADLOCK FALSE
