SPECIFICATION WaitSpec
CONSTANTS
    Task = {t1, t2}
    WaitList = {l1}
    Cpu = {c0, c1}
    FreezeOnSuspend = FALSE
    None = None
PROPERTY DelayLasts
CHECK_DEADLOCK FALSE
