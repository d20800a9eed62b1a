SPECIFICATION Spec
CONSTANTS
    t2 = t2
    t3 = t3
    a = a
    b = b
    Task = {t1, t2, t3}
    WaitList = {e1, e2}
    Cpu = {c0}
    FreezeOnSuspend = FALSE
    None = None
    Bit = {a, b}
    Reads <- MCReads
    OnceEvent = {e2}
    ReadTimed = {TRUE}
    Managed = {t1}
SYMMETRY Symmetry
INVARIANTS
    TypeOK
    NoSatisfiedReaderWaits
    WokenReaderFindsEvent
PROPERTY ImplementsTaskWait
