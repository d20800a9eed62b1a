SPECIFICATION Spec
CONSTANTS
    Task = {t1, t2, t3}
    WaitList <- MCWaitList
    Cpu = {c0}
    FreezeOnSuspend = FALSE
    None = None
    Queue = {q1}
    Msg = {a, b}
    QueueLens = {1, 2}
    Managed = {t1}
SYMMETRY Symmetry
INVARIANTS
    TypeOK
    SlotsConserved
    BufferIsDeque
    NoLostWakeup
    QueueOutlivesWaiters
PROPERTY ImplementsTaskWait
