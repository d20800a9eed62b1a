------------------------------ MODULE TaskWait ------------------------------
(***************************************************************************)
(* The blocking layer every LiteOS-A synchronisation object is built on:   *)
(* the wait, wake, delay, suspend, resume and exit operations of the       *)
(* priority scheduler (los_priority.c), the timeout scan that runs in the  *)
(* tick interrupt (los_sched.c) and the freezing of timed waits            *)
(* (los_sched_pri.h).                                                      *)
(*                                                                         *)
(* One action is one critical section under g_taskSpin (SCHEDULER_LOCK).   *)
(* A task blocks inside HPFWait, so a wait is two actions: HPFWait, which  *)
(* ends in the context switch, and HPFWaitReturn, the code after           *)
(* OsSchedResched when the task runs again.  Anything may happen between.  *)
(*                                                                         *)
(* READY stands for READY or RUNNING: any runnable task may take the next  *)
(* step, which includes every schedule the priorities would choose.        *)
(* Time is abstract: a task linked in a timeout queue may expire whenever  *)
(* the tick interrupt comes.                                               *)
(***************************************************************************)
EXTENDS Naturals, Sequences, SequencesExt

CONSTANTS
    Task,              \* task control blocks
    WaitList,          \* heads of pend lists, one per wait queue
    Cpu,               \* cores; a timeout queue belongs to each
    FreezeOnSuspend,   \* suspending a task freezes its timed wait: the build has
                       \* no LOSCFG_KERNEL_PM, or OsIsPmMode() holds
    None

ASSUME WaitConstants ==
    /\ None \notin Task
    /\ None \notin WaitList
    /\ FreezeOnSuspend \in BOOLEAN

VARIABLES
    taskStatus,   \* taskStatus[t]: the OS_TASK_STATUS_* flags of the TCB
    pendList,     \* pendList[l]: the tasks on list l, first to last
    waitOn,       \* waitOn[t]: the list t passed to HPFWait and has not returned from
    node,         \* node[t]: the TCB's sortList node, see NodeState
    scan,         \* scan[c]: the task core c has unlinked and is about to wake
    woken,        \* history: HPFWake chose t during its current wait
    fault         \* a NULL list link was followed or a linked node inserted again

waitVars == <<taskStatus, pendList, waitOn, node, scan, woken, fault>>

Flag == {"READY", "PENDING", "PEND_TIME", "DELAY", "SUSPENDED", "TIMEOUT",
         "FROZEN", "UNUSED"}

\* "out": unlinked, responseTime invalid; "linked": in a timeout queue;
\* "saved": unlinked by SchedTaskFreeze, which puts the responseTime back;
\* "stuck": in a timeout queue with an invalid responseTime, so it never expires.
NodeState == {"out", "linked", "saved", "stuck"}

WaitTypeOK ==
    /\ taskStatus \in [Task -> SUBSET Flag]
    /\ pendList \in [WaitList -> Seq(Task)]
    /\ waitOn \in [Task -> WaitList \cup {None}]
    /\ node \in [Task -> NodeState]
    /\ scan \in [Cpu -> Task \cup {None}]
    /\ woken \in [Task -> BOOLEAN]
    /\ fault \in BOOLEAN

WaitInit ==
    /\ taskStatus = [t \in Task |-> {"READY"}]
    /\ pendList = [l \in WaitList |-> <<>>]
    /\ waitOn = [t \in Task |-> None]
    /\ node = [t \in Task |-> "out"]
    /\ scan = [c \in Cpu |-> None]
    /\ woken = [t \in Task |-> FALSE]
    /\ fault = FALSE

-----------------------------------------------------------------------------
Has(t, f) == f \in taskStatus[t]

Timed(t) == Has(t, "PEND_TIME") \/ Has(t, "DELAY")

\* The task runs code of its own, outside any blocking call.
Running(t) == Has(t, "READY") /\ waitOn[t] = None /\ ~fault

\* The task has been made ready and comes back out of OsSchedResched.
Resumes(t) == Has(t, "READY") /\ waitOn[t] # None /\ ~fault

\* Mutant: the neighbours of the node are not joined.
UnlinkedNoJoin(t) ==
    [l \in WaitList |-> [i \in 1..Len(pendList[l]) |->
                            IF pendList[l][i] = t THEN None ELSE pendList[l][i]]]

\* LOS_ListDelete on the TCB's pendList: unlinked from whichever list holds it.
Unlinked(t) == [l \in WaitList |-> RemoveFirst(pendList[l], t)]

\* Mutant: it is not unlinked.
StaysLinked(t) == pendList

UnlinkedIfPending(t) == IF Has(t, "PENDING") THEN Unlinked(t) ELSE pendList

\* HPFEnqueue: PriQueInsert clears the BLOCKED flags and sets READY.
Enqueued(s) == (s \ {"PENDING", "PEND_TIME", "DELAY"}) \cup {"READY"}

OsSchedTimeoutQueueAdd(t, state) ==
    /\ node' = [node EXCEPT ![t] = state]
    /\ fault' = (fault \/ node[t] \in {"linked", "stuck"})

\* Mutant: the timeout is not cancelled.
TimeoutQueueDeleteNothing(t) == UNCHANGED <<node, fault>>

\* The node is unlinked when its responseTime is valid; a frozen node has a
\* valid responseTime and NULL links.
OsSchedTimeoutQueueDelete(t) ==
    /\ node' = [node EXCEPT ![t] = IF @ = "stuck" THEN @ ELSE "out"]
    /\ fault' = (fault \/ node[t] = "saved")

-----------------------------------------------------------------------------
\* The running task inserts itself at position pos of list l and switches away;
\* SchedTaskSwitch links a timed wait in a timeout queue.
HPFWait(t, l, pos, timed) ==
    /\ Running(t)
    /\ taskStatus' = [taskStatus EXCEPT ![t] =
                        (@ \ {"READY"}) \cup {"PENDING"}
                            \cup (IF timed THEN {"PEND_TIME"} ELSE {})]
    /\ pendList' = [pendList EXCEPT ![l] = InsertAt(@, pos, t)]
    /\ waitOn' = [waitOn EXCEPT ![t] = l]
    /\ woken' = [woken EXCEPT ![t] = FALSE]
    /\ IF timed THEN OsSchedTimeoutQueueAdd(t, "linked") ELSE UNCHANGED <<node, fault>>
    /\ UNCHANGED scan

\* What HPFWait returns to its caller when t comes back from OsSchedResched.
WaitResult(t) == IF Has(t, "TIMEOUT") THEN "LOS_ERRNO_TSK_TIMEOUT" ELSE "LOS_OK"

HPFWaitReturn(t) ==
    /\ Resumes(t)
    /\ taskStatus' = [taskStatus EXCEPT ![t] = @ \ {"TIMEOUT"}]
    /\ waitOn' = [waitOn EXCEPT ![t] = None]
    /\ woken' = [woken EXCEPT ![t] = FALSE]
    /\ UNCHANGED <<pendList, node, scan, fault>>

HPFWake(t) ==
    /\ pendList' = Unlinked(t)
    /\ taskStatus' = [taskStatus EXCEPT ![t] =
                        IF "SUSPENDED" \in @ THEN @ \ {"PENDING", "PEND_TIME"}
                                             ELSE Enqueued(@)]
    /\ woken' = [woken EXCEPT ![t] = TRUE]
    /\ IF Has(t, "PEND_TIME") THEN OsSchedTimeoutQueueDelete(t)
                              ELSE UNCHANGED <<node, fault>>
    /\ UNCHANGED <<waitOn, scan>>

HPFDelay(t) ==
    /\ Running(t)
    /\ taskStatus' = [taskStatus EXCEPT ![t] = (@ \ {"READY"}) \cup {"DELAY"}]
    /\ OsSchedTimeoutQueueAdd(t, "linked")
    /\ UNCHANGED <<pendList, waitOn, scan, woken>>

-----------------------------------------------------------------------------
\* Mutant: a suspended task is made ready too.
ExpiredReady(s) ==
    Enqueued(s \cup (IF "PEND_TIME" \in s THEN {"TIMEOUT"} ELSE {}))

\* Mutant: the timeout is not recorded.
ExpiredSilent(s) ==
    LET e == s \ {"PENDING", "PEND_TIME", "DELAY"}
    IN  IF "SUSPENDED" \in s THEN e ELSE Enqueued(e)

\* Flags of a task whose timed wait or delay has run out.
Expired(s) ==
    LET e == (s \ {"PENDING", "PEND_TIME", "DELAY"})
                \cup (IF "PEND_TIME" \in s THEN {"TIMEOUT"} ELSE {})
    IN  IF "SUSPENDED" \in s THEN e ELSE Enqueued(e)

\* Mutant: the expiry of a task that has been suspended meanwhile is dropped.
TimeoutTaskWakeUnlessSuspended(t) ==
    LET ends == Timed(t) /\ ~Has(t, "SUSPENDED") IN
    /\ taskStatus' = IF ends THEN [taskStatus EXCEPT ![t] = Expired(@)] ELSE taskStatus
    /\ pendList' = IF ends /\ Has(t, "PEND_TIME") THEN Unlinked(t) ELSE pendList

\* SchedTimeoutTaskWake, on task t.
TimeoutTaskWake(t) ==
    /\ taskStatus' = IF Timed(t) THEN [taskStatus EXCEPT ![t] = Expired(@)]
                                 ELSE taskStatus
    /\ pendList' = IF Has(t, "PEND_TIME") THEN Unlinked(t) ELSE pendList

Smp == \E c, d \in Cpu : c # d

\* One iteration of SchedTimeoutQueueScan, in which no other core steps in: on one
\* core the interrupt handler cannot be interleaved with a task.
TimeoutScan(t) ==
    /\ (\E c \in Cpu : scan[c] = None) /\ ~fault
    /\ node[t] = "linked"
    /\ node' = [node EXCEPT ![t] = "out"]
    /\ TimeoutTaskWake(t)
    /\ UNCHANGED <<waitOn, scan, woken, fault>>

\* With several cores another may step in where the queue's spinlock is dropped:
\* the node is unlinked, and SchedTimeoutTaskWake then competes for g_taskSpin.
TimeoutScanPop(c, t) ==
    /\ Smp /\ ~fault
    /\ scan[c] = None
    /\ node[t] = "linked"
    /\ node' = [node EXCEPT ![t] = "out"]
    /\ scan' = [scan EXCEPT ![c] = t]
    /\ UNCHANGED <<taskStatus, pendList, waitOn, woken, fault>>

TimeoutScanWake(c) ==
    /\ scan[c] # None /\ ~fault
    /\ TimeoutTaskWake(scan[c])
    /\ scan' = [scan EXCEPT ![c] = None]
    /\ UNCHANGED <<waitOn, node, woken, fault>>

-----------------------------------------------------------------------------
\* Mutant: frozen whatever the power mode.
FreezesAlways(t) == Timed(t)

Freezes(t) == FreezeOnSuspend /\ Timed(t)

\* OsTaskSuspend, then HPFSuspend with SchedTaskFreeze.
TaskSuspend(t) ==
    /\ ~Has(t, "UNUSED") /\ ~Has(t, "SUSPENDED") /\ ~fault
    /\ taskStatus' = [taskStatus EXCEPT ![t] =
                        (@ \ {"READY"}) \cup {"SUSPENDED"}
                            \cup (IF Freezes(t) THEN {"FROZEN"} ELSE {})]
    /\ node' = [node EXCEPT ![t] =
                        IF Freezes(t) /\ @ = "linked" THEN "saved" ELSE @]
    /\ UNCHANGED <<pendList, waitOn, scan, woken, fault>>

\* Flags once SUSPENDED is cleared: HPFResume queues a task that is not blocked.
Resumed(s) ==
    LET r == s \ {"SUSPENDED", "FROZEN"}
    IN  IF r \cap {"PENDING", "DELAY"} = {} THEN Enqueued(r) ELSE r

\* LOS_TaskResume, then HPFResume; SchedTaskUnfreeze links a frozen node again
\* unless its time has passed.  A node another core's scan had unlinked when it
\* was frozen has no responseTime to go back to.
TaskResume(t) ==
    /\ Has(t, "SUSPENDED") /\ ~Has(t, "UNUSED") /\ ~fault
    /\ taskStatus' = [taskStatus EXCEPT ![t] = Resumed(@)]
    /\ IF Has(t, "FROZEN")
       THEN OsSchedTimeoutQueueAdd(t, IF node[t] = "saved" THEN "linked" ELSE "stuck")
       ELSE UNCHANGED <<node, fault>>
    /\ UNCHANGED <<pendList, waitOn, scan, woken>>

\* The other branch of SchedTaskUnfreeze: the time has passed, so the task
\* leaves its pend list and is no longer blocked.
TaskResumeExpired(t) ==
    /\ Has(t, "SUSPENDED") /\ Has(t, "FROZEN") /\ ~Has(t, "UNUSED") /\ ~fault
    /\ node[t] = "saved"
    /\ node' = [node EXCEPT ![t] = "out"]
    /\ pendList' = UnlinkedIfPending(t)
    /\ taskStatus' = [taskStatus EXCEPT ![t] =
                        Enqueued(@ \ {"SUSPENDED", "FROZEN"})]
    /\ UNCHANGED <<waitOn, scan, woken, fault>>

\* HPFExit and OsTaskStatusUnusedSet: the task is deleted, in whatever state.
TaskExit(t) ==
    /\ ~Has(t, "UNUSED") /\ ~fault
    /\ taskStatus' = [taskStatus EXCEPT ![t] = {"UNUSED"}]
    /\ pendList' = UnlinkedIfPending(t)
    /\ waitOn' = [waitOn EXCEPT ![t] = None]
    /\ woken' = [woken EXCEPT ![t] = FALSE]
    /\ IF Timed(t) THEN OsSchedTimeoutQueueDelete(t) ELSE UNCHANGED <<node, fault>>
    /\ UNCHANGED scan

\* OsTaskCBRecycleToFree clears the TCB, LOS_TaskCreate takes it for a new task.
TaskCreate(t) ==
    /\ Has(t, "UNUSED") /\ ~fault
    /\ taskStatus' = [taskStatus EXCEPT ![t] = {"READY"}]
    /\ node' = [node EXCEPT ![t] = "out"]
    /\ fault' = (node[t] \in {"linked", "stuck"})
    /\ UNCHANGED <<pendList, waitOn, scan, woken>>

-----------------------------------------------------------------------------
\* Steps of the tick interrupt and of other tasks, at any moment.
SchedNext ==
    \/ \E t \in Task : \/ TimeoutScan(t)
                       \/ TaskSuspend(t)
                       \/ TaskResume(t)
                       \/ TaskResumeExpired(t)
    \/ \E c \in Cpu : \/ \E t \in Task : TimeoutScanPop(c, t)
                      \/ TimeoutScanWake(c)

\* What the layer allows its callers: to wait anywhere in a list, to wake any
\* task that is on one, to return from a wait, to create and delete tasks.
WaitNext ==
    \/ SchedNext
    \/ \E t \in Task :
        \/ \E l \in WaitList, timed \in BOOLEAN :
              \E pos \in 1..(Len(pendList[l]) + 1) : HPFWait(t, l, pos, timed)
        \/ HPFWaitReturn(t)
        \/ HPFDelay(t)
        \/ Has(t, "PENDING") /\ ~fault /\ HPFWake(t)
        \/ TaskExit(t)
        \/ TaskCreate(t)

WaitSpec == WaitInit /\ [][WaitNext]_waitVars

-----------------------------------------------------------------------------
(***************************************************************************)
(* A task is PENDING exactly while it is on the pend list it waits on, on  *)
(* no other, and once: HPFWait, HPFWake, the timeout scan, a resume and a  *)
(* deletion keep the flags and the lists in step.                          *)
(***************************************************************************)
PendListConsistent ==
    /\ \A t \in Task, l \in WaitList :
          Contains(pendList[l], t) <=> (Has(t, "PENDING") /\ waitOn[t] = l)
    /\ \A t \in Task : Has(t, "PENDING") => waitOn[t] # None
    /\ \A l \in WaitList : IsInjective(pendList[l])

(***************************************************************************)
(* The flags of a task never say that it can run and that it cannot: it is *)
(* READY exactly when it is neither pending nor delayed, suspended or      *)
(* unused, so no wake, expiry or resume leaves a task in limbo.  This is   *)
(* about flags; of the timeout node see TimeoutQueueExact and, on several  *)
(* cores, TimeoutNotLost and DelayLasts.                                   *)
(***************************************************************************)
ReadyOrBlocked ==
    \A t \in Task :
        Has(t, "READY") <=>
            taskStatus[t] \cap {"PENDING", "DELAY", "SUSPENDED", "UNUSED"} = {}

(***************************************************************************)
(* HPFWait answers LOS_OK exactly to the tasks HPFWake chose: every object *)
(* hands over its token, slot or lock with HPFWake, and its caller trusts  *)
(* the LOS_OK.  Stated of the moment the task has left the list.           *)
(***************************************************************************)
OkMeansWoken ==
    \A t \in Task :
        (waitOn[t] # None /\ ~Has(t, "PENDING")) =>
            (WaitResult(t) = "LOS_OK" <=> woken[t])

(***************************************************************************)
(* The sortList node of a task is in a timeout queue exactly while the     *)
(* task is in a timed wait or a delay, and no list operation ever meets a  *)
(* node that is not linked as it expects.                                  *)
(***************************************************************************)
TimeoutQueueExact ==
    /\ ~fault
    /\ \A t \in Task : node[t] = "linked" <=> Timed(t)

(***************************************************************************)
(* No timeout is lost, on several cores and with freezing too: a task in a *)
(* timed wait or a delay is in a timeout queue, or frozen with its time    *)
(* saved, or some core has unlinked it and is about to wake it.  The scan  *)
(* drops its lock in between, and the task may have been woken, suspended, *)
(* deleted or have begun another wait when it goes on.                     *)
(***************************************************************************)
TimeoutNotLost ==
    \A t \in Task : Timed(t) =>
        \/ node[t] = "linked"
        \/ node[t] = "saved" /\ Has(t, "FROZEN")
        \/ \E c \in Cpu : scan[c] = t

(***************************************************************************)
(* A delayed task can run again only when the timeout queue has let go of  *)
(* it, that is, when its ticks have passed (LOS_TaskDelay).                *)
(***************************************************************************)
DelayLasts ==
    [][\A t \in Task : (Has(t, "DELAY") /\ Has(t, "READY")') =>
          node'[t] # "linked"]_waitVars
=============================================================================
