-------------------------------- MODULE Mux --------------------------------
(***************************************************************************)
(* Mutexes, los_mux.c, with the priority inheritance and restoration of    *)
(* los_priority.c, on the blocking layer of TaskWait.  The muxList of a    *)
(* mutex is the wait list of the same name.                                *)
(*                                                                         *)
(* All tasks belong to one process, so OsSchedParamCompare compares their  *)
(* priorities; a smaller number is a higher priority.  Calls that return   *)
(* an error without waiting change nothing and are not steps.  Suspension  *)
(* does not freeze (LOSCFG_KERNEL_PM outside power-management mode), so    *)
(* SchedTaskUnfreeze never meets a wait whose time has passed.             *)
(***************************************************************************)
EXTENDS TaskWait, SchedParam

CONSTANTS
    BasePrio,       \* BasePrio[t]: priority the task is created with
    MuxType,        \* MuxType[m]: "NORMAL", "RECURSIVE" or "ERRORCHECK"
    Protocol,       \* Protocol[m]: "NONE", "INHERIT" or "PROTECT"
    Ceiling,        \* Ceiling[m]: attr.prioceiling
    Prio,           \* the priorities there are
    SetPrio,        \* priorities LOS_TaskPriSet is called with
    LockTimed,      \* the kinds of LOS_MuxLock callers use: {FALSE}, waiting for
                    \* ever only, or BOOLEAN, with finite timeouts too
    Managed,        \* bound: the tasks suspended, resumed, deleted or given a priority
    LockDepth,      \* bound: how often a task locks a mutex without unlocking it
    MuxCountMax     \* 0xFFFF, where the count of a recursive mutex stops

Mux == WaitList

ASSUME MuxConstants ==
    /\ Prio \subseteq Nat /\ SetPrio \subseteq Prio
    /\ BasePrio \in [Task -> Prio]
    /\ MuxType \in [Mux -> {"NORMAL", "RECURSIVE", "ERRORCHECK"}]
    /\ Protocol \in [Mux -> {"NONE", "INHERIT", "PROTECT"}]
    /\ Ceiling \in [Mux -> Prio]
    /\ LockTimed \subseteq BOOLEAN
    /\ Managed \subseteq Task
    /\ MuxCountMax \in Nat \ {0} /\ LockDepth \in Nat
    /\ ~FreezeOnSuspend

VARIABLES
    magic,       \* magic[m]: the mutex is initialised (OS_MUX_MAGIC)
    muxCount,
    owner,
    lockList,    \* lockList[t]: the mutexes t holds, in the order it got them
    taskMux,     \* taskMux[t]: the mutex t is pending on
    sp,          \* sp[t]: priority, and priBitmap, the priorities set aside
    deleting,    \* the task LOS_TaskDelete is tearing down under the scheduler lock
    panic,       \* the owner pointer of a mutex nobody owns has been followed
    holds        \* history: holds[t][m] lock calls of t answered LOS_OK, less unlocks

muxVars == <<magic, muxCount, owner, lockList, taskMux, sp, deleting, panic, holds>>
vars == <<waitVars, muxVars>>

TypeOK ==
    /\ WaitTypeOK
    /\ magic \in [Mux -> BOOLEAN]
    /\ muxCount \in [Mux -> 0..MuxCountMax]
    /\ owner \in [Mux -> Task \cup {None}]
    /\ lockList \in [Task -> Seq(Mux)]
    /\ taskMux \in [Task -> Mux \cup {None}]
    /\ sp \in [Task -> [priority : Prio, priBitmap : SUBSET Prio]]
    /\ deleting \in Task \cup {None}
    /\ panic \in BOOLEAN
    /\ holds \in [Task -> [Mux -> Nat]]

NewSp(t) == [priority |-> BasePrio[t], priBitmap |-> {}]
NoHolds == [m \in Mux |-> 0]

Init ==
    /\ WaitInit
    /\ magic = [m \in Mux |-> TRUE]
    /\ muxCount = [m \in Mux |-> 0]
    /\ owner = [m \in Mux |-> None]
    /\ lockList = [t \in Task |-> <<>>]
    /\ taskMux = [t \in Task |-> None]
    /\ sp = [t \in Task |-> NewSp(t)]
    /\ deleting = None
    /\ panic = FALSE
    /\ holds = [t \in Task |-> NoHolds]

-----------------------------------------------------------------------------
Counted(t, m, n) == holds' = [holds EXCEPT ![t][m] = @ + n]

\* ~magic[m] is asked of the callers, not by the code: LOS_MuxInit of a mutex in
\* use would forget its owner and its waiters.
LOS_MuxInit(m) ==
    /\ ~magic[m]
    /\ magic' = [magic EXCEPT ![m] = TRUE]
    /\ muxCount' = [muxCount EXCEPT ![m] = 0]
    /\ owner' = [owner EXCEPT ![m] = None]
    /\ pendList' = [pendList EXCEPT ![m] = <<>>]
    /\ UNCHANGED <<taskStatus, waitOn, node, scan, woken, fault>>
    /\ UNCHANGED <<lockList, taskMux, sp, deleting, panic, holds>>

LOS_MuxDestroy(m) ==
    /\ magic[m]
    /\ muxCount[m] = 0
    /\ magic' = [magic EXCEPT ![m] = FALSE]
    /\ UNCHANGED <<waitVars, muxCount, owner, lockList, taskMux, sp, deleting, panic, holds>>

\* LOS_MuxLock or LOS_MuxTrylock of a free mutex.
MuxLockFree(t, m) ==
    /\ Running(t) /\ magic[m]
    /\ muxCount[m] = 0
    /\ muxCount' = [muxCount EXCEPT ![m] = 1]
    /\ owner' = [owner EXCEPT ![m] = t]
    /\ lockList' = [lockList EXCEPT ![t] = Append(@, m)]
    /\ sp' = IF Protocol[m] = "PROTECT"
             THEN [sp EXCEPT ![t] = HPFPriorityInheritance(@, Ceiling[m])]
             ELSE sp
    /\ Counted(t, m, 1)
    /\ UNCHANGED <<waitVars, magic, taskMux, deleting, panic>>

\* LOS_MuxLock or LOS_MuxTrylock of a recursive mutex by its owner, which is
\* answered LOS_OK whether or not it could be counted.
MuxLockAgain(t, m) ==
    /\ Running(t) /\ magic[m]
    /\ muxCount[m] # 0 /\ owner[m] = t
    /\ MuxType[m] = "RECURSIVE"
    /\ holds[t][m] < LockDepth
    /\ muxCount' = [muxCount EXCEPT ![m] = IF @ < MuxCountMax THEN @ + 1 ELSE @]
    /\ Counted(t, m, 1)
    /\ UNCHANGED <<waitVars, magic, owner, lockList, taskMux, sp, deleting, panic>>

PendPos(t, m) ==
    OsSchedLockPendFindPos([i \in DOMAIN pendList[m] |-> sp[pendList[m][i]].priority],
                           sp[t].priority)

\* LOS_MuxLock of a mutex that is held, by another task or, of a normal mutex, by
\* the caller itself: OsMuxBitmapSet, then the wait.
MuxLockWait(t, m, timed) ==
    LET o == owner[m]
        p == sp[t].priority
    IN
    /\ Running(t) /\ magic[m]
    /\ muxCount[m] # 0
    /\ o = t => MuxType[m] = "NORMAL"
    /\ sp' = IF Protocol[m] = "INHERIT"
             THEN [sp EXCEPT ![o] = HPFPriorityInheritance(@, p)] ELSE sp
    /\ taskMux' = [taskMux EXCEPT ![t] = m]
    /\ HPFWait(t, m, PendPos(t, m), timed)
    /\ UNCHANGED <<magic, muxCount, owner, lockList, deleting, panic, holds>>

\* OsMuxPendOp after the wait: the mutex has been handed over.
MuxLockGranted(t) ==
    /\ Resumes(t)
    /\ WaitResult(t) = "LOS_OK"
    /\ Counted(t, waitOn[t], 1)
    /\ HPFWaitReturn(t)
    /\ UNCHANGED <<magic, muxCount, owner, lockList, taskMux, sp, deleting, panic>>

\* OsMuxPendOp after the wait: it timed out.  OsMuxBitmapRestore follows the owner
\* pointer, whatever it is by now.
MuxLockTimedOut(t) ==
    LET m == waitOn[t]
        restores == magic[m] /\ Protocol[m] = "INHERIT"
        o == owner[m]
    IN
    /\ HPFWaitReturn(t)
    /\ WaitResult(t) = "LOS_ERRNO_TSK_TIMEOUT"
    /\ sp' = IF restores /\ o # None
             THEN [sp EXCEPT ![o] = HPFPriorityRestore(@, {}, sp[t].priority)] ELSE sp
    /\ panic' = (restores /\ o = None)
    /\ taskMux' = [taskMux EXCEPT ![t] = None]
    /\ UNCHANGED <<magic, muxCount, owner, lockList, deleting, holds>>

-----------------------------------------------------------------------------
\* Mutant: a recursive mutex is never let go.
NeverLast(m) == MuxType[m] = "RECURSIVE"

StaysLocked(m) == muxCount[m] > 1 /\ MuxType[m] = "RECURSIVE"

\* Mutant: anybody may unlock.
OwnedByAny(m, t) == magic[m]

OwnedBy(m, t) == magic[m] /\ owner[m] = t

\* OsMuxUnlockUnsafe of a recursive mutex that stays locked.
MuxUnlockOnce(t, m) ==
    /\ OwnedBy(m, t)
    /\ StaysLocked(m)
    /\ muxCount' = [muxCount EXCEPT ![m] = @ - 1]
    /\ UNCHANGED <<waitVars, magic, owner, lockList, taskMux, sp>>

\* The owner's priority after the PRIO_PROTECT part of OsMuxUnlockUnsafe.
Unprotected(t, m) ==
    IF Protocol[m] = "PROTECT"
    THEN [sp EXCEPT ![t] = HPFPriorityRestore(@, {}, @.priority)] ELSE sp

\* OsMuxUnlockUnsafe and OsMuxPostOp with nobody waiting.
MuxUnlockFree(t, m) ==
    /\ OwnedBy(m, t)
    /\ muxCount[m] # 0 /\ ~StaysLocked(m) /\ pendList[m] = <<>>
    /\ muxCount' = [muxCount EXCEPT ![m] = 0]
    /\ owner' = [owner EXCEPT ![m] = None]
    /\ lockList' = [lockList EXCEPT ![t] = RemoveFirst(@, m)]
    /\ sp' = Unprotected(t, m)
    /\ UNCHANGED <<waitVars, magic, taskMux>>

\* Mutant: the task that unlocks is taken for the one that waits.
ResumedOwner(m) == owner[m]

ResumedTask(m) == Head(pendList[m])

\* OsMuxUnlockUnsafe and OsMuxPostOp: the first waiter becomes the owner.
MuxUnlockHandOver(t, m) ==
    LET u == ResumedTask(m)
        sp1 == Unprotected(t, m)
        pended == {sp1[v].priority : v \in ToSet(pendList[m])}
        left == [lockList EXCEPT ![t] = RemoveFirst(@, m)]
    IN
    /\ OwnedBy(m, t)
    /\ muxCount[m] # 0 /\ ~StaysLocked(m) /\ pendList[m] # <<>>
    /\ sp' = IF Protocol[m] = "INHERIT"
             THEN [sp1 EXCEPT ![t] = HPFPriorityRestore(@, pended, sp1[u].priority)]
             ELSE sp1
    /\ owner' = [owner EXCEPT ![m] = u]
    /\ lockList' = [left EXCEPT ![u] = Append(@, m)]
    /\ taskMux' = [taskMux EXCEPT ![u] = None]
    /\ muxCount' = [muxCount EXCEPT ![m] = 1]
    /\ HPFWake(u)
    /\ UNCHANGED magic

OsMuxUnlockUnsafe(t, m) ==
    MuxUnlockOnce(t, m) \/ MuxUnlockFree(t, m) \/ MuxUnlockHandOver(t, m)

LOS_MuxUnlock(t, m) ==
    /\ Running(t)
    /\ OsMuxUnlockUnsafe(t, m)
    /\ Counted(t, m, -1)
    /\ UNCHANGED <<deleting, panic>>

-----------------------------------------------------------------------------
\* LOS_TaskDelete runs under the scheduler lock from here to TaskDeleteExit: while
\* deleting is set nothing else happens.
LOS_TaskDelete(t) ==
    /\ ~Has(t, "UNUSED")
    /\ deleting' = t
    /\ UNCHANGED <<waitVars, magic, muxCount, owner, lockList, taskMux, sp, panic, holds>>

\* One turn of the loop of OsTaskReleaseHoldLock.
OsTaskReleaseHoldLock(t) ==
    /\ lockList[t] # <<>>
    /\ OsMuxUnlockUnsafe(t, Head(lockList[t]))
    /\ holds' = [holds EXCEPT ![t] = NoHolds]
    /\ UNCHANGED <<deleting, panic>>

\* Mutant: the loop is not there.
LocksKept(t) == TRUE

LocksReleased(t) == lockList[t] = <<>>

\* The rest of OsInactiveTaskDelete: a task pending on a mutex takes back what its
\* wait did to the owner's priority.
TaskDeleteExit(t) ==
    LET m == taskMux[t]
        restores == Has(t, "PENDING") /\ m # None /\ Protocol[m] = "INHERIT"
    IN
    /\ LocksReleased(t)
    /\ TaskExit(t)
    /\ sp' = IF restores
             THEN [sp EXCEPT ![owner[m]] =
                       HPFPriorityRestore(@, {}, sp[t].priority)]
             ELSE sp
    /\ taskMux' = [taskMux EXCEPT ![t] = None]
    /\ deleting' = None
    /\ UNCHANGED <<magic, muxCount, owner, lockList, panic, holds>>

MuxTaskCreate(t) ==
    /\ TaskCreate(t)
    /\ sp' = [sp EXCEPT ![t] = NewSp(t)]
    /\ UNCHANGED <<magic, muxCount, owner, lockList, taskMux, deleting, panic, holds>>

\* LOS_TaskPriSet, HPFSchedParamModify: the priority is overwritten.
LOS_TaskPriSet(t, p) ==
    /\ ~Has(t, "UNUSED")
    /\ sp' = [sp EXCEPT ![t].priority = p]
    /\ UNCHANGED <<waitVars, magic, muxCount, owner, lockList, taskMux, deleting, panic, holds>>

\* SchedTimeoutTaskWake clears taskMux with PEND_TIME.
MuxTimeoutScan(t) ==
    /\ TimeoutScan(t)
    /\ taskMux' = IF Has(t, "PEND_TIME") THEN [taskMux EXCEPT ![t] = None] ELSE taskMux
    /\ UNCHANGED <<magic, muxCount, owner, lockList, sp, deleting, panic, holds>>

MuxSuspendResume(t) ==
    /\ TaskSuspend(t) \/ TaskResume(t)
    /\ UNCHANGED muxVars

MuxStep(t) ==
    \/ \E m \in Mux :
        \/ MuxLockFree(t, m)
        \/ MuxLockAgain(t, m)
        \/ \E timed \in LockTimed : MuxLockWait(t, m, timed)
        \/ LOS_MuxUnlock(t, m)
    \/ MuxLockGranted(t)
    \/ MuxLockTimedOut(t)

Next ==
    /\ ~fault /\ ~panic
    /\ \/ /\ deleting = None
          /\ \/ \E t \in Task : \/ MuxStep(t)
                                \/ MuxTimeoutScan(t)
                                \/ MuxTaskCreate(t)
             \/ \E t \in Managed : \/ MuxSuspendResume(t)
                                   \/ LOS_TaskDelete(t)
                                   \/ \E p \in SetPrio : LOS_TaskPriSet(t, p)
             \/ \E m \in Mux : LOS_MuxInit(m) \/ LOS_MuxDestroy(m)
       \/ /\ deleting # None
          /\ OsTaskReleaseHoldLock(deleting) \/ TaskDeleteExit(deleting)

Spec == Init /\ [][Next]_vars

-----------------------------------------------------------------------------
(***************************************************************************)
(* Mutual exclusion, as the callers see it: a task whose lock calls have   *)
(* been answered LOS_OK more often than it has unlocked is the owner, so   *)
(* there is at most one, and a recursive mutex is released only by as many *)
(* unlocks.  The hand-over to a waiter that has not run yet, its timeout,  *)
(* and the deletion of a holder come in between.                           *)
(***************************************************************************)
MutualExclusion ==
    \A m \in Mux, t \in Task : holds[t][m] > 0 => owner[m] = t

(***************************************************************************)
(* The records of who holds a mutex agree: owner, muxCount, the holder's   *)
(* lockList and the lock calls it has not undone; nobody waits for a mutex *)
(* that is free or destroyed; and the owner is never a deleted task.       *)
(***************************************************************************)
OwnerConsistent ==
    \A m \in Mux :
        /\ owner[m] = None <=> muxCount[m] = 0
        /\ pendList[m] # <<>> => owner[m] # None /\ magic[m]
        /\ \A t \in Task :
              /\ Contains(lockList[t], m) <=> owner[m] = t
              /\ (deleting = None /\ owner[m] = t /\ waitOn[t] # m) =>
                     muxCount[m] = holds[t][m]
        /\ owner[m] # None => ~Has(owner[m], "UNUSED")

(***************************************************************************)
(* Every step of the mutex calls is a step the blocking layer allows.      *)
(***************************************************************************)
ImplementsTaskWait == WaitSpec

(***************************************************************************)
(* No call follows the owner pointer of a mutex nobody owns.               *)
(***************************************************************************)
NoNullOwner == ~panic

(***************************************************************************)
(* No priority inversion: the owner of an inheriting mutex runs at least   *)
(* at the priority of every task that waits for it.                        *)
(***************************************************************************)
InheritanceKept ==
    \A m \in Mux : Protocol[m] = "INHERIT" =>
        \A t \in ToSet(pendList[m]) : sp[owner[m]].priority <= sp[t].priority

(***************************************************************************)
(* A task that holds no mutex is back at the priority it was created with, *)
(* and has no priority set aside.                                          *)
(***************************************************************************)
PriorityRestored ==
    \A t \in Task : lockList[t] = <<>> => sp[t] = NewSp(t)

(***************************************************************************)
(* The waiters are in order of priority, so that an unlock, which takes    *)
(* the first, always takes one of the highest.                             *)
(***************************************************************************)
WaitersByPriority ==
    \A m \in Mux : \A i, j \in 1..Len(pendList[m]) :
        i < j => sp[pendList[m][i]].priority <= sp[pendList[m][j]].priority
=============================================================================
