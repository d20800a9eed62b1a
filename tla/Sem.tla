-------------------------------- MODULE Sem --------------------------------
(***************************************************************************)
(* Counting and binary semaphores, los_sem.c, on the blocking layer of     *)
(* TaskWait.  A semaphore control block is its index; the pend list of the *)
(* block is the wait list of the same name.  A handle is the block's index *)
(* and a generation, as in semID.                                          *)
(*                                                                         *)
(* Calls that return an error change nothing and are not steps.            *)
(***************************************************************************)
EXTENDS TaskWait, Integers, FiniteSets

CONSTANTS
    SemCountMax,     \* OS_SEM_COUNT_MAX
    SemGen           \* generations a semID can hold, 2^16 in the code

ASSUME SemConstants ==
    /\ SemCountMax \in Nat \ {0}
    /\ SemGen \in Nat \ {0}
    /\ IsFiniteSet(WaitList) /\ IsFiniteSet(Task)

Sem == WaitList

VARIABLES
    semStat,         \* "USED" or "UNUSED"
    semID,           \* the generation half of semID
    semCount,
    maxSemCount,
    unusedSemList,   \* g_unusedSemList
    creating,        \* creating[t]: the block t has taken off the free list
    stale,           \* history: the semaphore t pends on has been deleted since
    credit           \* history: permits created or posted, less those handed to a
                     \* caller with LOS_OK or to a task deleted before it returned

semVars == <<semStat, semID, semCount, maxSemCount, unusedSemList, creating,
             stale, credit>>
vars == <<waitVars, semVars>>

Handle == Sem \X (0..(SemGen - 1))

SemTypeOK ==
    /\ semStat \in [Sem -> {"USED", "UNUSED"}]
    /\ semID \in [Sem -> 0..(SemGen - 1)]
    /\ semCount \in [Sem -> 0..SemCountMax]
    /\ maxSemCount \in [Sem -> 0..SemCountMax]
    /\ unusedSemList \in Seq(Sem)
    /\ creating \in [Task -> Sem \cup {None}]
    /\ stale \in [Task -> BOOLEAN]
    /\ credit \in [Sem -> Int]

TypeOK == WaitTypeOK /\ SemTypeOK

OsSemInit ==
    /\ semStat = [s \in Sem |-> "UNUSED"]
    /\ semID = [s \in Sem |-> 0]
    /\ semCount = [s \in Sem |-> 0]
    /\ maxSemCount = [s \in Sem |-> 0]
    /\ unusedSemList = SetToSeq(Sem)
    /\ creating = [t \in Task |-> None]
    /\ stale = [t \in Task |-> FALSE]
    /\ credit = [s \in Sem |-> 0]

Init == WaitInit /\ OsSemInit

\* The task may enter a semaphore call: it is not inside one.
Idle(t) == Running(t) /\ creating[t] = None

Valid(h) == semStat[h[1]] = "USED" /\ semID[h[1]] = h[2]

-----------------------------------------------------------------------------
\* Mutant: somebody waiting is not noticed.
NobodyWaits(s) == FALSE

Waiting(s) == pendList[s] # <<>>

\* Mutant: the block is not unlinked from the free list.
FreeListUnchanged == unusedSemList

FreeListRest == Tail(unusedSemList)

\* OsSemCreate drops the scheduler lock between taking a block off the free
\* list and filling it in, so it is two steps.
OsSemCreateTake(t) ==
    /\ Idle(t)
    /\ unusedSemList # <<>>
    /\ creating' = [creating EXCEPT ![t] = Head(unusedSemList)]
    /\ unusedSemList' = FreeListRest
    /\ UNCHANGED <<waitVars, semStat, semID, semCount, maxSemCount, stale, credit>>

\* max is OS_SEM_COUNT_MAX (LOS_SemCreate) or 1 (LOS_BinarySemCreate).  The stores
\* are not under a lock, and semStat is set before maxSemCount and the list, but
\* nobody is given a valid handle of the block before the last of them: to callers
\* that use the handles they were given the stores are one step.
OsSemCreateFill(t, count, max) ==
    LET s == creating[t] IN
    /\ Running(t) /\ s # None
    /\ count <= max
    /\ semCount' = [semCount EXCEPT ![s] = count]
    /\ semStat' = [semStat EXCEPT ![s] = "USED"]
    /\ maxSemCount' = [maxSemCount EXCEPT ![s] = max]
    /\ creating' = [creating EXCEPT ![t] = None]
    /\ credit' = [credit EXCEPT ![s] = count]
    /\ UNCHANGED <<waitVars, semID, unusedSemList, stale>>

LOS_SemDelete(h) ==
    LET s == h[1] IN
    /\ ~fault
    /\ Valid(h)
    /\ ~Waiting(s)
    /\ unusedSemList' = Append(unusedSemList, s)
    /\ semStat' = [semStat EXCEPT ![s] = "UNUSED"]
    /\ semID' = [semID EXCEPT ![s] = (@ + 1) % SemGen]
    /\ stale' = [t \in Task |-> stale[t] \/ waitOn[t] = s]
    /\ UNCHANGED <<waitVars, semCount, maxSemCount, creating, credit>>

-----------------------------------------------------------------------------
\* LOS_SemPend with a permit at hand.
SemPendNow(t, h) ==
    LET s == h[1] IN
    /\ Idle(t)
    /\ Valid(h)
    /\ semCount[s] > 0
    /\ semCount' = [semCount EXCEPT ![s] = @ - 1]
    /\ credit' = [credit EXCEPT ![s] = @ - 1]
    /\ UNCHANGED <<waitVars, semStat, semID, maxSemCount, unusedSemList, creating,
                   stale>>

\* LOS_SemPend with none: the task goes to the tail of the list.
SemPendWait(t, h, timed) ==
    LET s == h[1] IN
    /\ Idle(t)
    /\ Valid(h)
    /\ semCount[s] = 0
    /\ HPFWait(t, s, Len(pendList[s]) + 1, timed)
    /\ UNCHANGED semVars

\* The permit of a caller that leaves LOS_SemPend for good has been handed over.
Handed(t, taken) ==
    credit' = IF taken /\ ~stale[t] THEN [credit EXCEPT ![waitOn[t]] = @ - 1]
                                    ELSE credit

\* The end of LOS_SemPend: LOS_OK, or LOS_ERRNO_SEM_TIMEOUT.
SemPendReturn(t) ==
    /\ HPFWaitReturn(t)
    /\ Handed(t, WaitResult(t) = "LOS_OK")
    /\ stale' = [stale EXCEPT ![t] = FALSE]
    /\ UNCHANGED <<semStat, semID, semCount, maxSemCount, unusedSemList, creating>>

\* Mutant: the maximum is not checked.
NeverAtMax(s) == FALSE

AtMax(s) == semCount[s] = maxSemCount[s]

\* Mutant: a permit handed to a waiter is counted as well.
PostedAlways(s) == semCount[s] + 1

Posted(s) == IF Waiting(s) THEN semCount[s] ELSE semCount[s] + 1

\* LOS_SemPost, from a task or an interrupt.
OsSemPostUnsafe(h) ==
    LET s == h[1] IN
    /\ ~fault
    /\ Valid(h)
    /\ ~AtMax(s)
    /\ semCount' = [semCount EXCEPT ![s] = Posted(s)]
    /\ IF Waiting(s) THEN HPFWake(Head(pendList[s])) ELSE UNCHANGED waitVars
    /\ credit' = [credit EXCEPT ![s] = @ + 1]
    /\ UNCHANGED <<semStat, semID, maxSemCount, unusedSemList, creating, stale>>

\* LOS_TaskDelay, by a task in no semaphore call.
TaskDelay(t) ==
    /\ Idle(t)
    /\ HPFDelay(t)
    /\ UNCHANGED semVars

\* Mutant: only the status of the task is set.
TaskDeleteStatusOnly(t) ==
    /\ ~Has(t, "UNUSED") /\ ~fault
    /\ taskStatus' = [taskStatus EXCEPT ![t] = {"UNUSED"}]
    /\ UNCHANGED <<pendList, waitOn, node, scan, woken, fault, semVars>>

\* LOS_TaskDelete: a block being created, or a permit on its way, is lost.
TaskDelete(t) ==
    /\ TaskExit(t)
    /\ Handed(t, waitOn[t] # None /\ woken[t])
    /\ creating' = [creating EXCEPT ![t] = None]
    /\ stale' = [stale EXCEPT ![t] = FALSE]
    /\ UNCHANGED <<semStat, semID, semCount, maxSemCount, unusedSemList>>

Next ==
    \/ SchedNext /\ UNCHANGED semVars
    \/ \E t \in Task :
        \/ OsSemCreateTake(t)
        \/ \E max \in {1, SemCountMax} : \E count \in 0..max :
              OsSemCreateFill(t, count, max)
        \/ \E h \in Handle : SemPendNow(t, h)
        \/ \E h \in Handle, timed \in BOOLEAN : SemPendWait(t, h, timed)
        \/ SemPendReturn(t)
        \/ TaskDelay(t)
        \/ TaskDelete(t)
        \/ TaskCreate(t) /\ UNCHANGED semVars
    \/ \E h \in Handle : LOS_SemDelete(h) \/ OsSemPostUnsafe(h)

Spec == Init /\ [][Next]_vars

\* The tick interrupt keeps coming, and a finite timeout runs out.
FairSpec ==
    Spec /\ \A t \in Task : WF_vars(TimeoutScan(t) /\ UNCHANGED semVars)

-----------------------------------------------------------------------------
(***************************************************************************)
(* No wakeup is lost: while a semaphore has a permit nobody waits on it    *)
(* (OsSemPostUnsafe either wakes the first waiter or adds to semCount).    *)
(***************************************************************************)
NoLostWakeup ==
    \A s \in Sem : semCount[s] > 0 => pendList[s] = <<>>

(***************************************************************************)
(* A waiter waits on the semaphore it named: the block under its pend list *)
(* is in use and has not been deleted, or deleted and created again, since *)
(* the waiter's handle was found valid.                                    *)
(***************************************************************************)
WaitersKeepTheirSem ==
    \A s \in Sem : \A i \in 1..Len(pendList[s]) :
        semStat[s] = "USED" /\ ~stale[pendList[s][i]]

InFlight(s) ==
    {t \in Task : waitOn[t] = s /\ woken[t] /\ ~stale[t]}

(***************************************************************************)
(* Permits are conserved: those in the count and those on their way to a   *)
(* task that has been woken and has not run yet are all there are.  Posts, *)
(* timeouts, suspensions and deletions in between neither create a permit  *)
(* nor lose one, except with the task it was handed to.                    *)
(***************************************************************************)
PermitsConserved ==
    \A s \in Sem : semStat[s] = "USED" =>
        semCount[s] + Cardinality(InFlight(s)) = credit[s]

(***************************************************************************)
(* A block is in one place only: in use, on the free list, or taken by one *)
(* OsSemCreate that has not filled it in yet, although that function fills *)
(* it in after releasing the scheduler lock.                               *)
(***************************************************************************)
BlockOwnedOnce ==
    /\ \A s \in Sem : semStat[s] = "USED" => ~Contains(unusedSemList, s)
    /\ IsInjective(unusedSemList)
    /\ \A t \in Task : creating[t] # None =>
          /\ semStat[creating[t]] = "UNUSED" /\ ~Contains(unusedSemList, creating[t])
          /\ \A u \in Task : creating[u] = creating[t] => u = t

(***************************************************************************)
(* Every step of the semaphore calls is a step the blocking layer allows.  *)
(***************************************************************************)
ImplementsTaskWait == WaitSpec

(***************************************************************************)
(* A pend with a finite timeout does not stay on the list for ever, even   *)
(* if nobody posts and the task is suspended meanwhile.  This is about a   *)
(* suspension that does not freeze (LOSCFG_KERNEL_PM, the default, outside *)
(* power-management mode): a frozen pend of a task nobody resumes stays.   *)
(***************************************************************************)
TimedPendEnds ==
    \A t \in Task : Has(t, "PEND_TIME") ~> ~Has(t, "PENDING")
=============================================================================
