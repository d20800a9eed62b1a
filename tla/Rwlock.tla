------------------------------- MODULE Rwlock -------------------------------
(***************************************************************************)
(* Read-write locks, los_rwlock.c, on the blocking layer of TaskWait.  The *)
(* readList and writeList of a lock are wait lists.                        *)
(*                                                                         *)
(* Calls that return an error change nothing and are not steps, with one   *)
(* exception: an unlock that cannot let in all readers it would, because   *)
(* rwCount is at INT8_MAX, hands the lock over to the others and answers   *)
(* EINVAL.  It is modelled like any unlock; the caller has released.       *)
(*                                                                         *)
(* The code does not record who reads: any task can release a read lock.   *)
(* Callers here release only what they hold.  Priorities are fixed:        *)
(* LOS_TaskPriSet, and inheritance by a mutex, would leave a queued task   *)
(* where it is.  Suspension does not freeze (LOSCFG_KERNEL_PM outside      *)
(* power-management mode).                                                 *)
(***************************************************************************)
EXTENDS TaskWait, SchedParam, Integers, FiniteSetsExt

CONSTANTS
    Rwlock,
    Priority,     \* Priority[t]: the priority of the task, which does not change
    CountMax,     \* INT8_MAX
    CountMin,     \* INT8_MIN
    Managed,      \* bound: the tasks suspended, resumed or deleted
    RdTimed,      \* the kinds of wait readers use: with a finite timeout or not
    WrTimed       \* the same of writers

READ == "READ"
WRITE == "WRITE"

ASSUME RwlockConstants ==
    /\ WaitList = Rwlock \X {READ, WRITE}
    /\ Priority \in [Task -> Nat]
    /\ CountMax \in Nat \ {0} /\ -CountMin \in Nat \ {0}
    /\ Managed \subseteq Task
    /\ RdTimed \subseteq BOOLEAN /\ WrTimed \subseteq BOOLEAN
    /\ ~FreezeOnSuspend

VARIABLES
    magic,        \* magic[l]: the lock is initialised (OS_RWLOCK_MAGIC)
    rwCount,      \* times locked for reading, or minus the times locked for writing
    writeOwner,
    posting,      \* the lock and the mode OsRwlockPostOp is working on, under the
                  \* scheduler lock: while it is set nothing else happens
    holds,        \* history: holds[t][l][READ or WRITE], locks answered LOS_OK and
                  \* not released
    lost          \* history: lost[l], locks held by, or given to, tasks then deleted

rwVars == <<magic, rwCount, writeOwner, posting, holds, lost>>
vars == <<waitVars, rwVars>>

Nothing == <<None, None>>
NoHolds == [l \in Rwlock |-> [k \in {READ, WRITE} |-> 0]]

TypeOK ==
    /\ WaitTypeOK
    /\ magic \in [Rwlock -> BOOLEAN]
    /\ rwCount \in [Rwlock -> CountMin..CountMax]
    /\ writeOwner \in [Rwlock -> Task \cup {None}]
    /\ posting \in (Rwlock \X {READ, "READFIRST"}) \cup {Nothing}
    /\ holds \in [Task -> [Rwlock -> [{READ, WRITE} -> Nat]]]
    /\ lost \in [Rwlock -> Nat]

Init ==
    /\ WaitInit
    /\ magic = [l \in Rwlock |-> TRUE]
    /\ rwCount = [l \in Rwlock |-> 0]
    /\ writeOwner = [l \in Rwlock |-> None]
    /\ posting = Nothing
    /\ holds = [t \in Task |-> NoHolds]
    /\ lost = [l \in Rwlock |-> 0]

Readers(l) == pendList[<<l, READ>>]
Writers(l) == pendList[<<l, WRITE>>]

Granted(t, l, k) == holds' = [holds EXCEPT ![t][l][k] = @ + 1]

PendPos(t, list) ==
    OsSchedLockPendFindPos([i \in DOMAIN pendList[list] |-> Priority[pendList[list][i]]],
                           Priority[t])

-----------------------------------------------------------------------------
LOS_RwlockInit(l) ==
    /\ ~magic[l]
    /\ magic' = [magic EXCEPT ![l] = TRUE]
    /\ rwCount' = [rwCount EXCEPT ![l] = 0]
    /\ writeOwner' = [writeOwner EXCEPT ![l] = None]
    /\ pendList' = [pendList EXCEPT ![<<l, READ>>] = <<>>, ![<<l, WRITE>>] = <<>>]
    /\ UNCHANGED <<taskStatus, waitOn, node, scan, woken, fault, posting, holds, lost>>

\* Mutant: a lock that is held is destroyed.
FreeOrHeld(l) == TRUE

Free(l) == rwCount[l] = 0

\* The lists are not looked at.
LOS_RwlockDestroy(l) ==
    /\ magic[l]
    /\ Free(l)
    /\ magic' = [magic EXCEPT ![l] = FALSE]
    /\ UNCHANGED <<waitVars, rwCount, writeOwner, posting, holds, lost>>

\* Mutant: writers waiting are not considered.
OsRwlockPriCompareAny(t, s) == TRUE

\* The task goes before everybody on the list.
OsRwlockPriCompare(t, s) == s # <<>> => Priority[t] < Priority[Head(s)]

\* OsRwlockRdPendOp, from LOS_RwlockRdLock or LOS_RwlockTryRdLock.
RdLockNow(t, l) ==
    /\ Running(t) /\ magic[l]
    /\ rwCount[l] >= 0
    /\ OsRwlockPriCompare(t, Writers(l))
    /\ rwCount[l] # CountMax
    /\ rwCount' = [rwCount EXCEPT ![l] = @ + 1]
    /\ Granted(t, l, READ)
    /\ UNCHANGED <<waitVars, magic, writeOwner, posting, lost>>

RdLockWait(t, l, timed) ==
    /\ magic[l]
    /\ rwCount[l] >= 0 => ~OsRwlockPriCompare(t, Writers(l))
    /\ writeOwner[l] # t
    /\ HPFWait(t, <<l, READ>>, PendPos(t, <<l, READ>>), timed)
    /\ UNCHANGED rwVars

\* OsRwlockWrPendOp, from LOS_RwlockWrLock or LOS_RwlockTryWrLock.
WrLockNow(t, l) ==
    /\ Running(t) /\ magic[l]
    /\ rwCount[l] = 0
    /\ rwCount' = [rwCount EXCEPT ![l] = -1]
    /\ writeOwner' = [writeOwner EXCEPT ![l] = t]
    /\ Granted(t, l, WRITE)
    /\ UNCHANGED <<waitVars, magic, posting, lost>>

WrLockAgain(t, l) ==
    /\ Running(t) /\ magic[l]
    /\ rwCount[l] < 0 /\ writeOwner[l] = t
    /\ rwCount[l] # CountMin
    /\ rwCount' = [rwCount EXCEPT ![l] = @ - 1]
    /\ Granted(t, l, WRITE)
    /\ UNCHANGED <<waitVars, magic, writeOwner, posting, lost>>

WrLockWait(t, l, timed) ==
    /\ magic[l]
    /\ rwCount[l] # 0
    /\ rwCount[l] < 0 => writeOwner[l] # t
    /\ HPFWait(t, <<l, WRITE>>, PendPos(t, <<l, WRITE>>), timed)
    /\ UNCHANGED rwVars

\* The end of a lock call that has waited: LOS_OK, or LOS_ETIMEDOUT.
RwlockResumed(t) ==
    /\ HPFWaitReturn(t)
    /\ IF WaitResult(t) = "LOS_OK" THEN Granted(t, waitOn[t][1], waitOn[t][2])
                                   ELSE UNCHANGED holds
    /\ UNCHANGED <<magic, rwCount, writeOwner, posting, lost>>

-----------------------------------------------------------------------------
\* Mutant: readers waiting are not considered.
NoneModeOfWriters(l) == Writers(l) = <<>>

\* OsRwlockGetMode: RWLOCK_NONE_MODE.
NoneMode(l) == Readers(l) = <<>> /\ Writers(l) = <<>>

\* OsRwlockGetMode: RWLOCK_WRITE_MODE or RWLOCK_WRITEFIRST_MODE.
WriteFirst(l) ==
    /\ Writers(l) # <<>>
    /\ Readers(l) # <<>> => Priority[Head(Writers(l))] <= Priority[Head(Readers(l))]

\* Mutant: the last but one unlock of a writer wakes the others.
LastEarly(l) == rwCount[l] \in -2..1 \ {0}

LastLock(l) == rwCount[l] \in {-1, 1}

\* What LOS_RwlockUnLock asks of its caller; of a reader the code asks nothing.
MayUnlock(t, l) ==
    /\ Running(t) /\ magic[l]
    /\ rwCount[l] # 0
    /\ rwCount[l] < 0 => writeOwner[l] = t

Released(t, l) ==
    LET k == IF rwCount[l] > 0 THEN READ ELSE WRITE IN
    /\ holds[t][l][k] > 0
    /\ holds' = [holds EXCEPT ![t][l][k] = @ - 1]

UnlockOnce(t, l) ==
    /\ MayUnlock(t, l) /\ ~LastLock(l)
    /\ Released(t, l)
    /\ rwCount' = [rwCount EXCEPT ![l] = IF @ > 0 THEN @ - 1 ELSE @ + 1]
    /\ UNCHANGED <<waitVars, magic, writeOwner, posting, lost>>

\* OsRwlockPostOp with nobody waiting.
UnlockFree(t, l) ==
    /\ MayUnlock(t, l) /\ LastLock(l)
    /\ NoneMode(l)
    /\ Released(t, l)
    /\ rwCount' = [rwCount EXCEPT ![l] = 0]
    /\ writeOwner' = [writeOwner EXCEPT ![l] = None]
    /\ UNCHANGED <<waitVars, magic, posting, lost>>

\* OsRwlockPostOp, handing the lock to the first writer.
UnlockToWriter(t, l) ==
    /\ MayUnlock(t, l) /\ LastLock(l)
    /\ WriteFirst(l)
    /\ Released(t, l)
    /\ rwCount' = [rwCount EXCEPT ![l] = -1]
    /\ writeOwner' = [writeOwner EXCEPT ![l] = Head(Writers(l))]
    /\ HPFWake(Head(Writers(l)))
    /\ UNCHANGED <<magic, posting, lost>>

\* OsRwlockPostOp, handing the lock to the first reader and, in PostReader, to the
\* readers after it.
UnlockToReader(t, l) ==
    /\ MayUnlock(t, l) /\ LastLock(l)
    /\ Readers(l) # <<>> /\ ~WriteFirst(l)
    /\ Released(t, l)
    /\ rwCount' = [rwCount EXCEPT ![l] = 1]
    /\ writeOwner' = [writeOwner EXCEPT ![l] = None]
    /\ posting' = <<l, IF Writers(l) = <<>> THEN READ ELSE "READFIRST">>
    /\ HPFWake(Head(Readers(l)))
    /\ UNCHANGED <<magic, lost>>

\* Mutant: the limit is not checked.
MoreReadersUnlimited(l, mode) ==
    /\ Readers(l) # <<>>
    /\ mode = "READFIRST" => Priority[Head(Readers(l))] < Priority[Head(Writers(l))]

\* The condition of the loop of OsRwlockPostOp, its break and its return EINVAL.
MoreReaders(l, mode) ==
    /\ Readers(l) # <<>>
    /\ mode = "READFIRST" => Priority[Head(Readers(l))] < Priority[Head(Writers(l))]
    /\ rwCount[l] # CountMax

PostReader ==
    LET l == posting[1] IN
    /\ MoreReaders(l, posting[2])
    /\ rwCount' = [rwCount EXCEPT ![l] = @ + 1]
    /\ HPFWake(Head(Readers(l)))
    /\ UNCHANGED <<magic, writeOwner, posting, holds, lost>>

PostDone ==
    /\ ~MoreReaders(posting[1], posting[2])
    /\ posting' = Nothing
    /\ UNCHANGED <<waitVars, magic, rwCount, writeOwner, holds, lost>>

-----------------------------------------------------------------------------
\* LOS_TaskDelete releases mutexes, not read-write locks.
TaskDelete(t) ==
    LET got == waitOn[t] # None /\ woken[t]
        Held(l) == holds[t][l][READ] + holds[t][l][WRITE]
    IN
    /\ TaskExit(t)
    /\ lost' = [l \in Rwlock |-> lost[l] + Held(l) +
                                 (IF got /\ waitOn[t][1] = l THEN 1 ELSE 0)]
    /\ holds' = [holds EXCEPT ![t] = NoHolds]
    /\ UNCHANGED <<magic, rwCount, writeOwner, posting>>

RwlockStep(t) ==
    \/ \E l \in Rwlock :
        \/ RdLockNow(t, l)
        \/ \E timed \in RdTimed : RdLockWait(t, l, timed)
        \/ WrLockNow(t, l)
        \/ WrLockAgain(t, l)
        \/ \E timed \in WrTimed : WrLockWait(t, l, timed)
        \/ UnlockOnce(t, l)
        \/ UnlockFree(t, l)
        \/ UnlockToWriter(t, l)
        \/ UnlockToReader(t, l)
    \/ RwlockResumed(t)

Next ==
    /\ ~fault
    /\ \/ /\ posting = Nothing
          /\ \/ \E t \in Task : \/ RwlockStep(t)
                                \/ TimeoutScan(t) /\ UNCHANGED rwVars
                                \/ TaskCreate(t) /\ UNCHANGED rwVars
             \/ \E t \in Managed : \/ (TaskSuspend(t) \/ TaskResume(t)) /\ UNCHANGED rwVars
                                   \/ TaskDelete(t)
             \/ \E l \in Rwlock : LOS_RwlockInit(l) \/ LOS_RwlockDestroy(l)
       \/ /\ posting # Nothing
          /\ PostReader \/ PostDone

Spec == Init /\ [][Next]_vars

-----------------------------------------------------------------------------
(***************************************************************************)
(* Readers and writers exclude each other, as the callers see it: while a  *)
(* task has a write lock no other task has a lock, and it is the owner on  *)
(* record.                                                                 *)
(***************************************************************************)
WriterExcludesOthers ==
    \A l \in Rwlock, t \in Task : holds[t][l][WRITE] > 0 =>
        /\ writeOwner[l] = t
        /\ holds[t][l][READ] = 0
        /\ \A u \in Task \ {t} : holds[u][l] = [k \in {READ, WRITE} |-> 0]

Given(l, k) ==
    MapThenSumSet(LAMBDA t : holds[t][l][k], Task)
        + Cardinality({t \in Task : waitOn[t] = <<l, k>> /\ woken[t]})

(***************************************************************************)
(* rwCount is exactly the locks callers have, those handed to tasks that   *)
(* have been woken and have not run yet, and those that went with deleted  *)
(* tasks: no unlock, timeout or batch of readers miscounts.                *)
(***************************************************************************)
CountExact ==
    \A l \in Rwlock :
        /\ rwCount[l] >= 0 => rwCount[l] = Given(l, READ) + lost[l] /\ Given(l, WRITE) = 0
        /\ rwCount[l] < 0 => -rwCount[l] = Given(l, WRITE) + lost[l] /\ Given(l, READ) = 0

(***************************************************************************)
(* Nobody waits for a lock that is free or destroyed: whoever releases it  *)
(* last leaves nobody behind, and LOS_RwlockDestroy, which looks only at   *)
(* rwCount, never clears a list with tasks on it.  The holder may be a task*)
(* that has been deleted, and then nobody will release the lock.           *)
(***************************************************************************)
WaitersOnHeldLock ==
    \A l \in Rwlock :
        (posting = Nothing /\ (Readers(l) # <<>> \/ Writers(l) # <<>>)) =>
            magic[l] /\ rwCount[l] # 0

\* The reader gets the lock in this step: at once, or woken for it.
LetIn(t, l) ==
    \/ waitOn[t] = None /\ holds'[t][l][READ] > holds[t][l][READ]
    \/ waitOn[t] = <<l, READ>> /\ woken'[t] /\ ~woken[t]

(***************************************************************************)
(* A reader is let in only ahead of every waiting writer: whichever way it *)
(* gets the lock its priority is higher than that of all of them, although *)
(* only the first writer is looked at.  That is enough as long as nobody   *)
(* changes the priority of a task on a list.                               *)
(***************************************************************************)
ReadersDoNotOvertake ==
    [][\A l \in Rwlock, t \in Task : LetIn(t, l) =>
          \A i \in DOMAIN Writers(l)' : Priority[t] < Priority[Writers(l)'[i]]]_vars

(***************************************************************************)
(* Every step of the lock calls is a step the blocking layer allows.       *)
(***************************************************************************)
ImplementsTaskWait == WaitSpec
=============================================================================
