------------------------------- MODULE Queue -------------------------------
(***************************************************************************)
(* Message queues, los_queue.c, on the blocking layer of TaskWait.         *)
(*                                                                         *)
(* A queue is a circular buffer with two counters, the messages that can   *)
(* be read and the slots that can be written, and two pend lists.  A task  *)
(* that is woken takes over the message or the slot without its being      *)
(* counted, and touches the buffer only when it runs again.                *)
(*                                                                         *)
(* Parameter errors, among them a queueID of a queue deleted since, and    *)
(* memory exhaustion change nothing and are not steps.  A message is       *)
(* copied whole.  Suspension does not freeze (LOSCFG_KERNEL_PM outside     *)
(* power-management mode).                                                 *)
(***************************************************************************)
EXTENDS TaskWait

CONSTANTS
    Queue,       \* the control blocks, g_allQueue
    Msg,         \* what is written
    QueueLens,   \* lengths LOS_QueueCreate is called with
    Managed      \* bound: the tasks suspended, resumed or deleted

READ == 0
WRITE == 1
Other(rw) == 1 - rw

ASSUME QueueConstants ==
    /\ WaitList = Queue \X {READ, WRITE}
    /\ QueueLens \subseteq Nat \ {0}
    /\ Managed \subseteq Task
    /\ ~FreezeOnSuspend

\* What OsQueueOperate is asked to do.
Call == {<<"READ_HEAD", None>>} \cup ({"WRITE_HEAD", "WRITE_TAIL"} \X Msg)
ReadWrite(c) == IF c[1] = "READ_HEAD" THEN READ ELSE WRITE

VARIABLES
    queueState,         \* queueState[q]: "UNUSED" or "INUSED"
    queueLen,
    queueHead,
    queueTail,
    readWriteableCnt,   \* readWriteableCnt[q][READ or WRITE]
    queueHandle,        \* queueHandle[q][i]: the message in slot i of the buffer
    freeQueueList,
    call,               \* call[t]: arguments of the OsQueueOperate t is inside
    busy,               \* the task in OsQueueOperate with the scheduler lock, <<t, q>>
    msgs,               \* history: the messages in q as a sequence, oldest first
    lost                \* history: messages and slots handed to tasks then deleted

queueVars == <<queueState, queueLen, queueHead, queueTail, readWriteableCnt,
               queueHandle, freeQueueList, call, busy, msgs, lost>>
vars == <<waitVars, queueVars>>

Nowhere == <<None, None>>

TypeOK ==
    /\ WaitTypeOK
    /\ queueState \in [Queue -> {"UNUSED", "INUSED"}]
    /\ queueLen \in [Queue -> QueueLens \cup {0}]
    /\ \A q \in Queue : queueState[q] = "INUSED" =>
          /\ queueHead[q] \in 0..(queueLen[q] - 1)
          /\ queueTail[q] \in 0..(queueLen[q] - 1)
          /\ readWriteableCnt[q] \in [{READ, WRITE} -> 0..queueLen[q]]
          /\ queueHandle[q] \in [0..(queueLen[q] - 1) -> Msg \cup {None}]
    /\ freeQueueList \in Seq(Queue)
    /\ call \in [Task -> Call \cup {Nowhere}]
    /\ busy \in (Task \X Queue) \cup {Nowhere}

OsQueueInit ==
    /\ queueState = [q \in Queue |-> "UNUSED"]
    /\ queueLen = [q \in Queue |-> 0]
    /\ queueHead = [q \in Queue |-> 0]
    /\ queueTail = [q \in Queue |-> 0]
    /\ readWriteableCnt = [q \in Queue |-> [rw \in {READ, WRITE} |-> 0]]
    /\ queueHandle = [q \in Queue |-> <<>>]
    /\ freeQueueList = SetToSeq(Queue)
    /\ call = [t \in Task |-> Nowhere]
    /\ busy = Nowhere
    /\ msgs = [q \in Queue |-> <<>>]
    /\ lost = [q \in Queue |-> [rw \in {READ, WRITE} |-> 0]]

Init == WaitInit /\ OsQueueInit

\* OsQueueOperateParamCheck
Valid(q) == queueState[q] = "INUSED"

-----------------------------------------------------------------------------
LOS_QueueCreate(len) ==
    LET q == Head(freeQueueList) IN
    /\ freeQueueList # <<>>
    /\ freeQueueList' = Tail(freeQueueList)
    /\ queueLen' = [queueLen EXCEPT ![q] = len]
    /\ queueHandle' = [queueHandle EXCEPT ![q] = [i \in 0..(len - 1) |-> None]]
    /\ queueState' = [queueState EXCEPT ![q] = "INUSED"]
    /\ readWriteableCnt' = [readWriteableCnt EXCEPT ![q] = (READ :> 0 @@ WRITE :> len)]
    /\ queueHead' = [queueHead EXCEPT ![q] = 0]
    /\ queueTail' = [queueTail EXCEPT ![q] = 0]
    /\ pendList' = [pendList EXCEPT ![<<q, READ>>] = <<>>, ![<<q, WRITE>>] = <<>>]
    /\ msgs' = [msgs EXCEPT ![q] = <<>>]
    /\ lost' = [lost EXCEPT ![q] = (READ :> 0 @@ WRITE :> 0)]
    /\ UNCHANGED <<taskStatus, waitOn, node, scan, woken, fault, call, busy>>

\* Mutant: the pend lists are not looked at.
NobodyWaits(q) == TRUE

ListsEmpty(q) == pendList[<<q, READ>>] = <<>> /\ pendList[<<q, WRITE>>] = <<>>

\* Mutant: tasks that have been woken and have not run yet are not looked for.
NobodyInFlight(q) == TRUE

AllCounted(q) ==
    readWriteableCnt[q][WRITE] + readWriteableCnt[q][READ] = queueLen[q]

\* The messages still in the queue do not prevent its deletion; waiting tasks, and
\* tasks that have been woken and have not run yet, do.
LOS_QueueDelete(q) ==
    /\ Valid(q)
    /\ ListsEmpty(q) /\ AllCounted(q)
    /\ queueHandle' = [queueHandle EXCEPT ![q] = <<>>]
    /\ queueState' = [queueState EXCEPT ![q] = "UNUSED"]
    /\ freeQueueList' = Append(freeQueueList, q)
    /\ UNCHANGED <<waitVars, queueLen, queueHead, queueTail, readWriteableCnt, call,
                   busy, msgs, lost>>

-----------------------------------------------------------------------------
\* OsQueueOperate with a message, or a slot, at hand.
QueueTake(t, q, c) ==
    LET rw == ReadWrite(c) IN
    /\ Running(t) /\ Valid(q)
    /\ readWriteableCnt[q][rw] # 0
    /\ readWriteableCnt' = [readWriteableCnt EXCEPT ![q][rw] = @ - 1]
    /\ call' = [call EXCEPT ![t] = c]
    /\ busy' = <<t, q>>
    /\ UNCHANGED <<waitVars, queueState, queueLen, queueHead, queueTail,
                   queueHandle, freeQueueList, msgs, lost>>

\* OsQueueOperate with none: the task goes to the tail of the list.
QueueWait(t, q, c, timed) ==
    LET l == <<q, ReadWrite(c)>> IN
    /\ Valid(q)
    /\ readWriteableCnt[q][ReadWrite(c)] = 0
    /\ HPFWait(t, l, Len(pendList[l]) + 1, timed)
    /\ call' = [call EXCEPT ![t] = c]
    /\ UNCHANGED <<queueState, queueLen, queueHead, queueTail,
                   readWriteableCnt, queueHandle, freeQueueList, busy, msgs, lost>>

\* The task runs again: it goes on to the buffer, or answers LOS_ERRNO_QUEUE_TIMEOUT.
QueueResumed(t) ==
    /\ HPFWaitReturn(t)
    /\ IF WaitResult(t) = "LOS_OK"
       THEN busy' = <<t, waitOn[t][1]>> /\ UNCHANGED call
       ELSE call' = [call EXCEPT ![t] = Nowhere] /\ UNCHANGED busy
    /\ UNCHANGED <<queueState, queueLen, queueHead, queueTail,
                   readWriteableCnt, queueHandle, freeQueueList, msgs, lost>>

\* Mutants: the position does not wrap around.
NextNoWrap(q, i) == i + 1
PreviousNoWrap(q, i) == IF i = 0 THEN 0 ELSE i - 1

NextSlot(q, i) == IF i + 1 = queueLen[q] THEN 0 ELSE i + 1
PreviousSlot(q, i) == IF i = 0 THEN queueLen[q] - 1 ELSE i - 1

OsQueueBufferOperate(q, op, m) ==
    LET head == queueHead[q]
        tail == queueTail[q]
        before == PreviousSlot(q, head)
    IN
    \/ /\ op = "READ_HEAD"
       /\ queueHead' = [queueHead EXCEPT ![q] = NextSlot(q, head)]
       /\ msgs' = [msgs EXCEPT ![q] = SubSeq(@, 2, Len(@))]
       /\ UNCHANGED <<queueTail, queueHandle>>
    \/ /\ op = "WRITE_HEAD"
       /\ queueHead' = [queueHead EXCEPT ![q] = before]
       /\ queueHandle' = [queueHandle EXCEPT ![q][before] = m]
       /\ msgs' = [msgs EXCEPT ![q] = <<m>> \o @]
       /\ UNCHANGED queueTail
    \/ /\ op = "WRITE_TAIL"
       /\ queueTail' = [queueTail EXCEPT ![q] = NextSlot(q, tail)]
       /\ queueHandle' = [queueHandle EXCEPT ![q][tail] = m]
       /\ msgs' = [msgs EXCEPT ![q] = Append(@, m)]
       /\ UNCHANGED queueHead

\* Mutant: nobody is woken.
WaiterMissed(q, rw) == FALSE

Waiting(q, rw) == pendList[<<q, rw>>] # <<>>

\* Mutant: what is handed to a waiting task is counted as well.
CountedAlways(q, rw) == readWriteableCnt[q][rw] + 1

CountedUnlessHanded(q, rw) ==
    IF Waiting(q, rw) THEN readWriteableCnt[q][rw] ELSE readWriteableCnt[q][rw] + 1

\* The rest of OsQueueOperate, in the same critical section.
QueueComplete(t, q) ==
    LET c == call[t]
        other == Other(ReadWrite(c))
    IN
    /\ ~fault
    /\ OsQueueBufferOperate(q, c[1], c[2])
    /\ readWriteableCnt' =
           [readWriteableCnt EXCEPT ![q][other] = CountedUnlessHanded(q, other)]
    /\ IF Waiting(q, other) THEN HPFWake(Head(pendList[<<q, other>>]))
                            ELSE UNCHANGED waitVars
    /\ call' = [call EXCEPT ![t] = Nowhere]
    /\ busy' = Nowhere
    /\ UNCHANGED <<queueState, queueLen, freeQueueList, lost>>

\* LOS_TaskDelete: what the task was woken for is lost with it.
TaskDelete(t) ==
    /\ TaskExit(t)
    /\ lost' = IF waitOn[t] # None /\ woken[t]
               THEN [lost EXCEPT ![waitOn[t][1]][waitOn[t][2]] = @ + 1] ELSE lost
    /\ call' = [call EXCEPT ![t] = Nowhere]
    /\ UNCHANGED <<queueState, queueLen, queueHead, queueTail,
                   readWriteableCnt, queueHandle, freeQueueList, busy, msgs>>

Next ==
    \/ /\ busy = Nowhere
       /\ \/ \E t \in Task :
              \/ \E q \in Queue, c \in Call :
                  \/ QueueTake(t, q, c)
                  \/ \E timed \in BOOLEAN : QueueWait(t, q, c, timed)
              \/ QueueResumed(t)
              \/ TimeoutScan(t) /\ UNCHANGED queueVars
              \/ TaskCreate(t) /\ UNCHANGED queueVars
          \/ \E t \in Managed :
              \/ (TaskSuspend(t) \/ TaskResume(t)) /\ UNCHANGED queueVars
              \/ TaskDelete(t)
          \/ \E len \in QueueLens : ~fault /\ LOS_QueueCreate(len)
          \/ \E q \in Queue : ~fault /\ LOS_QueueDelete(q)
    \/ /\ busy # Nowhere
       /\ QueueComplete(busy[1], busy[2])

Spec == Init /\ [][Next]_vars

-----------------------------------------------------------------------------
\* Tasks that have been given a message to read, or a slot to write, and have not
\* done so yet.
InFlight(q, rw) ==
    {t \in Task : \/ waitOn[t] = <<q, rw>> /\ woken[t]
                  \/ busy = <<t, q>> /\ ReadWrite(call[t]) = rw}

Claimed(q, rw) ==
    readWriteableCnt[q][rw] + Cardinality(InFlight(q, rw)) + lost[q][rw]

(***************************************************************************)
(* Every message in the buffer is counted or promised to one reader, and   *)
(* every empty slot is counted or promised to one writer: woken readers    *)
(* and writers, timeouts and new callers in between never make two tasks   *)
(* use one message or one slot.                                            *)
(***************************************************************************)
SlotsConserved ==
    \A q \in Queue : queueState[q] = "INUSED" =>
        /\ Claimed(q, READ) = Len(msgs[q])
        /\ Claimed(q, WRITE) = queueLen[q] - Len(msgs[q])

(***************************************************************************)
(* The circular buffer holds the messages of the sequence the writes to    *)
(* either end and the reads should have produced, from queueHead on, and   *)
(* queueTail is just behind the last.                                      *)
(***************************************************************************)
BufferIsDeque ==
    \A q \in Queue : queueState[q] = "INUSED" =>
        LET Slot(i) == (queueHead[q] + i) % queueLen[q] IN
        /\ queueTail[q] = Slot(Len(msgs[q]))
        /\ \A i \in 1..Len(msgs[q]) : queueHandle[q][Slot(i - 1)] = msgs[q][i]

(***************************************************************************)
(* No wakeup is lost: no reader waits while readWriteableCnt counts a      *)
(* message, no writer while it counts a slot.  A message or slot handed to *)
(* a task that is deleted before it runs is counted no more, and stays in  *)
(* the buffer while others wait.                                           *)
(***************************************************************************)
NoLostWakeup ==
    \A q \in Queue, rw \in {READ, WRITE} :
        queueState[q] = "INUSED" /\ readWriteableCnt[q][rw] > 0 =>
            pendList[<<q, rw>>] = <<>>

(***************************************************************************)
(* A queue outlives its callers: LOS_QueueDelete frees the buffer only     *)
(* when no task waits for the queue or has been woken to use it.           *)
(***************************************************************************)
QueueOutlivesWaiters ==
    \A t \in Task :
        waitOn[t] # None /\ (Has(t, "PENDING") \/ woken[t]) =>
            queueState[waitOn[t][1]] = "INUSED"

(***************************************************************************)
(* Every step of the queue calls is a step the blocking layer allows.      *)
(***************************************************************************)
ImplementsTaskWait == WaitSpec
=============================================================================
