----------------------------- MODULE SemProofs -----------------------------
(***************************************************************************)
(* Proofs about the semaphores, for any tasks, control blocks, generations *)
(* and maximum.                                                            *)
(***************************************************************************)
EXTENDS Sem, TaskWaitProofs, FiniteSetTheorems

-----------------------------------------------------------------------------
(* What the free list is made of.                                           *)

\* Taking the first block off a duplicate-free list leaves one without it.
LEMMA TakeFirst ==
    ASSUME NEW S, NEW s \in Seq(S), s # <<>>, IsInjective(s)
    PROVE  /\ Head(s) \in S /\ Contains(s, Head(s))
           /\ Tail(s) \in Seq(S) /\ IsInjective(Tail(s))
           /\ \A x \in S : Contains(Tail(s), x) => Contains(s, x) /\ x # Head(s)
<1>1. /\ Head(s) \in S /\ Tail(s) \in Seq(S) /\ Len(Tail(s)) = Len(s) - 1
      /\ \A i \in 1..Len(Tail(s)) : Tail(s)[i] = s[i + 1]
  BY HeadTailProperties
<1>2. Len(s) \in Nat \ {0} /\ Head(s) = s[1]
  BY EmptySeq
<1>3. \A i, j \in 1..Len(s) : s[i] = s[j] => i = j
  BY InjectiveSeq
<1>4. \A i \in 1..Len(Tail(s)) : i + 1 \in 1..Len(s)
  BY <1>1, <1>2
<1>5. IsInjective(Tail(s))
  <2>1. ASSUME NEW i \in 1..Len(Tail(s)), NEW j \in 1..Len(Tail(s)), Tail(s)[i] = Tail(s)[j]
        PROVE  i = j
    <3>1. i + 1 = j + 1
      BY <1>1, <1>3, <1>4, <2>1
    <3>. QED BY <3>1, <1>1, <1>2
  <2>. QED BY <1>1, <2>1, InjectiveSeq
<1>6. ASSUME NEW x \in S, Contains(Tail(s), x) PROVE Contains(s, x) /\ x # Head(s)
  <2>1. PICK i \in 1..Len(Tail(s)) : Tail(s)[i] = x
    BY <1>6 DEF Contains
  <2>2. s[i + 1] = x /\ i + 1 \in 1..Len(s) /\ i + 1 # 1 /\ 1 \in 1..Len(s)
    BY <1>1, <1>2, <1>4, <2>1
  <2>. QED BY <1>2, <1>3, <2>2 DEF Contains
<1>7. Contains(s, Head(s))
  BY <1>2 DEF Contains
<1>. QED BY <1>1, <1>5, <1>6, <1>7

\* Putting a new block at the end keeps the list duplicate-free.
LEMMA PutLast ==
    ASSUME NEW S, NEW s \in Seq(S), NEW x \in S, IsInjective(s), ~Contains(s, x)
    PROVE  /\ Append(s, x) \in Seq(S) /\ IsInjective(Append(s, x))
           /\ \A y \in S : Contains(Append(s, x), y) <=> Contains(s, y) \/ y = x
<1> DEFINE r == Append(s, x)
<1>1. /\ r \in Seq(S) /\ Len(s) \in Nat /\ Len(r) = Len(s) + 1 /\ r[Len(s) + 1] = x
      /\ \A i \in 1..Len(s) : r[i] = s[i]
  OBVIOUS
<1>. HIDE DEF r
<1>2. \A i, j \in 1..Len(s) : s[i] = s[j] => i = j
  BY InjectiveSeq
<1>3. \A i \in 1..Len(s) : s[i] # x
  BY DEF Contains
<1>4. ASSUME NEW i \in 1..Len(r), NEW j \in 1..Len(r), r[i] = r[j] PROVE i = j
  <2>1. CASE i = Len(s) + 1
    BY <1>1, <1>3, <1>4, <2>1
  <2>2. CASE j = Len(s) + 1
    BY <1>1, <1>3, <1>4, <2>2
  <2>3. CASE i \in 1..Len(s) /\ j \in 1..Len(s)
    BY <1>1, <1>2, <1>4, <2>3
  <2>. QED BY <1>1, <2>1, <2>2, <2>3
<1>5. IsInjective(r)
  BY <1>1, <1>4, InjectiveSeq
<1>6. ASSUME NEW y \in S PROVE Contains(r, y) <=> Contains(s, y) \/ y = x
  <2>1. ASSUME Contains(r, y), y # x PROVE Contains(s, y)
    <3>1. PICK i \in 1..Len(r) : r[i] = y
      BY <2>1 DEF Contains
    <3>2. i \in 1..Len(s)
      BY <1>1, <2>1, <3>1
    <3>. QED BY <1>1, <3>1, <3>2 DEF Contains
  <2>2. ASSUME Contains(s, y) PROVE Contains(r, y)
    <3>1. PICK i \in 1..Len(s) : s[i] = y
      BY <2>2 DEF Contains
    <3>2. i \in 1..Len(r)
      BY <1>1
    <3>. QED BY <1>1, <3>1, <3>2 DEF Contains
  <2>3. Contains(r, x)
    BY <1>1 DEF Contains
  <2>. QED BY <2>1, <2>2, <2>3
<1>. QED BY <1>1, <1>5, <1>6 DEF r

\* The free list OsSemInit builds holds every block once.
LEMMA InitialFreeList ==
    SetToSeq(Sem) \in Seq(Sem) /\ IsInjective(SetToSeq(Sem))
<1> DEFINE n == Cardinality(Sem)
<1>1. n \in Nat /\ ExistsBijection(1..n, Sem)
  BY FS_CardinalityType, SemConstants DEF Sem
<1>2. \E f \in [1..n -> Sem] : IsInjective(f)
  BY <1>1 DEF ExistsBijection, Bijection, Injection
<1>3. SetToSeq(Sem) \in [1..n -> Sem] /\ IsInjective(SetToSeq(Sem))
  BY <1>2 DEF SetToSeq
<1>. QED BY <1>1, <1>3

-----------------------------------------------------------------------------
(* Semaphore calls are steps of the blocking layer.                         *)

\* Who waits on a block, in terms of flags.
WaitsOn(t, s) == Has(t, "PENDING") /\ waitOn[t] = s

\* A list is empty when nobody waits on it; its first task does.
LEMMA ListOfWaiters ==
    ASSUME WaitInv, NEW s \in Sem
    PROVE  /\ pendList[s] = <<>> <=> \A t \in Task : ~WaitsOn(t, s)
           /\ pendList[s] # <<>> => Head(pendList[s]) \in Task /\ WaitsOn(Head(pendList[s]), s)
<1>1. /\ pendList[s] \in Seq(Task)
      /\ \A t \in Task : Contains(pendList[s], t) <=> WaitsOn(t, s)
  BY DEF WaitInv, WaitTypeOK, PendListConsistent, WaitsOn, Sem
<1>2. CASE pendList[s] = <<>>
  <2>1. \A t \in Task : ~Contains(pendList[s], t)
    BY <1>2 DEF Contains
  <2>. QED BY <1>1, <1>2, <2>1
<1>3. CASE pendList[s] # <<>>
  <2>1. Head(pendList[s]) \in Task /\ Contains(pendList[s], Head(pendList[s]))
    BY <1>1, <1>3, EmptySeq, HeadTailProperties DEF Contains
  <2>. QED BY <1>1, <1>3, <2>1
<1>. QED BY <1>2, <1>3

\* Each semaphore call, seen from the blocking layer, is one of its steps or none.
LEMMA SemStepIsWaitStep ==
    ASSUME WaitInv, [Next]_vars
    PROVE  [WaitNext]_waitVars
<1>1. ASSUME NEW t \in Task, NEW h \in Handle, NEW timed \in BOOLEAN,
             SemPendWait(t, h, timed)
      PROVE  WaitNext
  <2>1. h[1] \in WaitList
    BY DEF Handle, Sem
  <2>2. Len(pendList[h[1]]) + 1 \in 1..(Len(pendList[h[1]]) + 1)
    BY <2>1 DEF WaitInv, WaitTypeOK
  <2>. QED BY <1>1, <2>1, <2>2 DEF SemPendWait, WaitNext
<1>2. ASSUME NEW h \in Handle, OsSemPostUnsafe(h)
      PROVE  [WaitNext]_waitVars
  <2>1. CASE ~Waiting(h[1])
    BY <1>2, <2>1 DEF OsSemPostUnsafe
  <2>2. CASE Waiting(h[1])
    <3>1. h[1] \in Sem
      BY DEF Handle
    <3>2. Head(pendList[h[1]]) \in Task /\ Has(Head(pendList[h[1]]), "PENDING")
      BY <2>2, <3>1, ListOfWaiters DEF Waiting, WaitsOn
    <3>. QED BY <1>2, <2>2, <3>2 DEF OsSemPostUnsafe, WaitNext
  <2>. QED BY <2>1, <2>2
<1>3. CASE \E t \in Task : \/ OsSemCreateTake(t)
                           \/ \E max \in {1, SemCountMax} : \E count \in 0..max :
                                 OsSemCreateFill(t, count, max)
                           \/ \E h \in Handle : SemPendNow(t, h)
  BY <1>3 DEF OsSemCreateTake, OsSemCreateFill, SemPendNow
<1>4. CASE \E h \in Handle : LOS_SemDelete(h)
  BY <1>4 DEF LOS_SemDelete
<1>5. CASE \E t \in Task : SemPendReturn(t) \/ TaskDelay(t) \/ TaskDelete(t) \/ TaskCreate(t)
  BY <1>5 DEF SemPendReturn, TaskDelay, TaskDelete, WaitNext
<1>6. CASE SchedNext
  BY <1>6 DEF WaitNext
<1>7. CASE UNCHANGED vars
  BY <1>7 DEF vars
<1>. QED BY <1>1, <1>2, <1>3, <1>4, <1>5, <1>6, <1>7 DEF Next

(***************************************************************************)
(* The semaphores implement the abstract specification of the blocking     *)
(* layer, so everything proved of WaitSpec holds of LOS_SemPend,           *)
(* LOS_SemPost and the task calls that come in between.                    *)
(***************************************************************************)
THEOREM SemImplementsTaskWait == Spec => ImplementsTaskWait
<1>1. Init => WaitInit /\ WaitInv
  BY WaitInvInit DEF Init
<1>2. WaitInv /\ [Next]_vars => WaitInv' /\ [WaitNext]_waitVars
  BY SemStepIsWaitStep, WaitInvNext
<1>. QED BY <1>1, <1>2, PTL DEF Spec, ImplementsTaskWait, WaitSpec

-----------------------------------------------------------------------------
(* The inductive invariant of the semaphores.                               *)

\* A block somebody waits on has no permit, is in use, and is still the
\* semaphore the waiter named.
WaitersServed ==
    \A t \in Task, s \in Sem : WaitsOn(t, s) =>
        semCount[s] = 0 /\ semStat[s] = "USED" /\ stale[t] = FALSE

\* The count stays below its maximum, and a task outside LOS_SemPend is not
\* marked as waiting on a deleted semaphore.
CountsAndMarks ==
    /\ \A s \in Sem : semCount[s] <= maxSemCount[s]
    /\ \A t \in Task : waitOn[t] = None => stale[t] = FALSE

SemInv ==
    WaitInv /\ SemTypeOK /\ BlockOwnedOnce /\ WaitersServed /\ CountsAndMarks

\* The steps of the scheduler end waits but neither begin nor move them.
LEMMA SchedKeeps ==
    ASSUME WaitInv, SchedNext
    PROVE  /\ waitOn' = waitOn /\ woken' = woken
           /\ \A t \in Task : Has(t, "PENDING")' => Has(t, "PENDING")
<1>0. taskStatus \in [Task -> SUBSET Flag] /\ scan \in [Cpu -> Task \cup {None}]
  BY DEF WaitInv, WaitTypeOK
<1>1. ASSUME NEW t \in Task, TimeoutTaskWake(t), NEW u \in Task, Has(u, "PENDING")'
      PROVE  Has(u, "PENDING")
  BY <1>0, <1>1 DEF TimeoutTaskWake, Expired, Enqueued, Has
<1>2. ASSUME NEW t \in Task, TimeoutScan(t)
      PROVE  /\ waitOn' = waitOn /\ woken' = woken
             /\ \A u \in Task : Has(u, "PENDING")' => Has(u, "PENDING")
  BY <1>1, <1>2 DEF TimeoutScan
<1>3. ASSUME NEW c \in Cpu, TimeoutScanWake(c)
      PROVE  /\ waitOn' = waitOn /\ woken' = woken
             /\ \A u \in Task : Has(u, "PENDING")' => Has(u, "PENDING")
  BY <1>0, <1>1, <1>3 DEF TimeoutScanWake
<1>4. ASSUME NEW c \in Cpu, NEW t \in Task, TimeoutScanPop(c, t)
      PROVE  /\ waitOn' = waitOn /\ woken' = woken
             /\ \A u \in Task : Has(u, "PENDING")' => Has(u, "PENDING")
  BY <1>4 DEF TimeoutScanPop, Has
<1>5. ASSUME NEW t \in Task, TaskSuspend(t)
      PROVE  /\ waitOn' = waitOn /\ woken' = woken
             /\ \A u \in Task : Has(u, "PENDING")' => Has(u, "PENDING")
  BY <1>0, <1>5 DEF TaskSuspend, Has
<1>6. ASSUME NEW t \in Task, TaskResume(t) \/ TaskResumeExpired(t)
      PROVE  /\ waitOn' = waitOn /\ woken' = woken
             /\ \A u \in Task : Has(u, "PENDING")' => Has(u, "PENDING")
  BY <1>0, <1>6 DEF TaskResume, TaskResumeExpired, Resumed, Enqueued, Has
<1>. QED BY <1>2, <1>3, <1>4, <1>5, <1>6 DEF SchedNext

\* The invariant holds after OsSemInit.
LEMMA SemInvInit == Init => SemInv
<1> SUFFICES ASSUME Init PROVE SemInv
  OBVIOUS
<1>1. WaitInv
  BY WaitInvInit DEF Init
<1>2. SemTypeOK
  BY InitialFreeList, SemConstants DEF Init, OsSemInit, SemTypeOK
<1>3. BlockOwnedOnce
  BY InitialFreeList DEF Init, OsSemInit, BlockOwnedOnce
<1>4. WaitersServed /\ CountsAndMarks
  BY DEF Init, OsSemInit, WaitInit, WaitersServed, CountsAndMarks, WaitsOn, Has
<1>. QED BY <1>1, <1>2, <1>3, <1>4 DEF SemInv

\* A step that leaves the semaphores alone and begins no wait.
LEMMA SemaphoresKept ==
    ASSUME SemInv, WaitInv', UNCHANGED semVars,
           \A t \in Task : /\ Has(t, "PENDING")' => Has(t, "PENDING")
                           /\ waitOn'[t] = waitOn[t]
    PROVE  SemInv'
<1>1. SemTypeOK' /\ BlockOwnedOnce'
  BY DEF SemInv, semVars, SemTypeOK, BlockOwnedOnce
<1>2. WaitersServed' /\ CountsAndMarks'
  BY DEF SemInv, semVars, WaitersServed, CountsAndMarks, WaitsOn
<1>. QED BY <1>1, <1>2 DEF SemInv

\* OsSemCreate takes a block: from the free list to the creator.
LEMMA SemCreateTakeInv ==
    ASSUME SemInv, WaitInv', NEW t \in Task, OsSemCreateTake(t)
    PROVE  SemInv'
<1>1. /\ unusedSemList \in Seq(Sem) /\ unusedSemList # <<>> /\ IsInjective(unusedSemList)
      /\ creating \in [Task -> Sem \cup {None}] /\ creating[t] = None
      /\ creating' = [creating EXCEPT ![t] = Head(unusedSemList)]
      /\ unusedSemList' = Tail(unusedSemList)
  BY DEF SemInv, SemTypeOK, BlockOwnedOnce, OsSemCreateTake, Idle, FreeListRest
<1>2. /\ Head(unusedSemList) \in Sem /\ Contains(unusedSemList, Head(unusedSemList))
      /\ unusedSemList' \in Seq(Sem) /\ IsInjective(unusedSemList')
      /\ \A s \in Sem : Contains(unusedSemList', s) =>
                            Contains(unusedSemList, s) /\ s # Head(unusedSemList)
  BY <1>1, TakeFirst
<1>3. SemTypeOK'
  BY <1>1, <1>2 DEF SemInv, SemTypeOK, OsSemCreateTake
<1>4. semStat' = semStat /\ semStat[Head(unusedSemList)] = "UNUSED"
  BY <1>2 DEF SemInv, SemTypeOK, BlockOwnedOnce, OsSemCreateTake
<1>5. BlockOwnedOnce'
  <2>1. \A s \in Sem : semStat'[s] = "USED" => ~Contains(unusedSemList', s)
    BY <1>2, <1>4 DEF SemInv, BlockOwnedOnce
  <2>2. ASSUME NEW u \in Task, creating'[u] # None
        PROVE  /\ semStat'[creating'[u]] = "UNUSED" /\ ~Contains(unusedSemList', creating'[u])
               /\ \A v \in Task : creating'[v] = creating'[u] => v = u
    <3>1. CASE u = t
      BY <1>1, <1>2, <1>4, <3>1, WaitConstants DEF SemInv, BlockOwnedOnce, Sem
    <3>2. CASE u # t
      BY <1>1, <1>2, <1>4, <2>2, <3>2 DEF SemInv, BlockOwnedOnce
    <3>. QED BY <3>1, <3>2
  <2>. QED BY <1>2, <2>1, <2>2 DEF BlockOwnedOnce
<1>6. WaitersServed' /\ CountsAndMarks'
  BY DEF SemInv, OsSemCreateTake, waitVars, WaitersServed, CountsAndMarks, WaitsOn, Has
<1>. QED BY <1>3, <1>5, <1>6 DEF SemInv

\* OsSemCreate fills the block in: it was in use by nobody, so nobody waits on it.
LEMMA SemCreateFillInv ==
    ASSUME SemInv, WaitInv', NEW t \in Task, NEW max \in {1, SemCountMax},
           NEW count \in 0..max, OsSemCreateFill(t, count, max)
    PROVE  SemInv'
<1> DEFINE s == creating[t]
<1>1. /\ s \in Sem /\ semStat[s] = "UNUSED" /\ ~Contains(unusedSemList, s)
      /\ \A u \in Task : creating[u] = s => u = t
  BY DEF SemInv, SemTypeOK, BlockOwnedOnce, OsSemCreateFill
<1>2. count \in 0..SemCountMax /\ max \in 0..SemCountMax /\ count <= max
  BY SemConstants
<1>3. SemTypeOK'
  BY <1>1, <1>2 DEF SemInv, SemTypeOK, OsSemCreateFill
<1>4. BlockOwnedOnce'
  BY <1>1 DEF SemInv, SemTypeOK, BlockOwnedOnce, OsSemCreateFill
<1>5. WaitersServed' /\ CountsAndMarks'
  <2>1. \A u \in Task : ~WaitsOn(u, s)
    BY <1>1 DEF SemInv, WaitersServed
  <2>2. \A u \in Task, r \in Sem : WaitsOn(u, r)' <=> WaitsOn(u, r)
    BY DEF OsSemCreateFill, waitVars, WaitsOn, Has
  <2>3. WaitersServed'
    BY <1>1, <2>1, <2>2 DEF SemInv, SemTypeOK, WaitersServed, OsSemCreateFill
  <2>4. CountsAndMarks'
    BY <1>1, <1>2 DEF SemInv, SemTypeOK, CountsAndMarks, OsSemCreateFill, waitVars
  <2>. QED BY <2>3, <2>4
<1>. QED BY <1>3, <1>4, <1>5 DEF SemInv

\* LOS_SemDelete: the block goes back to the free list, with nobody waiting on it.
LEMMA SemDeleteInv ==
    ASSUME SemInv, WaitInv', NEW h \in Handle, LOS_SemDelete(h)
    PROVE  SemInv'
<1> DEFINE s == h[1]
<1>1. /\ s \in Sem /\ semStat[s] = "USED" /\ pendList[s] = <<>>
      /\ ~Contains(unusedSemList, s) /\ \A u \in Task : creating[u] # s
  <2>1. s \in Sem /\ semStat[s] = "USED" /\ pendList[s] = <<>>
    BY DEF LOS_SemDelete, Handle, Valid, Waiting
  <2>2. s # None
    BY <2>1, WaitConstants DEF Sem
  <2>. QED BY <2>1, <2>2 DEF SemInv, BlockOwnedOnce
<1>2. /\ unusedSemList' \in Seq(Sem) /\ IsInjective(unusedSemList')
      /\ \A r \in Sem : Contains(unusedSemList', r) <=> Contains(unusedSemList, r) \/ r = s
  <2>1. unusedSemList \in Seq(Sem) /\ IsInjective(unusedSemList)
    BY DEF SemInv, SemTypeOK, BlockOwnedOnce
  <2>. QED BY <1>1, <2>1, PutLast DEF LOS_SemDelete
<1>3. (semID[s] + 1) % SemGen \in 0..(SemGen - 1)
  BY <1>1, SemConstants DEF SemInv, SemTypeOK
<1>4. stale' \in [Task -> BOOLEAN]
  BY DEF LOS_SemDelete
<1>5. SemTypeOK'
  BY <1>1, <1>2, <1>3, <1>4 DEF SemInv, SemTypeOK, LOS_SemDelete
<1>6. BlockOwnedOnce'
  <2>1. creating' = creating /\ creating \in [Task -> Sem \cup {None}]
    BY DEF SemInv, SemTypeOK, LOS_SemDelete
  <2>2. semStat' = [semStat EXCEPT ![s] = "UNUSED"] /\ semStat \in [Sem -> {"USED", "UNUSED"}]
    BY DEF SemInv, SemTypeOK, LOS_SemDelete
  <2>. QED BY <1>1, <1>2, <2>1, <2>2 DEF SemInv, BlockOwnedOnce
<1>7. \A u \in Task : ~WaitsOn(u, s)
  BY <1>1, ListOfWaiters DEF SemInv
<1>8. \A u \in Task, r \in Sem : WaitsOn(u, r)' <=> WaitsOn(u, r)
  BY DEF LOS_SemDelete, waitVars, WaitsOn, Has
<1>9. WaitersServed'
  <2>1. ASSUME NEW u \in Task, NEW r \in Sem, WaitsOn(u, r)
        PROVE  semCount'[r] = 0 /\ semStat'[r] = "USED" /\ stale'[u] = FALSE
    <3>1. r # s /\ waitOn[u] = r
      BY <1>7, <2>1 DEF WaitsOn
    <3>2. semCount[r] = 0 /\ semStat[r] = "USED" /\ stale[u] = FALSE
      BY <2>1 DEF SemInv, WaitersServed
    <3>. QED BY <3>1, <3>2 DEF SemInv, SemTypeOK, LOS_SemDelete
  <2>. QED BY <1>8, <2>1 DEF WaitersServed
<1>10. CountsAndMarks'
  <2>1. s # None
    BY <1>1, WaitConstants DEF Sem
  <2>. QED BY <2>1 DEF SemInv, CountsAndMarks, LOS_SemDelete, waitVars
<1>. QED BY <1>5, <1>6, <1>9, <1>10 DEF SemInv

\* LOS_SemPend that takes a permit: nobody waits on a block that has one.
LEMMA SemPendNowInv ==
    ASSUME SemInv, WaitInv', NEW t \in Task, NEW h \in Handle, SemPendNow(t, h)
    PROVE  SemInv'
<1>1. h[1] \in Sem /\ semCount[h[1]] > 0
  BY DEF SemPendNow, Handle
<1>2. SemTypeOK' /\ BlockOwnedOnce'
  <2>1. semCount[h[1]] - 1 \in 0..SemCountMax
    BY <1>1, SemConstants DEF SemInv, SemTypeOK
  <2>2. SemTypeOK'
    BY <1>1, <2>1 DEF SemInv, SemTypeOK, SemPendNow
  <2>. QED BY <2>2 DEF SemInv, BlockOwnedOnce, SemPendNow
<1>3. \A u \in Task, s \in Sem : WaitsOn(u, s)' <=> WaitsOn(u, s)
  BY DEF SemPendNow, waitVars, WaitsOn, Has
<1>4. WaitersServed' /\ CountsAndMarks'
  BY <1>1, <1>3, SemConstants
     DEF SemInv, SemTypeOK, WaitersServed, CountsAndMarks, SemPendNow, waitVars
<1>. QED BY <1>2, <1>4 DEF SemInv

\* LOS_SemPend that waits does so on a valid block without permits.
LEMMA SemPendWaitInv ==
    ASSUME SemInv, WaitInv', NEW t \in Task, NEW h \in Handle, NEW timed \in BOOLEAN,
           SemPendWait(t, h, timed)
    PROVE  SemInv'
<1>1. /\ h[1] \in Sem /\ semCount[h[1]] = 0 /\ semStat[h[1]] = "USED"
      /\ waitOn[t] = None /\ stale[t] = FALSE
  BY DEF SemInv, CountsAndMarks, SemPendWait, Handle, Valid, Idle, Running
<1>2. /\ waitOn'[t] = h[1]
      /\ \A u \in Task \ {t} : waitOn'[u] = waitOn[u] /\ taskStatus'[u] = taskStatus[u]
  BY DEF SemInv, WaitInv, WaitTypeOK, SemPendWait, HPFWait
<1>3. SemTypeOK' /\ BlockOwnedOnce'
  BY DEF SemInv, SemTypeOK, BlockOwnedOnce, SemPendWait, semVars
<1>4. ASSUME NEW u \in Task, NEW s \in Sem, WaitsOn(u, s)'
      PROVE  semCount'[s] = 0 /\ semStat'[s] = "USED" /\ stale'[u] = FALSE
  <2>1. CASE u = t
    BY <1>1, <1>2, <1>4, <2>1 DEF SemPendWait, semVars, WaitsOn
  <2>2. CASE u # t
    BY <1>2, <1>4, <2>2 DEF SemInv, WaitersServed, SemPendWait, semVars, WaitsOn, Has
  <2>. QED BY <2>1, <2>2
<1>5. CountsAndMarks'
  BY <1>1, <1>2 DEF SemInv, CountsAndMarks, SemPendWait, semVars
<1>. QED BY <1>3, <1>4, <1>5 DEF SemInv, WaitersServed

\* A task leaves LOS_SemPend, by returning or by being deleted.
LEMMA SemLeaveInv ==
    ASSUME SemInv, WaitInv', NEW t \in Task, NEW taken \in BOOLEAN,
           Handed(t, taken), taken => waitOn[t] # None,
           waitOn' = [waitOn EXCEPT ![t] = None],
           \A u \in Task \ {t} : taskStatus'[u] = taskStatus[u],
           creating' = creating \/ creating' = [creating EXCEPT ![t] = None],
           stale' = [stale EXCEPT ![t] = FALSE],
           UNCHANGED <<semStat, semID, semCount, maxSemCount, unusedSemList>>
    PROVE  SemInv'
<1>1. waitOn \in [Task -> Sem \cup {None}] /\ stale \in [Task -> BOOLEAN]
  BY DEF SemInv, WaitInv, WaitTypeOK, SemTypeOK, Sem
<1>2. credit' \in [Sem -> Int]
  BY <1>1 DEF SemInv, SemTypeOK, Handed
<1>3. SemTypeOK'
  BY <1>2 DEF SemInv, SemTypeOK
<1>4. BlockOwnedOnce'
  BY DEF SemInv, SemTypeOK, BlockOwnedOnce
<1>5. ASSUME NEW u \in Task, NEW s \in Sem, WaitsOn(u, s)'
      PROVE  semCount'[s] = 0 /\ semStat'[s] = "USED" /\ stale'[u] = FALSE
  <2>1. u # t
    BY <1>1, <1>5, WaitConstants DEF WaitsOn, Sem
  <2>. QED BY <1>1, <1>5, <2>1 DEF SemInv, WaitersServed, WaitsOn, Has
<1>6. CountsAndMarks'
  BY <1>1 DEF SemInv, CountsAndMarks
<1>. QED BY <1>3, <1>4, <1>5, <1>6 DEF SemInv, WaitersServed

\* LOS_SemPost wakes the first waiter, or adds to a count below its maximum.
LEMMA SemPostInv ==
    ASSUME SemInv, WaitInv', NEW h \in Handle, OsSemPostUnsafe(h)
    PROVE  SemInv'
<1> DEFINE s == h[1]
<1>1. /\ s \in Sem /\ semCount[s] < maxSemCount[s]
      /\ semCount[s] \in 0..SemCountMax /\ maxSemCount[s] \in 0..SemCountMax
      /\ semCount' = [semCount EXCEPT ![s] = Posted(s)]
      /\ UNCHANGED <<semStat, semID, maxSemCount, unusedSemList, creating, stale>>
  BY SemConstants
     DEF SemInv, SemTypeOK, CountsAndMarks, OsSemPostUnsafe, Handle, AtMax
<1>2. Posted(s) \in 0..SemCountMax /\ Posted(s) <= maxSemCount[s]
  BY <1>1, SemConstants DEF Posted
<1>3. SemTypeOK' /\ BlockOwnedOnce'
  BY <1>1, <1>2 DEF SemInv, SemTypeOK, BlockOwnedOnce, OsSemPostUnsafe
<1>4. CASE ~Waiting(s)
  <2>1. UNCHANGED waitVars /\ \A u \in Task : ~WaitsOn(u, s)
    BY <1>1, <1>4, ListOfWaiters DEF SemInv, OsSemPostUnsafe, Waiting
  <2>2. \A u \in Task, r \in Sem : WaitsOn(u, r)' <=> WaitsOn(u, r)
    BY <2>1 DEF waitVars, WaitsOn, Has
  <2>3. WaitersServed'
    BY <1>1, <2>1, <2>2 DEF SemInv, SemTypeOK, WaitersServed
  <2>4. CountsAndMarks'
    BY <1>1, <1>2, <2>1 DEF SemInv, SemTypeOK, CountsAndMarks, waitVars
  <2>. QED BY <1>3, <2>3, <2>4 DEF SemInv
<1>5. CASE Waiting(s)
  <2> DEFINE t == Head(pendList[s])
  <2>1. t \in Task /\ WaitsOn(t, s) /\ HPFWake(t) /\ semCount' = semCount
    BY <1>1, <1>5, ListOfWaiters
       DEF SemInv, SemTypeOK, OsSemPostUnsafe, Waiting, Posted
  <2>. HIDE DEF t
  <2>2. waitOn' = waitOn /\ \A u \in Task : Has(u, "PENDING")' => Has(u, "PENDING")
    BY <2>1 DEF SemInv, WaitInv, WaitTypeOK, HPFWake, Enqueued, Has
  <2>3. WaitersServed' /\ CountsAndMarks'
    BY <1>1, <2>1, <2>2 DEF SemInv, WaitersServed, CountsAndMarks, WaitsOn
  <2>. QED BY <1>3, <2>3 DEF SemInv
<1>. QED BY <1>4, <1>5

\* Every step preserves the invariant.
LEMMA SemInvNext == SemInv /\ [Next]_vars => SemInv'
<1> SUFFICES ASSUME SemInv, [Next]_vars PROVE SemInv'
  OBVIOUS
<1>0. WaitInv'
  BY SemStepIsWaitStep, WaitInvNext DEF SemInv
<1>1. CASE SchedNext /\ UNCHANGED semVars
  BY <1>0, <1>1, SchedKeeps, SemaphoresKept DEF SemInv
<1>2. ASSUME NEW t \in Task, TaskDelay(t) PROVE SemInv'
  <2>1. \A u \in Task : (Has(u, "PENDING")' => Has(u, "PENDING")) /\ waitOn'[u] = waitOn[u]
    BY <1>2 DEF SemInv, WaitInv, WaitTypeOK, TaskDelay, HPFDelay, Has
  <2>. QED BY <1>0, <1>2, <2>1, SemaphoresKept DEF TaskDelay
<1>3. ASSUME NEW t \in Task, TaskCreate(t), UNCHANGED semVars PROVE SemInv'
  <2>1. \A u \in Task : (Has(u, "PENDING")' => Has(u, "PENDING")) /\ waitOn'[u] = waitOn[u]
    BY <1>3 DEF SemInv, WaitInv, WaitTypeOK, TaskCreate, Has
  <2>. QED BY <1>0, <1>3, <2>1, SemaphoresKept
<1>4. ASSUME NEW t \in Task, SemPendReturn(t) PROVE SemInv'
  <2>1. /\ waitOn[t] # None /\ waitOn' = [waitOn EXCEPT ![t] = None]
        /\ \A u \in Task \ {t} : taskStatus'[u] = taskStatus[u]
    BY <1>4 DEF SemInv, WaitInv, WaitTypeOK, SemPendReturn, HPFWaitReturn, Resumes
  <2>2. Handed(t, WaitResult(t) = "LOS_OK")
    BY <1>4 DEF SemPendReturn
  <2>. QED BY <1>0, <1>4, <2>1, <2>2, SemLeaveInv DEF SemPendReturn
<1>5. ASSUME NEW t \in Task, TaskDelete(t) PROVE SemInv'
  <2>1. /\ waitOn' = [waitOn EXCEPT ![t] = None]
        /\ \A u \in Task \ {t} : taskStatus'[u] = taskStatus[u]
    BY <1>5 DEF SemInv, WaitInv, WaitTypeOK, TaskDelete, TaskExit
  <2>2. Handed(t, waitOn[t] # None /\ woken[t]) /\ woken[t] \in BOOLEAN
    BY <1>5 DEF TaskDelete, SemInv, WaitInv, WaitTypeOK
  <2>. QED BY <1>0, <1>5, <2>1, <2>2, SemLeaveInv DEF TaskDelete
<1>6. CASE UNCHANGED vars
  BY <1>0, <1>6, SemaphoresKept DEF vars, waitVars, Has
<1>. QED BY <1>0, <1>1, <1>2, <1>3, <1>4, <1>5, <1>6, SemCreateTakeInv, SemCreateFillInv,
        SemDeleteInv, SemPendNowInv, SemPendWaitInv, SemPostInv DEF Next

\* What the invariant says of the lists.
LEMMA ServedLists == SemInv => NoLostWakeup /\ WaitersKeepTheirSem
<1> SUFFICES ASSUME SemInv, NEW s \in Sem
             PROVE  /\ semCount[s] > 0 => pendList[s] = <<>>
                    /\ \A i \in 1..Len(pendList[s]) :
                          semStat[s] = "USED" /\ ~stale[pendList[s][i]]
  BY DEF NoLostWakeup, WaitersKeepTheirSem
<1>1. semCount[s] > 0 => pendList[s] = <<>>
  BY ListOfWaiters DEF SemInv, WaitersServed
<1>2. ASSUME NEW i \in 1..Len(pendList[s])
      PROVE  semStat[s] = "USED" /\ ~stale[pendList[s][i]]
  <2>1. pendList[s][i] \in Task /\ WaitsOn(pendList[s][i], s)
    BY DEF SemInv, WaitInv, WaitTypeOK, PendListConsistent, Contains, WaitsOn, Sem
  <2>. QED BY <2>1 DEF SemInv, WaitersServed
<1>. QED BY <1>1, <1>2

(***************************************************************************)
(* The state of los_sem.c keeps its types; in particular semCount never    *)
(* passes the maximum, whatever LOS_SemPost and LOS_SemPend do.            *)
(***************************************************************************)
THEOREM SemTypeCorrect == Spec => []TypeOK
<1>1. SemInv => TypeOK
  BY DEF SemInv, WaitInv, TypeOK
<1>. QED BY <1>1, SemInvInit, SemInvNext, PTL DEF Spec

(***************************************************************************)
(* No wakeup is lost: LOS_SemPost never leaves a permit in the count while *)
(* a task is on the list.                                                  *)
(***************************************************************************)
THEOREM NoLostWakeupCorrect == Spec => []NoLostWakeup
BY ServedLists, SemInvInit, SemInvNext, PTL DEF Spec

(***************************************************************************)
(* LOS_SemDelete and OsSemCreate never take a semaphore from under a task  *)
(* that waits on it.                                                       *)
(***************************************************************************)
THEOREM WaitersKeepTheirSemCorrect == Spec => []WaitersKeepTheirSem
BY ServedLists, SemInvInit, SemInvNext, PTL DEF Spec

(***************************************************************************)
(* No control block is in two places, although OsSemCreate fills a block   *)
(* in after it has released the scheduler lock.                            *)
(***************************************************************************)
THEOREM BlockOwnedOnceCorrect == Spec => []BlockOwnedOnce
<1>1. SemInv => BlockOwnedOnce
  BY DEF SemInv
<1>. QED BY <1>1, SemInvInit, SemInvNext, PTL DEF Spec

-----------------------------------------------------------------------------
(* Conservation of permits, when suspension does not freeze timed waits.    *)

\* Whoever is still inside LOS_SemPend on a block that is not in use was woken or
\* timed out before the semaphore was deleted.
LeftoversStale ==
    \A t \in Task, s \in Sem : (semStat[s] = "UNUSED" /\ waitOn[t] = s) => stale[t] = TRUE

PermitInv == AnswerInv /\ PermitsConserved /\ LeftoversStale

\* The set of permits on their way is finite.
LEMMA InFlightFinite ==
    ASSUME NEW s \in Sem
    PROVE  IsFiniteSet(InFlight(s)) /\ Cardinality(InFlight(s)) \in Nat
<1>1. InFlight(s) \in SUBSET Task
  BY DEF InFlight
<1>2. IsFiniteSet(InFlight(s))
  BY <1>1, FS_Subset, SemConstants
<1>. QED BY <1>2, FS_CardinalityType

\* A step that moves no permit.
LEMMA PermitsKept ==
    ASSUME SemInv, PermitInv, AnswerInv',
           UNCHANGED <<semStat, semCount, credit, stale>>,
           \A t \in Task, s \in Sem :
               /\ (waitOn'[t] = s /\ woken'[t] = TRUE) <=> (waitOn[t] = s /\ woken[t] = TRUE)
               /\ waitOn'[t] = s => waitOn[t] = s \/ semStat[s] = "USED",
           WaitInv'
    PROVE  PermitInv'
<1>1. ASSUME NEW s \in Sem PROVE InFlight(s)' = InFlight(s)
  BY DEF InFlight, SemInv, WaitInv, WaitTypeOK
<1>2. PermitsConserved'
  BY <1>1 DEF PermitInv, PermitsConserved
<1>3. LeftoversStale'
  BY DEF PermitInv, LeftoversStale
<1>. QED BY <1>2, <1>3 DEF PermitInv

\* A task leaves LOS_SemPend and takes with it the permit it was handed, if any.
LEMMA PermitLeaves ==
    ASSUME SemInv, PermitInv, AnswerInv', NEW t \in Task,
           NEW taken \in BOOLEAN, Handed(t, taken),
           taken = TRUE <=> waitOn[t] # None /\ woken[t] = TRUE,
           waitOn' = [waitOn EXCEPT ![t] = None],
           woken' = [woken EXCEPT ![t] = FALSE],
           stale' = [stale EXCEPT ![t] = FALSE],
           UNCHANGED <<semStat, semCount>>
    PROVE  PermitInv'
<1>0. /\ waitOn \in [Task -> Sem \cup {None}] /\ stale \in [Task -> BOOLEAN]
      /\ woken \in [Task -> BOOLEAN] /\ credit \in [Sem -> Int] /\ None \notin Sem
      /\ semCount \in [Sem -> 0..SemCountMax] /\ SemCountMax \in Nat
  BY WaitConstants, SemConstants DEF SemInv, WaitInv, WaitTypeOK, SemTypeOK, Sem
<1>1. ASSUME NEW s \in Sem PROVE InFlight(s)' = InFlight(s) \ {t}
  BY <1>0 DEF InFlight
<1>2. ASSUME NEW s \in Sem PROVE t \in InFlight(s) <=> (taken /\ ~stale[t] /\ waitOn[t] = s)
  BY <1>0 DEF InFlight
<1>3. ASSUME NEW s \in Sem, semStat[s] = "USED"
      PROVE  semCount[s] + Cardinality(InFlight(s)') = credit'[s]
  <2>1. semCount[s] + Cardinality(InFlight(s)) = credit[s]
    BY <1>3 DEF PermitInv, PermitsConserved
  <2>2. Cardinality(InFlight(s) \ {t}) = IF t \in InFlight(s) THEN Cardinality(InFlight(s)) - 1
                                         ELSE Cardinality(InFlight(s))
    BY InFlightFinite, FS_RemoveElement
  <2>3. Cardinality(InFlight(s)) \in Nat /\ semCount[s] \in Nat
    BY <1>0, InFlightFinite
  <2>4. CASE t \in InFlight(s)
    <3>1. credit'[s] = credit[s] - 1
      BY <1>0, <1>2, <2>4 DEF Handed
    <3>2. Cardinality(InFlight(s)') = Cardinality(InFlight(s)) - 1
      BY <1>1, <2>2, <2>4
    <3>. QED BY <1>0, <2>1, <2>3, <3>1, <3>2
  <2>5. CASE t \notin InFlight(s)
    <3>1. credit'[s] = credit[s]
      BY <1>0, <1>2, <2>5 DEF Handed
    <3>. QED BY <1>1, <2>1, <2>2, <2>5, <3>1
  <2>. QED BY <2>4, <2>5
<1>4. LeftoversStale'
  BY <1>0 DEF PermitInv, LeftoversStale
<1>. QED BY <1>3, <1>4 DEF PermitInv, PermitsConserved

\* LOS_SemPost: the permit goes to the first waiter or into the count.
LEMMA PermitPosted ==
    ASSUME SemInv, PermitInv, AnswerInv', NEW h \in Handle, OsSemPostUnsafe(h)
    PROVE  PermitInv'
<1> DEFINE s == h[1]
<1>0. /\ s \in Sem /\ semStat[s] = "USED" /\ stale' = stale /\ semStat' = semStat
      /\ credit' = [credit EXCEPT ![s] = @ + 1]
      /\ semCount' = [semCount EXCEPT ![s] = Posted(s)]
      /\ credit \in [Sem -> Int] /\ semCount \in [Sem -> 0..SemCountMax]
      /\ woken \in [Task -> BOOLEAN] /\ stale \in [Task -> BOOLEAN]
  BY DEF SemInv, WaitInv, WaitTypeOK, SemTypeOK, OsSemPostUnsafe, Handle, Valid
<1>1. \A r \in Sem : Cardinality(InFlight(r)) \in Nat /\ semCount[r] \in Nat
  BY <1>0, InFlightFinite, SemConstants
<1>2. CASE ~Waiting(s)
  <2>1. UNCHANGED waitVars /\ Posted(s) = semCount[s] + 1
    BY <1>2 DEF OsSemPostUnsafe, Posted
  <2>2. \A r \in Sem : InFlight(r)' = InFlight(r)
    BY <1>0, <2>1 DEF InFlight, waitVars
  <2>3. PermitsConserved'
    BY <1>0, <1>1, <2>1, <2>2 DEF PermitInv, PermitsConserved
  <2>4. LeftoversStale'
    BY <1>0, <2>1 DEF PermitInv, LeftoversStale, waitVars
  <2>. QED BY <2>3, <2>4 DEF PermitInv
<1>3. CASE Waiting(s)
  <2> DEFINE t == Head(pendList[s])
  <2>1. t \in Task /\ WaitsOn(t, s) /\ HPFWake(t) /\ semCount' = semCount
    BY <1>0, <1>3, ListOfWaiters DEF SemInv, OsSemPostUnsafe, Waiting, Posted
  <2>. HIDE DEF t
  <2>2. /\ waitOn' = waitOn /\ woken' = [woken EXCEPT ![t] = TRUE]
        /\ waitOn[t] = s /\ woken[t] = FALSE /\ stale[t] = FALSE
    BY <1>0, <2>1
       DEF HPFWake, WaitsOn, SemInv, WaitersServed, PermitInv, AnswerInv, SoundAnswer, Has
  <2>3. InFlight(s)' = InFlight(s) \cup {t} /\ t \notin InFlight(s)
    BY <1>0, <2>1, <2>2 DEF InFlight
  <2>4. \A r \in Sem \ {s} : InFlight(r)' = InFlight(r)
    BY <1>0, <2>1, <2>2 DEF InFlight
  <2>5. Cardinality(InFlight(s)') = Cardinality(InFlight(s)) + 1
    BY <1>0, <2>3, InFlightFinite, FS_AddElement
  <2>6. PermitsConserved'
    BY <1>0, <1>1, <2>1, <2>4, <2>5 DEF PermitInv, PermitsConserved
  <2>7. LeftoversStale'
    BY <1>0, <2>2 DEF PermitInv, LeftoversStale
  <2>. QED BY <2>6, <2>7 DEF PermitInv
<1>. QED BY <1>2, <1>3

\* OsSemCreate and LOS_SemDelete: nothing is on its way to a block not in use.
LEMMA PermitsCreatedDeleted ==
    ASSUME SemInv, PermitInv, AnswerInv',
           \/ \E t \in Task : \E max \in {1, SemCountMax} : \E count \in 0..max :
                 OsSemCreateFill(t, count, max)
           \/ \E h \in Handle : LOS_SemDelete(h)
    PROVE  PermitInv'
<1>0. /\ credit \in [Sem -> Int] /\ semCount \in [Sem -> 0..SemCountMax]
      /\ semStat \in [Sem -> {"USED", "UNUSED"}] /\ waitOn \in [Task -> Sem \cup {None}]
      /\ stale \in [Task -> BOOLEAN]
  BY DEF SemInv, WaitInv, WaitTypeOK, SemTypeOK, Sem
<1>1. ASSUME NEW t \in Task, NEW max \in {1, SemCountMax}, NEW count \in 0..max,
             OsSemCreateFill(t, count, max)
      PROVE  PermitInv'
  <2>0. count \in Nat
    BY SemConstants
  <2>1. PICK s \in Sem : s = creating[t] /\ semStat[s] = "UNUSED"
    BY <1>1 DEF SemInv, SemTypeOK, BlockOwnedOnce, OsSemCreateFill
  <2>2. \A r \in Sem : InFlight(r)' = InFlight(r)
    BY <1>1 DEF InFlight, OsSemCreateFill, waitVars
  <2>3. InFlight(s) = {} /\ Cardinality(InFlight(s)) = 0
    BY <2>1, FS_EmptySet DEF InFlight, PermitInv, LeftoversStale
  <2>4. ASSUME NEW r \in Sem, semStat'[r] = "USED"
        PROVE  semCount'[r] + Cardinality(InFlight(r)') = credit'[r]
    <3>1. CASE r = s
      <4>1. semCount'[s] = count /\ credit'[s] = count /\ Cardinality(InFlight(s)') = 0
        BY <1>0, <1>1, <2>1, <2>2, <2>3 DEF OsSemCreateFill
      <4>. QED BY <2>0, <3>1, <4>1
    <3>2. CASE r # s
      BY <1>0, <1>1, <2>1, <2>2, <2>4, <3>2 DEF OsSemCreateFill, PermitInv, PermitsConserved
    <3>. QED BY <3>1, <3>2
  <2>5. LeftoversStale'
    BY <1>0, <1>1, <2>1 DEF OsSemCreateFill, PermitInv, LeftoversStale, waitVars
  <2>. QED BY <2>4, <2>5 DEF PermitInv, PermitsConserved
<1>2. ASSUME NEW h \in Handle, LOS_SemDelete(h) PROVE PermitInv'
  <2> DEFINE s == h[1]
  <2>1. /\ s \in Sem /\ UNCHANGED <<waitOn, woken, semCount, credit>>
        /\ semStat' = [semStat EXCEPT ![s] = "UNUSED"]
        /\ stale' = [t \in Task |-> stale[t] \/ waitOn[t] = s]
    BY <1>2 DEF LOS_SemDelete, Handle, waitVars
  <2>2. ASSUME NEW r \in Sem \ {s} PROVE InFlight(r)' = InFlight(r)
    <3>1. ASSUME NEW t \in Task, waitOn[t] = r PROVE stale'[t] <=> stale[t]
      BY <2>1, <3>1
    <3>. QED BY <2>1, <3>1 DEF InFlight
  <2>3. PermitsConserved'
    BY <1>0, <2>1, <2>2 DEF PermitInv, PermitsConserved
  <2>4. LeftoversStale'
    <3>1. ASSUME NEW t \in Task, NEW r \in Sem, semStat'[r] = "UNUSED", waitOn[t] = r
          PROVE  stale'[t] = TRUE
      <4>1. r # s => stale[t] = TRUE
        BY <1>0, <2>1, <3>1 DEF PermitInv, LeftoversStale
      <4>. QED BY <2>1, <3>1, <4>1
    <3>. QED BY <2>1, <3>1 DEF LeftoversStale
  <2>. QED BY <2>3, <2>4 DEF PermitInv
<1>. QED BY <1>1, <1>2

\* Every step conserves the permits.
LEMMA PermitInvNext ==
    ASSUME FreezeOnSuspend = FALSE, SemInv, PermitInv, [Next]_vars
    PROVE  PermitInv'
<1>0. WaitInv' /\ AnswerInv'
  BY SemStepIsWaitStep, WaitInvNext, AnswerInvNext DEF SemInv, PermitInv
<1>t. /\ waitOn \in [Task -> Sem \cup {None}] /\ woken \in [Task -> BOOLEAN]
      /\ semCount \in [Sem -> 0..SemCountMax] /\ SemCountMax \in Nat
      /\ credit \in [Sem -> Int] /\ None \notin Sem
  BY WaitConstants, SemConstants DEF SemInv, WaitInv, WaitTypeOK, SemTypeOK, Sem
<1>1. CASE SchedNext /\ UNCHANGED semVars
  BY <1>0, <1>1, SchedKeeps, PermitsKept DEF SemInv, semVars
<1>2. ASSUME NEW t \in Task, OsSemCreateTake(t) \/ TaskDelay(t)
                                 \/ (TaskCreate(t) /\ UNCHANGED semVars)
      PROVE  PermitInv'
  <2>1. UNCHANGED <<waitOn, woken, semStat, semCount, credit, stale>>
    BY <1>2 DEF OsSemCreateTake, TaskDelay, HPFDelay, TaskCreate, semVars, waitVars
  <2>. QED BY <1>0, <2>1, PermitsKept
<1>3. ASSUME NEW t \in Task, NEW h \in Handle, SemPendNow(t, h) PROVE PermitInv'
  <2>1. h[1] \in Sem /\ semCount[h[1]] > 0
    BY <1>3 DEF SemPendNow, Handle
  <2>2. \A s \in Sem : InFlight(s)' = InFlight(s) /\ Cardinality(InFlight(s)) \in Nat
    BY <1>3, InFlightFinite DEF SemPendNow, waitVars, InFlight
  <2>a. /\ semStat' = semStat
        /\ semCount' = [semCount EXCEPT ![h[1]] = @ - 1]
        /\ credit' = [credit EXCEPT ![h[1]] = @ - 1]
    BY <1>3 DEF SemPendNow
  <2>3. ASSUME NEW s \in Sem, semStat'[s] = "USED"
        PROVE  semCount'[s] + Cardinality(InFlight(s)') = credit'[s]
    <3>1. semCount[s] + Cardinality(InFlight(s)) = credit[s]
      BY <2>3, <2>a DEF PermitInv, PermitsConserved
    <3>2. InFlight(s)' = InFlight(s) /\ Cardinality(InFlight(s)) \in Nat
      BY <2>2
    <3>. QED BY <1>t, <2>1, <2>a, <3>1, <3>2
  <2>b. PermitsConserved'
    BY <2>3, Zenon DEF PermitsConserved
  <2>4. LeftoversStale'
    BY <1>3 DEF SemPendNow, waitVars, PermitInv, LeftoversStale
  <2>. QED BY <1>0, <2>b, <2>4 DEF PermitInv
<1>4. ASSUME NEW t \in Task, NEW h \in Handle, NEW timed \in BOOLEAN,
             SemPendWait(t, h, timed)
      PROVE  PermitInv'
  <2>1. /\ h[1] \in Sem /\ semStat[h[1]] = "USED" /\ waitOn[t] = None
        /\ waitOn' = [waitOn EXCEPT ![t] = h[1]] /\ woken' = [woken EXCEPT ![t] = FALSE]
        /\ UNCHANGED <<semStat, semCount, credit, stale>>
    BY <1>4 DEF SemPendWait, HPFWait, Handle, Valid, Idle, Running, semVars
  <2>. QED BY <1>0, <1>t, <2>1, PermitsKept
<1>5. ASSUME NEW t \in Task, SemPendReturn(t) PROVE PermitInv'
  <2>1. /\ waitOn[t] # None /\ Has(t, "PENDING") = FALSE
        /\ waitOn' = [waitOn EXCEPT ![t] = None] /\ woken' = [woken EXCEPT ![t] = FALSE]
    BY <1>5 DEF SemPendReturn, HPFWaitReturn, Resumes, SemInv, WaitInv, ReadyOrBlocked, Has
  <2>2. WaitResult(t) = "LOS_OK" <=> woken[t] = TRUE
    BY <1>t, <2>1 DEF PermitInv, AnswerInv, SoundAnswer, WaitResult, Has
  <2>. QED BY <1>0, <1>5, <2>1, <2>2, PermitLeaves DEF SemPendReturn
<1>6. ASSUME NEW t \in Task, TaskDelete(t) PROVE PermitInv'
  <2>1. Handed(t, waitOn[t] # None /\ woken[t]) /\ woken[t] \in BOOLEAN
    BY <1>6, <1>t DEF TaskDelete
  <2>. QED BY <1>0, <1>6, <2>1, PermitLeaves DEF TaskDelete, TaskExit
<1>7. CASE UNCHANGED vars
  BY <1>0, <1>7, PermitsKept DEF vars, semVars, waitVars
<1>. QED BY <1>0, <1>1, <1>2, <1>3, <1>4, <1>5, <1>6, <1>7, PermitPosted,
        PermitsCreatedDeleted DEF Next

(***************************************************************************)
(* Permits are conserved: LOS_SemPend answers LOS_OK as often as permits   *)
(* were created or posted, however posts, timeouts, suspensions and        *)
(* deletions interleave, as long as suspension does not freeze timed       *)
(* waits.                                                                  *)
(***************************************************************************)
THEOREM PermitsConservedCorrect ==
    ASSUME FreezeOnSuspend = FALSE
    PROVE  Spec => []PermitsConserved
<1>1. Init => PermitInv
  BY WaitConstants DEF Init, WaitInit, OsSemInit, PermitInv, AnswerInv, SoundAnswer,
     PermitsConserved, LeftoversStale, Sem
<1>2. SemInv /\ PermitInv /\ [Next]_vars => PermitInv'
  BY PermitInvNext
<1>3. PermitInv => PermitsConserved
  BY DEF PermitInv
<1>. QED BY <1>1, <1>2, <1>3, SemInvInit, SemInvNext, PTL DEF Spec
=============================================================================
