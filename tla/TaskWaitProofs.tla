--------------------------- MODULE TaskWaitProofs ---------------------------
(***************************************************************************)
(* Proofs about the blocking layer, for any tasks, wait lists and cores.   *)
(***************************************************************************)
EXTENDS TaskWait, SequenceTheorems, TLAPS

-----------------------------------------------------------------------------
(* What unlinking from and inserting into a duplicate-free list does.       *)

\* RemoveAt drops one element and keeps the others in order.
LEMMA RemoveAtProperties ==
    ASSUME NEW S, NEW s \in Seq(S), NEW i \in 1..Len(s)
    PROVE  /\ RemoveAt(s, i) \in Seq(S)
           /\ Len(RemoveAt(s, i)) = Len(s) - 1
           /\ \A j \in 1..(Len(s) - 1) :
                 RemoveAt(s, i)[j] = IF j < i THEN s[j] ELSE s[j + 1]
<1> DEFINE a == SubSeq(s, 1, i - 1)
           b == SubSeq(s, i + 1, Len(s))
<1>1. a \in Seq(S) /\ Len(a) = i - 1 /\ \A j \in 1..(i - 1) : a[j] = s[j]
  BY SubSeqProperties
<1>2. /\ b \in Seq(S) /\ Len(b) = Len(s) - i
      /\ \A j \in 1..(Len(s) - i) : b[j] = s[i + j]
  BY SubSeqProperties
<1>. HIDE DEF a, b
<1>3. /\ a \o b \in Seq(S) /\ Len(a \o b) = Len(a) + Len(b)
      /\ \A j \in 1..(Len(a) + Len(b)) :
            (a \o b)[j] = IF j <= Len(a) THEN a[j] ELSE b[j - Len(a)]
  BY <1>1, <1>2, ConcatProperties
<1>4. RemoveAt(s, i) = a \o b
  BY DEF RemoveAt, a, b
<1>5. ASSUME NEW j \in 1..(Len(s) - 1)
      PROVE  (a \o b)[j] = IF j < i THEN s[j] ELSE s[j + 1]
  <2>1. CASE j < i
    BY <2>1, <1>1, <1>2, <1>3
  <2>2. CASE ~(j < i)
    <3>1. (a \o b)[j] = b[j - (i - 1)]
      BY <2>2, <1>1, <1>2, <1>3
    <3>2. j - (i - 1) \in 1..(Len(s) - i) /\ i + (j - (i - 1)) = j + 1
      BY <2>2
    <3>. QED BY <2>2, <3>1, <3>2, <1>2
  <2>. QED BY <2>1, <2>2
<1>6. a \o b \in Seq(S) /\ Len(a \o b) = Len(s) - 1
  BY <1>1, <1>2, <1>3
<1>. QED BY <1>4, <1>5, <1>6

\* Injectivity of a sequence, in terms of its positions.
LEMMA InjectiveSeq ==
    ASSUME NEW S, NEW s \in Seq(S)
    PROVE  IsInjective(s) <=> \A i, j \in 1..Len(s) : s[i] = s[j] => i = j
BY DOMAIN s = 1..Len(s) DEF IsInjective

\* In a list without duplicates, unlinking an element is RemoveAt its position.
LEMMA RemoveFirstIsRemoveAt ==
    ASSUME NEW S, NEW s \in Seq(S), NEW t \in S, IsInjective(s),
           NEW i \in 1..Len(s), s[i] = t
    PROVE  RemoveFirst(s, t) = RemoveAt(s, i)
<1>1. {j \in 1..Len(s) : s[j] = t} = {i}
  BY DEF IsInjective
<1>2. Min({i}) = i
  BY DEF Min
<1>. QED BY <1>1, <1>2 DEF RemoveFirst, SelectInSeq

\* Unlinking removes exactly the element named, and keeps the list duplicate-free.
LEMMA RemoveFirstProperties ==
    ASSUME NEW S, NEW s \in Seq(S), NEW t \in S, IsInjective(s)
    PROVE  /\ RemoveFirst(s, t) \in Seq(S)
           /\ IsInjective(RemoveFirst(s, t))
           /\ \A u \in S : Contains(RemoveFirst(s, t), u) <=> Contains(s, u) /\ u # t
<1>1. CASE Contains(s, t)
  <2>1. PICK i \in 1..Len(s) : s[i] = t
    BY <1>1 DEF Contains
  <2> DEFINE r == RemoveAt(s, i)
  <2>2. RemoveFirst(s, t) = r
    BY <2>1, RemoveFirstIsRemoveAt
  <2>3. /\ r \in Seq(S) /\ Len(r) = Len(s) - 1
        /\ \A j \in 1..(Len(s) - 1) : r[j] = IF j < i THEN s[j] ELSE s[j + 1]
    BY RemoveAtProperties
  <2>. HIDE DEF r
  <2>i. \A j, k \in 1..Len(s) : s[j] = s[k] => j = k
    BY InjectiveSeq
  <2>4. IsInjective(r)
    <3>1. SUFFICES ASSUME NEW j \in 1..(Len(s) - 1), NEW k \in 1..(Len(s) - 1),
                          r[j] = r[k]
                   PROVE  j = k
      BY <2>3, InjectiveSeq
    <3> DEFINE At(n) == IF n < i THEN n ELSE n + 1
    <3>2. r[j] = s[At(j)] /\ r[k] = s[At(k)]
      BY <2>3
    <3>3. At(j) \in 1..Len(s) /\ At(k) \in 1..Len(s)
      OBVIOUS
    <3>4. At(j) = At(k)
      BY <2>i, <3>1, <3>2, <3>3
    <3>. QED BY <3>4
  <2>5. ASSUME NEW u \in S, Contains(r, u)
        PROVE  Contains(s, u) /\ u # t
    <3>1. PICK j \in 1..(Len(s) - 1) : r[j] = u
      BY <2>3, <2>5 DEF Contains
    <3>2. CASE j < i
      BY <2>1, <2>3, <2>i, <3>1, <3>2 DEF Contains
    <3>3. CASE ~(j < i)
      <4>1. j + 1 \in 1..Len(s) /\ j + 1 # i /\ s[j + 1] = u
        BY <2>3, <3>1, <3>3
      <4>. QED BY <2>1, <2>i, <4>1 DEF Contains
    <3>. QED BY <3>2, <3>3
  <2>6. ASSUME NEW u \in S, Contains(s, u), u # t
        PROVE  Contains(r, u)
    <3>1. PICK j \in 1..Len(s) : s[j] = u
      BY <2>6 DEF Contains
    <3>2. CASE j < i
      BY <2>3, <3>1, <3>2 DEF Contains
    <3>3. CASE j > i
      <4>1. j - 1 \in 1..(Len(s) - 1) /\ r[j - 1] = u
        BY <2>3, <3>1, <3>3
      <4>. QED BY <2>3, <4>1 DEF Contains
    <3>. QED BY <2>1, <2>6, <3>1, <3>2, <3>3
  <2>. QED BY <2>2, <2>3, <2>4, <2>5, <2>6
<1>2. CASE ~Contains(s, t)
  <2>1. RemoveFirst(s, t) = s
    BY <1>2 DEF RemoveFirst, Contains
  <2>. QED BY <1>2, <2>1
<1>. QED BY <1>1, <1>2

\* InsertAt adds one element and keeps the others in order.
LEMMA InsertAtProperties ==
    ASSUME NEW S, NEW s \in Seq(S), NEW i \in 1..(Len(s) + 1), NEW t \in S
    PROVE  /\ InsertAt(s, i, t) \in Seq(S)
           /\ Len(InsertAt(s, i, t)) = Len(s) + 1
           /\ \A j \in 1..(Len(s) + 1) :
                 InsertAt(s, i, t)[j] =
                     IF j < i THEN s[j] ELSE IF j = i THEN t ELSE s[j - 1]
<1> DEFINE a == SubSeq(s, 1, i - 1)
           b == SubSeq(s, i, Len(s))
           c == a \o <<t>>
<1>1. a \in Seq(S) /\ Len(a) = i - 1 /\ \A j \in 1..(i - 1) : a[j] = s[j]
  BY SubSeqProperties
<1>2. /\ b \in Seq(S) /\ Len(b) = Len(s) - i + 1
      /\ \A j \in 1..(Len(s) - i + 1) : b[j] = s[i + j - 1]
  BY SubSeqProperties
<1>. HIDE DEF a, b
<1>3. /\ c \in Seq(S) /\ Len(c) = i /\ c[i] = t
      /\ \A j \in 1..(i - 1) : c[j] = a[j]
  BY <1>1, ConcatProperties
<1>. HIDE DEF c
<1>4. /\ c \o b \in Seq(S) /\ Len(c \o b) = Len(c) + Len(b)
      /\ \A j \in 1..(Len(c) + Len(b)) :
            (c \o b)[j] = IF j <= Len(c) THEN c[j] ELSE b[j - Len(c)]
  BY <1>2, <1>3, ConcatProperties
<1>5. InsertAt(s, i, t) = c \o b
  BY DEF InsertAt, a, b, c
<1>. QED BY <1>1, <1>2, <1>3, <1>4, <1>5

\* Inserting a new element adds exactly that one and makes no duplicate.
LEMMA InsertAtMembers ==
    ASSUME NEW S, NEW s \in Seq(S), NEW i \in 1..(Len(s) + 1), NEW t \in S,
           IsInjective(s), ~Contains(s, t)
    PROVE  /\ IsInjective(InsertAt(s, i, t))
           /\ \A u \in S : Contains(InsertAt(s, i, t), u) <=> Contains(s, u) \/ u = t
<1> DEFINE r == InsertAt(s, i, t)
<1>1. /\ r \in Seq(S) /\ Len(r) = Len(s) + 1
      /\ \A j \in 1..(Len(s) + 1) :
            r[j] = IF j < i THEN s[j] ELSE IF j = i THEN t ELSE s[j - 1]
  BY InsertAtProperties
<1>. HIDE DEF r
<1>i. \A j, k \in 1..Len(s) : s[j] = s[k] => j = k
  BY InjectiveSeq
<1>n. \A j \in 1..Len(s) : s[j] # t
  BY DEF Contains
<1>2. IsInjective(r)
  <2>1. SUFFICES ASSUME NEW j \in 1..(Len(s) + 1), NEW k \in 1..(Len(s) + 1),
                        r[j] = r[k]
                 PROVE  j = k
    BY <1>1, InjectiveSeq
  <2> DEFINE At(n) == IF n < i THEN n ELSE n - 1
  <2>2. ASSUME NEW n \in 1..(Len(s) + 1), n # i
        PROVE  r[n] = s[At(n)] /\ At(n) \in 1..Len(s) /\ r[n] # t
    <3>1. At(n) \in 1..Len(s)
      BY <2>2
    <3>2. r[n] = s[At(n)]
      BY <1>1, <2>2
    <3>. QED BY <1>n, <3>1, <3>2
  <2>3. r[i] = t
    BY <1>1
  <2>4. CASE j = i \/ k = i
    BY <2>1, <2>2, <2>3, <2>4
  <2>5. CASE j # i /\ k # i
    <3>1. At(j) = At(k)
      BY <1>i, <2>1, <2>2, <2>5
    <3>. QED BY <2>5, <3>1
  <2>. QED BY <2>4, <2>5
<1>3. ASSUME NEW u \in S, Contains(r, u)
      PROVE  Contains(s, u) \/ u = t
  <2>1. PICK j \in 1..(Len(s) + 1) : r[j] = u
    BY <1>1, <1>3 DEF Contains
  <2>. QED BY <1>1, <2>1 DEF Contains
<1>4. ASSUME NEW u \in S, Contains(s, u)
      PROVE  Contains(r, u)
  <2>1. PICK j \in 1..Len(s) : s[j] = u
    BY <1>4 DEF Contains
  <2>2. CASE j < i
    BY <1>1, <2>1, <2>2 DEF Contains
  <2>3. CASE ~(j < i)
    <3>1. j + 1 \in 1..(Len(s) + 1) /\ r[j + 1] = u
      BY <1>1, <2>1, <2>3
    <3>. QED BY <1>1, <3>1 DEF Contains
  <2>. QED BY <2>2, <2>3
<1>5. Contains(r, t)
  BY <1>1 DEF Contains
<1>. QED BY <1>2, <1>3, <1>4, <1>5 DEF r

-----------------------------------------------------------------------------
(* The inductive invariant behind the consistency of flags and lists.       *)

\* Flags that exclude or imply one another; not in the checked properties, but
\* needed: a timeout unlinks only because PEND_TIME implies being on a list, and
\* a delayed or deleted task must not be on one.
FlagsConsistent ==
    \A t \in Task :
        /\ Has(t, "PEND_TIME") => Has(t, "PENDING")
        /\ Has(t, "DELAY") => waitOn[t] = None
        /\ Has(t, "UNUSED") => taskStatus[t] = {"UNUSED"} /\ waitOn[t] = None

WaitInv == WaitTypeOK /\ PendListConsistent /\ ReadyOrBlocked /\ FlagsConsistent

\* A step that takes t off its list and clears PENDING keeps lists and flags in step.
LEMMA UnlinkStep ==
    ASSUME WaitTypeOK, PendListConsistent, NEW t \in Task,
           pendList' = Unlinked(t),
           ~Has(t, "PENDING")',
           \A u \in Task \ {t} : taskStatus'[u] = taskStatus[u] /\ waitOn'[u] = waitOn[u]
    PROVE  pendList' \in [WaitList -> Seq(Task)] /\ PendListConsistent'
<1>1. ASSUME NEW l \in WaitList
      PROVE  /\ pendList'[l] \in Seq(Task)
             /\ IsInjective(pendList'[l])
             /\ \A u \in Task : Contains(pendList'[l], u) <=>
                                  Contains(pendList[l], u) /\ u # t
  <2>1. pendList[l] \in Seq(Task) /\ IsInjective(pendList[l])
    BY DEF WaitTypeOK, PendListConsistent
  <2>2. pendList'[l] = RemoveFirst(pendList[l], t)
    BY DEF Unlinked
  <2>3. /\ RemoveFirst(pendList[l], t) \in Seq(Task)
        /\ IsInjective(RemoveFirst(pendList[l], t))
        /\ \A u \in Task : Contains(RemoveFirst(pendList[l], t), u) <=>
                             Contains(pendList[l], u) /\ u # t
    BY <2>1, RemoveFirstProperties
  <2>. QED BY <2>2, <2>3
<1>2. pendList' \in [WaitList -> Seq(Task)]
  BY <1>1 DEF Unlinked
<1>3. PendListConsistent'
  BY <1>1 DEF PendListConsistent, Has
<1>. QED BY <1>2, <1>3

\* A step that leaves the lists alone, and PENDING and the list waited on with them.
LEMMA ListsKept ==
    ASSUME WaitTypeOK, PendListConsistent, pendList' = pendList,
           \A u \in Task : /\ Has(u, "PENDING")' <=> Has(u, "PENDING")
                           /\ Has(u, "PENDING") => waitOn'[u] = waitOn[u]
    PROVE  pendList' \in [WaitList -> Seq(Task)] /\ PendListConsistent'
<1>1. ASSUME NEW u \in Task, NEW l \in WaitList
      PROVE  Contains(pendList'[l], u) <=> (Has(u, "PENDING")' /\ waitOn'[u] = l)
  BY DEF PendListConsistent
<1>2. \A u \in Task : Has(u, "PENDING")' => waitOn'[u] # None
  BY DEF PendListConsistent
<1>3. \A l \in WaitList : IsInjective(pendList'[l])
  BY DEF PendListConsistent
<1>. QED BY <1>1, <1>2, <1>3 DEF WaitTypeOK, PendListConsistent

\* A step that puts a running task on one list.
LEMMA InsertStep ==
    ASSUME WaitTypeOK, PendListConsistent, NEW t \in Task, NEW l \in WaitList,
           NEW pos \in 1..(Len(pendList[l]) + 1), ~Has(t, "PENDING"),
           pendList' = [pendList EXCEPT ![l] = InsertAt(@, pos, t)],
           Has(t, "PENDING")', waitOn'[t] = l,
           \A u \in Task \ {t} : taskStatus'[u] = taskStatus[u] /\ waitOn'[u] = waitOn[u]
    PROVE  pendList' \in [WaitList -> Seq(Task)] /\ PendListConsistent'
<1>1. pendList[l] \in Seq(Task) /\ IsInjective(pendList[l]) /\ ~Contains(pendList[l], t)
  BY DEF WaitTypeOK, PendListConsistent
<1>2. /\ pendList'[l] = InsertAt(pendList[l], pos, t)
      /\ \A m \in WaitList \ {l} : pendList'[m] = pendList[m]
  BY DEF WaitTypeOK
<1>3. pendList'[l] \in Seq(Task)
  BY <1>1, <1>2, InsertAtProperties
<1>4. /\ IsInjective(pendList'[l])
      /\ \A u \in Task : Contains(pendList'[l], u) <=> Contains(pendList[l], u) \/ u = t
  BY <1>1, <1>2, InsertAtMembers
<1>5. pendList' \in [WaitList -> Seq(Task)]
  BY <1>2, <1>3 DEF WaitTypeOK
<1>6. PendListConsistent'
  <2>1. ASSUME NEW u \in Task, NEW m \in WaitList
        PROVE  Contains(pendList'[m], u) <=> (Has(u, "PENDING")' /\ waitOn'[u] = m)
    <3>1. CASE m = l
      BY <1>4, <3>1 DEF PendListConsistent, Has
    <3>2. CASE m # l
      BY <1>2, <3>2 DEF PendListConsistent, Has
    <3>. QED BY <3>1, <3>2
  <2>2. \A u \in Task : Has(u, "PENDING")' => waitOn'[u] # None
    BY WaitConstants DEF PendListConsistent, Has
  <2>3. \A m \in WaitList : IsInjective(pendList'[m])
    BY <1>2, <1>4 DEF PendListConsistent
  <2>. QED BY <2>1, <2>2, <2>3 DEF PendListConsistent
<1>. QED BY <1>5, <1>6

\* Flags s and list w are a legal pair for a task.
LegalFlags(s, w) ==
    /\ s \in SUBSET Flag
    /\ "READY" \in s <=> s \cap {"PENDING", "DELAY", "SUSPENDED", "UNUSED"} = {}
    /\ "PEND_TIME" \in s => "PENDING" \in s
    /\ "DELAY" \in s => w = None
    /\ "UNUSED" \in s => s = {"UNUSED"} /\ w = None

\* The parts of the invariant that speak of one task at a time.
LEMMA LegalFlagsEquiv ==
    (taskStatus \in [Task -> SUBSET Flag] /\ ReadyOrBlocked /\ FlagsConsistent)
        <=> /\ taskStatus \in [Task -> SUBSET Flag]
            /\ \A t \in Task : LegalFlags(taskStatus[t], waitOn[t])
BY Zenon DEF ReadyOrBlocked, FlagsConsistent, LegalFlags, Has

\* A step that changes the flags and the list of one task, to a legal pair.
LEMMA LocalStep ==
    ASSUME WaitInv, NEW t \in Task, NEW s, NEW w,
           taskStatus' = [taskStatus EXCEPT ![t] = s],
           waitOn'[t] = w, \A u \in Task \ {t} : waitOn'[u] = waitOn[u],
           LegalFlags(s, w)
    PROVE  taskStatus' \in [Task -> SUBSET Flag] /\ ReadyOrBlocked' /\ FlagsConsistent'
<1>1. \A u \in Task : LegalFlags(taskStatus[u], waitOn[u])
  BY LegalFlagsEquiv DEF WaitInv, WaitTypeOK
<1>2. taskStatus' \in [Task -> SUBSET Flag]
  BY DEF WaitInv, WaitTypeOK, LegalFlags
<1>3. ASSUME NEW u \in Task
      PROVE  LegalFlags(taskStatus'[u], waitOn'[u])
  BY <1>1 DEF WaitInv, WaitTypeOK
<1>4. ReadyOrBlocked' /\ FlagsConsistent'
  BY <1>3, Zenon DEF ReadyOrBlocked, FlagsConsistent, LegalFlags, Has
<1>. QED BY <1>2, <1>4

-----------------------------------------------------------------------------
(* Each action preserves the invariant.                                     *)

\* The invariant holds when no task has waited yet.
LEMMA WaitInvInit == WaitInit => WaitInv
<1> SUFFICES ASSUME WaitInit PROVE WaitInv
  OBVIOUS
<1> USE DEF WaitInit
<1>1. WaitTypeOK
  <2>1. taskStatus \in [Task -> SUBSET Flag] /\ pendList \in [WaitList -> Seq(Task)]
    BY DEF Flag
  <2>2. woken \in [Task -> BOOLEAN] /\ fault \in BOOLEAN
    OBVIOUS
  <2>3. /\ waitOn \in [Task -> WaitList \cup {None}] /\ node \in [Task -> NodeState]
        /\ scan \in [Cpu -> Task \cup {None}]
    BY DEF NodeState
  <2>. QED BY <2>1, <2>2, <2>3 DEF WaitTypeOK
<1>2. PendListConsistent
  BY DEF PendListConsistent, Has, Contains, IsInjective
<1>3. ReadyOrBlocked /\ FlagsConsistent
  BY DEF ReadyOrBlocked, FlagsConsistent, Has
<1>. QED BY <1>1, <1>2, <1>3 DEF WaitInv

\* Going to wait puts the task on one list and marks it PENDING.
LEMMA HPFWaitInv ==
    ASSUME WaitInv, NEW t \in Task, NEW l \in WaitList, NEW timed \in BOOLEAN,
           NEW pos \in 1..(Len(pendList[l]) + 1), HPFWait(t, l, pos, timed)
    PROVE  WaitInv'
<1> DEFINE s == (taskStatus[t] \ {"READY"}) \cup {"PENDING"}
                    \cup (IF timed THEN {"PEND_TIME"} ELSE {})
<1>0. LegalFlags(taskStatus[t], waitOn[t]) /\ "READY" \in taskStatus[t] /\ waitOn[t] = None
  BY LegalFlagsEquiv DEF WaitInv, WaitTypeOK, HPFWait, Running, Has
<1>1. LegalFlags(s, l)
  BY <1>0 DEF LegalFlags, Flag
<1>2. taskStatus' = [taskStatus EXCEPT ![t] = s] /\ waitOn' = [waitOn EXCEPT ![t] = l]
  BY DEF HPFWait
<1>. HIDE DEF s
<1>3. taskStatus' \in [Task -> SUBSET Flag] /\ ReadyOrBlocked' /\ FlagsConsistent'
  BY <1>1, <1>2, LocalStep DEF WaitInv, WaitTypeOK
<1>4. pendList' \in [WaitList -> Seq(Task)] /\ PendListConsistent'
  <2>1. /\ ~Has(t, "PENDING") /\ Has(t, "PENDING")' /\ waitOn'[t] = l
        /\ \A u \in Task \ {t} : taskStatus'[u] = taskStatus[u] /\ waitOn'[u] = waitOn[u]
    BY <1>0, <1>2 DEF Has, LegalFlags, s, WaitInv, WaitTypeOK
  <2>2. pendList' = [pendList EXCEPT ![l] = InsertAt(@, pos, t)]
    BY DEF HPFWait
  <2>. QED BY <2>1, <2>2, InsertStep DEF WaitInv
<1>5. /\ waitOn' \in [Task -> WaitList \cup {None}] /\ node' \in [Task -> NodeState]
      /\ scan' \in [Cpu -> Task \cup {None}] /\ woken' \in [Task -> BOOLEAN]
      /\ fault' \in BOOLEAN
  BY DEF WaitInv, WaitTypeOK, HPFWait, OsSchedTimeoutQueueAdd, NodeState
<1>. QED BY <1>3, <1>4, <1>5 DEF WaitInv, WaitTypeOK

\* A task that returns from its wait has already left the list.
LEMMA HPFWaitReturnInv ==
    ASSUME WaitInv, NEW t \in Task, HPFWaitReturn(t)
    PROVE  WaitInv'
<1> DEFINE s == taskStatus[t] \ {"TIMEOUT"}
<1>0. LegalFlags(taskStatus[t], waitOn[t]) /\ "READY" \in taskStatus[t]
  BY LegalFlagsEquiv DEF WaitInv, WaitTypeOK, HPFWaitReturn, Resumes, Has
<1>1. LegalFlags(s, None)
  BY <1>0 DEF LegalFlags, Flag
<1>2. /\ taskStatus' = [taskStatus EXCEPT ![t] = s]
      /\ waitOn'[t] = None /\ \A u \in Task \ {t} : waitOn'[u] = waitOn[u]
  BY DEF WaitInv, WaitTypeOK, HPFWaitReturn
<1>. HIDE DEF s
<1>3. taskStatus' \in [Task -> SUBSET Flag] /\ ReadyOrBlocked' /\ FlagsConsistent'
  BY <1>1, <1>2, LocalStep
<1>4. pendList' \in [WaitList -> Seq(Task)] /\ PendListConsistent'
  <2>1. \A u \in Task : /\ Has(u, "PENDING")' <=> Has(u, "PENDING")
                        /\ Has(u, "PENDING") => waitOn'[u] = waitOn[u]
    BY <1>0, <1>2 DEF Has, LegalFlags, s, WaitInv, WaitTypeOK
  <2>2. pendList' = pendList
    BY DEF HPFWaitReturn
  <2>. QED BY <2>1, <2>2, ListsKept DEF WaitInv
<1>5. /\ waitOn' \in [Task -> WaitList \cup {None}] /\ node' \in [Task -> NodeState]
      /\ scan' \in [Cpu -> Task \cup {None}] /\ woken' \in [Task -> BOOLEAN]
      /\ fault' \in BOOLEAN
  BY DEF WaitInv, WaitTypeOK, HPFWaitReturn, NodeState
<1>. QED BY <1>3, <1>4, <1>5 DEF WaitInv, WaitTypeOK

\* Waking takes the task off its list and makes it ready unless suspended.
LEMMA HPFWakeInv ==
    ASSUME WaitInv, NEW t \in Task, Has(t, "PENDING"), HPFWake(t)
    PROVE  WaitInv'
<1> DEFINE s == IF "SUSPENDED" \in taskStatus[t]
                THEN taskStatus[t] \ {"PENDING", "PEND_TIME"} ELSE Enqueued(taskStatus[t])
<1>0. LegalFlags(taskStatus[t], waitOn[t]) /\ "PENDING" \in taskStatus[t]
  BY LegalFlagsEquiv DEF WaitInv, WaitTypeOK, Has
<1>1. LegalFlags(s, waitOn[t])
  BY <1>0 DEF LegalFlags, Flag, Enqueued
<1>2. /\ taskStatus' = [taskStatus EXCEPT ![t] = s]
      /\ waitOn'[t] = waitOn[t] /\ \A u \in Task \ {t} : waitOn'[u] = waitOn[u]
  BY DEF WaitInv, WaitTypeOK, HPFWake, OsSchedTimeoutQueueDelete
<1>. HIDE DEF s
<1>3. taskStatus' \in [Task -> SUBSET Flag] /\ ReadyOrBlocked' /\ FlagsConsistent'
  BY <1>1, <1>2, LocalStep
<1>4. pendList' \in [WaitList -> Seq(Task)] /\ PendListConsistent'
  <2>1. /\ ~Has(t, "PENDING")'
        /\ \A u \in Task \ {t} : taskStatus'[u] = taskStatus[u] /\ waitOn'[u] = waitOn[u]
    BY <1>0, <1>2 DEF Has, LegalFlags, s, WaitInv, WaitTypeOK, Enqueued
  <2>2. pendList' = Unlinked(t)
    BY DEF HPFWake, OsSchedTimeoutQueueDelete
  <2>. QED BY <2>1, <2>2, UnlinkStep DEF WaitInv
<1>5. /\ waitOn' \in [Task -> WaitList \cup {None}] /\ node' \in [Task -> NodeState]
      /\ scan' \in [Cpu -> Task \cup {None}] /\ woken' \in [Task -> BOOLEAN]
      /\ fault' \in BOOLEAN
  BY DEF WaitInv, WaitTypeOK, HPFWake, OsSchedTimeoutQueueDelete, NodeState
<1>. QED BY <1>3, <1>4, <1>5 DEF WaitInv, WaitTypeOK

\* A delay touches no pend list.
LEMMA HPFDelayInv ==
    ASSUME WaitInv, NEW t \in Task, HPFDelay(t)
    PROVE  WaitInv'
<1> DEFINE s == (taskStatus[t] \ {"READY"}) \cup {"DELAY"}
<1>0. LegalFlags(taskStatus[t], waitOn[t]) /\ "READY" \in taskStatus[t] /\ waitOn[t] = None
  BY LegalFlagsEquiv DEF WaitInv, WaitTypeOK, HPFDelay, Running, Has
<1>1. LegalFlags(s, None)
  BY <1>0 DEF LegalFlags, Flag
<1>2. /\ taskStatus' = [taskStatus EXCEPT ![t] = s]
      /\ waitOn'[t] = None /\ \A u \in Task \ {t} : waitOn'[u] = waitOn[u]
  BY DEF WaitInv, WaitTypeOK, HPFDelay, OsSchedTimeoutQueueAdd, Running
<1>. HIDE DEF s
<1>3. taskStatus' \in [Task -> SUBSET Flag] /\ ReadyOrBlocked' /\ FlagsConsistent'
  BY <1>1, <1>2, LocalStep
<1>4. pendList' \in [WaitList -> Seq(Task)] /\ PendListConsistent'
  <2>1. \A u \in Task : /\ Has(u, "PENDING")' <=> Has(u, "PENDING")
                        /\ Has(u, "PENDING") => waitOn'[u] = waitOn[u]
    BY <1>0, <1>2 DEF Has, LegalFlags, s, WaitInv, WaitTypeOK
  <2>2. pendList' = pendList
    BY DEF HPFDelay, OsSchedTimeoutQueueAdd, Running
  <2>. QED BY <2>1, <2>2, ListsKept DEF WaitInv
<1>5. /\ waitOn' \in [Task -> WaitList \cup {None}] /\ node' \in [Task -> NodeState]
      /\ scan' \in [Cpu -> Task \cup {None}] /\ woken' \in [Task -> BOOLEAN]
      /\ fault' \in BOOLEAN
  BY DEF WaitInv, WaitTypeOK, HPFDelay, OsSchedTimeoutQueueAdd, Running, NodeState
<1>. QED BY <1>3, <1>4, <1>5 DEF WaitInv, WaitTypeOK

\* Suspending leaves a waiting task on its list.
LEMMA TaskSuspendInv ==
    ASSUME WaitInv, NEW t \in Task, TaskSuspend(t)
    PROVE  WaitInv'
<1> DEFINE s == (taskStatus[t] \ {"READY"}) \cup {"SUSPENDED"}
                    \cup (IF FreezeOnSuspend /\ Timed(t) THEN {"FROZEN"} ELSE {})
<1>0. LegalFlags(taskStatus[t], waitOn[t]) /\ "UNUSED" \notin taskStatus[t]
  BY LegalFlagsEquiv DEF WaitInv, WaitTypeOK, TaskSuspend, Freezes, Has
<1>1. LegalFlags(s, waitOn[t])
  BY <1>0 DEF LegalFlags, Flag
<1>2. /\ taskStatus' = [taskStatus EXCEPT ![t] = s]
      /\ waitOn'[t] = waitOn[t] /\ \A u \in Task \ {t} : waitOn'[u] = waitOn[u]
  BY DEF WaitInv, WaitTypeOK, TaskSuspend, Freezes
<1>. HIDE DEF s
<1>3. taskStatus' \in [Task -> SUBSET Flag] /\ ReadyOrBlocked' /\ FlagsConsistent'
  BY <1>1, <1>2, LocalStep
<1>4. pendList' \in [WaitList -> Seq(Task)] /\ PendListConsistent'
  <2>1. \A u \in Task : /\ Has(u, "PENDING")' <=> Has(u, "PENDING")
                        /\ Has(u, "PENDING") => waitOn'[u] = waitOn[u]
    BY <1>0, <1>2 DEF Has, LegalFlags, s, WaitInv, WaitTypeOK
  <2>2. pendList' = pendList
    BY DEF TaskSuspend, Freezes
  <2>. QED BY <2>1, <2>2, ListsKept DEF WaitInv
<1>5. /\ waitOn' \in [Task -> WaitList \cup {None}] /\ node' \in [Task -> NodeState]
      /\ scan' \in [Cpu -> Task \cup {None}] /\ woken' \in [Task -> BOOLEAN]
      /\ fault' \in BOOLEAN
  BY DEF WaitInv, WaitTypeOK, TaskSuspend, Freezes, NodeState
<1>. QED BY <1>3, <1>4, <1>5 DEF WaitInv, WaitTypeOK

\* Resuming queues only a task that is not blocked.
LEMMA TaskResumeInv ==
    ASSUME WaitInv, NEW t \in Task, TaskResume(t)
    PROVE  WaitInv'
<1> DEFINE s == Resumed(taskStatus[t])
<1>0. LegalFlags(taskStatus[t], waitOn[t]) /\ "UNUSED" \notin taskStatus[t]
  BY LegalFlagsEquiv DEF WaitInv, WaitTypeOK, TaskResume, Has
<1>1. LegalFlags(s, waitOn[t])
  BY <1>0 DEF LegalFlags, Flag, Resumed, Enqueued
<1>2. /\ taskStatus' = [taskStatus EXCEPT ![t] = s]
      /\ waitOn'[t] = waitOn[t] /\ \A u \in Task \ {t} : waitOn'[u] = waitOn[u]
  BY DEF WaitInv, WaitTypeOK, TaskResume, OsSchedTimeoutQueueAdd
<1>. HIDE DEF s
<1>3. taskStatus' \in [Task -> SUBSET Flag] /\ ReadyOrBlocked' /\ FlagsConsistent'
  BY <1>1, <1>2, LocalStep
<1>4. pendList' \in [WaitList -> Seq(Task)] /\ PendListConsistent'
  <2>1. \A u \in Task : /\ Has(u, "PENDING")' <=> Has(u, "PENDING")
                        /\ Has(u, "PENDING") => waitOn'[u] = waitOn[u]
    BY <1>0, <1>2 DEF Has, LegalFlags, s, WaitInv, WaitTypeOK, Resumed, Enqueued
  <2>2. pendList' = pendList
    BY DEF TaskResume, OsSchedTimeoutQueueAdd
  <2>. QED BY <2>1, <2>2, ListsKept DEF WaitInv
<1>5. /\ waitOn' \in [Task -> WaitList \cup {None}] /\ node' \in [Task -> NodeState]
      /\ scan' \in [Cpu -> Task \cup {None}] /\ woken' \in [Task -> BOOLEAN]
      /\ fault' \in BOOLEAN
  BY DEF WaitInv, WaitTypeOK, TaskResume, OsSchedTimeoutQueueAdd, NodeState
<1>. QED BY <1>3, <1>4, <1>5 DEF WaitInv, WaitTypeOK

\* Resuming a frozen wait that has run out ends it.
LEMMA TaskResumeExpiredInv ==
    ASSUME WaitInv, NEW t \in Task, TaskResumeExpired(t)
    PROVE  WaitInv'
<1> DEFINE s == Enqueued(taskStatus[t] \ {"SUSPENDED", "FROZEN"})
<1>0. LegalFlags(taskStatus[t], waitOn[t]) /\ "UNUSED" \notin taskStatus[t]
  BY LegalFlagsEquiv DEF WaitInv, WaitTypeOK, TaskResumeExpired, Has
<1>1. LegalFlags(s, waitOn[t])
  BY <1>0 DEF LegalFlags, Flag, Enqueued
<1>2. /\ taskStatus' = [taskStatus EXCEPT ![t] = s]
      /\ waitOn'[t] = waitOn[t] /\ \A u \in Task \ {t} : waitOn'[u] = waitOn[u]
  BY DEF WaitInv, WaitTypeOK, TaskResumeExpired, UnlinkedIfPending
<1>. HIDE DEF s
<1>3. taskStatus' \in [Task -> SUBSET Flag] /\ ReadyOrBlocked' /\ FlagsConsistent'
  BY <1>1, <1>2, LocalStep
<1>4. pendList' \in [WaitList -> Seq(Task)] /\ PendListConsistent'
  <2>1. /\ ~Has(t, "PENDING")'
        /\ \A u \in Task \ {t} : taskStatus'[u] = taskStatus[u] /\ waitOn'[u] = waitOn[u]
    BY <1>0, <1>2 DEF Has, LegalFlags, s, WaitInv, WaitTypeOK, Enqueued
  <2>2. CASE Has(t, "PENDING")
    <3>1. pendList' = Unlinked(t)
      BY <1>0, <2>2 DEF TaskResumeExpired, UnlinkedIfPending
    <3>. QED BY <2>1, <3>1, UnlinkStep DEF WaitInv
  <2>3. CASE ~Has(t, "PENDING")
    <3>1. pendList' = pendList
      BY <1>0, <2>3 DEF TaskResumeExpired, UnlinkedIfPending, LegalFlags, Has
    <3>2. \A u \in Task : /\ Has(u, "PENDING")' <=> Has(u, "PENDING")
                          /\ Has(u, "PENDING") => waitOn'[u] = waitOn[u]
      BY <2>1, <2>3 DEF Has
    <3>. QED BY <3>1, <3>2, ListsKept DEF WaitInv
  <2>. QED BY <2>2, <2>3
<1>5. /\ waitOn' \in [Task -> WaitList \cup {None}] /\ node' \in [Task -> NodeState]
      /\ scan' \in [Cpu -> Task \cup {None}] /\ woken' \in [Task -> BOOLEAN]
      /\ fault' \in BOOLEAN
  BY DEF WaitInv, WaitTypeOK, TaskResumeExpired, NodeState
<1>. QED BY <1>3, <1>4, <1>5 DEF WaitInv, WaitTypeOK

\* A deleted task leaves the list it waits on.
LEMMA TaskExitInv ==
    ASSUME WaitInv, NEW t \in Task, TaskExit(t)
    PROVE  WaitInv'
<1> DEFINE s == {"UNUSED"}
<1>0. LegalFlags(taskStatus[t], waitOn[t])
  BY LegalFlagsEquiv DEF WaitInv, WaitTypeOK, TaskExit
<1>1. LegalFlags(s, None)
  BY <1>0 DEF LegalFlags, Flag
<1>2. /\ taskStatus' = [taskStatus EXCEPT ![t] = s]
      /\ waitOn'[t] = None /\ \A u \in Task \ {t} : waitOn'[u] = waitOn[u]
  BY DEF WaitInv, WaitTypeOK, TaskExit, UnlinkedIfPending, OsSchedTimeoutQueueDelete
<1>. HIDE DEF s
<1>3. taskStatus' \in [Task -> SUBSET Flag] /\ ReadyOrBlocked' /\ FlagsConsistent'
  BY <1>1, <1>2, LocalStep
<1>4. pendList' \in [WaitList -> Seq(Task)] /\ PendListConsistent'
  <2>1. /\ ~Has(t, "PENDING")'
        /\ \A u \in Task \ {t} : taskStatus'[u] = taskStatus[u] /\ waitOn'[u] = waitOn[u]
    BY <1>0, <1>2 DEF Has, LegalFlags, s, WaitInv, WaitTypeOK
  <2>2. CASE Has(t, "PENDING")
    <3>1. pendList' = Unlinked(t)
      BY <1>0, <2>2 DEF TaskExit, UnlinkedIfPending, OsSchedTimeoutQueueDelete
    <3>. QED BY <2>1, <3>1, UnlinkStep DEF WaitInv
  <2>3. CASE ~Has(t, "PENDING")
    <3>1. pendList' = pendList
      BY <1>0, <2>3 DEF TaskExit, UnlinkedIfPending, OsSchedTimeoutQueueDelete, LegalFlags, Has
    <3>2. \A u \in Task : /\ Has(u, "PENDING")' <=> Has(u, "PENDING")
                          /\ Has(u, "PENDING") => waitOn'[u] = waitOn[u]
      BY <2>1, <2>3 DEF Has
    <3>. QED BY <3>1, <3>2, ListsKept DEF WaitInv
  <2>. QED BY <2>2, <2>3
<1>5. /\ waitOn' \in [Task -> WaitList \cup {None}] /\ node' \in [Task -> NodeState]
      /\ scan' \in [Cpu -> Task \cup {None}] /\ woken' \in [Task -> BOOLEAN]
      /\ fault' \in BOOLEAN
  BY DEF WaitInv, WaitTypeOK, TaskExit, OsSchedTimeoutQueueDelete, NodeState
<1>. QED BY <1>3, <1>4, <1>5 DEF WaitInv, WaitTypeOK

\* A new task is ready and on no list.
LEMMA TaskCreateInv ==
    ASSUME WaitInv, NEW t \in Task, TaskCreate(t)
    PROVE  WaitInv'
<1> DEFINE s == {"READY"}
<1>0. LegalFlags(taskStatus[t], waitOn[t]) /\ "UNUSED" \in taskStatus[t]
  BY LegalFlagsEquiv DEF WaitInv, WaitTypeOK, TaskCreate, Has
<1>1. LegalFlags(s, waitOn[t])
  BY <1>0 DEF LegalFlags, Flag
<1>2. /\ taskStatus' = [taskStatus EXCEPT ![t] = s]
      /\ waitOn'[t] = waitOn[t] /\ \A u \in Task \ {t} : waitOn'[u] = waitOn[u]
  BY DEF WaitInv, WaitTypeOK, TaskCreate
<1>. HIDE DEF s
<1>3. taskStatus' \in [Task -> SUBSET Flag] /\ ReadyOrBlocked' /\ FlagsConsistent'
  BY <1>1, <1>2, LocalStep
<1>4. pendList' \in [WaitList -> Seq(Task)] /\ PendListConsistent'
  <2>1. \A u \in Task : /\ Has(u, "PENDING")' <=> Has(u, "PENDING")
                        /\ Has(u, "PENDING") => waitOn'[u] = waitOn[u]
    BY <1>0, <1>2 DEF Has, LegalFlags, s, WaitInv, WaitTypeOK
  <2>2. pendList' = pendList
    BY DEF TaskCreate
  <2>. QED BY <2>1, <2>2, ListsKept DEF WaitInv
<1>5. /\ waitOn' \in [Task -> WaitList \cup {None}] /\ node' \in [Task -> NodeState]
      /\ scan' \in [Cpu -> Task \cup {None}] /\ woken' \in [Task -> BOOLEAN]
      /\ fault' \in BOOLEAN
  BY DEF WaitInv, WaitTypeOK, TaskCreate, NodeState
<1>. QED BY <1>3, <1>4, <1>5 DEF WaitInv, WaitTypeOK

\* SchedTimeoutTaskWake ends a timed wait or a delay, and nothing else.
LEMMA TimeoutTaskWakeInv ==
    ASSUME WaitInv, NEW t \in Task, TimeoutTaskWake(t), waitOn' = waitOn,
           node' \in [Task -> NodeState], scan' \in [Cpu -> Task \cup {None}],
           woken' = woken, fault' = fault
    PROVE  WaitInv'
<1>0. LegalFlags(taskStatus[t], waitOn[t])
  BY LegalFlagsEquiv DEF WaitInv, WaitTypeOK
<1>1. CASE Timed(t)
  <2> DEFINE s == Expired(taskStatus[t])
  <2>1. LegalFlags(s, waitOn[t])
    <3>1. CASE "PEND_TIME" \in taskStatus[t]
      BY <1>0, <3>1 DEF LegalFlags, Flag, Expired, Enqueued
    <3>2. CASE "PEND_TIME" \notin taskStatus[t]
      <4>1. "DELAY" \in taskStatus[t]
        BY <1>1, <3>2 DEF Timed, Has
      <4>. QED BY <1>0, <3>2, <4>1 DEF LegalFlags, Flag, Expired, Enqueued
    <3>. QED BY <3>1, <3>2
  <2>2. taskStatus' = [taskStatus EXCEPT ![t] = s]
    BY <1>1 DEF TimeoutTaskWake
  <2>3. s \cap {"PENDING"} = {}
    BY DEF Expired, Enqueued
  <2>. HIDE DEF s
  <2>4. taskStatus' \in [Task -> SUBSET Flag] /\ ReadyOrBlocked' /\ FlagsConsistent'
    BY <2>1, <2>2, LocalStep
  <2>5. /\ ~Has(t, "PENDING")'
        /\ \A u \in Task \ {t} : taskStatus'[u] = taskStatus[u] /\ waitOn'[u] = waitOn[u]
    BY <2>2, <2>3 DEF Has, WaitInv, WaitTypeOK
  <2>6. pendList' \in [WaitList -> Seq(Task)] /\ PendListConsistent'
    <3>1. CASE Has(t, "PEND_TIME")
      <4>1. pendList' = Unlinked(t)
        BY <3>1 DEF TimeoutTaskWake
      <4>. QED BY <2>5, <4>1, UnlinkStep DEF WaitInv
    <3>2. CASE ~Has(t, "PEND_TIME")
      <4>1. pendList' = pendList
        BY <3>2 DEF TimeoutTaskWake
      <4>2. ~Has(t, "PENDING")
        BY <1>0, <1>1, <3>2 DEF Timed, Has, LegalFlags, WaitInv, PendListConsistent
      <4>3. \A u \in Task : /\ Has(u, "PENDING")' <=> Has(u, "PENDING")
                            /\ Has(u, "PENDING") => waitOn'[u] = waitOn[u]
        BY <2>5, <4>2 DEF Has
      <4>. QED BY <4>1, <4>3, ListsKept DEF WaitInv
    <3>. QED BY <3>1, <3>2
  <2>. QED BY <2>4, <2>6 DEF WaitInv, WaitTypeOK
<1>2. CASE ~Timed(t)
  <2>1. taskStatus' = taskStatus /\ pendList' = pendList
    BY <1>2 DEF TimeoutTaskWake, Timed
  <2>2. PendListConsistent'
    BY <2>1, ListsKept DEF WaitInv, Has
  <2>3. ReadyOrBlocked' /\ FlagsConsistent'
    BY <2>1 DEF WaitInv, ReadyOrBlocked, FlagsConsistent, Has
  <2>. QED BY <2>1, <2>2, <2>3 DEF WaitInv, WaitTypeOK
<1>. QED BY <1>1, <1>2

\* A step that changes neither flags nor lists.
LEMMA FlagsAndListsKept ==
    ASSUME WaitInv, UNCHANGED <<taskStatus, pendList, waitOn, woken, fault>>,
           node' \in [Task -> NodeState], scan' \in [Cpu -> Task \cup {None}]
    PROVE  WaitInv'
<1>1. PendListConsistent'
  BY ListsKept DEF WaitInv, Has
<1>2. ReadyOrBlocked' /\ FlagsConsistent'
  BY DEF WaitInv, ReadyOrBlocked, FlagsConsistent, Has
<1>. QED BY <1>1, <1>2 DEF WaitInv, WaitTypeOK

\* Every step of the layer preserves the invariant.
LEMMA WaitInvNext == WaitInv /\ [WaitNext]_waitVars => WaitInv'
<1> SUFFICES ASSUME WaitInv, [WaitNext]_waitVars PROVE WaitInv'
  OBVIOUS
<1>1. ASSUME NEW t \in Task, TimeoutScan(t) PROVE WaitInv'
  <2>1. node' \in [Task -> NodeState] /\ scan' \in [Cpu -> Task \cup {None}]
    BY <1>1 DEF TimeoutScan, WaitInv, WaitTypeOK, NodeState
  <2>. QED BY <1>1, <2>1, TimeoutTaskWakeInv DEF TimeoutScan
<1>2. ASSUME NEW c \in Cpu, NEW t \in Task, TimeoutScanPop(c, t) PROVE WaitInv'
  <2>1. node' \in [Task -> NodeState] /\ scan' \in [Cpu -> Task \cup {None}]
    BY <1>2 DEF TimeoutScanPop, WaitInv, WaitTypeOK, NodeState
  <2>. QED BY <1>2, <2>1, FlagsAndListsKept DEF TimeoutScanPop
<1>3. ASSUME NEW c \in Cpu, TimeoutScanWake(c) PROVE WaitInv'
  <2>1. scan[c] \in Task
    BY <1>3 DEF TimeoutScanWake, WaitInv, WaitTypeOK
  <2>2. node' \in [Task -> NodeState] /\ scan' \in [Cpu -> Task \cup {None}]
    BY <1>3 DEF TimeoutScanWake, WaitInv, WaitTypeOK, NodeState
  <2>. QED BY <1>3, <2>1, <2>2, TimeoutTaskWakeInv DEF TimeoutScanWake
<1>4. CASE SchedNext
  BY <1>1, <1>2, <1>3, <1>4, TaskSuspendInv, TaskResumeInv, TaskResumeExpiredInv
     DEF SchedNext
<1>5. ASSUME NEW t \in Task, NEW l \in WaitList, NEW timed \in BOOLEAN,
             NEW pos \in 1..(Len(pendList[l]) + 1), HPFWait(t, l, pos, timed)
      PROVE  WaitInv'
  BY <1>5, HPFWaitInv
<1>6. CASE UNCHANGED waitVars
  BY <1>6, FlagsAndListsKept DEF waitVars, WaitInv, WaitTypeOK
<1>. QED BY <1>4, <1>5, <1>6, HPFWaitReturnInv, HPFWakeInv, HPFDelayInv, TaskExitInv,
        TaskCreateInv DEF WaitNext

(***************************************************************************)
(* The flags of a TCB have their type in every reachable state, and with   *)
(* them the lists, the timeout node and the rest of the layer's state.     *)
(***************************************************************************)
THEOREM WaitTypeCorrect == WaitSpec => []WaitTypeOK
<1>1. WaitInv => WaitTypeOK
  BY DEF WaitInv
<1>. QED BY <1>1, WaitInvInit, WaitInvNext, PTL DEF WaitSpec

(***************************************************************************)
(* PENDING and the pend lists agree, on any number of cores and whether or *)
(* not suspension freezes timed waits.                                     *)
(***************************************************************************)
THEOREM PendListCorrect == WaitSpec => []PendListConsistent
<1>1. WaitInv => PendListConsistent
  BY DEF WaitInv
<1>. QED BY <1>1, WaitInvInit, WaitInvNext, PTL DEF WaitSpec

(***************************************************************************)
(* No task is left blocked on nothing, or runs while blocked, in any build *)
(* configuration.                                                          *)
(***************************************************************************)
THEOREM ReadyOrBlockedCorrect == WaitSpec => []ReadyOrBlocked
<1>1. WaitInv => ReadyOrBlocked
  BY DEF WaitInv
<1>. QED BY <1>1, WaitInvInit, WaitInvNext, PTL DEF WaitSpec

-----------------------------------------------------------------------------
(* The answer of a wait, when suspension does not freeze timed waits.       *)

\* Flags s, list w and history k of one task: a timeout is recorded only for a
\* wait that is over and was not granted, and nothing is ever frozen.
SoundAnswer(s, w, k) ==
    /\ "FROZEN" \notin s
    /\ "TIMEOUT" \in s => w # None /\ "PENDING" \notin s
    /\ "PENDING" \in s => k = FALSE
    /\ (w # None /\ "PENDING" \notin s) => ("TIMEOUT" \notin s <=> k = TRUE)

AnswerInv == \A t \in Task : SoundAnswer(taskStatus[t], waitOn[t], woken[t])

\* A step that changes one task at most, and leaves that one sound.
LEMMA AnswerStep ==
    ASSUME WaitInv, AnswerInv, NEW t \in Task,
           \A u \in Task \ {t} : /\ taskStatus'[u] = taskStatus[u]
                                 /\ waitOn'[u] = waitOn[u]
                                 /\ woken'[u] = woken[u],
           SoundAnswer(taskStatus'[t], waitOn'[t], woken'[t])
    PROVE  AnswerInv'
<1>1. ASSUME NEW u \in Task PROVE SoundAnswer(taskStatus'[u], waitOn'[u], woken'[u])
  BY DEF AnswerInv
<1>. QED BY <1>1 DEF AnswerInv

\* SchedTimeoutTaskWake records the timeout of a wait nobody granted.
LEMMA AnswerTimeout ==
    ASSUME WaitInv, AnswerInv, NEW t \in Task, TimeoutTaskWake(t),
           UNCHANGED <<waitOn, woken>>
    PROVE  AnswerInv'
<1>1. SoundAnswer(taskStatus[t], waitOn[t], woken[t]) /\ LegalFlags(taskStatus[t], waitOn[t])
  BY LegalFlagsEquiv DEF AnswerInv, WaitInv, WaitTypeOK
<1>2. CASE Timed(t)
  <2>1. /\ taskStatus'[t] = Expired(taskStatus[t])
        /\ \A u \in Task \ {t} : taskStatus'[u] = taskStatus[u]
    BY <1>2 DEF TimeoutTaskWake, WaitInv, WaitTypeOK
  <2>2. SoundAnswer(Expired(taskStatus[t]), waitOn[t], woken[t])
    <3>1. CASE "PEND_TIME" \in taskStatus[t]
      <4>1. "PENDING" \in taskStatus[t] /\ waitOn[t] # None
        BY <1>1, <3>1 DEF LegalFlags, WaitInv, PendListConsistent, Has
      <4>. QED BY <1>1, <3>1, <4>1 DEF SoundAnswer, Expired, Enqueued
    <3>2. CASE "PEND_TIME" \notin taskStatus[t]
      <4>1. waitOn[t] = None
        BY <1>1, <1>2, <3>2 DEF Timed, Has, LegalFlags
      <4>. QED BY <1>1, <3>2, <4>1 DEF SoundAnswer, Expired, Enqueued
    <3>. QED BY <3>1, <3>2
  <2>. QED BY <2>1, <2>2, AnswerStep
<1>3. CASE ~Timed(t)
  BY <1>3 DEF TimeoutTaskWake, AnswerInv
<1>. QED BY <1>2, <1>3

\* Every step keeps the answers sound while nothing is frozen.
LEMMA AnswerInvNext ==
    ASSUME FreezeOnSuspend = FALSE, WaitInv, AnswerInv, [WaitNext]_waitVars
    PROVE  AnswerInv'
<1>0. /\ taskStatus \in [Task -> SUBSET Flag] /\ waitOn \in [Task -> WaitList \cup {None}]
      /\ woken \in [Task -> BOOLEAN]
  BY DEF WaitInv, WaitTypeOK
<1>s. ASSUME NEW t \in Task
      PROVE  /\ SoundAnswer(taskStatus[t], waitOn[t], woken[t])
             /\ LegalFlags(taskStatus[t], waitOn[t])
  BY LegalFlagsEquiv DEF AnswerInv, WaitInv, WaitTypeOK
<1>1. ASSUME NEW t \in Task, NEW l \in WaitList, NEW timed \in BOOLEAN,
             NEW pos \in 1..(Len(pendList[l]) + 1), HPFWait(t, l, pos, timed)
      PROVE  AnswerInv'
  <2>1. SoundAnswer(taskStatus'[t], waitOn'[t], woken'[t])
    BY <1>0, <1>1, <1>s DEF HPFWait, SoundAnswer, Running
  <2>. QED BY <1>0, <1>1, <2>1, AnswerStep DEF HPFWait
<1>2. ASSUME NEW t \in Task, HPFWaitReturn(t) PROVE AnswerInv'
  <2>1. SoundAnswer(taskStatus'[t], waitOn'[t], woken'[t])
    BY <1>0, <1>2, <1>s DEF HPFWaitReturn, SoundAnswer, LegalFlags, Resumes, Has
  <2>. QED BY <1>0, <1>2, <2>1, AnswerStep DEF HPFWaitReturn
<1>3. ASSUME NEW t \in Task, Has(t, "PENDING"), HPFWake(t) PROVE AnswerInv'
  <2>1. SoundAnswer(taskStatus'[t], waitOn'[t], woken'[t])
    BY <1>0, <1>3, <1>s DEF HPFWake, SoundAnswer, Enqueued, Has
  <2>. QED BY <1>0, <1>3, <2>1, AnswerStep DEF HPFWake
<1>4. ASSUME NEW t \in Task, HPFDelay(t) PROVE AnswerInv'
  <2>1. SoundAnswer(taskStatus'[t], waitOn'[t], woken'[t])
    BY <1>0, <1>4, <1>s DEF HPFDelay, SoundAnswer, Running
  <2>. QED BY <1>0, <1>4, <2>1, AnswerStep DEF HPFDelay
<1>5. ASSUME NEW t \in Task, TaskExit(t) PROVE AnswerInv'
  <2>1. SoundAnswer(taskStatus'[t], waitOn'[t], woken'[t])
    BY <1>0, <1>5 DEF TaskExit, SoundAnswer
  <2>. QED BY <1>0, <1>5, <2>1, AnswerStep DEF TaskExit
<1>6. ASSUME NEW t \in Task, TaskSuspend(t) PROVE AnswerInv'
  <2>1. SoundAnswer(taskStatus'[t], waitOn'[t], woken'[t])
    BY <1>0, <1>6, <1>s DEF TaskSuspend, Freezes, SoundAnswer
  <2>. QED BY <1>0, <1>6, <2>1, AnswerStep DEF TaskSuspend, Freezes
<1>7. ASSUME NEW t \in Task, TaskResume(t) PROVE AnswerInv'
  <2>1. SoundAnswer(taskStatus'[t], waitOn'[t], woken'[t])
    BY <1>0, <1>7, <1>s DEF TaskResume, SoundAnswer, Resumed, Enqueued
  <2>. QED BY <1>0, <1>7, <2>1, AnswerStep DEF TaskResume
<1>8. ASSUME NEW t \in Task, TaskResumeExpired(t) PROVE AnswerInv'
  BY <1>8, <1>s DEF TaskResumeExpired, SoundAnswer, Has
<1>9. ASSUME NEW t \in Task, TaskCreate(t) PROVE AnswerInv'
  <2>1. SoundAnswer(taskStatus'[t], waitOn'[t], woken'[t])
    BY <1>0, <1>9, <1>s DEF TaskCreate, SoundAnswer, LegalFlags, Has
  <2>. QED BY <1>0, <1>9, <2>1, AnswerStep DEF TaskCreate
<1>10. ASSUME NEW t \in Task, TimeoutScan(t) PROVE AnswerInv'
  BY <1>10, AnswerTimeout DEF TimeoutScan
<1>11. ASSUME NEW c \in Cpu, NEW t \in Task, TimeoutScanPop(c, t) PROVE AnswerInv'
  BY <1>11 DEF TimeoutScanPop, AnswerInv
<1>12. ASSUME NEW c \in Cpu, TimeoutScanWake(c) PROVE AnswerInv'
  <2>1. scan[c] \in Task
    BY <1>12 DEF TimeoutScanWake, WaitInv, WaitTypeOK
  <2>. QED BY <1>12, <2>1, AnswerTimeout DEF TimeoutScanWake
<1>13. CASE UNCHANGED waitVars
  BY <1>13 DEF waitVars, AnswerInv
<1>14. CASE SchedNext
  BY <1>6, <1>7, <1>8, <1>10, <1>11, <1>12, <1>14 DEF SchedNext
<1>. QED BY <1>1, <1>2, <1>3, <1>4, <1>5, <1>9, <1>13, <1>14 DEF WaitNext

(***************************************************************************)
(* LOS_OK from a wait means that HPFWake chose the task, on any number of  *)
(* cores, as long as suspension does not freeze timed waits.               *)
(***************************************************************************)
THEOREM OkMeansWokenCorrect ==
    ASSUME FreezeOnSuspend = FALSE
    PROVE  WaitSpec => []OkMeansWoken
<1>1. WaitInit => AnswerInv
  BY DEF WaitInit, AnswerInv, SoundAnswer
<1>2. WaitInv /\ AnswerInv /\ [WaitNext]_waitVars => AnswerInv'
  BY AnswerInvNext
<1>3. WaitInv /\ AnswerInv => OkMeansWoken
  BY DEF WaitInv, WaitTypeOK, AnswerInv, SoundAnswer, OkMeansWoken, WaitResult, Has
<1>. QED BY <1>1, <1>2, <1>3, WaitInvInit, WaitInvNext, PTL DEF WaitSpec

-----------------------------------------------------------------------------
(* The timeout queue on one core, without freezing.                         *)

\* No core is between unlinking a node and waking its task, nothing is frozen,
\* and a node is linked exactly while its task is in a timed wait or a delay.
TimeoutInv ==
    /\ ~fault
    /\ \A c \in Cpu : scan[c] = None
    /\ \A t \in Task : /\ node[t] \notin {"saved", "stuck"}
                       /\ "FROZEN" \notin taskStatus[t]
                       /\ node[t] = "linked" <=>
                              taskStatus[t] \cap {"PEND_TIME", "DELAY"} # {}

\* Every step keeps nodes and timed waits in step, on one core without freezing.
LEMMA TimeoutInvNext ==
    ASSUME FreezeOnSuspend = FALSE, ~Smp, WaitInv, TimeoutInv, [WaitNext]_waitVars
    PROVE  TimeoutInv'
<1>0. taskStatus \in [Task -> SUBSET Flag] /\ node \in [Task -> NodeState]
  BY DEF WaitInv, WaitTypeOK
<1>s. ASSUME NEW t \in Task
      PROVE  LegalFlags(taskStatus[t], waitOn[t])
  BY LegalFlagsEquiv DEF WaitInv, WaitTypeOK
<1>1. ASSUME NEW t \in Task, NEW l \in WaitList, NEW timed \in BOOLEAN,
             NEW pos \in 1..(Len(pendList[l]) + 1), HPFWait(t, l, pos, timed)
      PROVE  TimeoutInv'
  <2>1. CASE timed
    BY <1>0, <1>1, <1>s, <2>1
       DEF HPFWait, OsSchedTimeoutQueueAdd, TimeoutInv, LegalFlags, Running, Has
  <2>2. CASE ~timed
    BY <1>0, <1>1, <1>s, <2>2 DEF HPFWait, TimeoutInv, LegalFlags, Running, Has
  <2>. QED BY <2>1, <2>2
<1>2. ASSUME NEW t \in Task, HPFWaitReturn(t) PROVE TimeoutInv'
  BY <1>0, <1>2 DEF HPFWaitReturn, TimeoutInv
<1>3. ASSUME NEW t \in Task, Has(t, "PENDING"), HPFWake(t) PROVE TimeoutInv'
  <2>1. "DELAY" \notin taskStatus[t]
    BY <1>3, <1>s DEF LegalFlags, WaitInv, PendListConsistent, Has
  <2>2. CASE Has(t, "PEND_TIME")
    BY <1>0, <1>3, <2>1, <2>2
       DEF HPFWake, OsSchedTimeoutQueueDelete, TimeoutInv, Enqueued, Has
  <2>3. CASE ~Has(t, "PEND_TIME")
    BY <1>0, <1>3, <2>1, <2>3 DEF HPFWake, TimeoutInv, Enqueued, Has
  <2>. QED BY <2>2, <2>3
<1>4. ASSUME NEW t \in Task, HPFDelay(t) PROVE TimeoutInv'
  BY <1>0, <1>4, <1>s
     DEF HPFDelay, OsSchedTimeoutQueueAdd, TimeoutInv, LegalFlags, Running, Has
<1>5. ASSUME NEW t \in Task, TaskExit(t) PROVE TimeoutInv'
  BY <1>0, <1>5 DEF TaskExit, OsSchedTimeoutQueueDelete, TimeoutInv, Timed, Has
<1>6. ASSUME NEW t \in Task, TaskSuspend(t) PROVE TimeoutInv'
  BY <1>0, <1>6 DEF TaskSuspend, Freezes, TimeoutInv
<1>7. ASSUME NEW t \in Task, TaskResume(t) PROVE TimeoutInv'
  BY <1>0, <1>7, <1>s DEF TaskResume, TimeoutInv, Resumed, Enqueued, LegalFlags, Has
<1>8. ASSUME NEW t \in Task, TaskResumeExpired(t) PROVE TimeoutInv'
  BY <1>8 DEF TaskResumeExpired, TimeoutInv, Has
<1>9. ASSUME NEW t \in Task, TaskCreate(t) PROVE TimeoutInv'
  BY <1>0, <1>9, <1>s DEF TaskCreate, TimeoutInv, LegalFlags, Has
<1>10. ASSUME NEW t \in Task, TimeoutScan(t) PROVE TimeoutInv'
  <2>1. Timed(t)
    BY <1>10 DEF TimeoutScan, TimeoutInv, Timed, Has
  <2>2. taskStatus' = [taskStatus EXCEPT ![t] = Expired(@)]
    BY <1>10, <2>1 DEF TimeoutScan, TimeoutTaskWake
  <2>3. Expired(taskStatus[t]) \cap {"PEND_TIME", "DELAY"} = {}
    BY DEF Expired, Enqueued
  <2>4. "FROZEN" \notin Expired(taskStatus[t])
    BY DEF Expired, Enqueued, TimeoutInv
  <2>. QED BY <1>0, <1>10, <2>2, <2>3, <2>4 DEF TimeoutScan, TimeoutInv
<1>11. ASSUME NEW c \in Cpu, NEW t \in Task, TimeoutScanPop(c, t) PROVE TimeoutInv'
  BY <1>11 DEF TimeoutScanPop
<1>12. ASSUME NEW c \in Cpu, TimeoutScanWake(c) PROVE TimeoutInv'
  BY <1>12 DEF TimeoutScanWake, TimeoutInv
<1>13. CASE UNCHANGED waitVars
  BY <1>13 DEF waitVars, TimeoutInv
<1>14. CASE SchedNext
  BY <1>6, <1>7, <1>8, <1>10, <1>11, <1>12, <1>14 DEF SchedNext
<1>. QED BY <1>1, <1>2, <1>3, <1>4, <1>5, <1>9, <1>13, <1>14 DEF WaitNext

(***************************************************************************)
(* On one core, with no freezing, the timeout queue holds exactly the      *)
(* tasks in a timed wait or a delay, and no list operation follows a NULL  *)
(* link or inserts a linked node.                                          *)
(***************************************************************************)
THEOREM TimeoutQueueCorrect ==
    ASSUME FreezeOnSuspend = FALSE, ~Smp
    PROVE  WaitSpec => []TimeoutQueueExact
<1>1. WaitInit => TimeoutInv
  BY DEF WaitInit, TimeoutInv
<1>2. WaitInv /\ TimeoutInv /\ [WaitNext]_waitVars => TimeoutInv'
  BY TimeoutInvNext
<1>3. TimeoutInv => TimeoutQueueExact
  BY DEF TimeoutInv, TimeoutQueueExact, Timed, Has
<1>. QED BY <1>1, <1>2, <1>3, WaitInvInit, WaitInvNext, PTL DEF WaitSpec
=============================================================================
