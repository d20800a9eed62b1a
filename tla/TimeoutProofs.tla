--------------------------- MODULE TimeoutProofs ---------------------------
(***************************************************************************)
(* The timeouts of the blocking layer in every configuration: any number   *)
(* of cores, with or without freezing.                                     *)
(***************************************************************************)
EXTENDS TaskWaitProofs

\* Flags s and node n of one task, scanned when some core is about to wake it: a
\* timeout is in a queue, saved or on its way.  Needed besides: a frozen task is
\* suspended and its node is not linked.
SoundNode(s, n, scanned) ==
    /\ "FROZEN" \in s => "SUSPENDED" \in s /\ n # "linked"
    /\ s \cap {"PEND_TIME", "DELAY"} # {} =>
          n = "linked" \/ (n = "saved" /\ "FROZEN" \in s) \/ scanned

Scanned(t) == \E c \in Cpu : scan[c] = t

NodeInv == \A t \in Task : SoundNode(taskStatus[t], node[t], Scanned(t))

\* A step that changes one task at most, leaves that one sound, and lets no core
\* forget another.
LEMMA NodeStep ==
    ASSUME NodeInv, NEW t \in Task,
           \A u \in Task \ {t} : /\ taskStatus'[u] = taskStatus[u]
                                 /\ node'[u] = node[u]
                                 /\ Scanned(u) => Scanned(u)',
           SoundNode(taskStatus'[t], node'[t], Scanned(t)')
    PROVE  NodeInv'
<1>1. ASSUME NEW u \in Task, u # t PROVE SoundNode(taskStatus'[u], node'[u], Scanned(u)')
  BY <1>1, Zenon DEF NodeInv, SoundNode
<1>. QED BY <1>1, Zenon DEF NodeInv

\* SchedTimeoutTaskWake leaves no timed wait that a lost timeout could matter to.
LEMMA NodeTimeout ==
    ASSUME WaitInv, NodeInv, NEW t \in Task, TimeoutTaskWake(t),
           \A u \in Task \ {t} : node'[u] = node[u] /\ (Scanned(u) => Scanned(u)'),
           node'[t] \in {node[t], "out"}
    PROVE  NodeInv'
<1>1. SoundNode(taskStatus[t], node[t], Scanned(t)) /\ LegalFlags(taskStatus[t], waitOn[t])
  BY LegalFlagsEquiv DEF NodeInv, WaitInv, WaitTypeOK
<1>2. CASE Timed(t)
  <2>1. /\ taskStatus'[t] = Expired(taskStatus[t])
        /\ \A u \in Task \ {t} : taskStatus'[u] = taskStatus[u]
    BY <1>2 DEF TimeoutTaskWake, WaitInv, WaitTypeOK
  <2>2. /\ Expired(taskStatus[t]) \cap {"PEND_TIME", "DELAY"} = {}
        /\ "FROZEN" \in Expired(taskStatus[t]) => "FROZEN" \in taskStatus[t]
        /\ "SUSPENDED" \in taskStatus[t] => "SUSPENDED" \in Expired(taskStatus[t])
    BY DEF Expired, Enqueued
  <2>3. SoundNode(taskStatus'[t], node'[t], Scanned(t)')
    BY <1>1, <2>1, <2>2 DEF SoundNode
  <2>. QED BY <2>1, <2>3, NodeStep
<1>3. CASE ~Timed(t)
  <2>1. taskStatus' = taskStatus
    BY <1>3 DEF TimeoutTaskWake
  <2>2. SoundNode(taskStatus'[t], node'[t], Scanned(t)')
    BY <1>1, <1>3, <2>1 DEF SoundNode, Timed, Has
  <2>. QED BY <2>1, <2>2, NodeStep
<1>. QED BY <1>2, <1>3

\* Every step keeps the timeouts, on any number of cores, with or without freezing.
LEMMA NodeInvNext ==
    ASSUME WaitInv, NodeInv, [WaitNext]_waitVars
    PROVE  NodeInv'
<1>0. /\ taskStatus \in [Task -> SUBSET Flag] /\ node \in [Task -> NodeState]
      /\ scan \in [Cpu -> Task \cup {None}]
  BY DEF WaitInv, WaitTypeOK
<1>s. ASSUME NEW t \in Task
      PROVE  /\ SoundNode(taskStatus[t], node[t], Scanned(t))
             /\ LegalFlags(taskStatus[t], waitOn[t])
  BY LegalFlagsEquiv DEF NodeInv, WaitInv, WaitTypeOK
<1>u. ASSUME scan' = scan, NEW u \in Task PROVE Scanned(u)' <=> Scanned(u)
  BY <1>u DEF Scanned
<1>1. ASSUME NEW t \in Task, NEW l \in WaitList, NEW timed \in BOOLEAN,
             NEW pos \in 1..(Len(pendList[l]) + 1), HPFWait(t, l, pos, timed)
      PROVE  NodeInv'
  <2>0. scan' = scan
    BY <1>1 DEF HPFWait
  <2>1. CASE timed
    <3>1. SoundNode(taskStatus'[t], node'[t], Scanned(t)')
      BY <1>0, <1>1, <1>s, <2>1
         DEF HPFWait, OsSchedTimeoutQueueAdd, SoundNode, LegalFlags, Running, Has
    <3>. QED BY <1>0, <1>1, <1>u, <2>0, <2>1, <3>1, NodeStep DEF HPFWait, OsSchedTimeoutQueueAdd
  <2>2. CASE ~timed
    <3>1. SoundNode(taskStatus'[t], node'[t], Scanned(t)')
      BY <1>0, <1>1, <1>s, <2>2 DEF HPFWait, SoundNode, LegalFlags, Running, Has
    <3>. QED BY <1>0, <1>1, <1>u, <2>0, <2>2, <3>1, NodeStep DEF HPFWait
  <2>. QED BY <2>1, <2>2
<1>2. ASSUME NEW t \in Task, HPFWaitReturn(t) PROVE NodeInv'
  <2>0. scan' = scan
    BY <1>2 DEF HPFWaitReturn
  <2>1. SoundNode(taskStatus'[t], node'[t], Scanned(t)')
    BY <1>0, <1>2, <1>s, <1>u, <2>0 DEF HPFWaitReturn, SoundNode
  <2>. QED BY <1>0, <1>2, <1>u, <2>0, <2>1, NodeStep DEF HPFWaitReturn
<1>3. ASSUME NEW t \in Task, Has(t, "PENDING"), HPFWake(t) PROVE NodeInv'
  <2>0. scan' = scan
    BY <1>3 DEF HPFWake
  <2>1. "DELAY" \notin taskStatus[t]
    BY <1>3, <1>s DEF LegalFlags, WaitInv, PendListConsistent, Has
  <2>2. SoundNode(taskStatus'[t], node'[t], Scanned(t)')
    BY <1>0, <1>3, <1>s, <2>1
       DEF HPFWake, OsSchedTimeoutQueueDelete, SoundNode, Enqueued, Has
  <2>. QED BY <1>0, <1>3, <1>u, <2>0, <2>2, NodeStep DEF HPFWake, OsSchedTimeoutQueueDelete
<1>4. ASSUME NEW t \in Task, HPFDelay(t) PROVE NodeInv'
  <2>0. scan' = scan
    BY <1>4 DEF HPFDelay
  <2>1. SoundNode(taskStatus'[t], node'[t], Scanned(t)')
    BY <1>0, <1>4, <1>s
       DEF HPFDelay, OsSchedTimeoutQueueAdd, SoundNode, LegalFlags, Running, Has
  <2>. QED BY <1>0, <1>4, <1>u, <2>0, <2>1, NodeStep DEF HPFDelay, OsSchedTimeoutQueueAdd
<1>5. ASSUME NEW t \in Task, TaskExit(t) PROVE NodeInv'
  <2>0. scan' = scan
    BY <1>5 DEF TaskExit
  <2>1. SoundNode(taskStatus'[t], node'[t], Scanned(t)')
    BY <1>0, <1>5 DEF TaskExit, SoundNode
  <2>. QED BY <1>0, <1>5, <1>u, <2>0, <2>1, NodeStep DEF TaskExit, OsSchedTimeoutQueueDelete
<1>6. ASSUME NEW t \in Task, TaskSuspend(t) PROVE NodeInv'
  <2>0. scan' = scan
    BY <1>6 DEF TaskSuspend
  <2>1. SoundNode(taskStatus'[t], node'[t], Scanned(t)')
    BY <1>0, <1>6, <1>s, <1>u, <2>0 DEF TaskSuspend, Freezes, Timed, SoundNode, Has
  <2>. QED BY <1>0, <1>6, <1>u, <2>0, <2>1, NodeStep DEF TaskSuspend
<1>7. ASSUME NEW t \in Task, TaskResume(t) PROVE NodeInv'
  <2>0. scan' = scan
    BY <1>7 DEF TaskResume
  <2>1. SoundNode(taskStatus'[t], node'[t], Scanned(t)')
    BY <1>0, <1>7, <1>s, <1>u, <2>0
       DEF TaskResume, OsSchedTimeoutQueueAdd, SoundNode, Resumed, Enqueued, LegalFlags, Has
  <2>. QED BY <1>0, <1>7, <1>u, <2>0, <2>1, NodeStep DEF TaskResume, OsSchedTimeoutQueueAdd
<1>8. ASSUME NEW t \in Task, TaskResumeExpired(t) PROVE NodeInv'
  <2>0. scan' = scan
    BY <1>8 DEF TaskResumeExpired
  <2>1. SoundNode(taskStatus'[t], node'[t], Scanned(t)')
    BY <1>0, <1>8 DEF TaskResumeExpired, SoundNode, Enqueued
  <2>. QED BY <1>0, <1>8, <1>u, <2>0, <2>1, NodeStep DEF TaskResumeExpired
<1>9. ASSUME NEW t \in Task, TaskCreate(t) PROVE NodeInv'
  <2>0. scan' = scan
    BY <1>9 DEF TaskCreate
  <2>1. SoundNode(taskStatus'[t], node'[t], Scanned(t)')
    BY <1>0, <1>9 DEF TaskCreate, SoundNode
  <2>. QED BY <1>0, <1>9, <1>u, <2>0, <2>1, NodeStep DEF TaskCreate
<1>10. ASSUME NEW t \in Task, TimeoutScan(t) PROVE NodeInv'
  <2>1. /\ scan' = scan /\ TimeoutTaskWake(t) /\ node'[t] = "out"
        /\ \A u \in Task \ {t} : node'[u] = node[u]
    BY <1>0, <1>10 DEF TimeoutScan
  <2>. QED BY <1>u, <2>1, NodeTimeout
<1>11. ASSUME NEW c \in Cpu, NEW t \in Task, TimeoutScanPop(c, t) PROVE NodeInv'
  <2>1. /\ taskStatus' = taskStatus /\ node' = [node EXCEPT ![t] = "out"]
        /\ scan' = [scan EXCEPT ![c] = t] /\ scan[c] = None
    BY <1>11 DEF TimeoutScanPop
  <2>2. Scanned(t)'
    BY <1>0, <2>1 DEF Scanned
  <2>3. ASSUME NEW u \in Task, Scanned(u) PROVE Scanned(u)'
    BY <1>0, <2>1, <2>3, WaitConstants DEF Scanned
  <2>4. SoundNode(taskStatus'[t], node'[t], Scanned(t)')
    BY <1>0, <1>s, <2>1, <2>2 DEF SoundNode
  <2>. QED BY <1>0, <2>1, <2>3, <2>4, NodeStep
<1>12. ASSUME NEW c \in Cpu, TimeoutScanWake(c) PROVE NodeInv'
  <2>1. /\ scan[c] \in Task /\ TimeoutTaskWake(scan[c]) /\ node' = node
        /\ scan' = [scan EXCEPT ![c] = None]
    BY <1>0, <1>12 DEF TimeoutScanWake
  <2>2. ASSUME NEW u \in Task \ {scan[c]}, Scanned(u) PROVE Scanned(u)'
    BY <1>0, <2>1, <2>2 DEF Scanned
  <2>. QED BY <2>1, <2>2, NodeTimeout
<1>13. CASE UNCHANGED waitVars
  BY <1>13 DEF waitVars, NodeInv, Scanned
<1>14. CASE SchedNext
  BY <1>6, <1>7, <1>8, <1>10, <1>11, <1>12, <1>14 DEF SchedNext
<1>. QED BY <1>1, <1>2, <1>3, <1>4, <1>5, <1>9, <1>13, <1>14 DEF WaitNext

(***************************************************************************)
(* The timeout of a timed wait or a delay is never lost, on any number of  *)
(* cores and whether or not suspension freezes it, although the scan drops *)
(* its lock between unlinking a task and waking it.                        *)
(***************************************************************************)
THEOREM TimeoutNotLostCorrect == WaitSpec => []TimeoutNotLost
<1>1. WaitInit => NodeInv
  BY DEF WaitInit, NodeInv, SoundNode
<1>2. WaitInv /\ NodeInv /\ [WaitNext]_waitVars => NodeInv'
  BY NodeInvNext
<1>3. NodeInv => TimeoutNotLost
  BY DEF NodeInv, SoundNode, Scanned, TimeoutNotLost, Timed, Has
<1>. QED BY <1>1, <1>2, <1>3, WaitInvInit, WaitInvNext, PTL DEF WaitSpec
=============================================================================
