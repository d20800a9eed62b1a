----------------------------- MODULE SchedParam -----------------------------
(***************************************************************************)
(* The priority computations of the HPF policy (los_priority.c) and the    *)
(* place of a task in a pend list (los_sched.c).  A smaller number is a    *)
(* higher priority.  The scheduling parameters of a task are its priority  *)
(* and priBitmap, the priorities it has set aside while it runs at an      *)
(* inherited one.  All tasks belong to one process, so OsSchedParamCompare *)
(* compares their priorities.                                              *)
(***************************************************************************)
EXTENDS Naturals, Sequences, SequencesExt

\* Mutant: an owner that has inherited once does not inherit again.
HPFPriorityInheritanceOnce(o, p) ==
    IF o.priority <= p \/ o.priBitmap # {} THEN o
    ELSE [priority |-> p, priBitmap |-> o.priBitmap \cup {o.priority}]

\* Priority of an owner o raised to p.
HPFPriorityInheritance(o, p) ==
    IF o.priority <= p THEN o
    ELSE [priority |-> p, priBitmap |-> o.priBitmap \cup {o.priority}]

\* Mutant: the list of pended tasks is ignored.
BitsAll(bits, pended) == bits

\* The priorities set aside that no pended task has, and the lowest.
BitsLeft(bits, pended) == bits \ (pended \ {Max(bits)})

\* Priority of an owner o lowered when a task of priority p stops waiting for it;
\* pended holds the priorities of the tasks on the list it is given, if any.
HPFPriorityRestore(o, pended, p) ==
    LET bits == o.priBitmap
        left == BitsLeft(bits, pended)
    IN  CASE o.priority < p /\ (bits = {} \/ Max(bits) # p) ->
                 [o EXCEPT !.priBitmap = bits \ {p}]
          [] o.priority >= p /\ bits # {} ->
                 [priority |-> Min(left), priBitmap |-> left \ {Min(left)}]
          [] OTHER -> o

\* Mutant: first come, first served.
LockPendFindPosFifo(s, p) == Len(s) + 1

\* Position in a pend list, whose tasks have the priorities s, of a task of
\* priority p: before the first task of a lower priority, after the first of an
\* equal one.
OsSchedLockPendFindPos(s, p) ==
    LET i == SelectInSeq(s, LAMBDA q : q >= p)
    IN  CASE s = <<>>                                -> 1
          [] s # <<>> /\ Head(s) > p                 -> 1
          [] s # <<>> /\ Head(s) <= p /\ Last(s) <= p -> Len(s) + 1
          [] OTHER -> IF s[i] > p THEN i ELSE i + 1
=============================================================================
