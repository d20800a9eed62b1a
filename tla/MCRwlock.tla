------------------------------ MODULE MCRwlock ------------------------------
(***************************************************************************)
(* Instance of Rwlock: one lock, tasks of two priorities.                  *)
(***************************************************************************)
EXTENDS Rwlock

CONSTANTS t1, t2, t3, t4

MCWaitList == Rwlock \X {READ, WRITE}
MCPriority == [t \in Task |-> IF t \in {t1, t2} THEN 1 ELSE 2]
MCCountMin == -2
Symmetry == Permutations({t3, t4})
=============================================================================
