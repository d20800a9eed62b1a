----------------------------- MODULE MCTaskWait -----------------------------
(***************************************************************************)
(* An instance of TaskWait: tasks, pend lists and cores are                *)
(* interchangeable.                                                        *)
(***************************************************************************)
EXTENDS TaskWait

Symmetry == Permutations(Task) \cup Permutations(WaitList) \cup Permutations(Cpu)
=============================================================================
