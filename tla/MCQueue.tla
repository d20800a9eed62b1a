------------------------------ MODULE MCQueue ------------------------------
(***************************************************************************)
(* An instance of Queue: the pend lists are pairs of a queue and a side.   *)
(***************************************************************************)
EXTENDS Queue

MCWaitList == Queue \X {READ, WRITE}
Symmetry == Permutations(Task \ Managed) \cup Permutations(Msg)
=============================================================================
