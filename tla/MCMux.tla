------------------------------- MODULE MCMux -------------------------------
(***************************************************************************)
(* Instances of Mux.  For the ownership properties: a recursive mutex that *)
(* inherits and a normal one that protects, a task of low priority that is *)
(* suspended, deleted and given priorities, and two interchangeable tasks  *)
(* of high priority.  For the priority properties: one error-checking     *)
(* mutex that inherits, and tasks of different and of equal priorities.    *)
(***************************************************************************)
EXTENDS Mux

CONSTANTS t1, t2, t3, t4, t5, m1, m2

MCPrio == 1..3
MCType == [m \in Mux |-> IF m = m2 THEN "NORMAL" ELSE "RECURSIVE"]
MCProtocol == [m \in Mux |-> IF m = m2 THEN "PROTECT" ELSE "INHERIT"]
MCCeiling == [m \in Mux |-> 1]

OwnerPrio == [t \in Task |-> IF t = t1 THEN 2 ELSE 1]
OwnerSymmetry == Permutations({t2, t3})

InheritPrio == [t \in Task |-> CASE t = t1 -> 3 [] t \in {t2, t5} -> 2 [] OTHER -> 1]
InheritType == [m \in Mux |-> "ERRORCHECK"]
=============================================================================
