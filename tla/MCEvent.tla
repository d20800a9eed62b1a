------------------------------ MODULE MCEvent ------------------------------
(***************************************************************************)
(* Instance of Event: a plain event and one used with the Once calls,      *)
(* readers that want any of two bits and clear what they get, and readers  *)
(* that want both and do not.                                              *)
(***************************************************************************)
EXTENDS Event

CONSTANTS t2, t3, a, b

MCReads == {[mask |-> {a, b}, and |-> FALSE, clr |-> TRUE],
            [mask |-> {a, b}, and |-> TRUE, clr |-> FALSE]}
Symmetry == Permutations({t2, t3})
=============================================================================
