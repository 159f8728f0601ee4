------------------------------ MODULE MCBreaker ------------------------------
(***************************************************************************)
(* CircuitBreaker on small instances.  The configurations give every       *)
(* constant its value; the calls are interchangeable.                      *)
(***************************************************************************)
EXTENDS CircuitBreaker, TLC

Symmetry == Permutations(Calls)
=============================================================================
