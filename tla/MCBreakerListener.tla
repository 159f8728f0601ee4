-------------------------- MODULE MCBreakerListener --------------------------
(***************************************************************************)
(* BreakerListener on small instances: two or three calls and one          *)
(* operator.                                                               *)
(***************************************************************************)
EXTENDS BreakerListener, TLC

Symmetry == Permutations(Calls) \cup Permutations(Operators)
=============================================================================
