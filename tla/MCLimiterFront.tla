--------------------------- MODULE MCLimiterFront ---------------------------
(***************************************************************************)
(* LimiterFront on small instances: interchangeable threads, other calls,  *)
(* fronts and listeners.                                                   *)
(***************************************************************************)
EXTENDS LimiterFront, TLC

Symmetry == Permutations(Threads) \cup Permutations(Calls \ Threads)
              \cup Permutations(Revocable) \cup Permutations(Heard \ Revocable)
              \cup Permutations(Fronts \ Heard) \cup Permutations(Listeners)
=============================================================================
