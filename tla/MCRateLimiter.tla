---------------------------- MODULE MCRateLimiter ----------------------------
(***************************************************************************)
(* RateLimiter on small instances: a few interchangeable calls.            *)
(***************************************************************************)
EXTENDS RateLimiter, TLC

Symmetry == Permutations(Calls)
=============================================================================
