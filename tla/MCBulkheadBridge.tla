-------------------------- MODULE MCBulkheadBridge --------------------------
(***************************************************************************)
(* BulkheadBridge on a small instance.                                     *)
(***************************************************************************)
EXTENDS BulkheadBridge, TLC
=============================================================================
