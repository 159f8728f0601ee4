-------------------------- MODULE MCEventPublisher --------------------------
(***************************************************************************)
(* EventPublisher on a small instance: more events than the queue holds,   *)
(* two tasks that start and stop the publisher.                            *)
(***************************************************************************)
EXTENDS EventPublisher, TLC
=============================================================================
