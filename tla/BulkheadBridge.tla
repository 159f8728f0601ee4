--------------------------- MODULE BulkheadBridge ---------------------------
(***************************************************************************)
(* A Bulkhead of tasks, some of which call plain functions that it         *)
(* decorates.  BaseDecorator (core/decorators.py) runs such a call in a    *)
(* thread, on an event loop of its own, and the thread of the tasks' loop  *)
(* waits in result() until it has ended: nothing runs on that loop         *)
(* meanwhile.                                                              *)
(*                                                                         *)
(* asyncio.Semaphore is external.  The first who waits for a permit binds  *)
(* it to the loop it waits in, for good; whoever has to wait in another    *)
(* loop gets a RuntimeError.                                               *)
(***************************************************************************)
EXTENDS Bulkhead

CONSTANT Nobody

ASSUME BridgeAssumption == Nobody \notin Calls

VARIABLES
  blocking,  \* the bridged call that the tasks' loop waits for, or Nobody
  bound      \* the loop of the semaphore: "none", that of the tasks, "other"

bridgeVars == <<vars, blocking, bound>>

BridgeInit ==
  /\ Init
  /\ blocking = Nobody
  /\ bound = "none"

\* Fault: the loop goes on while a bridged call is under way.
LoopRunsAnyway == TRUE

LoopRuns == blocking = Nobody

LoopOf(c) == IF c \in BridgedCalls THEN "other" ELSE "tasks"

\* The loops of two bridged calls are not the same either.
Wait(c) ==
  /\ Queue(c)
  /\ bound \in (IF c \in BridgedCalls THEN {"none"} ELSE {"none", "tasks"})
  /\ bound' = LoopOf(c)

\* The RuntimeError; the acquisition is over before it has begun.
Misbound(c) ==
  /\ phase[c] = "idle"
  /\ Waits
  /\ Locked
  /\ bound \in (IF c \in BridgedCalls THEN {"tasks", "other"} ELSE {"other"})
  /\ reply' = "runtime_error"
  /\ UNCHANGED <<kind, free, available, waiters, phase, threadVars, open>>

-----------------------------------------------------------------------------
(* A task that awaits the bulkhead *)

TaskAsks(c) ==
  /\ LoopRuns
  /\ \/ (Refuse(c) \/ Enter(c) \/ Request(c) \/ Misbound(c)) /\ UNCHANGED bound
     \/ Wait(c)
  /\ UNCHANGED blocking

TaskStops(c) ==
  /\ LoopRuns
  /\ LeaveQueue(c) \/ Forgo(c) \/ Cancel(c) \/ CancelHandler(c)
  /\ UNCHANGED <<blocking, bound>>

TaskGoesOn(c) ==
  /\ LoopRuns
  /\ \/ Proceed(c) \/ Resume(c) \/ Begin(c) \/ BeginClosed(c)
     \/ Finish(c) \/ Reject(c) \/ Return(c)
  /\ UNCHANGED <<blocking, bound>>

-----------------------------------------------------------------------------
(* A task that calls a decorated plain function *)

BridgeFails(c) ==
  /\ LoopRuns
  /\ Misbound(c)
  /\ UNCHANGED <<blocking, bound>>

\* Fault: the caller does not wait for the bridge's thread.
BridgeBeginsAside(c) ==
  /\ LoopRuns
  /\ \/ (Refuse(c) \/ Enter(c) \/ Request(c)) /\ UNCHANGED bound
     \/ Wait(c)
  /\ UNCHANGED blocking

BridgeBegins(c) ==
  /\ LoopRuns
  /\ \/ (Refuse(c) \/ Enter(c) \/ Request(c)) /\ UNCHANGED bound
     \/ Wait(c)
  /\ blocking' = c

\* Nobody can cancel it; it may run out of time.
BridgeGoesOn(c) ==
  /\ \/ Resume(c) \/ Begin(c) \/ BeginClosed(c) \/ Finish(c)
     \/ LeaveQueue(c) \/ Forgo(c)
  /\ reply' # "cancelled"
  /\ UNCHANGED <<blocking, bound>>

BridgeEnds(c) ==
  /\ Reject(c) \/ Return(c)
  /\ blocking' = Nobody
  /\ UNCHANGED bound

-----------------------------------------------------------------------------

\* The threads of the executor do not need the loop.
ThreadStep ==
  /\ StartThread \/ EndOrphan \/ \E c \in Calls : EndThread(c)
  /\ UNCHANGED <<blocking, bound>>

CallShutdown ==
  /\ LoopRuns
  /\ Shutdown
  /\ UNCHANGED <<blocking, bound>>

BridgeNext ==
  \/ \E c \in Calls \ BridgedCalls : TaskAsks(c) \/ TaskStops(c) \/ TaskGoesOn(c)
  \/ \E c \in BridgedCalls :
       \/ BridgeFails(c)
       \/ BridgeBegins(c)
       \/ BridgeGoesOn(c)
       \/ BridgeEnds(c)
  \/ ThreadStep
  \/ CallShutdown

BridgeSpec == BridgeInit /\ [][BridgeNext]_bridgeVars

\* The loop comes back to a ready task after each bridged call: its ready queue
\* is first in, first out.  Functions end, and threads are scheduled.  A bridged
\* call has its timeout or its end.  No other call needs to begin, to be
\* cancelled, or to run out of time.
BridgeFairness ==
  /\ \A c \in Calls \ BridgedCalls : SF_bridgeVars(TaskGoesOn(c))
  /\ \A c \in BridgedCalls : WF_bridgeVars(BridgeGoesOn(c) \/ BridgeEnds(c))
  /\ \A c \in Calls : WF_bridgeVars(EndThread(c) /\ ThreadStep)
  /\ WF_bridgeVars(StartThread /\ ThreadStep)
  /\ WF_bridgeVars(EndOrphan /\ ThreadStep)

FairBridgeSpec == BridgeSpec /\ BridgeFairness

-----------------------------------------------------------------------------
(* Properties *)

\* A bridged call that has to wait for a permit waits in vain, however soon the
\* functions that hold the permits end: they can give them back only on the
\* loop that it blocks.  It is refused when max_wait_duration is over.
BridgedWaitIsVain ==
  [][\A c \in BridgedCalls : phase[c] = "queued" =>
       phase'[c] \in {"queued", "rejecting"}]_bridgeVars

\* After it nobody can wait for a permit of the bulkhead any more: the tasks
\* that would have waited fail.
NobodyWaitsAfterwards ==
  bound = "other" => In("queued") \cup In("woken") \subseteq {blocking}
=============================================================================
