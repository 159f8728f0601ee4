------------------------------ MODULE Bulkhead ------------------------------
(***************************************************************************)
(* SemaphoreBulkhead and ThreadPoolBulkhead (bulkhead/*.py), used by       *)
(* concurrent tasks of one event loop.                                     *)
(*                                                                         *)
(* Both keep an asyncio.Semaphore and, beside it, their own count of the   *)
(* permits it has left, and both let go of a call in a finally clause.     *)
(* They differ in the number of permits, in whether a call may wait for    *)
(* one, and in the threads that run functions that are not coroutines: the *)
(* loop's default executor, or the bulkhead's own pool.                    *)
(*                                                                         *)
(* asyncio.Semaphore is external.  Permits go to waiters in the order they *)
(* came.  A waiter that is woken has its permit, but until it goes on it   *)
(* keeps all newcomers waiting, even if there are more permits; it then    *)
(* wakes the next one, as CPython 3.11 does (later versions: as many as    *)
(* there are permits for).  If it gives up instead, its permit goes on to  *)
(* the next.  Event handlers may suspend the call that publishes the       *)
(* event; their errors are ignored.                                        *)
(***************************************************************************)
EXTENDS Integers, Sequences, FiniteSets, SequencesExt

CONSTANTS
  Calls,               \* tasks that call decorated functions
  SyncCalls,           \* those whose function is not a coroutine function
  BridgedCalls,        \* those of them that decorated functions make, each on
                       \* an event loop of its own
  Kinds,               \* which of the two classes the bulkhead may be
  MaxConcurrentCalls,  \* max_concurrent_calls of the semaphore's class
  WaitAllowed,         \* whether its max_wait_duration is above 0
  DefaultThreads,      \* workers of the default executor
  MaxThreads,          \* max_thread_pool_size of the thread pool's class
  QueueCapacity        \* queue_capacity

\* BulkheadConfig.validate
SemaphoreConfigIsValid ==
  /\ MaxConcurrentCalls \in Nat \ {0}
  /\ WaitAllowed \in BOOLEAN

\* ThreadPoolBulkheadConfig.validate
ThreadPoolConfigIsValid ==
  /\ MaxThreads \in Nat \ {0}
  /\ QueueCapacity \in Nat

ASSUME BulkheadAssumption ==
  /\ SyncCalls \subseteq Calls
  /\ BridgedCalls \subseteq SyncCalls
  /\ IsFiniteSet(Calls)
  /\ Kinds \subseteq {"semaphore", "thread_pool"}
  /\ DefaultThreads \in Nat \ {0}
  /\ SemaphoreConfigIsValid
  /\ ThreadPoolConfigIsValid

VARIABLES
  kind,       \* the class of the bulkhead
  free,       \* permits the semaphore has left
  available,  \* _available_permits
  waiters,    \* calls that wait for a permit and are not woken, first come first
  phase,      \* where each call is
  backlog,    \* calls whose function waits for a thread, in order
  onThread,   \* calls whose function a thread runs
  orphans,    \* threads that run a function whose call was cancelled
  open,       \* whether the executor still takes functions
  reply       \* what the last step gave its caller

vars == <<kind, free, available, waiters, phase, backlog, onThread, orphans,
          open, reply>>

threadVars == <<backlog, onThread, orphans>>

Permits == IF kind = "semaphore" THEN MaxConcurrentCalls ELSE MaxThreads + QueueCapacity

Threads == IF kind = "semaphore" THEN DefaultThreads ELSE MaxThreads

Waits == kind = "semaphore" /\ WaitAllowed

In(p) == {c \in Calls : phase[c] = p}

Init ==
  /\ kind \in Kinds
  /\ free = Permits
  /\ available = Permits
  /\ waiters = <<>>
  /\ phase = [c \in Calls |-> "idle"]
  /\ backlog = <<>>
  /\ onThread = {}
  /\ orphans = 0
  /\ open = TRUE
  /\ reply = "none"

-----------------------------------------------------------------------------
(* The semaphore *)

\* Whoever comes now has to wait.
Locked == free = 0 \/ waiters # <<>> \/ In("woken") # {}

\* One permit comes back, all calls being where p says.
Release(p) ==
  IF waiters = <<>>
    THEN /\ free' = free + 1
         /\ phase' = p
         /\ UNCHANGED waiters
    ELSE /\ waiters' = Tail(waiters)
         /\ phase' = [p EXCEPT ![Head(waiters)] = "woken"]
         /\ UNCHANGED free

-----------------------------------------------------------------------------
(* acquire_permission *)

\* No waiting: the bulkhead's own count says that it is full.  The call
\* publishes that it is rejected.
Refuse(c) ==
  /\ phase[c] = "idle"
  /\ ~ Waits
  /\ available <= 0
  /\ phase' = [phase EXCEPT ![c] = "rejecting"]
  /\ reply' = "none"
  /\ UNCHANGED <<kind, free, waiters, available, threadVars, open>>

\* Fault: off by one in the check of the count.
EnterTooMany(c) ==
  /\ phase[c] = "idle"
  /\ ~ Waits
  /\ available >= 0
  /\ free' = free - 1
  /\ available' = available - 1
  /\ phase' = [phase EXCEPT ![c] = "permitting"]
  /\ reply' = "none"
  /\ UNCHANGED <<kind, waiters, threadVars, open>>

\* No waiting: the count promises that the semaphore does not suspend the
\* call (SemaphoreBulkhead holds _counter_lock over it).  The call publishes
\* that it is permitted.
Enter(c) ==
  /\ phase[c] = "idle"
  /\ ~ Waits
  /\ available > 0
  /\ free' = free - 1
  /\ available' = available - 1
  /\ phase' = [phase EXCEPT ![c] = "permitting"]
  /\ reply' = "none"
  /\ UNCHANGED <<kind, waiters, threadVars, open>>

\* wait_for(semaphore.acquire()) with a permit at hand.  The call goes on in a
\* later step: wait_for may run the acquisition in a task of its own.
Request(c) ==
  /\ phase[c] = "idle"
  /\ Waits
  /\ ~ Locked
  /\ free' = free - 1
  /\ phase' = [phase EXCEPT ![c] = "granted"]
  /\ reply' = "none"
  /\ UNCHANGED <<kind, available, waiters, threadVars, open>>

\* Fault: the last to come is the first to be served.
QueueInFront(c) ==
  /\ phase[c] = "idle"
  /\ Waits
  /\ Locked
  /\ waiters' = <<c>> \o waiters
  /\ phase' = [phase EXCEPT ![c] = "queued"]
  /\ reply' = "none"
  /\ UNCHANGED <<kind, free, available, threadVars, open>>

Queue(c) ==
  /\ phase[c] = "idle"
  /\ Waits
  /\ Locked
  /\ waiters' = Append(waiters, c)
  /\ phase' = [phase EXCEPT ![c] = "queued"]
  /\ reply' = "none"
  /\ UNCHANGED <<kind, free, available, threadVars, open>>

Goes(c, p) == [phase EXCEPT ![c] = p]

\* Fault: a waiter that goes on leaves the other permits to those to come.
ProceedAlone(c) ==
  /\ phase[c] = "woken"
  /\ phase' = Goes(c, "granted")
  /\ reply' = "none"
  /\ UNCHANGED <<kind, free, available, waiters, threadVars, open>>

\* A woken waiter goes on; if there is another permit it wakes the next one.
Proceed(c) ==
  /\ phase[c] = "woken"
  /\ IF free > 0 /\ waiters # <<>>
       THEN /\ free' = free - 1
            /\ waiters' = Tail(waiters)
            /\ phase' = [Goes(c, "granted") EXCEPT ![Head(waiters)] = "woken"]
       ELSE /\ phase' = Goes(c, "granted")
            /\ UNCHANGED <<free, waiters>>
  /\ reply' = "none"
  /\ UNCHANGED <<kind, available, threadVars, open>>

\* wait_for returns; the count follows the semaphore only now.
Resume(c) ==
  /\ phase[c] = "granted"
  /\ available' = available - 1
  /\ phase' = [phase EXCEPT ![c] = "permitting"]
  /\ reply' = "none"
  /\ UNCHANGED <<kind, free, waiters, threadVars, open>>

\* The sequences that s may be once it has lost x.
Without(s, x) ==
  IF Contains(s, x) THEN {RemoveAt(s, i) : i \in {j \in DOMAIN s : s[j] = x}} ELSE {s}

\* max_wait_duration is over, or the task is cancelled: the call publishes that
\* it is rejected, or ends.
LeaveQueue(c) ==
  /\ phase[c] = "queued"
  /\ waiters' \in Without(waiters, c)
  /\ \/ phase' = Goes(c, "rejecting") /\ reply' = "none"
     \/ phase' = Goes(c, "idle") /\ reply' = "cancelled"
  /\ UNCHANGED <<kind, free, available, threadVars, open>>

\* The same when it is woken and has not gone on yet.
Forgo(c) ==
  /\ phase[c] = "woken"
  /\ \/ Release(Goes(c, "rejecting")) /\ reply' = "none"
     \/ Release(Goes(c, "idle")) /\ reply' = "cancelled"
  /\ UNCHANGED <<kind, available, threadVars, open>>

\* on_call_rejected is done: BulkheadFullException.
Reject(c) ==
  /\ phase[c] = "rejecting"
  /\ phase' = Goes(c, "idle")
  /\ reply' = "full"
  /\ UNCHANGED <<kind, free, waiters, available, threadVars, open>>

-----------------------------------------------------------------------------
(* The protected function, and release_permission *)

\* Every event loop has a default executor of its own.
InSharedPool(c) == c \in SyncCalls /\ (c \in BridgedCalls => kind = "thread_pool")

\* on_call_permitted is done and the function begins: a coroutine on the loop,
\* any other in an executor.
Begin(c) ==
  /\ phase[c] = "permitting"
  /\ open \/ c \notin SyncCalls
  /\ phase' = Goes(c, "running")
  /\ backlog' = IF InSharedPool(c) THEN Append(backlog, c) ELSE backlog
  /\ reply' = "none"
  /\ UNCHANGED <<kind, free, waiters, available, onThread, orphans, open>>

\* Fault: the permit becomes free and no waiter is told.
GiveBackSilently(c) ==
  /\ free' = free + 1
  /\ phase' = Goes(c, "finishing")
  /\ available' = available + 1
  /\ UNCHANGED waiters

\* The finally clause of a call that has the permit: it gives that back, and
\* publishes that the call is finished.
GiveBack(c) ==
  /\ Release(Goes(c, "finishing"))
  /\ available' = available + 1

\* Fault: submit is called before the try statement.
BeginClosedLosing(c) ==
  /\ phase[c] = "permitting"
  /\ ~ open /\ c \in SyncCalls
  /\ phase' = Goes(c, "idle")
  /\ reply' = "ended"
  /\ UNCHANGED <<kind, free, waiters, available, threadVars, open>>

\* After shutdown() the executor raises RuntimeError.
BeginClosed(c) ==
  /\ phase[c] = "permitting"
  /\ ~ open /\ c \in SyncCalls
  /\ GiveBack(c)
  /\ reply' = "none"
  /\ UNCHANGED <<kind, threadVars, open>>

\* The next function gets a thread.
StartThread ==
  /\ backlog # <<>>
  /\ Cardinality(onThread) + orphans < Threads
  /\ backlog' = Tail(backlog)
  /\ onThread' = onThread \cup {Head(backlog)}
  /\ reply' = "none"
  /\ UNCHANGED <<kind, free, available, waiters, phase, orphans, open>>

\* A function ends on its thread; its call is resumed by the loop later.
EndThread(c) ==
  /\ c \in onThread
  /\ onThread' = onThread \ {c}
  /\ reply' = "none"
  /\ UNCHANGED <<kind, free, available, waiters, phase, backlog, orphans, open>>

EndOrphan ==
  /\ orphans > 0
  /\ orphans' = orphans - 1
  /\ reply' = "none"
  /\ UNCHANGED <<kind, free, available, waiters, phase, backlog, onThread, open>>

InExecutor(c) == c \in onThread \/ Contains(backlog, c)

\* The function returned or raised.
Finish(c) ==
  /\ phase[c] = "running"
  /\ ~ InExecutor(c)
  /\ GiveBack(c)
  /\ reply' = "none"
  /\ UNCHANGED <<kind, threadVars, open>>

\* Fault: a function that has no thread yet stays in the executor's queue.
CancelKeepingJob(c) ==
  /\ phase[c] \in {"permitting", "running"}
  /\ GiveBack(c)
  /\ onThread' = onThread \ {c}
  /\ orphans' = IF c \in onThread THEN orphans + 1 ELSE orphans
  /\ reply' = "none"
  /\ UNCHANGED <<kind, backlog, open>>

\* The task is cancelled before or while its function runs.  A coroutine ends,
\* a function that has no thread yet never gets one; one that runs on a thread
\* runs on, without a permit.
Cancel(c) ==
  /\ phase[c] \in {"permitting", "running"}
  /\ GiveBack(c)
  /\ backlog' \in Without(backlog, c)
  /\ onThread' = onThread \ {c}
  /\ orphans' = IF c \in onThread THEN orphans + 1 ELSE orphans
  /\ reply' = "none"
  /\ UNCHANGED <<kind, open>>

\* on_call_finished is done, and the call returns or raises.
Return(c) ==
  /\ phase[c] = "finishing"
  /\ phase' = Goes(c, "idle")
  /\ reply' = "ended"
  /\ UNCHANGED <<kind, free, waiters, available, threadVars, open>>

\* The task is cancelled while its last handler is awaited.
CancelHandler(c) ==
  /\ phase[c] \in {"rejecting", "finishing"}
  /\ phase' = Goes(c, "idle")
  /\ reply' = "cancelled"
  /\ UNCHANGED <<kind, free, waiters, available, threadVars, open>>

\* ThreadPoolBulkhead.shutdown: what is in the executor still runs.
Shutdown ==
  /\ kind = "thread_pool"
  /\ open
  /\ open' = FALSE
  /\ reply' = "none"
  /\ UNCHANGED <<kind, free, available, waiters, phase, threadVars>>

Next ==
  \/ \E c \in Calls :
       \/ Refuse(c)
       \/ Enter(c)
       \/ Request(c)
       \/ Queue(c)
       \/ Proceed(c)
       \/ Resume(c)
       \/ LeaveQueue(c)
       \/ Forgo(c)
       \/ Reject(c)
       \/ Begin(c)
       \/ BeginClosed(c)
       \/ EndThread(c)
       \/ Finish(c)
       \/ Cancel(c)
       \/ Return(c)
       \/ CancelHandler(c)
  \/ StartThread
  \/ EndOrphan
  \/ Shutdown

Spec == Init /\ [][Next]_vars

-----------------------------------------------------------------------------
(* Properties *)

Replies == {"none", "ended", "full", "cancelled", "runtime_error"}

\* Type correctness.  That free stays above -1 also says that the count never
\* promises a permit the semaphore does not have.
TypeOK ==
  /\ kind \in Kinds
  /\ free \in 0..Permits
  /\ available \in 0..Permits
  /\ waiters \in Seq(Calls)
  /\ phase \in [Calls -> {"idle", "queued", "woken", "granted", "permitting", "running",
                          "finishing", "rejecting"}]
  /\ backlog \in Seq(SyncCalls)
  /\ onThread \subseteq SyncCalls
  /\ orphans \in 0..Threads
  /\ open \in BOOLEAN
  /\ reply \in Replies

\* Calls that have a permit and know it.
Inside == In("permitting") \cup In("running")

\* No permit is lost or made up, however calls end, time out or are cancelled:
\* each is free or held by one call.  The bulkhead's own count lags behind the
\* semaphore by the permits that are being handed over and by no others.
PermitsConserved ==
  /\ free + Cardinality(In("woken") \cup In("granted") \cup Inside) = Permits
  /\ available = Permits - Cardinality(Inside)

\* A permit may be free while calls wait for one, but only as long as a woken
\* waiter has not gone on: that one will wake the next, or pass its own permit
\* on.
NoPermitForgotten == free > 0 /\ waiters # <<>> => In("woken") # {}

\* The queue and the threads of the executor hold the functions of running
\* calls, each once, on no more threads than there are.
ExecutorConsistent ==
  /\ onThread \cup ToSet(backlog) \subseteq In("running")
  /\ onThread \cap ToSet(backlog) = {}
  /\ IsInjective(backlog)
  /\ Cardinality(onThread) + orphans <= Threads

\* Nobody waits for ever, even if its time never runs out: those who come later
\* do not overtake.
WaitersServed == \A c \in Calls : phase[c] = "queued" ~> phase[c] # "queued"
=============================================================================
