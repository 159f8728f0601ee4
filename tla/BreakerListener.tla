--------------------------- MODULE BreakerListener ---------------------------
(***************************************************************************)
(* The circuit breaker with a listener that suspends.                      *)
(*                                                                         *)
(* transition_to_state and reset await their listeners while they hold     *)
(* _state_lock, after they replaced the state object.  If a listener is a  *)
(* coroutine function that really waits, other tasks run meanwhile: they   *)
(* see the new state, decide on transitions of their own and queue up for  *)
(* the lock.  What they decided is not looked at again when their turn     *)
(* comes, but for the comparison with the state they ask for.              *)
(*                                                                         *)
(* Calls do not last long enough to be slow here and are not cancelled,    *)
(* and the listeners of the other events do not suspend.                   *)
(***************************************************************************)
EXTENDS BreakerPolicy, SequencesExt

CONSTANTS
  Calls,      \* tasks that call the decorated function
  Operators,  \* tasks of the application that change the state by hand
  Commands,   \* what they ask for: states, or RESET
  Verdicts,   \* how the protected function may end
  NoTask

ASSUME ListenerAssumption ==
  /\ IsFiniteSet(Calls \cup Operators)
  /\ Calls \cap Operators = {}
  /\ NoTask \notin Calls \cup Operators
  /\ Commands \subseteq StateTypes \cup {"RESET"}
  /\ Verdicts \subseteq AllVerdicts

Tasks == Calls \cup Operators

VARIABLES
  state,      \* the current state object
  window,     \* the breaker's SlidingWindowMetrics
  lockOwner,  \* who holds _state_lock, or was handed it and has yet to run
  lockQueue,  \* the waiters of _state_lock, first come first
  behind,     \* behind[t]: who waits for the HalfOpenState lock that t holds
  pc,         \* where each task is
  job         \* the transition a waiting or publishing task is about

vars == <<state, window, lockOwner, lockQueue, behind, pc, job>>

NewState(type) ==
  [type |-> type, elapsed |-> 0, permits |-> 0, trials |-> <<>>,
   trialLock |-> NoTask,  \* the holder of HalfOpenState._lock
   admitted |-> {}]       \* history: executing calls this object let in

\* then: what the task does after the transition.
Job(target, then) == [target |-> target, then |-> then]

\* Of a task that is in no transition.
NoJob == Job("CLOSED", "leave")

Init ==
  /\ state = NewState("CLOSED")
  /\ window = <<>>
  /\ lockOwner = NoTask
  /\ lockQueue = <<>>
  /\ behind = [t \in Tasks |-> <<>>]
  /\ pc = [t \in Tasks |-> "idle"]
  /\ job = [t \in Tasks |-> NoJob]

-----------------------------------------------------------------------------
(* Pieces of a step.  Each takes the state object and the lock as the task *)
(* has left them so far in this step.                                      *)

\* Fault: the lock of a HalfOpenState is released without waking the next.
LeaveAlone(t, s, owner, queue) ==
  /\ state' = s
  /\ lockOwner' = owner
  /\ lockQueue' = queue
  /\ pc' = [pc EXCEPT ![t] = "idle"]
  /\ behind' = [behind EXCEPT ![t] = <<>>]
  /\ job' = [job EXCEPT ![t] = NoJob]

\* The task is back where it came from.  If it held the lock of a
\* HalfOpenState it hands it to the next in line.
Leave(t, s, owner, queue) ==
  /\ state' = s
  /\ lockOwner' = owner
  /\ lockQueue' = queue
  /\ IF behind[t] = <<>>
       THEN /\ pc' = [pc EXCEPT ![t] = "idle"]
            /\ UNCHANGED behind
       ELSE LET next == Head(behind[t])
            IN  /\ pc' = [pc EXCEPT ![t] = "idle", ![next] = "timingOut"]
                /\ behind' = [behind EXCEPT ![t] = <<>>, ![next] = Tail(behind[t])]
  /\ job' = [job EXCEPT ![t] = NoJob]

Execute(c, s, owner, queue) ==
  /\ state' = [s EXCEPT !.admitted = @ \cup {c}]
  /\ lockOwner' = owner
  /\ lockQueue' = queue
  /\ pc' = [pc EXCEPT ![c] = "executing"]
  /\ job' = [job EXCEPT ![c] = NoJob]
  /\ UNCHANGED behind

\* Under the lock: the new object is in place and the listener is awaited.
Install(t, target) ==
  /\ state' = NewState(IF target = "RESET" THEN "CLOSED" ELSE target)
  /\ pc' = [pc EXCEPT ![t] = "publishing"]
  /\ UNCHANGED behind

\* transition_to_state.  The lock is fair: nobody passes a waiter, and it is
\* handed to the first one on release.
Transition(t, target, then, s, owner, queue) ==
  IF owner # NoTask
    THEN /\ state' = s
         /\ lockOwner' = owner
         /\ lockQueue' = Append(queue, t)
         /\ pc' = [pc EXCEPT ![t] = "waiting"]
         /\ job' = [job EXCEPT ![t] = Job(target, then)]
         /\ UNCHANGED behind
    ELSE IF s.type = target
      THEN Leave(t, s, owner, queue)
      ELSE /\ Install(t, target)
           /\ lockOwner' = t
           /\ lockQueue' = queue
           /\ job' = [job EXCEPT ![t] = Job(target, then)]

WaitIsOver(s) == AutomaticHalfOpen /\ s.elapsed >= WaitDuration

TrialTimeIsUp(s) == MaxWaitHalfOpen > 0 /\ s.elapsed >= MaxWaitHalfOpen

\* HalfOpenState.acquire_permission: its own lock is held over the transition
\* that ends the trials for lack of time, and by nobody else.
AcquireTrial(c, owner, queue) ==
  \/ /\ state.trialLock # NoTask
     /\ pc' = [pc EXCEPT ![c] = "behind"]
     /\ behind' = [behind EXCEPT ![state.trialLock] = Append(@, c)]
     /\ lockOwner' = owner /\ lockQueue' = queue
     /\ job' = [job EXCEPT ![c] = NoJob]
     /\ UNCHANGED state
  \/ /\ state.trialLock = NoTask
     /\ TrialTimeIsUp(state)
     /\ Transition(c, "OPEN", "leave", [state EXCEPT !.trialLock = c], owner, queue)
  \/ /\ state.trialLock = NoTask
     /\ ~ TrialTimeIsUp(state)
     /\ IF state.permits < PermittedCalls
          THEN Execute(c, [state EXCEPT !.permits = @ + 1], owner, queue)
          ELSE Leave(c, state, owner, queue)

\* acquire_permission of the current state object.
AcquirePermission(c, owner, queue) ==
  \/ /\ state.type \in {"CLOSED", "DISABLED", "METRICS_ONLY"}
     /\ Execute(c, state, owner, queue)
  \/ /\ \/ state.type = "FORCED_OPEN"
        \/ state.type = "OPEN" /\ ~ WaitIsOver(state)
     /\ Leave(c, state, owner, queue)
  \/ /\ state.type = "OPEN" /\ WaitIsOver(state)
     /\ Transition(c, "HALF_OPEN", "acquire", state, owner, queue)
  \/ /\ state.type = "HALF_OPEN"
     /\ AcquireTrial(c, owner, queue)

\* Fault: a task that goes on to its permission forgets to release the lock.
ProceedHolding(t) ==
  IF job[t].then = "acquire"
    THEN AcquirePermission(t, lockOwner, lockQueue)
    ELSE Leave(t, state, NoTask, lockQueue)

\* Past the transition, having given the lock to the first waiter.
Proceed(t) ==
  LET owner == IF lockQueue = <<>> THEN NoTask ELSE Head(lockQueue)
      queue == IF lockQueue = <<>> THEN <<>> ELSE Tail(lockQueue)
  IN  IF job[t].then = "acquire"
        THEN AcquirePermission(t, owner, queue)
        ELSE Leave(t, state, owner, queue)

-----------------------------------------------------------------------------
(* Actions: each ends where its task awaits something *)

\* _execute_async up to the protected function.
Acquire(c) ==
  /\ pc[c] = "idle"
  /\ AcquirePermission(c, lockOwner, lockQueue)
  /\ UNCHANGED window

\* _execute_async after the protected function.
Complete(c, verdict) ==
  LET o  == Outcome(verdict # "fails", FALSE)
      w  == AddCall(window, o)
      ts == AddTrial(state.trials, o)
      gone == [state EXCEPT !.admitted = @ \ {c}]
  IN  /\ pc[c] = "executing"
      /\ \/ /\ state.type = "CLOSED"
            /\ window' = w
            /\ IF Trips(w, verdict)
                 THEN Transition(c, "OPEN", "leave", gone, lockOwner, lockQueue)
                 ELSE Leave(c, gone, lockOwner, lockQueue)
         \/ /\ state.type = "HALF_OPEN"
            /\ IF IsComplete(ts)
                 THEN Transition(c, TrialTarget(ts), "leave", [gone EXCEPT !.trials = ts],
                                 lockOwner, lockQueue)
                 ELSE Leave(c, [gone EXCEPT !.trials = ts], lockOwner, lockQueue)
            /\ UNCHANGED window
         \/ /\ state.type \in {"OPEN", "FORCED_OPEN", "DISABLED", "METRICS_ONLY"}
            /\ window' = IF state.type = "METRICS_ONLY" THEN w ELSE window
            /\ Leave(c, gone, lockOwner, lockQueue)

\* Fault: the operations of the application do not take the lock.
CommandUnlocked(t, target) ==
  /\ pc[t] = "idle"
  /\ state' = NewState(IF target = "RESET" THEN "CLOSED" ELSE target)
  /\ window' = IF target = "RESET" THEN <<>> ELSE window
  /\ UNCHANGED <<lockOwner, lockQueue, behind, pc, job>>

\* disable, force_open, close, transition_to_metrics_only or reset.
Command(t, target) ==
  /\ pc[t] = "idle"
  /\ Transition(t, target, "leave", state, lockOwner, lockQueue)
  /\ window' = IF target = "RESET" /\ lockOwner = NoTask THEN <<>> ELSE window

\* The turn of a waiter of _state_lock has come.
TakeLock(t) ==
  /\ pc[t] = "waiting"
  /\ lockOwner = t
  /\ IF state.type = job[t].target
       THEN Proceed(t)
       ELSE Install(t, job[t].target) /\ UNCHANGED <<lockOwner, lockQueue, job>>
  /\ window' = IF job[t].target = "RESET" THEN <<>> ELSE window

\* The listener returns; the task releases the lock and goes on.
Published(t) ==
  /\ pc[t] = "publishing"
  /\ Proceed(t)
  /\ UNCHANGED window

\* The next in line for the lock of a HalfOpenState that is no longer current.
\* It finds the time of that object up as well.
TimeOut(c) ==
  /\ pc[c] = "timingOut"
  /\ Transition(c, "OPEN", "leave", state, lockOwner, lockQueue)
  /\ UNCHANGED window

ElapsedLimit(type) ==
  CASE type = "OPEN"      -> WaitDuration
    [] type = "HALF_OPEN" -> MaxWaitHalfOpen
    [] OTHER              -> 0

Tick ==
  /\ state.elapsed < ElapsedLimit(state.type)
  /\ state' = [state EXCEPT !.elapsed = @ + 1]
  /\ window' = IF CountBased THEN window ELSE Older(window)
  /\ UNCHANGED <<lockOwner, lockQueue, behind, pc, job>>

Next ==
  \/ \E c \in Calls : Acquire(c)
  \/ \E c \in Calls, verdict \in Verdicts : Complete(c, verdict)
  \/ \E t \in Operators, target \in Commands : Command(t, target)
  \/ \E t \in Tasks : TakeLock(t)
  \/ \E t \in Tasks : Published(t)
  \/ \E c \in Calls : TimeOut(c)
  \/ Tick

Spec == Init /\ [][Next]_vars

\* The event loop runs ready tasks, listeners return, functions end, and calls
\* are made again.  The application's operators owe nothing.
Fairness ==
  /\ WF_vars(Tick)
  /\ \A t \in Tasks : WF_vars(TakeLock(t)) /\ WF_vars(Published(t))
  /\ \A c \in Calls : /\ WF_vars(TimeOut(c))
                      /\ WF_vars(Acquire(c))
                      /\ WF_vars(\E verdict \in Verdicts : Complete(c, verdict))

FairSpec == Spec /\ Fairness

-----------------------------------------------------------------------------
(* Properties *)

StateObjects ==
  [type : StateTypes, elapsed : Nat, permits : 0..PermittedCalls,
   trials : Seq(CallOutcome), trialLock : Calls \cup {NoTask}, admitted : SUBSET Calls]

\* Type correctness, with the sizes of the two windows.
TypeOK ==
  /\ state \in StateObjects
  /\ state.elapsed <= ElapsedLimit(state.type)
  /\ Len(state.trials) <= PermittedCalls
  /\ state.admitted \subseteq {c \in Calls : pc[c] = "executing"}
  /\ window \in Seq(CallOutcome) /\ (CountBased => Len(window) <= WindowSize)
  /\ lockOwner \in Tasks \cup {NoTask}
  /\ lockQueue \in Seq(Tasks)
  /\ behind \in [Tasks -> Seq(Calls)]
  /\ pc \in [Tasks -> {"idle", "executing", "waiting", "publishing", "behind",
                       "timingOut"}]
  /\ job \in [Tasks -> [target : StateTypes \cup {"RESET"}, then : {"acquire", "leave"}]]

\* Every waiter of a lock is in exactly one queue of it, once, and the lock is
\* held as long as somebody waits: no wakeup is lost, no two tasks publish.
LocksConsistent ==
  /\ {t \in Tasks : pc[t] \in {"waiting", "publishing"}}
       = ToSet(lockQueue) \cup ({lockOwner} \ {NoTask})
  /\ {t \in Tasks : pc[t] = "publishing"} \subseteq {lockOwner}
  /\ IsInjective(lockQueue)
  /\ lockOwner \notin ToSet(lockQueue)
  /\ lockOwner = NoTask => lockQueue = <<>>
  /\ \A t \in Tasks : pc[t] = "behind" <=> \E u \in Tasks : t \in ToSet(behind[u])
  /\ \A t, u \in Tasks :
       /\ IsInjective(behind[t])
       /\ t # u => ToSet(behind[t]) \cap ToSet(behind[u]) = {}

\* However the transitions interleave, a half-open period keeps its permits:
\* those given out cover the executing trials, and none is lost.
PermitsExact ==
  state.type = "HALF_OPEN"
    => /\ Cardinality(state.admitted) <= state.permits
       /\ state.permits <= Cardinality(state.admitted) + Len(state.trials)

InTransition(p) == p \in {"waiting", "publishing"}

\* A task that made the breaker half-open, or waited for another to do it,
\* asks for its permission in the half-open state (OpenState.acquire_permission
\* asks "in the new state", whatever that has become).
AsksHalfOpen ==
  [][\A c \in Calls :
       job[c].then = "acquire" /\ InTransition(pc[c]) /\ ~ InTransition(pc'[c])
         => state.type = "HALF_OPEN"]_vars

\* Whoever waits for a lock or a listener gets on: no deadlock and no overtaking
\* that goes on for ever.
Suspended(t) == pc[t] \in {"waiting", "publishing", "behind", "timingOut"}

EveryoneGetsOn == \A t \in Tasks : Suspended(t) ~> ~ Suspended(t)

\* force_open() holds until the application itself ends it (states.py,
\* ForcedOpenState: "No automatic transitions occur").
ForcedOpenHolds ==
  [][state.type = "FORCED_OPEN" /\ state'.type # "FORCED_OPEN"
       => lockOwner' \in Operators]_vars
=============================================================================
