--------------------------- MODULE CircuitBreaker ---------------------------
(***************************************************************************)
(* One circuit breaker (circuitbreaker/circuit_breaker.py and states.py)   *)
(* shared by concurrent calls on one event loop.                           *)
(*                                                                         *)
(* asyncio switches tasks only where an await really suspends.  Here the   *)
(* listeners do not suspend, so that a call has one suspension point: the  *)
(* protected function.  What runs before it (acquire_permission) and after *)
(* it (on_success, on_error, the transition they cause, the events) is one *)
(* step each.  BreakerListener gives up that assumption.            *)
(*                                                                         *)
(* Time is kept relative: the code compares only differences of            *)
(* time.monotonic() with configured durations, so an elapsed time counts   *)
(* ticks up to the duration it is compared with and stays there.           *)
(***************************************************************************)
EXTENDS BreakerPolicy

CONSTANTS
  Calls,                  \* tasks that call the decorated function
  SlowCallDuration,       \* slow_call_duration_threshold, in ticks
  RuntimeErrorRecorded,   \* should_record_exception of a RuntimeError
  Verdicts,               \* how the protected function may end
  Cancellable,            \* whether callers cancel a call while it executes
  ManualTargets,          \* the states the application itself asks for
  MayReset,               \* whether the application calls reset()
  MaxEntries              \* bound of the models: outcomes a time-based window
                          \* may come to hold

ASSUME BreakerAssumption ==
  /\ SlowCallDuration \in Nat \ {0}
  /\ RuntimeErrorRecorded \in BOOLEAN
  /\ Verdicts \subseteq AllVerdicts
  /\ Cancellable \in BOOLEAN
  /\ ManualTargets \subseteq StateTypes
  /\ MayReset \in BOOLEAN
  /\ MaxEntries \in Nat \ {0}

ASSUME CallsAssumption == IsFiniteSet(Calls)

VARIABLES
  stateType,  \* the type of the current state object
  elapsed,    \* ticks since that object was created (opened_at, entered_at)
  permits,    \* its permits_used, when it is a HalfOpenState
  trials,     \* its HalfOpenMetrics
  window,     \* the breaker's SlidingWindowMetrics
  phase,      \* where each call is
  spent,      \* ticks each executing call has spent in the function
  admitted,   \* history: executing calls the current state object let in
  driver,     \* history: who replaced the last state object
  reply,      \* what the last step gave its caller
  events      \* the events the last step published, in order

vars == <<stateType, elapsed, permits, trials, window, phase, spent,
          admitted, driver, reply, events>>

stateVars == <<stateType, elapsed, permits, trials, driver>>
callVars  == <<phase, spent>>

Replies == {"none", "returned", "raised", "not_permitted", "runtime_error",
            "cancelled"}

EventTypes == {"StateTransition", "FailureRateExceeded", "SlowCallRateExceeded",
               "Success", "Error", "IgnoredError", "CallNotPermitted", "Reset"}

Init ==
  /\ stateType = "CLOSED"
  /\ elapsed = 0
  /\ permits = 0
  /\ trials = <<>>
  /\ window = <<>>
  /\ phase = [c \in Calls |-> "idle"]
  /\ spent = [c \in Calls |-> 0]
  /\ admitted = {}
  /\ driver = "application"
  /\ reply = "none"
  /\ events = <<>>

-----------------------------------------------------------------------------
(* A new state object replaces the current one *)

\* The fields of a fresh State of type t; the sliding window is not touched.
Install(t, who) ==
  /\ stateType' = t
  /\ elapsed' = 0
  /\ permits' = 0
  /\ trials' = <<>>
  /\ driver' = who

\* transition_to_state: nothing when the breaker is in that state already.
TransitionTo(t, who) ==
  IF stateType = t
    THEN UNCHANGED stateVars
    ELSE Install(t, who)

\* Fault: announces a transition to the state the breaker is in.
TransitionEventsAlways(t) == <<"StateTransition">>

TransitionEvents(t) == IF stateType = t THEN <<>> ELSE <<"StateTransition">>

-----------------------------------------------------------------------------
(* _execute_async up to the protected function *)

\* The bound MaxEntries: a time-based window takes any number of calls per tick.
HasRoom ==
  \/ CountBased
  \/ Len(Expire(window)) + Cardinality({c \in Calls : phase[c] = "executing"})
       < MaxEntries

Starts(c) ==
  /\ HasRoom
  /\ phase' = [phase EXCEPT ![c] = "executing"]
  /\ spent' = [spent EXCEPT ![c] = 0]
  /\ reply' = "none"
  /\ UNCHANGED window

Rejected ==
  /\ reply' = "not_permitted"
  /\ UNCHANGED <<callVars, window>>

\* ClosedState, DisabledState, MetricsOnlyState.
Pass(c) ==
  /\ phase[c] = "idle"
  /\ stateType \in {"CLOSED", "DISABLED", "METRICS_ONLY"}
  /\ Starts(c)
  /\ admitted' = admitted \cup {c}
  /\ events' = <<>>
  /\ UNCHANGED stateVars

\* Fault: opens the door at once.
WaitIsOverAtOnce == AutomaticHalfOpen

WaitIsOver == AutomaticHalfOpen /\ elapsed >= WaitDuration

\* Fault: every rejected call restarts the wait.
RejectOpenRestarting(c) ==
  /\ phase[c] = "idle"
  /\ stateType = "OPEN" /\ ~ WaitIsOver
  /\ elapsed' = 0
  /\ Rejected
  /\ events' = <<"CallNotPermitted">>
  /\ UNCHANGED <<stateType, permits, trials, driver, admitted>>

\* OpenState before the wait is over, ForcedOpenState at any time.
RejectOpen(c) ==
  /\ phase[c] = "idle"
  /\ \/ stateType = "OPEN" /\ ~ WaitIsOver
     \/ stateType = "FORCED_OPEN"
  /\ Rejected
  /\ events' = <<"CallNotPermitted">>
  /\ UNCHANGED <<stateVars, admitted>>

\* Fault: the call that finds the wait over is let in without a permit.
ProbeFree(c) ==
  /\ phase[c] = "idle"
  /\ stateType = "OPEN"
  /\ WaitIsOver
  /\ Install("HALF_OPEN", "automatic")
  /\ admitted' = {c}
  /\ Starts(c)
  /\ events' = <<"StateTransition">>

\* OpenState after the wait: the caller makes the breaker half-open and takes
\* the first permit of the new state.
Probe(c) ==
  /\ phase[c] = "idle"
  /\ stateType = "OPEN"
  /\ WaitIsOver
  /\ stateType' = "HALF_OPEN"
  /\ elapsed' = 0
  /\ permits' = 1
  /\ trials' = <<>>
  /\ driver' = "automatic"
  /\ admitted' = {c}
  /\ Starts(c)
  /\ events' = <<"StateTransition">>

TrialTimeIsUp == MaxWaitHalfOpen > 0 /\ elapsed >= MaxWaitHalfOpen

\* Fault: one permit too many.
AdmitTrialTooMany(c) ==
  /\ phase[c] = "idle"
  /\ stateType = "HALF_OPEN"
  /\ ~ TrialTimeIsUp
  /\ permits <= PermittedCalls
  /\ permits' = permits + 1
  /\ admitted' = admitted \cup {c}
  /\ Starts(c)
  /\ events' = <<>>
  /\ UNCHANGED <<stateType, elapsed, trials, driver>>

AdmitTrial(c) ==
  /\ phase[c] = "idle"
  /\ stateType = "HALF_OPEN"
  /\ ~ TrialTimeIsUp
  /\ permits < PermittedCalls
  /\ permits' = permits + 1
  /\ admitted' = admitted \cup {c}
  /\ Starts(c)
  /\ events' = <<>>
  /\ UNCHANGED <<stateType, elapsed, trials, driver>>

\* Fault: permits_used grows before it is compared with the limit.
RejectTrialCounted(c) ==
  /\ phase[c] = "idle"
  /\ stateType = "HALF_OPEN"
  /\ ~ TrialTimeIsUp
  /\ permits >= PermittedCalls
  /\ permits' = permits + 1
  /\ Rejected
  /\ events' = <<"CallNotPermitted">>
  /\ UNCHANGED <<stateType, elapsed, trials, driver, admitted>>

RejectTrial(c) ==
  /\ phase[c] = "idle"
  /\ stateType = "HALF_OPEN"
  /\ ~ TrialTimeIsUp
  /\ permits >= PermittedCalls
  /\ Rejected
  /\ events' = <<"CallNotPermitted">>
  /\ UNCHANGED <<stateVars, admitted>>

\* max_wait_duration_in_half_open has passed: the next caller reopens.
ExpireHalfOpen(c) ==
  /\ phase[c] = "idle"
  /\ stateType = "HALF_OPEN"
  /\ TrialTimeIsUp
  /\ Install("OPEN", "automatic")
  /\ admitted' = {}
  /\ Rejected
  /\ events' = <<"StateTransition", "CallNotPermitted">>

Acquire(c) ==
  \/ Pass(c)
  \/ RejectOpen(c)
  \/ Probe(c)
  \/ AdmitTrial(c)
  \/ RejectTrial(c)
  \/ ExpireHalfOpen(c)

-----------------------------------------------------------------------------
(* _execute_async after the protected function *)

Returns(c) ==
  /\ phase' = [phase EXCEPT ![c] = "idle"]
  /\ spent' = [spent EXCEPT ![c] = 0]

IsSlow(c) == spent[c] >= SlowCallDuration

\* An exception that is not recorded counts as a success.
OutcomeOf(c, verdict) == Outcome(verdict # "fails", IsSlow(c))

ReplyTo(verdict) == IF verdict = "returns" THEN "returned" ELSE "raised"

EventsBefore(verdict) ==
  IF verdict = "fails_ignored" THEN <<"IgnoredError">> ELSE <<>>

EventsAfter(verdict) ==
  IF verdict = "returns" THEN <<"Success">> ELSE <<"Error">>

CompleteClosed(c, verdict) ==
  LET w == AddCall(window, OutcomeOf(c, verdict))
      trips == Trips(w, verdict)
  IN  /\ stateType = "CLOSED"
      /\ window' = w
      /\ IF trips
           THEN /\ Install("OPEN", "automatic")
                /\ admitted' = {}
           ELSE /\ UNCHANGED stateVars
                /\ admitted' = admitted \ {c}
      /\ reply' = ReplyTo(verdict)
      /\ events' = EventsBefore(verdict)
                   \o (IF trips THEN <<"StateTransition", RateEvent(w)>> ELSE <<>>)
                   \o EventsAfter(verdict)

CompleteHalfOpen(c, verdict) ==
  LET ts == AddTrial(trials, OutcomeOf(c, verdict))
      done == IsComplete(ts)
  IN  /\ stateType = "HALF_OPEN"
      /\ IF done
           THEN /\ Install(TrialTarget(ts), "automatic")
                /\ admitted' = {}
           ELSE /\ trials' = ts
                /\ admitted' = admitted \ {c}
                /\ UNCHANGED <<stateType, elapsed, permits, driver>>
      /\ reply' = ReplyTo(verdict)
      /\ events' = EventsBefore(verdict)
                   \o (IF done THEN <<"StateTransition">> ELSE <<>>)
                   \o EventsAfter(verdict)
      /\ UNCHANGED window

\* DisabledState records nothing, MetricsOnlyState records and never judges.
CompleteUnjudged(c, verdict) ==
  /\ stateType \in {"DISABLED", "METRICS_ONLY"}
  /\ window' = IF stateType = "METRICS_ONLY"
                 THEN AddCall(window, OutcomeOf(c, verdict))
                 ELSE window
  /\ admitted' = admitted \ {c}
  /\ reply' = ReplyTo(verdict)
  /\ events' = EventsBefore(verdict) \o EventsAfter(verdict)
  /\ UNCHANGED stateVars

\* The breaker opened while the call was executing.  OpenState and
\* ForcedOpenState raise RuntimeError from on_success and from on_error.  A
\* RuntimeError of on_success is caught by the except clause of _execute_async,
\* which calls on_error: the caller gets the RuntimeError of that call.
CompleteOpen(c, verdict) ==
  /\ stateType \in {"OPEN", "FORCED_OPEN"}
  /\ admitted' = admitted \ {c}
  /\ reply' = "runtime_error"
  /\ events' = IF verdict = "returns" /\ ~ RuntimeErrorRecorded
                 THEN <<"IgnoredError">>
                 ELSE EventsBefore(verdict)
  /\ UNCHANGED <<stateVars, window>>

Complete(c, verdict) ==
  /\ phase[c] = "executing"
  /\ Returns(c)
  /\ \/ CompleteClosed(c, verdict)
     \/ CompleteHalfOpen(c, verdict)
     \/ CompleteUnjudged(c, verdict)
     \/ CompleteOpen(c, verdict)

\* CancelledError is no Exception: no except clause sees it, nothing is
\* recorded and no permit comes back.
Cancel(c) ==
  /\ Cancellable
  /\ phase[c] = "executing"
  /\ Returns(c)
  /\ admitted' = admitted \ {c}
  /\ reply' = "cancelled"
  /\ events' = <<>>
  /\ UNCHANGED <<stateVars, window>>

-----------------------------------------------------------------------------
(* The application's own operations, and time *)

\* disable, force_open, close, transition_to_metrics_only, or
\* transition_to_state itself.
Manual(t) ==
  /\ TransitionTo(t, "application")
  /\ admitted' = IF stateType = t THEN admitted ELSE {}
  /\ reply' = "none"
  /\ events' = TransitionEvents(t)
  /\ UNCHANGED <<callVars, window>>

\* reset() installs a ClosedState whatever the state was, without a
\* transition event.
Reset ==
  /\ MayReset
  /\ Install("CLOSED", "application")
  /\ window' = <<>>
  /\ admitted' = {}
  /\ reply' = "none"
  /\ events' = <<"Reset">>
  /\ UNCHANGED callVars

\* get_metrics drops the expired entries of a time-based window.
GetMetrics ==
  /\ window' = Expire(window)
  /\ reply' = "none"
  /\ events' = <<>>
  /\ UNCHANGED <<stateVars, callVars, admitted>>

\* The elapsed time beyond which a state does not look.
ElapsedLimit ==
  CASE stateType = "OPEN"      -> WaitDuration
    [] stateType = "HALF_OPEN" -> MaxWaitHalfOpen
    [] OTHER                   -> 0

Tick ==
  /\ elapsed' = IF elapsed < ElapsedLimit THEN elapsed + 1 ELSE elapsed
  /\ window' = IF CountBased THEN window ELSE Older(window)
  /\ spent' = [c \in Calls |->
                 IF phase[c] = "executing" /\ spent[c] < SlowCallDuration
                   THEN spent[c] + 1 ELSE spent[c]]
  /\ reply' = "none"
  /\ events' = <<>>
  /\ UNCHANGED <<stateType, permits, trials, driver, phase, admitted>>

Application == (\E t \in ManualTargets : Manual(t)) \/ Reset

Next ==
  \/ \E c \in Calls : Acquire(c)
  \/ \E c \in Calls, verdict \in Verdicts : Complete(c, verdict)
  \/ \E c \in Calls : Cancel(c)
  \/ Application
  \/ GetMetrics
  \/ Tick

Spec == Init /\ [][Next]_vars

\* The event loop runs every ready task and the clock advances.  The calls are
\* the environment's: their function ends, and each caller calls again.
Fairness ==
  /\ WF_vars(Tick)
  /\ \A c \in Calls : /\ WF_vars(Acquire(c))
                      /\ WF_vars(\E verdict \in Verdicts : Complete(c, verdict))

FairSpec == Spec /\ Fairness

-----------------------------------------------------------------------------
(* Properties *)

\* Type correctness.  It includes the bounds of the three containers: the
\* deque(maxlen) of the sliding window, the trials of HalfOpenMetrics and
\* permits_used.
TypeOK ==
  /\ stateType \in StateTypes
  /\ elapsed \in 0..ElapsedLimit
  /\ permits \in 0..PermittedCalls
  /\ trials \in Seq(CallOutcome) /\ Len(trials) <= PermittedCalls
  /\ window \in Seq(CallOutcome) /\ (CountBased => Len(window) <= WindowSize)
  /\ phase \in [Calls -> {"idle", "executing"}]
  /\ spent \in [Calls -> 0..SlowCallDuration]
  /\ admitted \subseteq {c \in Calls : phase[c] = "executing"}
  /\ driver \in {"application", "automatic"}
  /\ reply \in Replies
  /\ events \in Seq(EventTypes)

\* A half-open breaker never has more trial calls executing than the permits it
\* gave out, and an open one has let in nobody: states.py, HalfOpenState and
\* "Always reject calls when forced open".
AdmissionBounded ==
  /\ stateType = "HALF_OPEN" => Cardinality(admitted) <= permits
  /\ stateType \in {"OPEN", "FORCED_OPEN"} => admitted = {}

\* No permit of a half-open breaker is lost: each belongs to a call that is
\* still executing or to an outcome that was recorded.  So once all permits
\* are used, some call's end still resolves the state.  on_success and on_error
\* see every end of a call but a cancellation.
NoPermitLost ==
  stateType = "HALF_OPEN" /\ ~ Cancellable
    => permits <= Cardinality(admitted) + Len(trials)

\* Entries of a time-based window are in order of age; _cleanup_old_entries
\* relies on it when it stops at the first entry that is young enough.
WindowInOrder ==
  \A i, j \in 1..Len(window) : i < j => window[i].age >= window[j].age

\* A StateTransition is published by every step that changes the state, the
\* step of reset() apart, and by no step that leaves it as it is.  What reset()
\* owes its listeners is EveryChangeAnnounced's question.
Announced == \E i \in 1..Len(events') : events'[i] = "StateTransition"

ChangesAnnounced ==
  [][/\ Announced => stateType' # stateType
     /\ stateType' # stateType => Announced \/ Reset]_vars

\* The breaker keeps its contract: legal changes of state only, a full wait in
\* OPEN, and no more than the permitted calls in a half-open period.
Contract == INSTANCE BreakerContract WITH
  mode   <- stateType,
  waited <- IF stateType = "OPEN" THEN elapsed ELSE 0,
  used   <- permits

KeepsContract == Contract!Spec

\* An open breaker that is called again becomes half-open (README: "Automatic
\* transition from OPEN to HALF_OPEN after a waiting period").
OpenIsLeft == stateType = "OPEN" ~> stateType # "OPEN"

\* A half-open breaker decides: its trials end and close or reopen it.
HalfOpenResolves == stateType = "HALF_OPEN" ~> stateType # "HALF_OPEN"

\* Once the service has healed for good (every call returns, none is slow), the
\* breaker ends up closed for good, whatever failures its window still holds.
Healthy ==
  \A c \in Calls : phase[c] = "executing" /\ phase'[c] = "idle"
                    => reply' \in {"returned", "runtime_error"} /\ ~ IsSlow(c)

Recovers == <>[][Healthy]_vars => <>[](stateType = "CLOSED")

\* The end of a call reaches the current state, which is one that accepts it
\* (states.py: on_success and on_error "Should not be called in open state").
EndIsExpected == reply # "runtime_error"

\* A half-open breaker closes when all its permitted calls have been made
\* (metrics.py, is_complete: "Check if all permitted calls have been made").
ClosesAfterTrials ==
  [][stateType = "HALF_OPEN" /\ stateType' = "CLOSED" /\ driver' = "automatic"
       => permits = PermittedCalls]_vars

\* "StateTransition: emitted on any state change" (docs/resilience4j-
\* compatibility.md, Event Types): nobody changes the state in silence.
EveryChangeAnnounced == [][stateType' # stateType => Announced]_vars
=============================================================================
