---------------------------- MODULE BreakerPolicy ----------------------------
(***************************************************************************)
(* CircuitBreakerConfig and the decisions of states.py that depend on      *)
(* nothing but the configuration and a window of outcomes.                 *)
(***************************************************************************)
EXTENDS BreakerMetrics

CONSTANTS
  FailureRateThreshold,   \* failure_rate_threshold, in percent
  SlowCallRateThreshold,  \* slow_call_rate_threshold, in percent
  MinimumCalls,           \* minimum_number_of_calls
  WaitDuration,           \* wait_duration_in_open_state, in ticks
  MaxWaitHalfOpen,        \* max_wait_duration_in_half_open, in ticks; 0 is none
  AutomaticHalfOpen       \* automatic_transition_from_open_to_half_open

\* CircuitBreakerConfig.validate, of the rest; thresholds in whole percents
PolicyConfigIsValid ==
  /\ FailureRateThreshold \in 1..100
  /\ SlowCallRateThreshold \in 1..100
  /\ MinimumCalls \in Nat \ {0}
  /\ WaitDuration \in Nat \ {0}
  /\ MaxWaitHalfOpen \in Nat
  /\ AutomaticHalfOpen \in BOOLEAN

ASSUME PolicyAssumption == PolicyConfigIsValid

StateTypes ==
  {"CLOSED", "OPEN", "HALF_OPEN", "DISABLED", "FORCED_OPEN", "METRICS_ONLY"}

\* The function returns, or raises an exception that should_record_exception
\* counts as a failure or one that it does not.
AllVerdicts == {"returns", "fails", "fails_ignored"}

FailureRateExceeded(w) ==
  RateReaches(FailedCalls(w), w, FailureRateThreshold)

SlowCallRateExceeded(w) ==
  RateReaches(SlowCalls(w), w, SlowCallRateThreshold)

RateExceeded(w) == FailureRateExceeded(w) \/ SlowCallRateExceeded(w)

RateEvent(w) ==
  IF FailureRateExceeded(w) THEN "FailureRateExceeded" ELSE "SlowCallRateExceeded"

\* ClosedState._check_thresholds trips the breaker; on_error of an ignored
\* exception records it without looking at the thresholds.
Trips(w, verdict) ==
  /\ verdict # "fails_ignored"
  /\ Len(w) >= MinimumCalls
  /\ RateExceeded(w)

\* HalfOpenState._check_transition, once the trials are complete.
TrialTarget(ts) == IF RateExceeded(ts) THEN "OPEN" ELSE "CLOSED"
==============================================================================
