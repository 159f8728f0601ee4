--------------------------- MODULE BreakerMetrics ---------------------------
(***************************************************************************)
(* The two outcome windows of circuitbreaker/metrics.py, as operators on   *)
(* sequences of call outcomes.  An outcome keeps what the code tells       *)
(* apart: whether the call succeeded, whether it was slow, and its age in  *)
(* ticks (the code keeps a monotonic timestamp; only the difference        *)
(* between it and the present is ever compared).                           *)
(***************************************************************************)
EXTENDS Integers, Sequences, FiniteSets

CONSTANTS WindowSize,      \* sliding_window_size: calls, or ticks when time based
          WindowType,      \* sliding_window_type
          PermittedCalls   \* permitted_calls_in_half_open

\* CircuitBreakerConfig.validate, of the windows
WindowConfigIsValid ==
  /\ WindowSize \in Nat \ {0}
  /\ WindowType \in {"COUNT_BASED", "TIME_BASED"}
  /\ PermittedCalls \in Nat \ {0}

ASSUME WindowAssumption == WindowConfigIsValid

CountBased == WindowType = "COUNT_BASED"

\* An entry older than WindowSize never counts again, so ages stop there.
AgeLimit == IF CountBased THEN 0 ELSE WindowSize + 1

CallOutcome == [ok : BOOLEAN, slow : BOOLEAN, age : 0..AgeLimit]

Outcome(ok, slow) == [ok |-> ok, slow |-> slow, age |-> 0]

-----------------------------------------------------------------------------
(* SlidingWindowMetrics *)

\* _cleanup_old_entries drops from the head until an entry is young enough.
Expire(w) ==
  LET young == {i \in 1..Len(w) : w[i].age <= WindowSize} \cup {Len(w) + 1}
      first == CHOOSE i \in young : \A j \in young : i <= j
  IN  IF CountBased THEN w ELSE SubSeq(w, first, Len(w))

\* Fault: the newest outcome enters at the head.
AddCallInFront(w, o) == <<o>> \o Expire(w)

\* Fault: a deque that holds one outcome more than the window.
AddCallTooLong(w, o) ==
  LET longer == Append(Expire(w), o)
  IN  IF CountBased /\ Len(longer) > WindowSize + 1 THEN Tail(longer) ELSE longer

\* Fault: a full window drops the outcome that comes, not its oldest.
AddCallKeepsOldest(w, o) ==
  LET longer == Append(Expire(w), o)
  IN  IF CountBased /\ Len(longer) > WindowSize THEN SubSeq(longer, 1, WindowSize)
                                                ELSE longer

\* _add_call: a deque(maxlen) forgets its head when it is full.
AddCall(w, o) ==
  LET longer == Append(Expire(w), o)
  IN  IF CountBased /\ Len(longer) > WindowSize THEN Tail(longer) ELSE longer

\* The passing of one tick, for every entry of a time-based window.
Older(w) ==
  [i \in 1..Len(w) |->
     [w[i] EXCEPT !.age = IF @ < AgeLimit THEN @ + 1 ELSE AgeLimit]]

-----------------------------------------------------------------------------
(* HalfOpenMetrics *)

\* Fault: record_failure does not count its call.
AddTrialSuccess(ts, o) ==
  IF o.ok /\ Len(ts) < PermittedCalls THEN Append(ts, o) ELSE ts

\* record_success and record_failure ignore what exceeds the permitted calls.
AddTrial(ts, o) == IF Len(ts) < PermittedCalls THEN Append(ts, o) ELSE ts

\* Fault: waits for one outcome more than calls are permitted.
IsCompleteLate(ts) == Len(ts) > PermittedCalls

IsComplete(ts) == Len(ts) >= PermittedCalls

-----------------------------------------------------------------------------
(* Snapshot: the rates the two windows are judged by *)

FailedCalls(w) == Cardinality({i \in 1..Len(w) : ~ w[i].ok})

SlowCalls(w) == Cardinality({i \in 1..Len(w) : w[i].slow})

\* rate = (count / total) * 100 >= threshold; the rate of an empty window is 0
\* and thresholds are positive.
RateReaches(count, w, threshold) ==
  Len(w) > 0 /\ 100 * count >= threshold * Len(w)
=============================================================================
