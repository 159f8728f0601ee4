--------------------------- MODULE BreakerContract ---------------------------
(***************************************************************************)
(* What a circuit breaker promises its callers and its operator, without   *)
(* windows, outcomes or calls: which state may follow which and on whose   *)
(* initiative, how long OPEN lasts at least, and how many calls one        *)
(* half-open period lets in.                                               *)
(***************************************************************************)
EXTENDS Integers

CONSTANTS PermittedCalls, WaitDuration, AutomaticHalfOpen

VARIABLES mode,     \* the breaker's state
          waited,   \* ticks spent in OPEN
          used,     \* calls let in since it became half-open
          driver    \* who made the last change: the breaker or the application

contractVars == <<mode, waited, used, driver>>

Modes == {"CLOSED", "OPEN", "HALF_OPEN", "DISABLED", "FORCED_OPEN", "METRICS_ONLY"}

Init == mode = "CLOSED" /\ waited = 0 /\ used = 0 /\ driver = "application"

Become(m, n, who) == mode' = m /\ waited' = 0 /\ used' = n /\ driver' = who

Trip == mode = "CLOSED" /\ Become("OPEN", 0, "automatic")

Wait ==
  /\ mode = "OPEN"
  /\ waited < WaitDuration
  /\ waited' = waited + 1
  /\ UNCHANGED <<mode, used, driver>>

\* OPEN ends by itself after the whole wait only, by letting one call in.
Probe ==
  /\ mode = "OPEN"
  /\ AutomaticHalfOpen
  /\ waited = WaitDuration
  /\ Become("HALF_OPEN", 1, "automatic")

Admit ==
  /\ mode = "HALF_OPEN"
  /\ used < PermittedCalls
  /\ used' = used + 1
  /\ UNCHANGED <<mode, waited, driver>>

Resolve ==
  /\ mode = "HALF_OPEN"
  /\ \E m \in {"OPEN", "CLOSED"} : Become(m, 0, "automatic")

\* DISABLED, FORCED_OPEN and METRICS_ONLY begin and end here and nowhere else.
Command == \E m \in Modes : Become(m, 0, "application")

Next == Trip \/ Wait \/ Probe \/ Admit \/ Resolve \/ Command

Spec == Init /\ [][Next]_contractVars
=============================================================================
