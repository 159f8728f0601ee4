----------------------------- MODULE FixedWindow -----------------------------
(***************************************************************************)
(* What a rate limiter promises: each period of Length ticks comes with    *)
(* Limit permissions, there from its first tick on.  Nobody is put off     *)
(* while a permission is left, and the period of a caller that was put off *)
(* is over before it may go on.                                            *)
(***************************************************************************)
EXTENDS Integers

CONSTANTS Limit, Length, Tasks

VARIABLES available,  \* permissions left in the present period
          at,         \* ticks of the present period that have passed
          putOff,     \* tasks that wait for the next period
          due         \* tasks whose wait is over

windowVars == <<available, at, putOff, due>>

Init == available = Limit /\ at \in 0..Length - 1 /\ putOff = {} /\ due = {}

Grant ==
  /\ available > 0
  /\ available' = available - 1
  /\ UNCHANGED <<at, putOff, due>>

PutOff(t) ==
  /\ available = 0
  /\ t \notin putOff \cup due
  /\ putOff' = putOff \cup {t}
  /\ UNCHANGED <<available, at, due>>

\* The task goes on, or is cancelled.
GoOn(t) ==
  /\ t \in due
  /\ due' = due \ {t}
  /\ UNCHANGED <<available, at, putOff>>

GiveUp(t) ==
  /\ t \in putOff
  /\ putOff' = putOff \ {t}
  /\ UNCHANGED <<available, at, due>>

Pass ==
  /\ at < Length - 1
  /\ at' = at + 1
  /\ UNCHANGED <<available, putOff, due>>

NewPeriod ==
  /\ at = Length - 1
  /\ at' = 0
  /\ available' = Limit
  /\ due' = due \cup putOff
  /\ putOff' = {}

Restart ==
  /\ available' = Limit
  /\ UNCHANGED <<at, putOff, due>>

Next ==
  \/ Grant
  \/ \E t \in Tasks : PutOff(t) \/ GoOn(t) \/ GiveUp(t)
  \/ Pass
  \/ NewPeriod
  \/ Restart

Spec == Init /\ [][Next]_windowVars
=============================================================================
