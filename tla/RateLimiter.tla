----------------------------- MODULE RateLimiter -----------------------------
(***************************************************************************)
(* AtomicRateLimiter (ratelimiter/atomic_rate_limiter.py) and the          *)
(* acquire_permission of RateLimiter, used by concurrent tasks.            *)
(*                                                                         *)
(* Nothing is awaited while _state_lock is held, so that a reservation is  *)
(* one step; the only suspension is the sleep of a caller that was told to *)
(* wait.  It looks at nothing when it wakes up.                            *)
(*                                                                         *)
(* The state keeps the number of the cycle it was refreshed in; the code   *)
(* only asks whether that is the present cycle.  A tick is any unit of the *)
(* nanosecond clock that divides the configured durations.                 *)
(***************************************************************************)
EXTENDS Integers

CONSTANTS
  Calls,            \* tasks that ask for a permission
  LimitForPeriod,   \* limit_for_period
  CycleLength,      \* limit_refresh_period, in ticks
  TimeoutDuration   \* timeout_duration, in ticks

\* RateLimiterConfig.validate
ConfigIsValid ==
  /\ LimitForPeriod \in Nat \ {0}
  /\ CycleLength \in Nat \ {0}
  /\ TimeoutDuration \in Nat

ASSUME LimiterAssumption == ConfigIsValid

VARIABLES
  permissions,  \* active_permissions
  fresh,        \* active_cycle is the present cycle
  offset,       \* ticks of the present cycle that have passed
  left,         \* left[c]: ticks of its sleep that c has left; -1 if it is awake
  granted,      \* history: permissions given in the present cycle
  started       \* history: calls that went on in the present cycle;
                \* both begin anew with a reset()

vars == <<permissions, fresh, offset, left, granted, started>>

Awake(c) == left[c] = -1

\* The histories tell no numbers above the limit apart.
OneMore(n) == IF n <= LimitForPeriod THEN n + 1 ELSE n

\* active_cycle starts at 0, which is the present cycle only when the clock
\* itself has just started.
Init ==
  /\ permissions = LimitForPeriod
  /\ fresh \in BOOLEAN
  /\ offset \in 0..CycleLength - 1
  /\ left = [c \in Calls |-> -1]
  /\ granted = 0
  /\ started = 0

-----------------------------------------------------------------------------
(* _reserve_permission and what its callers do with the answer *)

\* Fault: a cycle that begins adds its permissions to what is left.
RefreshedAdding == IF fresh THEN permissions ELSE permissions + LimitForPeriod

\* The permissions once the state is that of the present cycle: at least one
\* cycle has passed if it was not.
Refreshed == IF fresh THEN permissions ELSE LimitForPeriod

\* Fault: the sleep ends with the last tick of the cycle.
WaitTimeShort == CycleLength - offset - 1

\* Until next_cycle_start_nanos.
WaitTime == CycleLength - offset

\* Fault: a grant leaves the cycle of the state as it was.
GrantStale(c) ==
  /\ Awake(c)
  /\ Refreshed > 0
  /\ permissions' = Refreshed - 1
  /\ granted' = OneMore(granted)
  /\ started' = OneMore(started)
  /\ UNCHANGED <<fresh, offset, left>>

\* Wait time 0: the call goes on at once.
Grant(c) ==
  /\ Awake(c)
  /\ Refreshed > 0
  /\ permissions' = Refreshed - 1
  /\ fresh' = TRUE
  /\ granted' = OneMore(granted)
  /\ started' = OneMore(started)
  /\ UNCHANGED <<offset, left>>

\* Fault: asks whether a permission is left before it refreshes the state.
PutOffStale(c) ==
  /\ Awake(c)
  /\ permissions = 0
  /\ permissions' = 0
  /\ fresh' = TRUE
  /\ UNCHANGED <<offset, granted, started>>

PutOff(c) ==
  /\ Awake(c)
  /\ Refreshed = 0
  /\ permissions' = 0
  /\ fresh' = TRUE
  /\ UNCHANGED <<offset, granted, started>>

\* Positive wait time: the call sleeps, and reserves nothing for then.
Sleep(c) ==
  /\ PutOff(c)
  /\ WaitTime <= TimeoutDuration
  /\ left' = [left EXCEPT ![c] = WaitTime]

\* Negative wait time: RequestNotPermitted, or acquire_permission is False.
Deny(c) ==
  /\ PutOff(c)
  /\ WaitTime > TimeoutDuration
  /\ UNCHANGED left

\* The sleep is over, possibly a while ago: the event loop owes no punctuality.
Wake(c) ==
  /\ left[c] = 0
  /\ left' = [left EXCEPT ![c] = -1]
  /\ started' = OneMore(started)
  /\ UNCHANGED <<permissions, fresh, offset, granted>>

\* The task is cancelled in its sleep.
Cancel(c) ==
  /\ ~ Awake(c)
  /\ left' = [left EXCEPT ![c] = -1]
  /\ UNCHANGED <<permissions, fresh, offset, granted, started>>

\* reset() makes the state that of cycle 0, with all permissions.
Reset ==
  /\ permissions' = LimitForPeriod
  /\ fresh' \in BOOLEAN
  /\ granted' = 0
  /\ started' = 0
  /\ UNCHANGED <<offset, left>>

\* Time passes; with the last tick of a cycle the next one begins.
Tick ==
  /\ left' = [c \in Calls |-> IF left[c] > 0 THEN left[c] - 1 ELSE left[c]]
  /\ IF offset < CycleLength - 1
       THEN /\ offset' = offset + 1
            /\ UNCHANGED <<fresh, granted, started>>
       ELSE /\ offset' = 0
            /\ fresh' = FALSE
            /\ granted' = 0
            /\ started' = 0
  /\ UNCHANGED permissions

Next ==
  \/ \E c \in Calls : Grant(c)
  \/ \E c \in Calls : Sleep(c)
  \/ \E c \in Calls : Deny(c)
  \/ \E c \in Calls : Wake(c)
  \/ \E c \in Calls : Cancel(c)
  \/ Reset
  \/ Tick

Spec == Init /\ [][Next]_vars

-----------------------------------------------------------------------------
(* Properties *)

\* Type correctness: the permissions stay between 0 and the limit.
TypeOK ==
  /\ permissions \in 0..LimitForPeriod
  /\ fresh \in BOOLEAN
  /\ offset \in 0..CycleLength - 1
  /\ left \in [Calls -> -1..CycleLength]
  /\ granted \in 0..LimitForPeriod + 1
  /\ started \in 0..LimitForPeriod + 1

\* No cycle gives more permissions than limit_for_period, whatever was asked
\* for, slept over or cancelled before (config.py: "The number of permissions
\* available during a limit refresh period").
GrantsBounded == granted <= LimitForPeriod

\* Whoever sleeps sleeps to the end of the cycle that refused it, and not
\* longer than timeout_duration: all of them are due at the same moment.
SleepsToNextCycle ==
  \A c \in Calls : left[c] > 0 => left[c] = CycleLength - offset
                                  /\ left[c] <= TimeoutDuration

\* The limiter refreshes its permissions when it is asked.  Seen from outside
\* they are all there from the first tick of the cycle, as FixedWindow has it.
Window == INSTANCE FixedWindow WITH
  Limit <- LimitForPeriod, Length <- CycleLength, Tasks <- Calls,
  available <- Refreshed, at <- offset,
  putOff <- {c \in Calls : left[c] > 0},
  due <- {c \in Calls : left[c] = 0}

KeepsWindow == Window!Spec

\* No more than limit_for_period calls go on in one cycle (rate_limit():
\* "Number of allowed calls per period").
StartsBounded == started <= LimitForPeriod
=============================================================================
