-------------------------------- MODULE Retry --------------------------------
(***************************************************************************)
(* One Retry (retry/retry.py) around functions that several callers use at *)
(* once.  There are three ways through it:                                 *)
(*                                                                         *)
(*   coroutine  a coroutine function, on the application's event loop;     *)
(*   bridged    a plain function called by code on that loop: a thread of  *)
(*              its own runs _execute_sync, and the wrapper waits for it   *)
(*              on the loop's thread, so that the loop stands still;       *)
(*   own_loop   a plain function called where no loop runs: a new event    *)
(*              loop runs _execute_with_retry.                             *)
(*                                                                         *)
(* The two retry loops (_execute_with_retry and _execute_sync) differ in   *)
(* that the second publishes no events.  The handlers of an event may be   *)
(* coroutines, which the call awaits, and may be cancelled in.  Time is    *)
(* counted in ticks.                                                       *)
(***************************************************************************)
EXTENDS RetryIntervals, Sequences, SequencesExt, FiniteSets

CONSTANTS
  Calls,             \* the callers
  MaxAttempts,       \* max_attempts
  Configs,           \* the configurations to consider: an interval function and
                     \* fail_after_max_attempts
  Good, Poor,        \* a result, and one that retry_on_result refuses
  Exceptions,        \* what the function may raise
  RuntimeErrors,     \* those that are RuntimeErrors
  AbortExceptions,   \* those that are instances of an abort_exceptions type
  RetryExceptions,   \* those that are instances of a retry_exceptions type;
                     \* all of Exceptions when the option is not set
  AcceptedByPredicate, \* those that retry_on_exception accepts
  NoOutcome          \* before the first attempt has ended

\* RetryConfig.validate.  It forbids a type in both lists, which the instances
\* of two types may be all the same.
ConfigIsValid ==
  /\ MaxAttempts \in Nat \ {0}
  /\ \A g \in Configs : g.interval.kind = "fixed" => g.interval.initial >= 0

ASSUME RetryAssumption ==
  /\ ConfigIsValid
  /\ \A g \in Configs : IsInterval(g.interval) /\ g.failAfterMax \in BOOLEAN
  /\ RuntimeErrors \subseteq Exceptions
  /\ AbortExceptions \subseteq Exceptions
  /\ RetryExceptions \subseteq Exceptions
  /\ AcceptedByPredicate \subseteq Exceptions
  /\ {Good, Poor, NoOutcome} \cap Exceptions = {}
  /\ Cardinality({Good, Poor, NoOutcome}) = 3

Outcomes == Exceptions \cup {Good, Poor}

VARIABLES
  config,    \* the configuration of this instance
  fib,       \* its _fib_cache
  way,       \* how each caller came in
  phase,     \* idle, running the function, telling the handlers of a retry,
             \* sleeping before the next attempt, or telling them of the end
  attempt,   \* the attempt number
  left,      \* ticks of sleep left
  last,      \* outcome of the last attempt that ended
  told,      \* events published for the call so far, from their first handler on
  elapsed,   \* history: ticks since the call began
  ended      \* the call that the last step ended

vars == <<config, fib, way, phase, attempt, left, last, told, elapsed, ended>>

Nobody == [call |-> NoOutcome, way |-> "none", attempt |-> 0, last |-> NoOutcome,
           told |-> <<>>, answer |-> "none"]

Init ==
  /\ config \in Configs
  /\ fib = FirstFibonacci
  /\ way = [c \in Calls |-> "none"]
  /\ phase = [c \in Calls |-> "idle"]
  /\ attempt = [c \in Calls |-> 0]
  /\ left = [c \in Calls |-> 0]
  /\ last = [c \in Calls |-> NoOutcome]
  /\ told = [c \in Calls |-> <<>>]
  /\ elapsed = [c \in Calls |-> 0]
  /\ ended = Nobody

-----------------------------------------------------------------------------
(* RetryConfig *)

\* Fault: an exception listed in retry_exceptions is retried before
\* abort_exceptions is looked at.
ShouldRetryListedFirst(e) ==
  e \in RetryExceptions /\ e \in AcceptedByPredicate

ShouldRetry(e) ==
  /\ e \notin AbortExceptions
  /\ e \in RetryExceptions
  /\ e \in AcceptedByPredicate

AsksForMore(outcome) ==
  outcome = Poor \/ (outcome \in Exceptions /\ ShouldRetry(outcome))

-----------------------------------------------------------------------------
(* The application's event loop *)

\* Fault: a bridged call runs its attempts on the loop it is holding up.
NeedsLoopAlways(c) == way[c] \in {"coroutine", "bridged"}

NeedsLoop(c) == way[c] = "coroutine"

LoopHeld == \E c \in Calls : way[c] = "bridged"

MayRun(c) == NeedsLoop(c) => ~ LoopHeld

-----------------------------------------------------------------------------
(* The retry loop *)

Publishes(c) == way[c] # "bridged"

TellRetry(c) == IF Publishes(c) THEN Append(told[c], "Retry") ELSE told[c]

\* The wrapper's "except RuntimeError", meant for get_running_loop, also
\* catches the RuntimeError that future.result() raises again.  It starts a
\* second event loop on the thread of the first, which refuses with a
\* RuntimeError of its own.
Surfaces(c, outcome, answer) ==
  IF way[c] = "bridged" /\ answer = "own_error" /\ outcome \in RuntimeErrors
    THEN "loop_error" ELSE answer

\* The call ends: its locals are gone, and the caller has the answer.
Leaves(c, outcome, events, answer) ==
  /\ way' = [way EXCEPT ![c] = "none"]
  /\ phase' = [phase EXCEPT ![c] = "idle"]
  /\ attempt' = [attempt EXCEPT ![c] = 0]
  /\ left' = [left EXCEPT ![c] = 0]
  /\ last' = [last EXCEPT ![c] = NoOutcome]
  /\ told' = [told EXCEPT ![c] = <<>>]
  /\ elapsed' = [elapsed EXCEPT ![c] = 0]
  /\ ended' = [call |-> c, way |-> way[c], attempt |-> attempt[c],
               last |-> outcome, told |-> events,
               answer |-> Surfaces(c, outcome, answer)]
  /\ UNCHANGED <<config, fib>>

Begin(c, w) ==
  /\ phase[c] = "idle"
  /\ w # "own_loop" => ~ LoopHeld
  /\ way' = [way EXCEPT ![c] = w]
  /\ phase' = [phase EXCEPT ![c] = "running"]
  /\ attempt' = [attempt EXCEPT ![c] = 1]
  /\ ended' = Nobody
  /\ UNCHANGED <<config, fib, left, last, told, elapsed>>

\* Fault: the loop looks only at the outcome, and one attempt too many starts.
TriesAgainAlways(c, outcome) ==
  AsksForMore(outcome) /\ attempt[c] <= MaxAttempts

TriesAgain(c, outcome) == AsksForMore(outcome) /\ attempt[c] < MaxAttempts

\* The attempt asks for another one: the wait is computed, and the handlers
\* learn of it if there are any to be told.
Retry(c, outcome) ==
  /\ phase[c] = "running"
  /\ MayRun(c)
  /\ TriesAgain(c, outcome)
  /\ fib' = IF config.interval.kind = "fibonacci" THEN Remember(fib, attempt[c]) ELSE fib
  /\ \E w \in Waits(config.interval, attempt[c], fib') :
       left' = [left EXCEPT ![c] = w]
  /\ phase' = [phase EXCEPT ![c] = IF Publishes(c) THEN "telling" ELSE "sleeping"]
  /\ last' = [last EXCEPT ![c] = outcome]
  /\ told' = [told EXCEPT ![c] = TellRetry(c)]
  /\ ended' = Nobody
  /\ UNCHANGED <<config, way, attempt, elapsed>>

\* The handlers are done with the retry, and the call sleeps.
Sleep(c) ==
  /\ phase[c] = "telling"
  /\ MayRun(c)
  /\ phase' = [phase EXCEPT ![c] = "sleeping"]
  /\ ended' = Nobody
  /\ UNCHANGED <<config, fib, way, attempt, left, last, told, elapsed>>

\* The answer to a last attempt: a result is returned even if it asked for
\* another attempt.
AnswerTo(outcome) ==
  IF outcome \notin Exceptions THEN "result"
  ELSE IF ShouldRetry(outcome) /\ config.failAfterMax THEN "exhausted"
  ELSE "own_error"

\* Fault: the branch of a refused result at the last attempt tells nobody.
LastEventSilent(outcome) ==
  IF outcome = Poor THEN <<>>
  ELSE IF outcome = Good THEN <<"Success">>
  ELSE IF ShouldRetry(outcome) THEN <<"Error">>
  ELSE <<"IgnoredError">>

LastEvent(outcome) ==
  IF outcome \notin Exceptions THEN <<"Success">>
  ELSE IF ShouldRetry(outcome) THEN <<"Error">>
  ELSE <<"IgnoredError">>

\* The last attempt of a bridged call ends, and the call with it.
Finish(c, outcome) ==
  /\ phase[c] = "running"
  /\ ~ Publishes(c)
  /\ MayRun(c)
  /\ ~ TriesAgain(c, outcome)
  /\ Leaves(c, outcome, told[c], AnswerTo(outcome))

\* The last attempt of another call ends, and the handlers learn of it.
Close(c, outcome) ==
  /\ phase[c] = "running"
  /\ Publishes(c)
  /\ MayRun(c)
  /\ ~ TriesAgain(c, outcome)
  /\ phase' = [phase EXCEPT ![c] = "closing"]
  /\ last' = [last EXCEPT ![c] = outcome]
  /\ told' = [told EXCEPT ![c] = @ \o LastEvent(outcome)]
  /\ ended' = Nobody
  /\ UNCHANGED <<config, fib, way, attempt, left, elapsed>>

\* The handlers are done with the end, and the call returns or raises.
Return(c) ==
  /\ phase[c] = "closing"
  /\ MayRun(c)
  /\ Leaves(c, last[c], told[c], AnswerTo(last[c]))

\* Fault: a plain function is tried again without a sleep.
WakeAtOnce(c) ==
  /\ phase[c] = "sleeping"
  /\ MayRun(c)
  /\ way[c] = "bridged" \/ left[c] = 0
  /\ phase' = [phase EXCEPT ![c] = "running"]
  /\ attempt' = [attempt EXCEPT ![c] = @ + 1]
  /\ left' = [left EXCEPT ![c] = 0]
  /\ ended' = Nobody
  /\ UNCHANGED <<config, fib, way, last, told, elapsed>>

\* The sleep is over; the next attempt runs the function.
Wake(c) ==
  /\ phase[c] = "sleeping"
  /\ MayRun(c)
  /\ left[c] = 0
  /\ phase' = [phase EXCEPT ![c] = "running"]
  /\ attempt' = [attempt EXCEPT ![c] = @ + 1]
  /\ ended' = Nobody
  /\ UNCHANGED <<config, fib, way, left, last, told, elapsed>>

\* A task is cancelled in the function, in a handler or in its sleep:
\* CancelledError is no Exception, and goes straight through.
Cancel(c) ==
  /\ phase[c] # "idle"
  /\ way[c] = "coroutine"
  /\ MayRun(c)
  /\ Leaves(c, last[c], told[c], "cancelled")

LeastPatience(n) == Patience(config.interval, fib, n)

\* Bound of the models: time that no property looks at is not counted.
Tick ==
  /\ left' = [c \in Calls |->
                IF phase[c] = "sleeping" THEN NonNegative(left[c] - 1) ELSE left[c]]
  /\ elapsed' = [c \in Calls |->
                   IF phase[c] # "idle" /\ elapsed[c] < LeastPatience(MaxAttempts)
                     THEN elapsed[c] + 1 ELSE elapsed[c]]
  /\ ended' = Nobody
  /\ UNCHANGED <<config, fib, way, phase, attempt, last, told>>

Ends(c) ==
  \E outcome \in Outcomes : Retry(c, outcome) \/ Finish(c, outcome) \/ Close(c, outcome)

\* The step that c takes next if it is not cancelled.
GoesOn(c) == Ends(c) \/ Sleep(c) \/ Wake(c) \/ Return(c)

Next ==
  \/ \E c \in Calls, w \in {"coroutine", "bridged", "own_loop"} : Begin(c, w)
  \/ \E c \in Calls, outcome \in Outcomes : Retry(c, outcome)
  \/ \E c \in Calls, outcome \in Outcomes : Finish(c, outcome)
  \/ \E c \in Calls, outcome \in Outcomes : Close(c, outcome)
  \/ \E c \in Calls : Sleep(c)
  \/ \E c \in Calls : Return(c)
  \/ \E c \in Calls : Wake(c)
  \/ \E c \in Calls : Cancel(c)
  \/ Tick

Spec == Init /\ [][Next]_vars

\* The functions and the handlers end, and the clock advances.  A coroutine's
\* step may have to wait for a loop that other callers hold up time and again;
\* the loop serves its ready tasks in turn, so that it gets its chance (SF).
Fairness ==
  /\ WF_vars(Tick)
  /\ \A c \in Calls : SF_vars(GoesOn(c))

FairSpec == Spec /\ Fairness

-----------------------------------------------------------------------------
(* Properties *)

Answers == {"none", "result", "own_error", "exhausted", "loop_error", "cancelled"}

EventTypes == {"Retry", "Success", "Error", "IgnoredError"}

\* Type correctness, with the number of attempts within max_attempts.
TypeOK ==
  /\ config \in Configs
  /\ way \in [Calls -> {"none", "coroutine", "bridged", "own_loop"}]
  /\ phase \in [Calls -> {"idle", "running", "telling", "sleeping", "closing"}]
  /\ attempt \in [Calls -> 0..MaxAttempts]
  /\ left \in [Calls -> Nat]
  /\ last \in [Calls -> Outcomes \cup {NoOutcome}]
  /\ \A c \in Calls : told[c] \in Seq(EventTypes)
  /\ elapsed \in [Calls -> Nat]
  /\ ended.answer \in Answers

\* What settles a call at once (config.py, of abort_exceptions: "These
\* exceptions will be raised immediately without further retries").
Settling ==
  {Good} \cup AbortExceptions
    \cup (Exceptions \ (RetryExceptions \cap AcceptedByPredicate))

\* No attempt follows one that settled the call, and a call that is answered
\* without such an outcome has used up its attempts: max_attempts and the three
\* exception options together.
AttemptsJustified ==
  /\ \A c \in Calls : last[c] \in Settling => phase[c] = "closing"
  /\ ended.answer \notin {"none", "cancelled"}
       => ended.attempt = MaxAttempts \/ ended.last \in Settling

\* Handlers can reconstruct a call that runs in _execute_with_retry from its
\* events: one Retry event for each attempt but the last, then one event that
\* agrees with the answer.  A cancelled call only may lack the last one, and if
\* it was cancelled when that was out, the event agrees with the last outcome.
\* Of bridged calls nothing is said: _execute_sync, which runs them, publishes
\* none of the events that retry/events.py describes.
EventsTellTheCall ==
  LET retries(n) == [i \in 1..n |-> "Retry"]
      succeeded == IF ended.answer = "cancelled" THEN ended.last \notin Exceptions
                   ELSE ended.answer = "result"
  IN  ended.answer # "none" /\ ended.way # "bridged" =>
        \/ \E e \in EventTypes \ {"Retry"} :
             /\ ended.told = Append(retries(ended.attempt - 1), e)
             /\ e = "Success" <=> succeeded
        \/ /\ ended.answer = "cancelled"
           /\ \E n \in {ended.attempt - 1, ended.attempt} : ended.told = retries(n)

\* The n-th attempt starts no sooner than the waits after the attempts before
\* it allow, whichever of the two loops runs the call.
BackoffRespected ==
  \A c \in Calls :
    phase[c] = "running" => elapsed[c] >= LeastPatience(attempt[c])

\* Whatever the cache holds by now, which the calls of all callers extend, the
\* next Fibonacci numbers come out of it right.
FibonacciExact ==
  config.interval.kind = "fibonacci"
    => \A n \in 1..MaxAttempts + 2 :
         Remember(fib, n)[n] = Cardinality(SparseSets(n))

\* Every call is answered, also while bridged calls hold up the event loop.
EveryCallAnswered ==
  \A c \in Calls : phase[c] # "idle" ~> ended.call = c
=============================================================================
