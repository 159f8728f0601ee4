# A formal model of resilience4py

TLA+ modules for the concurrent core of `resilience4py` (a Python port of
Resilience4j on asyncio), TLC configurations that model-check them on small
instances, and TLAPS proofs of what matters most for every value of the
constants. Paths of source files are relative to `src/src/resilience4py/`, those
of documents and examples to `src/` and `src/src/`.

## 1. Inventory

The library protects calls with four patterns. Each is an object that tasks of
one event loop share; asyncio switches tasks only where an `await` really
suspends, and a cancelled task gets `CancelledError` there, which is no
`Exception`.

| Component | State | Operations | Hard behaviour |
|---|---|---|---|
| Circuit breaker (`circuitbreaker/circuit_breaker.py`, `states.py`) | the current state object (`opened_at`, `permits_used`, `entered_at`, trial metrics), `_state_lock`, listeners | `acquire_permission`, `on_success`, `on_error` of six states, `transition_to_state`, `reset`, `disable`, `force_open`, `close`, `get_metrics` | calls that end in another state than they began in; transitions that race behind a lock; permits of cancelled trials; half-open deadlines |
| Metrics (`circuitbreaker/metrics.py`) | deque of outcomes, trials of HALF_OPEN | record, expire, snapshot, `is_complete`, reset | expiry relies on order; thresholds at a boundary |
| Rate limiter (`ratelimiter/atomic_rate_limiter.py`) | permissions, cycle number | `_reserve_permission`, sleep, denial, reset | refreshed only when asked; sleepers reserve nothing |
| `RateLimiter`, registry (`ratelimiter/rate_limiter.py`) | weak map of the limiters by name, `_lock`; the limiter of a front, `_pending_listeners` | `get_or_create`, `remove`, `_get_limiter`, `add_event_listener`, `remove_event_listener`, `acquire_permission`, decorated calls | two live limiters of one name; garbage collection between two steps; a loop over a list that other threads change; threads with event loops of their own that meet at one asyncio lock |
| Bulkheads (`bulkhead/*.py`) | a semaphore, a count beside it, an executor | acquire (with a time limit or not), release, submit, shutdown | handed-over permits that time out; threads that outlive their call |
| Sync bridge (`core/decorators.py`) | none of its own; the loop its caller stands on | a plain function called inside a loop, or where none runs | the caller's loop stands still; the semaphore is bound to the loop that first waited |
| Event publisher (`core/events.py`) | bounded queue, `_running`, background task, consumers | `publish`, `publish_nowait`, `start`, `stop`, `on`, `off` | stop processes beside the task and cancels it, and may be cancelled itself; start while stopping; the list of consumers changes while it is iterated |
| Retry (`retry/retry.py`, `config.py`) | attempt loop of each call, handlers | `_execute_with_retry`, `_execute_sync`, sync wrapper | two copies of the loop, one of them silent; handlers that suspend; a wrapper that blocks the event loop and masks errors |
| Interval functions (`retry/interval_functions.py`) | Fibonacci cache | `__call__(attempt)` | cache shared by callers |
| Core registry, composite, metrics (`core/`) | weak map of instances; none; counters | `get_or_create`, `remove`; nested calls; counters | used by no pattern; sequential; decide nothing |

The patterns do not call one another; they are composed by nesting decorated
functions, so that a rejection of an inner pattern is an exception that the
outer one sees. They share the event loop, and each publishes events to its own
listeners, awaited in line. `EventPublisher` can be attached to a rate limiter.

What makes them correct: a breaker admits, trips and recovers by its contract,
leaks no permit and never gets stuck; a limiter gives no more than its limit per
cycle; a bulkhead conserves permits and serves its waiters; a publisher has each
event handled by one task at most, and stops; a retry makes the attempts, waits and events that its
configuration says.

`PROJECT.json` lists every component with its status, and under `hazards` the
places where a test would hardly find a mistake, with the properties aimed at
each.

## 2. Modules

| Module | Role |
|---|---|
| `BreakerMetrics`, `BreakerPolicy` | windows and trials; configuration and the decisions that depend only on it. Pure operators |
| `CircuitBreaker` | the breaker with concurrent calls, time, cancellation and manual operations |
| `BreakerContract` | abstract specification: legal changes of state and their initiator, minimal time in OPEN, half-open admission |
| `BreakerListener` | the breaker's transitions when a listener suspends under `_state_lock` |
| `RateLimiter`, `FixedWindow` | the limiter; abstract specification: each period's permissions are there from its first tick |
| `LimiterFront` | extends `RateLimiter`: fronts and registry of a name, their listeners, the locks on the way, called by tasks of one loop or by threads |
| `Bulkhead` | both bulkhead classes, with the semaphore and the executor as external parts |
| `BulkheadBridge` | extends `Bulkhead`: calls through the sync bridge among the tasks of a loop |
| `EventPublisher` | queue, background tasks, start and stop, consumers that come and go |
| `RetryIntervals`, `Retry` | interval functions; the retry loops and the wrapper |
| `DataLemmas` | lemmas on queues without repetition (`Head`, `Tail`, `Append`, removal, the sets of their elements); induction and recursion over numbers |
| `BreakerLemmas` | lemmas on windows, trials and configurations for both models of the breaker |
| `CircuitBreakerProof`, `BreakerListenerProof`, `LimiterFrontProof` (with those of `RateLimiter`), `BulkheadProof`, `EventPublisherProof`, `RetryProof` | theorems |
| `MC*` | instances for TLC |

### How state and actions correspond to the code

*Steps.* A task runs from one suspension point to the next as one action. In
`CircuitBreaker` the protected function is the only such point: `Acquire` is
`_execute_async` up to the function (with the transition an expired wait
causes), `Complete` everything after it (recording, threshold check, transition,
events), `Cancel` a cancellation inside. In `BreakerListener` the listener of a
transition suspends as well, and steps end at `_state_lock`, at
`HalfOpenState._lock` and at the listener. Nothing inside the metrics locks, the
limiter's `_state_lock` or the bulkhead's `_counter_lock` suspends, so these
locks are never contended on one loop and do not appear in the models of one
loop. Threads do meet at the limiter's and the registry's: in `LimiterFront` the
calls of threads may be interrupted between any two steps (`MayStep`), and both
locks are part of the state, with the loop that bound each and the waiter that
may not be woken.

*Composition.* `LimiterFront` and `BulkheadBridge` extend the module they build
on and share its variables. Each of their actions carries out actions of that
module with conditions of their own, or leaves its variables alone:
`SharedLimiter` proves that `LimiterFront` implements `RateLimiter`, so that
every property of the limiter holds behind the fronts. A limiter that the
registry makes anew begins as one that is reset. In `BulkheadBridge` every step
of a task needs that no bridged call blocks the loop (`LoopRuns`).

*The semaphore of a bulkhead.* `release` hands the permit to the first waiter and
wakes it (`woken`). Until that one goes on, `locked()` is true for everybody
else: a newcomer queues even if further permits lie in the semaphore (`Locked`).
The woken waiter passes such a permit on when it goes on (`Proceed`), and its own
when it gives up (`Forgo`). This is the semaphore of CPython 3.11; later versions
wake as many waiters as there are permits for.

*Bulkhead phases.* `granted` is a permit whose `acquire` has returned and whose
`wait_for` has not, `permitting` and
`finishing` or `rejecting` are the awaits of event handlers, which may suspend;
the permit is given back before `on_call_finished` (`finishing`) and is none of a
call that is `rejecting`.

*Listeners of a limiter.* `_get_limiter` goes through the front's own list while
the application may change it: `Keep` begins the loop, `NextListener` takes the
entry at the loop's position, `Attach` hands it to the limiter that the front has
by then, `Flush` ends the loop. `add_event_listener` and `remove_event_listener`
change first the front's list (`AddListener`, `RemoveListener`), then the
limiter's (`Follow`). On one loop nothing comes between these; threads may be
interrupted there. The two calls on the limiter's own dictionary are one step each.

*Retry phases.* `running` is the function, `telling` the handlers of a retry,
`sleeping` the wait, `closing` the handlers of the end. An event counts as told
from its first handler on. Bridged calls go from `running` to `sleeping` or to
the end, since `_execute_sync` publishes nothing.

*Publisher.* `stop` may be cancelled at both its awaits (`StopCancelledDraining`,
`StopCancelledJoining`): at the second the cancellation goes on to the awaited
task, and `stop` takes it for the end it asked for. `on` appends a consumer also
if it is registered already; `off` takes its first entry out.

*Time.* Clocks are monotonic and only differences are compared with configured
durations. The models count ticks since the event in question, up to the
duration they are compared with. A tick may be any unit that divides the
durations. Rates are compared as exact fractions.

*Results.* Exceptions and results are classes: what the configuration tells
apart. `reply`, `ended` and `events` record what the last step gave its caller
and listeners; `admitted`, `driver`, `granted`, `started`, `elapsed` (of
`Retry`), `removed` are histories that no action looks at, except that `elapsed` of
the breaker is the state object's own clock. `fate` also says which events are
yet to be published and which publishers wait.

*External parts* (marked so in `PROJECT.json`): `asyncio.Semaphore` and
`asyncio.Queue` serve waiters in order; `asyncio.wait_for` may have its result
when a cancellation or timeout comes; `ThreadPoolExecutor` starts functions in
order and cannot stop one that runs.

*Faults.* Operators whose comment begins with "Fault:" are mistakes a change of
the code might make. Nothing refers to them. Put in the place of the definition
they vary, each makes TLC report the property that `mutants` of `PROJECT.json`
names, which shows that the property is sensitive to the code.

## 3. Runs

| Run | Instance | Shows |
|---|---|---|
| `breaker_safety` (97 351 states) | 3 calls, time-based window of 2 ticks, 2 permits, wait and half-open limit of 2 ticks, cancellation, all manual operations | admissions within permits, window in order, changes announced, `BreakerContract` implemented |
| `breaker_liveness` (51 750) | 3 calls, count-based window of 3, minimum 2, no manual operation, no cancellation | no permit lost, OPEN and HALF_OPEN left, recovery |
| `breaker_listener` (10 783) | 2 calls, 1 operator with close, force_open, reset; window of 1, 2 permits, limits of 1 tick | locks consistent, permits exact, progress |
| `rate_limiter` (687 652) | 3 tasks or 2 threads, 1 front that is dropped and made anew, a listener that comes and goes, 2 limiters of the name, 2 permissions, cycle of 2 ticks, timeout of 1 | grants bounded, sleeps right, `FixedWindow` implemented, one limiter per name, with tasks the limiter has exactly the front's listeners, a lock that loses its wake-up is lost for good |
| `bulkhead` (48 942) | 5 calls (2 coroutines, 2 plain functions, 1 bridged), 2 permits with waiting, or 1 thread and 1 queued | permits conserved, none forgotten, executor consistent, waiters served, bridged waiting is vain and spoils the semaphore |
| `event_publisher` (63 342) | 2 events, queue of 1, 2 consumers on a list of 2 that changes, 2 controllers, 2 background tasks | no event handled by two, queued events taken while a task is alive, stop returns, abandoned tasks end, a consumer is passed over only by an `off` of another |
| `retry` (198 760) | 2 calls, 4 attempts; linear (decreasing), random exponential and Fibonacci waits, `fail_after_max_attempts` on and off | attempts justified, events agree, backoff kept, cache exact, calls answered |

Five more runs end in a counterexample: the code differs from what a docstring
of it, or a document, says.

| Run | What happens |
|---|---|
| `breaker_late_end` | a call admitted while CLOSED ends after the breaker opened: its caller gets `RuntimeError('on_error called in open state')` for its result (`states.py:149,153`) |
| `breaker_stale_trials` | calls admitted while CLOSED end in HALF_OPEN and count as trials: it closes before its permitted calls were made (`metrics.py:261-263`) |
| `breaker_forced_open` | a transition decided before `force_open()` and waiting for the lock overrides FORCED_OPEN (`circuit_breaker.py:249`, `states.py:254`) |
| `rate_limiter_overrun` | sleepers go on beside those the next cycle grants: more calls in a period than `limit_for_period` (`atomic_rate_limiter.py:208`) |
| `breaker_reset` | `reset()` of an open breaker closes it without a StateTransition event, which `docs/resilience4j-compatibility.md:87` lists for "any state change" (`circuit_breaker.py:277`) |

### Bounds, and why they are enough

- *Breaker.* Three calls make every race of two with a third that changes the
  state; two permits let one trial succeed and one fail, or one remain unused.
  Two calls suffice with a suspending listener because an operator joins them;
  the run for `ForcedOpenHolds` uses three. `MaxEntries` caps the outcomes a
  time-based window may come to hold (deque without maxlen) at one more than
  `MinimumCalls`: in time-based runs it guards the start of a call.
- *Limiter.* Three tasks are the limit and one more, to sleep or be refused; the
  cycle is longer than the timeout, so that both denial and sleep occur. Two
  threads are enough to meet at a lock (`Threads`), and a third would find it
  bound and fail. `MaxLimiters` caps the limiters made for the name: the second
  one comes after a `remove`, or when nobody uses the first. One front is enough
  for several users of a limiter: a call that sleeps keeps it when the front is
  dropped, and the next front finds it in the registry. `Heard` are the fronts that
  are given listeners, `Revocable` those from which they are taken back, and
  `MaxListeners` caps the front's list, here at one entry, which is registered and
  taken back before, while and after a loop goes through the list. Of
  `ListenersKept` the run checks what holds with tasks; lists of several entries
  and fronts from which nothing is taken back, the other half, are
  left to the theorem `AttachedListeners`, which has any number of each: runs with
  more listeners and threads are beyond a few minutes. The histories `granted`
  and `started` stop one above the limit.
- *Bulkhead.* Two permits and two plain functions on one thread give a function
  in the executor's queue, a handed-over permit, a waiter behind it and a
  newcomer; the bridged call meets a full bulkhead and tasks that wait.
- *Publisher.* `MaxStarts` caps the background tasks at two: a stop meets the
  task it knows or one that a second start made. The second event blocks or is
  dropped. One consumer always stays on the list: with none an event has nobody
  to be handed to, and the step that takes it ends it. `MaxConsumers` caps the
  list, here at two, of which one may be passed over; that an `off` never costs two
  others the event (`<= 1`) is left to the theorem `OffFair`, which has any list.
- *Retry.* Four attempts are the first number at which the decreasing wait has
  reached zero before its formula is negative, and the Fibonacci numbers leave
  the initial cache. `elapsed` stops at the longest time a property asks for.
- Symmetry is used in the runs without liveness only, over calls that no
  configuration constant tells apart.

### Fairness

Liveness assumes what the event loop gives: a task that is ready runs (WF), a
clock advances (WF on `Tick`), a lock or semaphore serves its waiters in order
(modelled, not assumed). It further assumes of the application that protected
functions and listeners end and that calls are made again: the breaker does
nothing without traffic (OPEN is left by a call that asks). Operators,
publishers and cancellations owe nothing. In `Retry` a bridged call blocks the
loop while it lasts, so that a coroutine's step is enabled again and again
rather than always; the loop's ready queue is first in, first out, which is the
strong fairness of what a call does next (`GoesOn`: its attempt ends, its
handlers return, its sleep ends). In
`BulkheadBridge` the same holds of a task that goes on (strong fairness: bridged
calls come between its turns), while a bridged call and the executor's threads
have threads of their own (weak fairness). The publisher's tasks take a step when
the consumer they wait for returns, which `Deliver(w) \/ FinishWorker(w)` names
together. `StopReturns` excuses a publisher that is
started again meanwhile: the code cancels the task that `_task` names *then*.
`QueuedIsTaken` promises nothing once no background task is alive, which may be
so although the publisher is running (section 5).
`NoPermitLost` and `HalfOpenResolves` are about calls that are not cancelled:
a cancelled trial never gives its permit back, and without
`max_wait_duration_in_half_open` nothing else ends HALF_OPEN.

## 4. Proofs

The proofs hold for every number of calls and every configuration that
`validate()` accepts; the assumptions are the named `ASSUME`s of the modules,
which TLC evaluates for each instance, and the first lemma of each module says
what they amount to. Only `MaxLimiters`, `MaxStarts` and the caps of the
histories bound a model beyond the code, and each is any number.

*`CircuitBreakerProof`.* `TypeCorrect` is inductive as it stands, given lemmas
on the windows (`ExpireType`, `AddCallType`, `OlderType`, `AddTrialType`): the
deque stays within its size, and `permits` and `trials` within the permitted
calls. `Admission` and `PermitsKept` rest on `PermitInv`, their conjunction: a
permit is taken with `admitted`, moves to `trials` when the call ends, and a new
state object starts with none. An outcome of a call that some earlier state
admitted lengthens `trials` without shrinking `admitted`, which is why the
account is an inequality. `Refinement` maps each step to one of
`BreakerContract` or to a stutter, using the types only. `NeverTrips`: with a
count-based window smaller than `minimum_number_of_calls` the breaker never
opens, an accepted configuration that switches it off. `WindowOrder` and
`ExpireIsExact` belong together: calls record their outcomes in the order of the
clock, and on a window in that order the loop that stops at the first entry young
enough drops exactly the outdated ones (`CleanUp`). `Announcements` goes through
the events that each operation publishes: a StateTransition where the state
changes and none elsewhere; of the changes that `reset` makes it says nothing
(`breaker_reset`).

*`BreakerListenerProof`.* A step of that model is put together from pieces
(`Leave`, `Execute`, `Install`, `Transition`) that take the state object and the
queue of the lock as the task has left them so far. The parts of `IInv` are
therefore stated of such values, and `Running` says what they are in the middle
of a step; each piece has one lemma that leads from there to the next state.
`IInv` joins the queues of `_state_lock` and of `HalfOpenState._lock` to where
each task is, and adds what the properties alone do not say: who is in line
behind a task that holds the lock of a `HalfOpenState`, that the object in place
is the one whose lock is held, and that whoever is in a transition for a
permission finds the half-open state at its end. `Locks`, `Permits`,
`AsksInHalfOpen` and `TypeCorrect` follow.

*`LimiterFrontProof`, the limiter.* `IInv` strengthens `GrantsBounded` by the account
`granted + permissions <= LimitForPeriod` of a fresh state (a stale one has
granted nothing in this cycle): without it a state with both numbers high would
break the bound in one step. `Grants`, `Sleeps` and `TypeCorrect` follow;
`Refinement` shows that refreshing on demand cannot be told from refreshing at
the start of each cycle. `NeverDenies`: a timeout of a whole cycle never denies.

*`LimiterFrontProof`, fronts and registry.* `SharedLimiter` simulates `RateLimiter` step by step, which
gives `SharedGrants` for any fronts and threads. `OneLimiter` rests on `FrontInv`:
where a call is decides which lock it holds or waits for and which limiter it
has, and the registry's entry changes only under the registry's lock, by a `remove`
(which the history `removed` records), or when nobody uses it. The lemmas on `Acquire` and `Release` say what a lock does, so
that an action's proof never looks inside one. `WakeUpLost` follows from the same
invariant: whoever would open a lost lock would have to hold it.
`AttachedListeners` rests on `ListenInv`, whose parts follow the two halves of what
is promised. For threads, `Covered`: each entry of a front from which nothing is
taken back is attached, or a loop has it in hand or still before it, or the
application is about to attach it; a call that installs another limiter begins its
own loop over all entries. For tasks, `Aligned`: what the limiter has is the part
of the front's list that the loop is through with, or differs from it by the one
registration under way. That needs `Alone`: one task at most is in the middle of
something, it holds the locks that are held, and a front it gets a limiter for
still has none.
`TasksNeverWait` is the other consequence: on one loop no lock is ever contended,
which is why the models of one loop leave such locks out.

*`BulkheadProof`.* `BInv` joins `PermitInv` (the number of calls in the phases
that hold a permit, the queue as exactly the queued calls, once each, and no free
permit beside a queue unless a woken waiter has yet to go on) to
`ExecutorInv`. The lemmas on counting say how a number of calls changes when one
call moves from phase to phase; with them each operation of the semaphore is
settled once, and each action once for all uses of it. `BulkheadBridge` adds to
the steps of `Bulkhead` only a refusal that changes nothing, so that `Permitted`,
`Handed`, `Executed` and `TypeCorrect` hold with and without bridged calls.
`BridgeInv` adds that a bridged call under way is the one that blocks the loop,
which `Misused` and `Vain` need.

*`EventPublisherProof`.* `EInv` adds to `EventsAccounted` that a controller under
way has seen a background task and that the tasks to come have no state yet:
otherwise a stop could cancel a task that is not there. The account is stated of
a queue, fates and owners as three values (`Account`), with one lemma for each
way in which an event moves; `Drain`, which takes the next event in the step that
ends the last, applies two of them. A cut event counts as ended: that an event is
not handled twice is proved; that it is handled is not so (section 5).
`OffFair` compares the part of the list that
an iteration has gone past before and after a removal.

*`RetryProof`.* `Attempts` rests on `RInv` (a call that waits has attempts left, and
no last outcome settles but that of a call that is closing), `Told` on `ToldInv`:
what a call has told so far is one Retry event for each attempt past, and the last
event too when it is closing; bridged calls have told nothing, and the property
exempts them. `Backoff`, `FibonacciRight` and `TypeCorrect` rest
on `WaitInv`: the cache is exact, and what a call between two attempts has waited and has
still to wait is what its next attempt needs. Its lemmas are about numbers:
`NextNumber` (the sets without neighbours obey the Fibonacci recurrence: those
without the largest number, and those with it), `Remembers` (what the recursion
computes on top of an exact cache is exact), `WaitsType` (a wait of any interval
function is a natural number, and depends on the cache only through the number of
the attempt), `Patient` and `SamePatience` (the least time before an attempt is a
sum that no other call can change by extending the cache).

*Induction.* The library's induction theorems take an operator, which the provers
cannot instantiate. `DataLemmas` goes round that: a set of numbers that is not
empty has a least one (`Least`, from the well-foundedness of `<`), hence induction
over the members of a set (`Inductive`), hence the existence of recursive
functions (`Recursion`). What such a function computes is then proved by
looking at the least argument where it would be wrong.

Every invariant and every action property of a passing run is stated by a
theorem. Only model-checked are

- the liveness properties, and what depends on ENABLED (fairness);
- the counterexamples.

No module declares a RECURSIVE operator.

## 5. Not modelled

- `core/registry.py`: no pattern uses `Registry[T]`; the breaker's class map is a
  dictionary. The limiter's registry is in `LimiterFront`.
- `CompositeDecorator`: nested calls without a state. Sync wrappers outside a
  loop on several threads, other than the limiter's; the breaker's wrapper inside
  a loop, which hangs at once (below).
- `core/metrics.py`: counters that decide nothing; it is a third of what remains
  of the code, the examples another. Event classes: records.
- Events of the limiter and the errors of its listeners, which its code logs.
- What an `AtomicRateLimiter` grants that is no longer the last of its name
  (`UseOld`): each limiter by itself is the `RateLimiter` of the theorems, and the
  code promises no limit of a name across a `remove()`, so that none is claimed.
- Threads with loops of their own around a breaker or a publisher; threads inside
  the Fibonacci cache (`Remember` is one step).
- Float arithmetic: rates such as `(29/100)*100 < 29`, an exponential backoff
  that overflows after about a thousand attempts.

Observations outside the runs that end in a counterexample. The first six
disagree with a docstring of the code:

- `stop()` "waits for all queued events to be processed" (`core/events.py:129-130`).
  It drains the queue beside the background task and then cancels that task
  (143), which may have an event in hand: the consumers it has not told yet never
  get it. The model has this as a fate of its own, `cut`, which `EventsAccounted`
  counts as an end;
- `_running` is "indicating if the publisher is running" (`core/events.py:47`). A
  `start()` during a `stop()` makes a task that the `stop()` cancels: the flag is
  set, nobody processes events, and later `start()`s return at once (120);
- listeners of a limiter "are held until the first call (which creates the
  limiter)" (`ratelimiter/rate_limiter.py:241-243`). A thread that goes through the
  list (125) while another takes back an entry it has passed skips the next one,
  which stays registered and unattached; or `remove_event_listener` detaches a
  second entry of its listener that the loop attached between its two halves
  (262-268). `ListenersKept` therefore promises completeness to tasks, and to
  threads only for fronts from which nothing is taken back;
- `max_concurrent_calls` is the "maximum number of concurrent calls allowed"
  (`bulkhead/config.py:18`). A cancelled call gives its permit back while its
  function runs on in a thread (`semaphore_bulkhead.py:155`; `orphans` in the
  model), and the next call runs beside it;
- a plain function decorated by `Retry` and called inside a running loop publishes
  no event (`_execute_sync`, `retry/retry.py:180`), although RetryOnSuccessEvent "is
  emitted when a function call succeeds" (`retry/events.py:96-97`) and the other
  events say alike; `EventsTellTheCall` excludes such calls, which it says nothing of;
- if such a function fails for good with a RuntimeError, its caller gets "Cannot
  run the event loop while another loop is running" in its place
  (`retry/retry.py:140`, `loop_error` in the model), neither MaxRetriesExceeded nor
  the last exception (`retry/config.py:35-36`). `core/decorators.py:74` has the same
  clause;
- threads that use one decorated plain function of a `RateLimiter` run event
  loops of their own and share asyncio locks. If one has to wait for a lock, the
  release does not wake its sleeping loop: it hangs, and everybody behind it
  hangs or gets a RuntimeError (`LostForEver`). Documents and examples use the
  limiter that way (`docs/resilience4j-compatibility.md:380-391`,
  `examples/rate_limiter_flask.py`);
- the same threads may both find a front without its limiter and attach its
  listeners twice (`ListenersKept` promises exactly once to tasks only), and
  `get_or_create` may raise KeyError when the limiter it found is collected
  before it is fetched;
- a plain function of a bulkhead called inside the loop that has to wait is always
  refused after `max_wait_duration`, and leaves the semaphore to a loop that is
  gone: later tasks that have to wait get a RuntimeError
  (`BridgedWaitIsVain`, `NobodyWaitsAfterwards`);
- `off()` while an event is delivered makes the consumer behind the removed one
  miss the event (`OffCostsOne`);
- an ignored exception publishes IgnoredError and Error, and counts as a success;
- `get_metrics` of a limiter shows permissions that are not refreshed;
- a limiter awaits `publish` of its publishers after it has taken the permission:
  one whose queue is full and that is not running holds up every call for ever;
- a listener must not call a transition of its own breaker: `_state_lock` is not
  reentrant; a plain function decorated by a breaker must not be called on the
  loop's own thread, which would wait for itself.

## 6. Plan

Done in this order: breaker, its proofs, suspending listeners, limiter and its
proofs, bulkheads, publisher, retry; then fronts and registry of the limiter, the
sync bridge around bulkheads, consumers that come and go, handlers that suspend
(of bulkheads and of retries), listeners that come and go, cancelled stops;
then the proofs about fronts, bulkheads, publisher, retry, suspending listeners
and interval functions. Next:

1. Abstract specifications of the bulkhead (a set of calls within a bound, with
   the waiters' order) and of a retried call, and the proofs that the models
   implement them.
2. `RetryOverBreaker`: `Retry` around a breaker, composed from both modules; a
   rejection is an exception that is retried, a wait shorter than
   `wait_duration_in_open_state` uses up the attempts.
3. Plain functions of bulkheads called by several threads where no loop runs.

Runs stay one per question: the composition replaces a run whose question it
answers too, or shares its instance.
