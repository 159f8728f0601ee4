---------------------------- MODULE LimiterFront ----------------------------
(***************************************************************************)
(* The RateLimiter objects (fronts) of one name, the registry that gives   *)
(* them their AtomicRateLimiter (ratelimiter/rate_limiter.py), and the     *)
(* locks on the way, in front of the limiter that RateLimiter describes.   *)
(*                                                                         *)
(* The callers are either tasks of one event loop, or threads that call    *)
(* decorated plain functions: _decorate_sync runs every call on event      *)
(* loops of its own.  A task goes from one suspension to the next without  *)
(* interruption; a thread may be interrupted between any two steps.        *)
(*                                                                         *)
(* asyncio.Lock is external.  Its first waiter binds it to the loop it     *)
(* waits in: a waiter from any other loop gets a RuntimeError.  release(), *)
(* called from another thread, wakes a waiter only if that one's loop has  *)
(* not begun to wait for events; as long as a waiter is in the queue       *)
(* nobody else gets the lock.                                              *)
(*                                                                         *)
(* A listener is registered with one front only, so that the list of a     *)
(* limiter falls into the parts that came through each of them.            *)
(*                                                                         *)
(* The variables of RateLimiter are those of the limiter made last.        *)
(***************************************************************************)
EXTENDS RateLimiter, SequencesExt

CONSTANTS
  Threads,       \* calls that may come from threads
  Fronts,        \* RateLimiter objects of the name
  Listeners,     \* what may be registered: pairs of an event type and a callable
  Heard,         \* bound of the models: fronts that are given listeners
  Revocable,     \* ... and those from which the application also takes them back
  MaxListeners,  \* bound of the models: registrations a front has at a time
  None,
  MaxLimiters    \* bound of the models: limiters made for the name

ASSUME FrontAssumption ==
  /\ Threads \subseteq Calls
  /\ Revocable \subseteq Heard /\ Heard \subseteq Fronts
  /\ None \notin Calls \cup Fronts \cup Listeners
  /\ MaxListeners \in Nat
  /\ MaxLimiters \in Nat \ {0}

Limiters == 1..MaxLimiters

VARIABLES
  threaded,  \* whether the callers are threads
  entry,     \* the limiter that the registry's _instances has, 0 if none
  made,      \* limiters made so far
  removed,   \* history: limiters that remove() took out of the registry
  limiter,   \* limiter[f]: _atomic_limiter of front f, 0 if None
  pending,   \* pending[f]: _pending_listeners of front f
  attached,  \* attached[f][i]: what limiter i has in its list through front f
  turn,      \* turn[c]: the iterator of a call's loop over pending listeners,
             \* and the listener it has yielded and the limiter has not yet
  application,  \* what the application is in the middle of
  call,      \* call[c]: where the call is, the front it came through while it
             \* needs it, and its limiter, 0 if it has none
  lock       \* lock[0]: _lock of the registry; lock[i]: _state_lock of i

registryVars == <<entry, made, removed>>
listenerVars == <<limiter, pending, attached, turn, application>>
frontVars == <<threaded, registryVars, listenerVars, call, lock>>
allVars == <<vars, frontVars>>

Doing(p, f, i) == [at |-> p, via |-> f, mine |-> i]
Idle == Doing("idle", None, 0)

Turn(n, l) == [next |-> n, item |-> l]
Start == Turn(1, None)

\* A registration or its withdrawal, of a listener of front f.
Job(p, f, l) == [at |-> p, via |-> f, item |-> l]
Free == Job("idle", None, None)

NoListeners == [i \in Limiters |-> <<>>]

\* bound: whether a waiter has bound the lock to its loop.
Unlocked == [holder |-> None, waiter |-> None, bound |-> FALSE]

FrontInit ==
  /\ Init
  /\ threaded \in BOOLEAN
  /\ entry = 0 /\ made = 0 /\ removed = {}
  /\ limiter = [f \in Fronts |-> 0]
  /\ pending = [f \in Fronts |-> <<>>]
  /\ attached = [f \in Fronts |-> NoListeners]
  /\ turn = [c \in Calls |-> Start]
  /\ application = Free
  /\ call = [c \in Calls |-> Idle]
  /\ lock = [i \in 0..MaxLimiters |-> Unlocked]

\* Where a call may be suspended, or has not begun.
Resting == {"idle", "waiting", "asleep"}

\* Tasks, and the code of the application, run when no task is in the middle
\* of something.
MayStep(c) ==
  ~ threaded => /\ \A d \in Calls \ {c} : call[d].at \in Resting
                /\ application = Free
LoopIsFree == MayStep(None)

Goes(c, s) == call' = [call EXCEPT ![c] = s]

-----------------------------------------------------------------------------
(* asyncio.Lock *)

\* The call takes lock i and is to do s; or it waits for the lock, or fails
\* because the lock belongs to the loop of another.
Acquire(c, i, s) ==
  \/ /\ lock[i].holder = None /\ lock[i].waiter = None
     /\ lock' = [lock EXCEPT ![i].holder = c]
     /\ Goes(c, s)
  \/ /\ lock[i].holder # None \/ lock[i].waiter # None
     /\ IF lock[i].bound
          THEN Goes(c, Idle) /\ UNCHANGED lock
          ELSE /\ lock' = [lock EXCEPT ![i] = [@ EXCEPT !.waiter = c, !.bound = TRUE]]
               /\ Goes(c, [s EXCEPT !.at = "waiting"])

\* The call gives lock i back and is to do s.  A waiter is woken, if it is, to
\* do what is done with that lock.
Release(c, i, s) ==
  \/ /\ lock' = [lock EXCEPT ![i].holder = None]
     /\ Goes(c, s)
  \/ LET w == lock[i].waiter IN
     /\ w # None
     /\ lock' = [lock EXCEPT ![i] = [@ EXCEPT !.holder = w, !.waiter = None]]
     /\ call' = [call EXCEPT ![c] = s,
                             ![w].at = IF i = 0 THEN "looking" ELSE "holding"]

-----------------------------------------------------------------------------
(* RateLimiterRegistry.get_or_create and RateLimiter._get_limiter *)

\* A weak reference does not keep the limiter: it goes with its last user.
LetGo ==
  entry' = IF \/ entry \in Range(limiter')
              \/ \E c \in Calls : call'[c].mine = entry
             THEN entry ELSE 0

\* Fault: a front that has its limiter uses it without _state_lock.
CallUnlocked(c, f) ==
  /\ threaded => c \in Threads
  /\ call[c] = Idle /\ MayStep(c)
  /\ IF limiter[f] # 0
       THEN Goes(c, Doing("holding", None, limiter[f])) /\ UNCHANGED lock
       ELSE Acquire(c, 0, Doing("looking", f, 0))
  /\ UNCHANGED <<vars, threaded, registryVars, listenerVars>>

\* The front has its limiter, or goes to the registry for it.
Call(c, f) ==
  /\ threaded => c \in Threads
  /\ call[c] = Idle /\ MayStep(c)
  /\ IF limiter[f] # 0
       THEN Acquire(c, limiter[f], Doing("holding", None, limiter[f]))
       ELSE Acquire(c, 0, Doing("looking", f, 0))
  /\ UNCHANGED <<vars, threaded, registryVars, listenerVars>>

\* "name in self._instances": what it finds may be gone when it is fetched.
Find(c) ==
  /\ call[c].at = "looking" /\ MayStep(c)
  /\ entry # 0
  /\ Goes(c, [call[c] EXCEPT !.at = "found"])
  /\ UNCHANGED <<vars, threaded, registryVars, listenerVars, lock>>

\* Returns what was found; KeyError if it is gone by now.
Fetch(c) ==
  /\ call[c].at = "found" /\ MayStep(c)
  /\ Release(c, 0, IF entry = 0 THEN Idle ELSE Doing("got", call[c].via, entry))
  /\ UNCHANGED <<vars, threaded, registryVars, listenerVars>>

\* Fault: makes a limiter without a look at the registry.
CreateAnyway(c) ==
  /\ call[c].at = "looking" /\ MayStep(c)
  /\ made < MaxLimiters
  /\ Reset
  /\ made' = made + 1
  /\ entry' = made'
  /\ Release(c, 0, Doing("got", call[c].via, made'))
  /\ UNCHANGED <<threaded, removed, listenerVars>>

\* A new limiter with all its permissions takes the place of the last one.
Create(c) ==
  /\ call[c].at = "looking" /\ MayStep(c)
  /\ entry = 0
  /\ made < MaxLimiters
  /\ Reset
  /\ made' = made + 1
  /\ entry' = made'
  /\ Release(c, 0, Doing("got", call[c].via, made'))
  /\ UNCHANGED <<threaded, removed, listenerVars>>

\* The front keeps the limiter, and begins to look through the listeners that
\* were registered before.
Keep(c) ==
  /\ call[c].at = "got" /\ MayStep(c)
  /\ limiter' = [limiter EXCEPT ![call[c].via] = call[c].mine]
  /\ turn' = [turn EXCEPT ![c] = Start]
  /\ Goes(c, [call[c] EXCEPT !.at = "flushing"])
  /\ UNCHANGED <<vars, threaded, made, removed, pending, attached, application, lock>>
  /\ LetGo

\* The list that the loop goes through is the one the application changes.
NextListener(c) ==
  LET f == call[c].via  n == turn[c].next IN
  /\ call[c].at = "flushing" /\ MayStep(c)
  /\ turn[c].item = None
  /\ n <= Len(pending[f])
  /\ turn' = [turn EXCEPT ![c] = Turn(n + 1, pending[f][n])]
  /\ UNCHANGED <<vars, threaded, registryVars, limiter, pending, attached, application,
                 call, lock>>

\* The limiter that the front has by now gets the listener.
Attach(c) ==
  LET f == call[c].via  l == turn[c].item IN
  /\ call[c].at = "flushing" /\ MayStep(c)
  /\ l # None
  /\ attached' = [attached EXCEPT ![f][limiter[f]] = Append(@, l)]
  /\ turn' = [turn EXCEPT ![c].item = None]
  /\ UNCHANGED <<vars, threaded, registryVars, limiter, pending, application, call, lock>>

\* Fault: the loop ends one listener early.
FlushEarly(c) ==
  LET f == call[c].via IN
  /\ call[c].at = "flushing" /\ MayStep(c)
  /\ turn[c].item = None
  /\ turn[c].next >= Len(pending[f])
  /\ turn' = [turn EXCEPT ![c] = Start]
  /\ Acquire(c, limiter[f], Doing("holding", None, limiter[f]))
  /\ UNCHANGED <<vars, threaded, made, removed, limiter, pending, attached, application>>
  /\ LetGo

\* After the last listener the call goes on with that limiter.
Flush(c) ==
  LET f == call[c].via IN
  /\ call[c].at = "flushing" /\ MayStep(c)
  /\ turn[c].item = None
  /\ turn[c].next > Len(pending[f])
  /\ turn' = [turn EXCEPT ![c] = Start]
  /\ Acquire(c, limiter[f], Doing("holding", None, limiter[f]))
  /\ UNCHANGED <<vars, threaded, made, removed, limiter, pending, attached, application>>
  /\ LetGo

-----------------------------------------------------------------------------
(* The limiter: _reserve_permission, reset and get_metrics *)

\* With _state_lock.  A decorated call that need not wait publishes its event,
\* and the function runs or RequestNotPermitted is raised.
Use(c) ==
  /\ call[c].at = "holding" /\ MayStep(c)
  /\ LET i == call[c].mine IN
     /\ i = made
     /\ \/ /\ Grant(c) \/ Deny(c) \/ Reset \/ UNCHANGED vars
           /\ Release(c, i, Idle)
        \/ /\ Sleep(c)
           /\ Release(c, i, Doing("asleep", None, i))
  /\ UNCHANGED <<threaded, made, removed, listenerVars>>
  /\ LetGo

\* The same of a limiter that is not the last one: what it answers is not part
\* of the model.
UseOld(c) ==
  /\ call[c].at = "holding" /\ MayStep(c)
  /\ LET i == call[c].mine IN
     /\ i # made
     /\ Release(c, i, Idle)
  /\ UNCHANGED <<vars, threaded, made, removed, listenerVars>>
  /\ LetGo

GoOn(c) ==
  /\ Wake(c) /\ MayStep(c)
  /\ Goes(c, Idle)
  /\ UNCHANGED <<threaded, made, removed, listenerVars, lock>>
  /\ LetGo

\* Only a task can be cancelled.
GiveUp(c) ==
  /\ ~ threaded /\ LoopIsFree
  /\ Cancel(c)
  /\ Goes(c, Idle)
  /\ UNCHANGED <<threaded, made, removed, listenerVars, lock>>
  /\ LetGo

-----------------------------------------------------------------------------
(* The application *)

\* add_event_listener: the front's list has the listener first ...
AddListener(f, l) ==
  /\ LoopIsFree /\ application = Free
  /\ Len(pending[f]) < MaxListeners
  /\ pending' = [pending EXCEPT ![f] = Append(@, l)]
  /\ application' = Job("adding", f, l)
  /\ UNCHANGED <<vars, threaded, registryVars, limiter, attached, turn, call, lock>>

\* remove_event_listener: the front's list loses the first such listener, if it
\* has any ...
RemoveListener(f, l) ==
  /\ LoopIsFree /\ application = Free
  /\ pending' = [pending EXCEPT ![f] = RemoveFirst(@, l)]
  /\ application' = Job("removing", f, l)
  /\ UNCHANGED <<vars, threaded, registryVars, limiter, attached, turn, call, lock>>

\* ... and then the limiter's list the same, if the front has a limiter.
Follow ==
  LET f == application.via  l == application.item  i == limiter[f] IN
  /\ application # Free
  /\ attached' = IF i = 0 THEN attached
                 ELSE [attached EXCEPT ![f][i] =
                         IF application.at = "adding" THEN Append(@, l)
                                                      ELSE RemoveFirst(@, l)]
  /\ application' = Free
  /\ UNCHANGED <<vars, threaded, registryVars, limiter, pending, turn, call, lock>>

\* RateLimiterRegistry.remove, which takes no lock.
RegistryRemove ==
  /\ LoopIsFree
  /\ entry # 0
  /\ entry' = 0
  /\ removed' = removed \cup {entry}
  /\ UNCHANGED <<vars, threaded, made, listenerVars, call, lock>>

\* The application lets go of a front that no call needs; f is a new front from
\* now on.
Drop(f) ==
  /\ LoopIsFree
  /\ limiter[f] # 0
  /\ \A c \in Calls : call[c].via # f
  /\ application.via # f
  /\ limiter' = [limiter EXCEPT ![f] = 0]
  /\ pending' = [pending EXCEPT ![f] = <<>>]
  /\ attached' = [attached EXCEPT ![f] = NoListeners]
  /\ UNCHANGED <<vars, threaded, made, removed, turn, application, call, lock>>
  /\ LetGo

Pass == Tick /\ UNCHANGED frontVars

FrontNext ==
  \/ \E c \in Calls, f \in Fronts : Call(c, f)
  \/ \E c \in Calls :
       \/ Find(c)
       \/ Fetch(c)
       \/ Create(c)
       \/ Keep(c)
       \/ NextListener(c)
       \/ Attach(c)
       \/ Flush(c)
       \/ Use(c)
       \/ UseOld(c)
       \/ GoOn(c)
       \/ GiveUp(c)
  \/ \E f \in Heard, l \in Listeners : AddListener(f, l)
  \/ \E f \in Revocable, l \in Listeners : RemoveListener(f, l)
  \/ Follow
  \/ \E f \in Fronts : Drop(f)
  \/ RegistryRemove
  \/ Pass

FrontSpec == FrontInit /\ [][FrontNext]_allVars

-----------------------------------------------------------------------------
(* Properties *)

\* All fronts and calls of the name use the limiter that the registry has,
\* unless they have theirs from before a remove().
OneLimiterPerName ==
  \A i \in Range(limiter) \cup {call[c].mine : c \in Calls} :
    i \in {0, entry} \cup removed

\* Nobody is attaching the listeners of f, and nobody registers or withdraws one.
Settled(f) ==
  /\ \A c \in Calls : call[c].via = f => call[c].at # "flushing"
  /\ application.via # f

\* When they are settled, a front's limiter has its listeners.  With tasks it has
\* exactly those, in their order and as often.  With threads two of them may both
\* find the front without a limiter and attach all twice; but a front from which
\* no listener is ever taken back has none that its limiter lacks.
ListenersKept ==
  \A f \in Fronts :
    limiter[f] # 0 /\ Settled(f)
      => /\ ~ threaded => attached[f][limiter[f]] = pending[f]
         /\ f \notin Revocable => ToSet(pending[f]) \subseteq ToSet(attached[f][limiter[f]])

\* A lock that was released while the loop of its waiter slept.
Lost(i) == lock[i].holder = None /\ lock[i].waiter # None

\* Nobody gets through such a lock again: its waiter stays where it is, and a
\* limiter behind it grants nothing any more and is not reset either.
LostForEver ==
  [][/\ \A i \in 0..MaxLimiters :
          Lost(i) => Lost(i)' /\ call'[lock[i].waiter] = call[lock[i].waiter]
     /\ Lost(made) /\ made' = made
          => permissions' = permissions /\ granted' <= granted]_allVars
=============================================================================
