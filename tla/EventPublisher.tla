--------------------------- MODULE EventPublisher ---------------------------
(***************************************************************************)
(* EventPublisher (core/events.py): a bounded queue, a background task     *)
(* that takes events from it, and start and stop, which may be called by   *)
(* several tasks while events are published and processed.                 *)
(*                                                                         *)
(* stop processes what is left in the queue itself, beside the background  *)
(* task, and then cancels whatever background task _task names by then;    *)
(* it may be cancelled itself at either await.                             *)
(* Handling an event awaits its consumers one after the other; each await  *)
(* is a suspension point, and the list of consumers may change there under *)
(* the iteration.  All events are of one type; the errors of consumers are *)
(* logged and change nothing.  A consumer may be registered twice, and it  *)
(* is called twice then.                                                   *)
(*                                                                         *)
(* asyncio.Queue and wait_for are external: a get takes the oldest event,  *)
(* a put waits for room, and a cancellation that comes when wait_for has   *)
(* its event already may be lost (it is in Python 3.11 and before).        *)
(***************************************************************************)
EXTENDS Integers, Sequences, FiniteSets, FiniteSetsExt, SequencesExt

CONSTANTS
  Events,       \* the events that may be published, each once
  NoEvent,
  Controllers,  \* tasks that call start and stop
  Consumers,    \* consumers of the events
  QueueSize,    \* maxsize of the queue
  MaxStarts,    \* bound of the models: background tasks created
  MaxConsumers  \* bound of the models: length of the list of consumers

ASSUME PublisherAssumption ==
  /\ NoEvent \notin Events
  /\ Consumers # {} /\ IsFiniteSet(Consumers)
  /\ QueueSize \in Nat \ {0}
  /\ MaxStarts \in Nat \ {0}
  /\ Controllers \cap (1..MaxStarts) = {}
  /\ MaxConsumers \in Nat /\ Cardinality(Consumers) <= MaxConsumers

Workers == 1..MaxStarts

VARIABLES
  queue,    \* _queue
  running,  \* _running
  task,     \* _task: the background task created last, 0 if none
  worker,   \* worker[w]: where background task w is
  control,  \* control[k]: where controller k is
  joining,  \* joining[k]: the background task k waits for, 0 if none
  subscribers, \* _consumers of the events' type
  work,     \* work[p]: the event of p and the consumers it was handed to so far
  fate      \* what became of each event

vars == <<queue, running, task, worker, control, joining, subscribers, work, fate>>

NoWork == [event |-> NoEvent, told |-> <<>>]

Init ==
  /\ queue = <<>>
  /\ running = FALSE
  /\ task = 0
  /\ worker = [w \in Workers |-> "none"]
  /\ control = [k \in Controllers |-> "idle"]
  /\ joining = [k \in Controllers |-> 0]
  /\ subscribers = SetToSeq(Consumers)
  /\ work = [p \in Workers \cup Controllers |-> NoWork]
  /\ fate = [e \in Events |-> "new"]

\* Fault: off by one.
HasRoomLate == Len(queue) <= QueueSize

HasRoom == Len(queue) < QueueSize

-----------------------------------------------------------------------------
(* publish and publish_nowait *)

Put(e) ==
  /\ HasRoom
  /\ queue' = Append(queue, e)
  /\ fate' = [fate EXCEPT ![e] = "queued"]
  /\ UNCHANGED <<running, task, worker, control, joining, work, subscribers>>

PutAside(e, f) ==
  /\ ~ HasRoom
  /\ fate' = [fate EXCEPT ![e] = f]
  /\ UNCHANGED <<queue, running, task, worker, control, joining, work, subscribers>>

\* Either way there is no wait if there is room.  If there is none, publish
\* waits, and publish_nowait drops the event.
Publish(e) ==
  /\ fate[e] = "new"
  /\ \/ Put(e)
     \/ PutAside(e, "blocked")
     \/ PutAside(e, "dropped")

\* A publisher that waited finds room.
Unblock(e) ==
  /\ fate[e] = "blocked"
  /\ Put(e)

-----------------------------------------------------------------------------
(* The background task *)

\* Fault: stop reads the queue and leaves the event in it.
TakeAndLeave(p, t, w, f) ==
  /\ queue # <<>>
  /\ queue' = IF p \in Workers THEN Tail(queue) ELSE queue
  /\ work' = [w EXCEPT ![p] = [event |-> Head(queue), told |-> t]]
  /\ fate' = [f EXCEPT ![Head(queue)] = "taken"]

\* p takes the oldest event and hands it to the consumers t; work and fate are
\* w and f so far in this step.
TakeOldest(p, t, w, f) ==
  /\ queue # <<>>
  /\ queue' = Tail(queue)
  /\ work' = [w EXCEPT ![p] = [event |-> Head(queue), told |-> t]]
  /\ fate' = [f EXCEPT ![Head(queue)] = "taken"]

\* The while condition of _process_events.
LoopOn == IF running THEN "waiting" ELSE "ended"

Begin(w) ==
  /\ worker[w] = "created"
  /\ worker' = [worker EXCEPT ![w] = LoopOn]
  /\ UNCHANGED <<queue, running, task, control, joining, work, fate, subscribers>>

\* Its get has an event; wait_for has yet to return it.
Take(w) ==
  /\ worker[w] = "waiting"
  /\ TakeOldest(w, <<>>, work, fate)
  /\ worker' = [worker EXCEPT ![w] = "taken"]
  /\ UNCHANGED <<running, task, control, joining, subscribers>>

\* Fault: the next consumer is looked up behind the next.
NextOfSkipping(p) == Len(work[p].told) + 2

\* The position in the list that the iteration comes to next.
NextOf(p) == Len(work[p].told) + 1

\* Some consumer is awaited next.
Tell(p) ==
  /\ NextOf(p) <= Len(subscribers)
  /\ work' = [work EXCEPT ![p].told = Append(@, subscribers[NextOf(p)])]

Handle(w) ==
  /\ worker[w] = "taken"
  /\ worker' = [worker EXCEPT ![w] = "handling"]
  /\ Tell(w)
  /\ UNCHANGED <<queue, running, task, control, joining, fate, subscribers>>

\* Fault: a task that times out waits again, whatever _running says.
TimeOutAgain(w) ==
  /\ worker[w] = "waiting"
  /\ UNCHANGED vars

\* The timeout of the wait lets the task see that it is no longer wanted.
TimeOut(w) ==
  /\ worker[w] = "waiting"
  /\ ~ running
  /\ worker' = [worker EXCEPT ![w] = "ended"]
  /\ UNCHANGED <<queue, running, task, control, joining, work, fate, subscribers>>

\* Fault: a consumer that fails gets the event again, and again.
DeliverAgain(p) ==
  /\ work[p].told # <<>>
  /\ UNCHANGED vars

\* One consumer is done with the event of p, and the list has one more.
Deliver(p) ==
  /\ work[p].told # <<>>
  /\ Tell(p)
  /\ UNCHANGED <<queue, running, task, worker, control, joining, fate, subscribers>>

DeliversLast(p) ==
  /\ work[p].told # <<>>
  /\ NextOf(p) > Len(subscribers)

\* The last consumer of a background task's event is done.
FinishWorker(w) ==
  /\ worker[w] = "handling"
  /\ DeliversLast(w)
  /\ work' = [work EXCEPT ![w] = NoWork]
  /\ fate' = [fate EXCEPT ![work[w].event] = "handled"]
  /\ worker' = [worker EXCEPT ![w] = LoopOn]
  /\ UNCHANGED <<queue, running, task, control, joining, subscribers>>

-----------------------------------------------------------------------------
(* on and off *)

\* A consumer that is on the list already is on it once more.
On(c) ==
  /\ Len(subscribers) < MaxConsumers
  /\ subscribers' = Append(subscribers, c)
  /\ UNCHANGED <<queue, running, task, worker, control, joining, work, fate>>

\* The first c goes, if there is one, and the consumers behind it move up.
\* Bound of the models: one consumer stays.
Off(c) ==
  /\ Len(subscribers) > 1
  /\ subscribers' = RemoveFirst(subscribers, c)
  /\ UNCHANGED <<queue, running, task, worker, control, joining, work, fate>>

-----------------------------------------------------------------------------
(* start and stop *)

Start(k) ==
  /\ control[k] = "idle"
  /\ ~ running
  /\ task < MaxStarts
  /\ running' = TRUE
  /\ task' = task + 1
  /\ worker' = [worker EXCEPT ![task'] = "created"]
  /\ UNCHANGED <<queue, control, joining, work, fate, subscribers>>

\* CancelledError is raised where background task t is suspended.  The event it
\* handles is not handed to the consumers that are left.
Cancel(t, w, f) ==
  /\ worker' = IF worker[t] = "taken" THEN worker ELSE [worker EXCEPT ![t] = "ended"]
  /\ IF worker[t] = "handling"
       THEN /\ work' = [w EXCEPT ![t] = NoWork]
            /\ fate' = [f EXCEPT ![work[t].event] = "cut"]
       ELSE /\ work' = w
            /\ fate' = f

\* stop takes the next event or, when there is none, cancels the background
\* task of that moment and waits for its end.
Drain(k, w, f) ==
  IF queue # <<>>
    THEN /\ TakeOldest(k, <<subscribers[1]>>, w, f)
         /\ control' = [control EXCEPT ![k] = "draining"]
         /\ UNCHANGED <<worker, joining>>
    ELSE /\ Cancel(task, w, f)
         /\ control' = [control EXCEPT ![k] = "joining"]
         /\ joining' = [joining EXCEPT ![k] = task]
         /\ UNCHANGED queue

\* stop, of a publisher that was started at some time.
Stop(k) ==
  /\ control[k] = "idle"
  /\ task # 0
  /\ running' = FALSE
  /\ Drain(k, work, fate)
  /\ UNCHANGED <<task, subscribers>>

\* The last consumer of an event that stop took is done.
FinishDrained(k) ==
  /\ control[k] = "draining"
  /\ DeliversLast(k)
  /\ Drain(k, [work EXCEPT ![k] = NoWork], [fate EXCEPT ![work[k].event] = "handled"])
  /\ UNCHANGED <<running, task, subscribers>>

\* The awaited background task has ended; stop returns.
Join(k) ==
  /\ control[k] = "joining"
  /\ worker[joining[k]] = "ended"
  /\ control' = [control EXCEPT ![k] = "idle"]
  /\ joining' = [joining EXCEPT ![k] = 0]
  /\ UNCHANGED <<queue, running, task, worker, work, fate, subscribers>>

\* A stop that is cancelled while it awaits a consumer leaves the event cut and
\* the background task alive.
StopCancelledDraining(k) ==
  /\ control[k] = "draining"
  /\ control' = [control EXCEPT ![k] = "idle"]
  /\ work' = [work EXCEPT ![k] = NoWork]
  /\ fate' = [fate EXCEPT ![work[k].event] = "cut"]
  /\ UNCHANGED <<queue, running, task, worker, joining, subscribers>>

\* Cancelled while it awaits the background task, it hands the cancellation on to
\* that task and takes its end for the one it asked for.
StopCancelledJoining(k) ==
  /\ control[k] = "joining"
  /\ Cancel(joining[k], work, fate)
  /\ UNCHANGED <<queue, running, task, control, joining, subscribers>>

Next ==
  \/ \E e \in Events : Publish(e) \/ Unblock(e)
  \/ \E w \in Workers : Begin(w) \/ Take(w) \/ Handle(w) \/ TimeOut(w) \/ FinishWorker(w)
  \/ \E p \in Workers \cup Controllers : Deliver(p)
  \/ \E k \in Controllers : Start(k) \/ Stop(k) \/ FinishDrained(k) \/ Join(k)
                            \/ StopCancelledDraining(k) \/ StopCancelledJoining(k)
  \/ \E c \in Consumers : On(c) \/ Off(c)

Spec == Init /\ [][Next]_vars

\* The loop runs ready tasks, consumers return, timeouts fire.  Nobody needs to
\* publish, start or stop, or to change the consumers.
Fairness ==
  /\ \A e \in Events : WF_vars(Unblock(e))
  /\ \A w \in Workers : /\ WF_vars(Begin(w)) /\ WF_vars(Take(w)) /\ WF_vars(Handle(w))
                        /\ WF_vars(TimeOut(w))
                        /\ WF_vars(Deliver(w) \/ FinishWorker(w))
  /\ \A k \in Controllers : /\ WF_vars(Deliver(k) \/ FinishDrained(k))
                            /\ WF_vars(Join(k))

FairSpec == Spec /\ Fairness

-----------------------------------------------------------------------------
(* Properties *)

Fates == {"new", "blocked", "dropped", "queued", "taken", "handled", "cut"}

\* Type correctness, with the bound of the queue.
TypeOK ==
  /\ queue \in Seq(Events) /\ Len(queue) <= QueueSize
  /\ running \in BOOLEAN
  /\ task \in 0..MaxStarts
  /\ worker \in [Workers -> {"none", "created", "waiting", "taken", "handling", "ended"}]
  /\ control \in [Controllers -> {"idle", "draining", "joining"}]
  /\ joining \in [Controllers -> 0..MaxStarts]
  /\ work \in [Workers \cup Controllers ->
                 [event : Events \cup {NoEvent},
                  told : BoundedSeq(Consumers, MaxConsumers)]]
  /\ subscribers \in Seq(Consumers) /\ Len(subscribers) <= MaxConsumers
  /\ fate \in [Events -> Fates]

Busy(p) == work[p].event # NoEvent

\* However start, stop, publish, the background tasks and their cancellation
\* interleave, nobody handles an event that somebody else has, or had: an event
\* waits in the queue once, or exactly one task that is handling events has it,
\* or it has met its end.  (Its end may be that a cancellation cut it: that stop
\* "waits for all queued events to be processed", as its docstring says, is not
\* stated, since it does not.)
EventsAccounted ==
  /\ ToSet(queue) = {e \in Events : fate[e] = "queued"}
  /\ IsInjective(queue)
  /\ {work[p].event : p \in {q \in DOMAIN work : Busy(q)}}
       = {e \in Events : fate[e] = "taken"}
  /\ \A p, q \in DOMAIN work : Busy(p) /\ work[p].event = work[q].event => p = q
  /\ \A w \in Workers : Busy(w) <=> worker[w] \in {"taken", "handling"}
  /\ \A k \in Controllers : Busy(k) <=> control[k] = "draining"

\* Consumers on the list that the iteration of p has gone past untold.
PassedOver(p) ==
  {subscribers[i] : i \in DOMAIN subscribers \cap 1..Len(work[p].told)} \ ToSet(work[p].told)

\* A consumer that has been on the list all the time misses an event only by
\* an off() of another one during the delivery, and every off() costs no more
\* than one consumer the event.  (One that is added may come too late; whether a
\* second entry of the same consumer is served is not followed.)
OffCostsOne ==
  [][\A p \in DOMAIN work : Busy(p) /\ work'[p].event = work[p].event =>
       LET new == PassedOver(p)' \ PassedOver(p) IN
       /\ Cardinality(new) <= 1
       /\ new # {} => subscribers' # subscribers]_vars

Alive(w) == worker[w] \notin {"none", "ended"}

\* An event in the queue is taken from it as long as some background task is
\* alive, also when several are, or when a stop is under way.
QueuedIsTaken ==
  \A e \in Events :
    fate[e] = "queued" ~> fate[e] # "queued" \/ \A w \in Workers : ~ Alive(w)

\* stop returns, unless the publisher is started again meanwhile.
StopReturns ==
  \A k \in Controllers : control[k] # "idle" ~> control[k] = "idle" \/ running

\* Once the publisher is stopped for good every background task ends, those
\* that no stop cancelled included (_process_events: "Wait for event with
\* timeout to allow checking _running flag").
WorkersEnd == \A w \in Workers : <>[](~ running) => <>[](~ Alive(w))
=============================================================================
