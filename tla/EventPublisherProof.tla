------------------------- MODULE EventPublisherProof -------------------------
(***************************************************************************)
(* Theorems about EventPublisher, for any events, consumers, controllers,  *)
(* and any size of the queue.                                              *)
(***************************************************************************)
EXTENDS EventPublisher, DataLemmas, FiniteSetTheorems

\* All tasks that handle events.
Procs == Workers \cup Controllers

\* Who has which event.
Owner(w) == [p \in Procs |-> w[p].event]

WorkTypes == [event : Events \cup {NoEvent}, told : Seq(Consumers)]

WorkerStates == {"none", "created", "waiting", "taken", "handling", "ended"}

\* What EventsAccounted says of the events, for a queue q, fates f, and a
\* function o that gives everybody's event.
Account(q, f, o) ==
  /\ q \in Seq(Events)
  /\ f \in [Events -> Fates]
  /\ o \in [Procs -> Events \cup {NoEvent}]
  /\ IsInjective(q)
  /\ \A e \in Events : e \in ToSet(q) <=> f[e] = "queued"
  /\ \A p \in Procs : o[p] # NoEvent => f[o[p]] = "taken"
  /\ \A e \in Events : f[e] = "taken" => \E p \in Procs : o[p] = e
  /\ \A p, r \in Procs : o[p] = o[r] /\ o[p] # NoEvent => p = r

\* Those who are handling an event have one, w being the work.
WorkersBusy(w, s) ==
  \A t \in Workers : w[t].event # NoEvent <=> s[t] \in {"taken", "handling"}

ControllersBusy(w, s) ==
  \A k \in Controllers : w[k].event # NoEvent <=> s[k] = "draining"

\* The inductive invariant.  Controllers that are under way have seen a
\* background task, and those to come have no state yet.
AccountInv ==
  /\ Account(queue, fate, Owner(work))
  /\ work \in [Procs -> WorkTypes]
  /\ worker \in [Workers -> WorkerStates]
  /\ control \in [Controllers -> {"idle", "draining", "joining"}]
  /\ WorkersBusy(work, worker)
  /\ ControllersBusy(work, control)

StartInv ==
  /\ task \in 0..MaxStarts
  /\ \A k \in Controllers : control[k] # "idle" => task # 0
  /\ \A k \in Controllers : control[k] = "joining" => joining[k] \in 1..task
  /\ \A w \in Workers : w > task => worker[w] = "none"

ListInv ==
  /\ subscribers \in Seq(Consumers)
  /\ subscribers # <<>>
  /\ Len(subscribers) <= MaxConsumers
  /\ \A p \in Procs : Len(work[p].told) <= MaxConsumers

OtherInv ==
  /\ Len(queue) <= QueueSize
  /\ running \in BOOLEAN
  /\ joining \in [Controllers -> 0..MaxStarts]

EInv == AccountInv /\ StartInv /\ ListInv /\ OtherInv

LEMMA Sizes ==
  /\ NoEvent \notin Events
  /\ Consumers # {} /\ IsFiniteSet(Consumers) /\ Cardinality(Consumers) \in Nat
  /\ QueueSize \in Nat \ {0} /\ MaxStarts \in Nat \ {0}
  /\ Controllers \cap Workers = {}
  /\ MaxConsumers \in Nat \ {0} /\ Cardinality(Consumers) <= MaxConsumers
<1>1. /\ NoEvent \notin Events
      /\ Consumers # {} /\ IsFiniteSet(Consumers) /\ Cardinality(Consumers) \in Nat
      /\ QueueSize \in Nat \ {0} /\ MaxStarts \in Nat \ {0}
      /\ Controllers \cap Workers = {}
      /\ MaxConsumers \in Nat /\ Cardinality(Consumers) <= MaxConsumers
  BY PublisherAssumption, FS_CardinalityType DEF Workers
<1>2. Cardinality(Consumers) # 0
  BY <1>1, FS_EmptySet
<1> QED
  BY <1>1, <1>2

-----------------------------------------------------------------------------
(* The account *)

LEMMA AccountPut ==
  ASSUME NEW q, NEW f, NEW o, Account(q, f, o), NEW e \in Events,
         f[e] \in {"new", "blocked"},
         NEW g \in [Events -> Fates], g[e] = "queued", \A d \in Events \ {e} : g[d] = f[d]
  PROVE  Account(Append(q, e), g, o)
<1>1. q \in Seq(Events) /\ IsInjective(q) /\ e \notin ToSet(q)
  BY DEF Account
<1>2. /\ Append(q, e) \in Seq(Events) /\ IsInjective(Append(q, e))
      /\ ToSet(Append(q, e)) = ToSet(q) \cup {e}
  BY <1>1, AppendMembers
<1>3. \A d \in Events : d \in ToSet(Append(q, e)) <=> g[d] = "queued"
  BY <1>2 DEF Account
<1>4. \A d \in Events : g[d] = "taken" <=> f[d] = "taken"
  OBVIOUS
<1>5. \A p \in Procs : o[p] # NoEvent => g[o[p]] = "taken"
  BY <1>4 DEF Account
<1>6. \A d \in Events : g[d] = "taken" => \E p \in Procs : o[p] = d
  BY <1>4 DEF Account
<1> QED
  BY <1>2, <1>3, <1>5, <1>6 DEF Account

\* An event that is neither queued nor taken changes its fate to another such.
LEMMA AccountAside ==
  ASSUME NEW q, NEW f, NEW o, Account(q, f, o), NEW e \in Events,
         f[e] \notin {"queued", "taken"},
         NEW g \in [Events -> Fates], g[e] \notin {"queued", "taken"},
         \A d \in Events \ {e} : g[d] = f[d]
  PROVE  Account(q, g, o)
<1>1. \A d \in Events : /\ g[d] = "taken" <=> f[d] = "taken"
                        /\ g[d] = "queued" <=> f[d] = "queued"
  OBVIOUS
<1>2. \A d \in Events : d \in ToSet(q) <=> g[d] = "queued"
  BY <1>1 DEF Account
<1>3. \A p \in Procs : o[p] # NoEvent => g[o[p]] = "taken"
  BY <1>1 DEF Account
<1>4. \A d \in Events : g[d] = "taken" => \E p \in Procs : o[p] = d
  BY <1>1 DEF Account
<1> QED
  BY <1>2, <1>3, <1>4 DEF Account

LEMMA AccountTake ==
  ASSUME NEW q, NEW f, NEW o, Account(q, f, o), q # <<>>, NEW h, h = Head(q),
         NEW p \in Procs, o[p] = NoEvent,
         NEW g \in [Events -> Fates], g[h] = "taken",
         \A d \in Events \ {h} : g[d] = f[d],
         NEW n \in [Procs -> Events \cup {NoEvent}], n[p] = h,
         \A r \in Procs \ {p} : n[r] = o[r]
  PROVE  Account(Tail(q), g, n)
<1> DEFINE t == Tail(q)
<1>1. q \in Seq(Events) /\ IsInjective(q)
  BY DEF Account
<1>2. /\ t \in Seq(Events) /\ h \in Events /\ IsInjective(t) /\ h \notin ToSet(t)
      /\ ToSet(q) = ToSet(t) \cup {h}
  BY <1>1, TailMembers
<1>3. g[h] = "taken" /\ n[p] = h /\ \A d \in Events \ {h} : g[d] = f[d]
  OBVIOUS
<1> HIDE DEF t
<1>4. h # NoEvent /\ f[h] = "queued"
  BY <1>2, Sizes DEF Account
<1>5. \A d \in Events : d \in ToSet(t) <=> g[d] = "queued"
  BY <1>2, <1>3 DEF Account
<1>6. \A r \in Procs : n[r] # NoEvent => g[n[r]] = "taken"
  BY <1>2, <1>3, <1>4 DEF Account
<1>7. \A d \in Events : g[d] = "taken" => \E r \in Procs : n[r] = d
  <2> SUFFICES ASSUME NEW d \in Events, g[d] = "taken" PROVE \E r \in Procs : n[r] = d
    OBVIOUS
  <2>1. CASE d = h
    BY <1>3, <2>1
  <2>2. CASE d # h
    <3>1. PICK r \in Procs : o[r] = d
      BY <1>3, <2>2 DEF Account
    <3>2. r # p
      BY <3>1, Sizes
    <3> QED
      BY <3>1, <3>2
  <2> QED
    BY <2>1, <2>2
<1>8. \A r \in Procs \ {p} : n[r] # h
  BY <1>2, <1>4 DEF Account
<1>9. \A r, s \in Procs : n[r] = n[s] /\ n[r] # NoEvent => r = s
  BY <1>3, <1>8 DEF Account
<1>10. Account(t, g, n)
  BY <1>2, <1>5, <1>6, <1>7, <1>9 DEF Account
<1> QED
  BY <1>10 DEF t

\* The event of p is done with, whatever became of it.
LEMMA AccountDone ==
  ASSUME NEW q, NEW f, NEW o, Account(q, f, o),
         NEW p \in Procs, NEW e, o[p] = e, e # NoEvent,
         NEW g \in [Events -> Fates], g[e] \notin {"queued", "taken"},
         \A d \in Events \ {e} : g[d] = f[d],
         NEW n \in [Procs -> Events \cup {NoEvent}], n[p] = NoEvent,
         \A r \in Procs \ {p} : n[r] = o[r]
  PROVE  Account(q, g, n)
<1>1. /\ e \in Events /\ f[e] = "taken" /\ g[e] \notin {"queued", "taken"}
      /\ \A d \in Events \ {e} : g[d] = f[d]
      /\ \A r \in Procs \ {p} : o[r] # e
  BY DEF Account
<1>2. \A d \in Events : d \in ToSet(q) <=> g[d] = "queued"
  BY <1>1 DEF Account
<1>3. \A r \in Procs : n[r] # NoEvent => g[n[r]] = "taken"
  BY <1>1 DEF Account
<1>4. \A d \in Events : g[d] = "taken" => \E r \in Procs : n[r] = d
  <2> SUFFICES ASSUME NEW d \in Events, g[d] = "taken" PROVE \E r \in Procs : n[r] = d
    OBVIOUS
  <2>1. d # e /\ f[d] = "taken"
    BY <1>1
  <2>2. PICK r \in Procs : o[r] = d
    BY <2>1 DEF Account
  <2> QED
    BY <2>1, <2>2
<1>5. \A r, s \in Procs : n[r] = n[s] /\ n[r] # NoEvent => r = s
  BY DEF Account
<1> QED
  BY <1>2, <1>3, <1>4, <1>5 DEF Account

-----------------------------------------------------------------------------
(* The steps *)

LEMMA Nothing == NoWork \in WorkTypes /\ NoWork.event = NoEvent /\ NoWork.told = <<>>
<1>1. <<>> \in Seq(Consumers)
  OBVIOUS
<1> QED
  BY <1>1 DEF NoWork, WorkTypes

\* One more consumer is told of the event that p has.
LEMMA TellWork ==
  ASSUME NEW p \in Procs, work \in [Procs -> WorkTypes], subscribers \in Seq(Consumers), Tell(p)
  PROVE  /\ work' \in [Procs -> WorkTypes]
         /\ \A r \in Procs : work'[r].event = work[r].event
         /\ \A r \in Procs \ {p} : work'[r].told = work[r].told
         /\ Len(work'[p].told) = Len(work[p].told) + 1
         /\ Len(work'[p].told) <= Len(subscribers)
<1> DEFINE n == Len(work[p].told) + 1
           t == Append(work[p].told, subscribers[n])
<1>1. work[p].told \in Seq(Consumers) /\ work[p] \in WorkTypes
  BY DEF WorkTypes
<1>2. n <= Len(subscribers) /\ n \in 1..Len(subscribers)
  BY <1>1, LenProperties DEF Tell, NextOf
<1>3. subscribers[n] \in Consumers
  BY <1>2, ElementOfSeq
<1>4. t \in Seq(Consumers) /\ Len(t) = n
  BY <1>1, <1>3
<1>5. work' = [work EXCEPT ![p] = [work[p] EXCEPT !.told = t]]
  BY DEF Tell, NextOf
<1> HIDE DEF t
<1>6. /\ [work[p] EXCEPT !.told = t] \in WorkTypes
      /\ [work[p] EXCEPT !.told = t].event = work[p].event
      /\ [work[p] EXCEPT !.told = t].told = t
  BY <1>1, <1>4 DEF WorkTypes
<1> QED
  BY <1>2, <1>4, <1>5, <1>6

\* A step that changes who is where, but not who has what.
LEMMA OwnersKept ==
  ASSUME AccountInv, UNCHANGED <<queue, fate>>,
         work' \in [Procs -> WorkTypes], \A p \in Procs : work'[p].event = work[p].event,
         worker' \in [Workers -> WorkerStates],
         control' \in [Controllers -> {"idle", "draining", "joining"}],
         \A t \in Workers : worker'[t] \in {"taken", "handling"} <=> worker[t] \in {"taken", "handling"},
         \A k \in Controllers : control'[k] = "draining" <=> control[k] = "draining"
  PROVE  AccountInv'
<1>1. Owner(work') = Owner(work)
  BY DEF Owner
<1>2. WorkersBusy(work', worker') /\ ControllersBusy(work', control')
  BY DEF AccountInv, WorkersBusy, ControllersBusy, Procs
<1>3. Account(queue', fate', Owner(work'))
  BY <1>1 DEF AccountInv
<1> QED
  BY <1>2, <1>3 DEF AccountInv

LEMMA PublishStep ==
  ASSUME AccountInv, NEW e \in Events, Publish(e) \/ Unblock(e)
  PROVE  AccountInv'
<1>1. /\ fate[e] \in {"new", "blocked"} /\ UNCHANGED <<worker, control, work>>
      /\ fate \in [Events -> Fates] /\ Account(queue, fate, Owner(work))
  BY DEF Publish, Unblock, Put, PutAside, AccountInv, Account
<1>2. CASE Put(e)
  <2>1. /\ queue' = Append(queue, e) /\ fate' \in [Events -> Fates] /\ fate'[e] = "queued"
        /\ \A d \in Events \ {e} : fate'[d] = fate[d]
    BY <1>1, <1>2 DEF Put, Fates
  <2>2. Account(Append(queue, e), fate', Owner(work))
    BY <1>1, <2>1, AccountPut
  <2> QED
    BY <1>1, <2>1, <2>2 DEF AccountInv
<1>3. CASE fate[e] = "new" /\ (PutAside(e, "blocked") \/ PutAside(e, "dropped"))
  <2>1. /\ queue' = queue /\ fate' \in [Events -> Fates] /\ fate'[e] \notin {"queued", "taken"}
        /\ \A d \in Events \ {e} : fate'[d] = fate[d]
    BY <1>1, <1>3 DEF PutAside, Fates
  <2>2. Account(queue, fate', Owner(work))
    BY <1>1, <2>1, AccountAside
  <2> QED
    BY <1>1, <2>1, <2>2 DEF AccountInv
<1> QED
  BY <1>2, <1>3 DEF Publish, Unblock

\* Everybody has an event or none.
LEMMA OwnerType ==
  ASSUME NEW v \in [Procs -> WorkTypes]
  PROVE  /\ Owner(v) \in [Procs -> Events \cup {NoEvent}]
         /\ \A r \in Procs : Owner(v)[r] = v[r].event
  BY DEF Owner, WorkTypes

\* p takes the oldest event, w and f being the work and the fates so far.
LEMMA TakeStep ==
  ASSUME NEW w \in [Procs -> WorkTypes], NEW f, Account(queue, f, Owner(w)),
         NEW p \in Procs, w[p].event = NoEvent, NEW t \in Seq(Consumers),
         TakeOldest(p, t, w, f)
  PROVE  /\ Account(queue', fate', Owner(work'))
         /\ work' \in [Procs -> WorkTypes]
         /\ work'[p].event # NoEvent /\ work'[p].told = t
         /\ \A r \in Procs \ {p} : work'[r] = w[r]
<1> DEFINE h == Head(queue)
<1>1. queue \in Seq(Events) /\ queue # <<>> /\ f \in [Events -> Fates]
  BY DEF TakeOldest, Account
<1>2. h \in Events /\ h # NoEvent
  BY <1>1, Sizes
<1>3. /\ queue' = Tail(queue)
      /\ work' = [w EXCEPT ![p] = [event |-> h, told |-> t]]
      /\ fate' = [f EXCEPT ![h] = "taken"]
  BY DEF TakeOldest
<1>0. h = Head(queue)
  OBVIOUS
<1> HIDE DEF h
<1>4. /\ work' \in [Procs -> WorkTypes] /\ work'[p].event = h /\ work'[p].told = t
      /\ \A r \in Procs \ {p} : work'[r] = w[r]
  BY <1>2, <1>3 DEF WorkTypes
<1>5. /\ fate' \in [Events -> Fates] /\ fate'[h] = "taken"
      /\ \A d \in Events \ {h} : fate'[d] = f[d]
  BY <1>1, <1>2, <1>3 DEF Fates
<1>6. /\ Owner(work') \in [Procs -> Events \cup {NoEvent}] /\ Owner(work')[p] = h
      /\ \A r \in Procs \ {p} : Owner(work')[r] = Owner(w)[r]
      /\ Owner(w)[p] = NoEvent
  <2>1. /\ Owner(work') \in [Procs -> Events \cup {NoEvent}]
        /\ \A r \in Procs : Owner(work')[r] = work'[r].event
    BY <1>4, OwnerType
  <2>2. \A r \in Procs : Owner(w)[r] = w[r].event
    BY OwnerType
  <2> QED
    BY <1>4, <2>1, <2>2
<1>7. Account(Tail(queue), fate', Owner(work'))
  <2> DEFINE n == Owner(work')
             o == Owner(w)
             g == fate'
  <2>1. Account(queue, f, o) /\ o[p] = NoEvent /\ queue # <<>>
    BY <1>1, <1>6
  <2>2. g \in [Events -> Fates] /\ g[h] = "taken" /\ \A d \in Events \ {h} : g[d] = f[d]
    BY <1>5
  <2>3. n \in [Procs -> Events \cup {NoEvent}] /\ n[p] = h /\ \A r \in Procs \ {p} : n[r] = o[r]
    BY <1>6
  <2> HIDE DEF n, o, g
  <2>4. Account(Tail(queue), g, n)
    BY <1>0, <2>1, <2>2, <2>3, AccountTake
  <2> QED
    BY <2>4 DEF n, g
<1> QED
  BY <1>2, <1>3, <1>4, <1>7

\* p is done with its event, and has work w, the fates being f, afterwards.
Ends(v, g, p, x, w, f) ==
  w = [v EXCEPT ![p] = NoWork] /\ f = [g EXCEPT ![v[p].event] = x]

LEMMA DoneStep ==
  ASSUME NEW v \in [Procs -> WorkTypes], NEW g, Account(queue, g, Owner(v)),
         NEW p \in Procs, v[p].event # NoEvent, NEW x \in {"handled", "cut"},
         NEW w, NEW f, Ends(v, g, p, x, w, f)
  PROVE  /\ Account(queue, f, Owner(w))
         /\ w \in [Procs -> WorkTypes]
         /\ w[p] = NoWork
         /\ \A r \in Procs \ {p} : w[r] = v[r]
<1>1. g \in [Events -> Fates] /\ v[p].event \in Events
  BY DEF Account, WorkTypes
<1>2. /\ w \in [Procs -> WorkTypes] /\ w[p] = NoWork
      /\ \A r \in Procs \ {p} : w[r] = v[r]
  BY Nothing DEF Ends
<1>3. /\ f \in [Events -> Fates] /\ f[v[p].event] = x
      /\ \A d \in Events \ {v[p].event} : f[d] = g[d]
  BY <1>1 DEF Ends, Fates
<1>4. /\ Owner(w) \in [Procs -> Events \cup {NoEvent}] /\ Owner(w)[p] = NoEvent
      /\ \A r \in Procs \ {p} : Owner(w)[r] = Owner(v)[r]
      /\ Owner(v)[p] = v[p].event
  BY <1>2, Nothing DEF Owner, WorkTypes
<1>5. Account(queue, f, Owner(w))
  BY <1>1, <1>3, <1>4, AccountDone
<1> QED
  BY <1>2, <1>5

LEMMA TakeWorkerStep ==
  ASSUME AccountInv, NEW w \in Workers, Take(w)
  PROVE  AccountInv'
<1>1. /\ worker[w] = "waiting" /\ TakeOldest(w, <<>>, work, fate)
      /\ worker' = [worker EXCEPT ![w] = "taken"] /\ control' = control
      /\ worker \in [Workers -> WorkerStates] /\ w \in Procs
  BY DEF Take, AccountInv, Procs
<1>2. work[w].event = NoEvent /\ <<>> \in Seq(Consumers)
  BY <1>1 DEF AccountInv, WorkersBusy
<1>3. /\ Account(queue', fate', Owner(work'))
      /\ work' \in [Procs -> WorkTypes]
      /\ work'[w].event # NoEvent
      /\ \A r \in Procs \ {w} : work'[r] = work[r]
  BY <1>1, <1>2, TakeStep DEF AccountInv
<1>4. /\ worker' \in [Workers -> WorkerStates] /\ worker'[w] = "taken"
      /\ \A t \in Workers \ {w} : worker'[t] = worker[t]
  BY <1>1 DEF WorkerStates
<1>5. WorkersBusy(work', worker')
  BY <1>3, <1>4 DEF AccountInv, WorkersBusy, Procs
<1>6. ControllersBusy(work', control')
  BY <1>1, <1>3, Sizes DEF AccountInv, ControllersBusy, Procs
<1> QED
  BY <1>1, <1>3, <1>4, <1>5, <1>6 DEF AccountInv

LEMMA FinishWorkerStep ==
  ASSUME AccountInv, NEW w \in Workers, FinishWorker(w)
  PROVE  AccountInv'
<1>1. /\ worker[w] = "handling" /\ UNCHANGED <<queue, control>>
      /\ Ends(work, fate, w, "handled", work', fate')
      /\ worker' = [worker EXCEPT ![w] = LoopOn]
      /\ worker \in [Workers -> WorkerStates] /\ w \in Procs
  BY DEF FinishWorker, Ends, AccountInv, Procs
<1>2. work[w].event # NoEvent
  BY <1>1 DEF AccountInv, WorkersBusy
<1>3. /\ Account(queue, fate', Owner(work'))
      /\ work' \in [Procs -> WorkTypes]
      /\ work'[w] = NoWork
      /\ \A r \in Procs \ {w} : work'[r] = work[r]
  BY <1>1, <1>2, DoneStep DEF AccountInv
<1>4. /\ worker' \in [Workers -> WorkerStates] /\ worker'[w] \in {"waiting", "ended"}
      /\ \A t \in Workers \ {w} : worker'[t] = worker[t]
  BY <1>1 DEF WorkerStates, LoopOn
<1>5. WorkersBusy(work', worker')
  BY <1>3, <1>4, Nothing DEF AccountInv, WorkersBusy, Procs
<1>6. ControllersBusy(work', control')
  BY <1>1, <1>3, Sizes DEF AccountInv, ControllersBusy, Procs
<1> QED
  BY <1>1, <1>3, <1>4, <1>5, <1>6 DEF AccountInv

\* Background task t is cancelled, with work w and fates f so far.
LEMMA CancelStep ==
  ASSUME NEW t \in Workers, NEW w \in [Procs -> WorkTypes], NEW f,
         Account(queue, f, Owner(w)), w[t] = work[t],
         WorkersBusy(w, worker), worker \in [Workers -> WorkerStates],
         Cancel(t, w, f)
  PROVE  /\ Account(queue, fate', Owner(work')) /\ work' \in [Procs -> WorkTypes]
         /\ WorkersBusy(work', worker') /\ worker' \in [Workers -> WorkerStates]
         /\ \A k \in Controllers : work'[k] = w[k]
<1>1. t \in Procs
  BY DEF Procs
<1>2. /\ worker' \in [Workers -> WorkerStates]
      /\ worker'[t] = "taken" <=> worker[t] = "taken"
      /\ worker'[t] # "handling"
      /\ \A v \in Workers \ {t} : worker'[v] = worker[v]
  BY DEF Cancel, WorkerStates
<1>3. CASE worker[t] = "handling"
  <2>1. Ends(w, f, t, "cut", work', fate') /\ w[t].event # NoEvent
    BY <1>3 DEF Cancel, Ends, WorkersBusy
  <2>2. /\ Account(queue, fate', Owner(work'))
        /\ work' \in [Procs -> WorkTypes]
        /\ work'[t] = NoWork
        /\ \A r \in Procs \ {t} : work'[r] = w[r]
    BY <1>1, <2>1, DoneStep
  <2>3. WorkersBusy(work', worker')
    BY <1>2, <1>3, <2>2, Nothing DEF WorkersBusy, Procs
  <2>4. \A k \in Controllers : work'[k] = w[k]
    BY <2>2, Sizes DEF Procs
  <2> QED
    BY <1>2, <2>2, <2>3, <2>4
<1>4. CASE worker[t] # "handling"
  <2>1. work' = w /\ fate' = f
    BY <1>4 DEF Cancel
  <2>2. WorkersBusy(work', worker')
    BY <1>2, <1>4, <2>1 DEF WorkersBusy
  <2> QED
    BY <1>2, <2>1, <2>2
<1> QED
  BY <1>3, <1>4

\* stop goes on, with work w and fates f: controller k has no event then.
LEMMA DrainStep ==
  ASSUME NEW k \in Controllers, NEW w \in [Procs -> WorkTypes], NEW f,
         Account(queue, f, Owner(w)),
         w[k].event = NoEvent,
         \A t \in Workers : w[t] = work[t],
         WorkersBusy(w, worker),
         \A l \in Controllers \ {k} : w[l].event # NoEvent <=> control[l] = "draining",
         worker \in [Workers -> WorkerStates],
         control \in [Controllers -> {"idle", "draining", "joining"}],
         task \in Workers, subscribers \in Seq(Consumers), subscribers # <<>>,
         Drain(k, w, f)
  PROVE  AccountInv'
<1>1. k \in Procs /\ task \in Procs
  BY DEF Procs
<1>2. CASE queue # <<>>
  <2>1. control' = [control EXCEPT ![k] = "draining"] /\ worker' = worker
    BY <1>2 DEF Drain
  <2>2. PICK t \in Seq(Consumers) : TakeOldest(k, t, w, f)
    <3>1. <<subscribers[1]>> \in Seq(Consumers)
      BY EmptySeq, ElementOfSeq, LenProperties
    <3> QED
      BY <1>2, <3>1 DEF Drain
  <2>3. /\ Account(queue', fate', Owner(work'))
        /\ work' \in [Procs -> WorkTypes]
        /\ work'[k].event # NoEvent
        /\ \A r \in Procs \ {k} : work'[r] = w[r]
    BY ONLY <1>1, w \in [Procs -> WorkTypes], Account(queue, f, Owner(w)),
       w[k].event = NoEvent, <2>2, TakeStep
  <2>4. /\ control' \in [Controllers -> {"idle", "draining", "joining"}]
        /\ control'[k] = "draining"
        /\ \A l \in Controllers \ {k} : control'[l] = control[l]
    BY <2>1
  <2>5. WorkersBusy(work', worker')
    BY <2>1, <2>3, Sizes DEF WorkersBusy, Procs
  <2>6. ControllersBusy(work', control')
    BY <2>3, <2>4 DEF ControllersBusy, Procs
  <2> QED
    BY <2>1, <2>3, <2>4, <2>5, <2>6 DEF AccountInv
<1>3. CASE queue = <<>>
  <2>1. /\ Cancel(task, w, f) /\ control' = [control EXCEPT ![k] = "joining"] /\ queue' = queue
    BY <1>3 DEF Drain
  <2>2. /\ control' \in [Controllers -> {"idle", "draining", "joining"}]
        /\ control'[k] = "joining"
        /\ \A l \in Controllers \ {k} : control'[l] = control[l]
    BY <2>1
  <2>3. /\ Account(queue, fate', Owner(work')) /\ work' \in [Procs -> WorkTypes]
        /\ WorkersBusy(work', worker') /\ worker' \in [Workers -> WorkerStates]
        /\ \A l \in Controllers : work'[l] = w[l]
    BY <2>1, CancelStep
  <2>4. ControllersBusy(work', control')
    BY <2>2, <2>3 DEF ControllersBusy
  <2> QED
    BY <2>1, <2>2, <2>3, <2>4 DEF AccountInv
<1> QED
  BY <1>2, <1>3

LEMMA StopStep ==
  ASSUME AccountInv, StartInv, ListInv, NEW k \in Controllers, Stop(k) \/ FinishDrained(k)
  PROVE  AccountInv'
<1>1. task \in Workers /\ k \in Procs
  BY Sizes DEF Stop, FinishDrained, StartInv, Workers, Procs
<1>2. /\ Account(queue, fate, Owner(work)) /\ work \in [Procs -> WorkTypes]
      /\ worker \in [Workers -> WorkerStates]
      /\ control \in [Controllers -> {"idle", "draining", "joining"}]
      /\ WorkersBusy(work, worker) /\ ControllersBusy(work, control)
      /\ subscribers \in Seq(Consumers) /\ subscribers # <<>>
  BY DEF AccountInv, ListInv
<1>3. CASE Stop(k)
  <2>1. Drain(k, work, fate) /\ work[k].event = NoEvent
    BY <1>2, <1>3 DEF Stop, ControllersBusy
  <2> QED
    BY <1>1, <1>2, <2>1, DrainStep DEF ControllersBusy
<1>4. CASE FinishDrained(k)
  <2> DEFINE w == [work EXCEPT ![k] = NoWork]
             f == [fate EXCEPT ![work[k].event] = "handled"]
  <2>1. Drain(k, w, f) /\ work[k].event # NoEvent
    BY <1>2, <1>4 DEF FinishDrained, ControllersBusy
  <2>2. Ends(work, fate, k, "handled", w, f)
    BY DEF Ends
  <2> HIDE DEF w, f
  <2>3. /\ Account(queue, f, Owner(w))
        /\ w \in [Procs -> WorkTypes]
        /\ w[k] = NoWork
        /\ \A r \in Procs \ {k} : w[r] = work[r]
    BY <1>1, <1>2, <2>1, <2>2, DoneStep
  <2>4. w[k].event = NoEvent /\ \A t \in Workers : w[t] = work[t]
    BY <2>3, Nothing, Sizes DEF Procs
  <2>5. WorkersBusy(w, worker)
    BY <1>2, <2>4 DEF WorkersBusy
  <2>6. \A l \in Controllers \ {k} : w[l].event # NoEvent <=> control[l] = "draining"
    BY <1>2, <2>3 DEF ControllersBusy, Procs
  <2> QED
    BY <1>1, <1>2, <2>1, <2>3, <2>4, <2>5, <2>6, DrainStep
<1> QED
  BY <1>3, <1>4

LEMMA StopCancelledStep ==
  ASSUME AccountInv, StartInv, OtherInv, NEW k \in Controllers,
         StopCancelledDraining(k) \/ StopCancelledJoining(k)
  PROVE  AccountInv'
<1>1. k \in Procs
  BY DEF Procs
<1>2. /\ Account(queue, fate, Owner(work)) /\ work \in [Procs -> WorkTypes]
      /\ worker \in [Workers -> WorkerStates]
      /\ control \in [Controllers -> {"idle", "draining", "joining"}]
      /\ WorkersBusy(work, worker) /\ ControllersBusy(work, control)
  BY DEF AccountInv
<1>3. CASE StopCancelledDraining(k)
  <2>1. /\ control[k] = "draining" /\ UNCHANGED <<queue, worker>>
        /\ Ends(work, fate, k, "cut", work', fate')
        /\ control' = [control EXCEPT ![k] = "idle"]
    BY <1>3 DEF StopCancelledDraining, Ends
  <2>2. work[k].event # NoEvent
    BY <1>2, <2>1 DEF ControllersBusy
  <2>3. /\ Account(queue, fate', Owner(work'))
        /\ work' \in [Procs -> WorkTypes]
        /\ work'[k] = NoWork
        /\ \A r \in Procs \ {k} : work'[r] = work[r]
    BY <1>1, <1>2, <2>1, <2>2, DoneStep
  <2>4. /\ control' \in [Controllers -> {"idle", "draining", "joining"}]
        /\ control'[k] = "idle"
        /\ \A l \in Controllers \ {k} : control'[l] = control[l]
    BY <1>2, <2>1
  <2>5. WorkersBusy(work', worker')
    BY <1>2, <2>1, <2>3, Sizes DEF WorkersBusy, Procs
  <2>6. ControllersBusy(work', control')
    BY <1>2, <2>3, <2>4, Nothing DEF ControllersBusy, Procs
  <2> QED
    BY <1>2, <2>1, <2>3, <2>4, <2>5, <2>6 DEF AccountInv
<1>4. CASE StopCancelledJoining(k)
  <2>1. Cancel(joining[k], work, fate) /\ UNCHANGED <<queue, control>>
    BY <1>4 DEF StopCancelledJoining
  <2>2. joining[k] \in Workers
    BY <1>4, Sizes DEF StopCancelledJoining, StartInv, Workers
  <2>3. /\ Account(queue, fate', Owner(work')) /\ work' \in [Procs -> WorkTypes]
        /\ WorkersBusy(work', worker') /\ worker' \in [Workers -> WorkerStates]
        /\ \A l \in Controllers : work'[l] = work[l]
    BY <1>2, <2>1, <2>2, CancelStep
  <2>4. ControllersBusy(work', control')
    BY <1>2, <2>1, <2>3 DEF ControllersBusy
  <2> QED
    BY <1>2, <2>1, <2>3, <2>4 DEF AccountInv
<1> QED
  BY <1>3, <1>4

LEMMA AccountStep == EInv /\ [Next]_vars => AccountInv'
<1> SUFFICES ASSUME EInv, [Next]_vars PROVE AccountInv'
  OBVIOUS
<1>1. AccountInv /\ StartInv /\ ListInv /\ OtherInv
  BY DEF EInv
<1>2. /\ work \in [Procs -> WorkTypes]
      /\ worker \in [Workers -> WorkerStates]
      /\ control \in [Controllers -> {"idle", "draining", "joining"}]
  BY <1>1 DEF AccountInv
<1>3. ASSUME NEW e \in Events, Publish(e) \/ Unblock(e) PROVE AccountInv'
  BY <1>1, <1>3, PublishStep
<1>4. ASSUME NEW w \in Workers, Begin(w) \/ TimeOut(w) PROVE AccountInv'
  <2>1. /\ UNCHANGED <<queue, fate, work, control>>
        /\ worker[w] \in {"created", "waiting"}
        /\ worker' = [worker EXCEPT ![w] = LoopOn] \/ worker' = [worker EXCEPT ![w] = "ended"]
    BY <1>4 DEF Begin, TimeOut
  <2>2. /\ worker' \in [Workers -> WorkerStates]
        /\ \A t \in Workers : worker'[t] \in {"taken", "handling"} <=> worker[t] \in {"taken", "handling"}
    BY <1>2, <2>1 DEF WorkerStates, LoopOn
  <2> QED
    BY <1>1, <1>2, <2>1, <2>2, OwnersKept
<1>5. ASSUME NEW w \in Workers, Take(w) \/ FinishWorker(w) PROVE AccountInv'
  BY <1>1, <1>5, TakeWorkerStep, FinishWorkerStep
<1>6. ASSUME NEW w \in Workers, Handle(w) PROVE AccountInv'
  <2>1. /\ UNCHANGED <<queue, fate, control>> /\ Tell(w) /\ w \in Procs
        /\ worker[w] = "taken" /\ worker' = [worker EXCEPT ![w] = "handling"]
    BY <1>6 DEF Handle, Procs
  <2>2. /\ work' \in [Procs -> WorkTypes]
        /\ \A r \in Procs : work'[r].event = work[r].event
    BY <1>1, <1>2, <2>1, TellWork DEF ListInv
  <2>3. /\ worker' \in [Workers -> WorkerStates]
        /\ \A t \in Workers : worker'[t] \in {"taken", "handling"} <=> worker[t] \in {"taken", "handling"}
    BY <1>2, <2>1 DEF WorkerStates
  <2> QED
    BY <1>1, <1>2, <2>1, <2>2, <2>3, OwnersKept
<1>7. ASSUME NEW p \in Procs, Deliver(p) PROVE AccountInv'
  <2>1. UNCHANGED <<queue, fate, control, worker>> /\ Tell(p)
    BY <1>7 DEF Deliver
  <2>2. /\ work' \in [Procs -> WorkTypes]
        /\ \A r \in Procs : work'[r].event = work[r].event
    BY <1>1, <1>2, <2>1, TellWork DEF ListInv
  <2> QED
    BY <1>1, <1>2, <2>1, <2>2, OwnersKept
<1>8. ASSUME NEW k \in Controllers, Start(k) PROVE AccountInv'
  <2>1. /\ UNCHANGED <<queue, fate, work, control>> /\ task < MaxStarts
        /\ worker' = [worker EXCEPT ![task + 1] = "created"]
    BY <1>8 DEF Start
  <2>2. task + 1 \in Workers /\ worker[task + 1] = "none"
    BY <1>1, <2>1, Sizes DEF StartInv, Workers
  <2>3. /\ worker' \in [Workers -> WorkerStates]
        /\ \A t \in Workers : worker'[t] \in {"taken", "handling"} <=> worker[t] \in {"taken", "handling"}
    BY <1>2, <2>1, <2>2 DEF WorkerStates
  <2> QED
    BY <1>1, <1>2, <2>1, <2>3, OwnersKept
<1>9. ASSUME NEW k \in Controllers, Stop(k) \/ FinishDrained(k) PROVE AccountInv'
  BY <1>1, <1>9, StopStep
<1>10. ASSUME NEW k \in Controllers, Join(k) PROVE AccountInv'
  <2>1. /\ UNCHANGED <<queue, fate, work, worker>>
        /\ control[k] = "joining" /\ control' = [control EXCEPT ![k] = "idle"]
    BY <1>10 DEF Join
  <2>2. /\ control' \in [Controllers -> {"idle", "draining", "joining"}]
        /\ \A l \in Controllers : control'[l] = "draining" <=> control[l] = "draining"
    BY <1>2, <2>1
  <2> QED
    BY <1>1, <1>2, <2>1, <2>2, OwnersKept
<1>11. CASE (\E c \in Consumers : On(c) \/ Off(c)) \/ UNCHANGED vars
  <2>1. UNCHANGED <<queue, fate, work, worker, control>>
    BY <1>11 DEF On, Off, vars
  <2> QED
    BY <1>1, <1>2, <2>1, OwnersKept
<1>12. ASSUME NEW k \in Controllers, StopCancelledDraining(k) \/ StopCancelledJoining(k)
       PROVE  AccountInv'
  BY <1>1, <1>12, StopCancelledStep
<1> QED
  BY <1>3, <1>4, <1>5, <1>6, <1>7, <1>8, <1>9, <1>10, <1>11, <1>12 DEF Next, Procs

\* Background tasks are created in turn, and stop knows one.
LEMMA StartStep == EInv /\ [Next]_vars => StartInv'
<1> SUFFICES ASSUME EInv, [Next]_vars PROVE StartInv'
  OBVIOUS
<1>1. /\ task \in 0..MaxStarts
      /\ \A k \in Controllers : control[k] # "idle" => task # 0
      /\ \A k \in Controllers : control[k] = "joining" => joining[k] \in 1..task
      /\ \A w \in Workers : w > task => worker[w] = "none"
      /\ joining \in [Controllers -> 0..MaxStarts]
      /\ worker \in [Workers -> WorkerStates]
      /\ control \in [Controllers -> {"idle", "draining", "joining"}]
  BY DEF EInv, StartInv, AccountInv, OtherInv
<1>2. CASE \E k \in Controllers : Start(k)
  <2>1. /\ control' = control /\ joining' = joining /\ task' = task + 1 /\ task < MaxStarts
        /\ worker' = [worker EXCEPT ![task + 1] = "created"]
    BY <1>2 DEF Start
  <2> QED
    BY <1>1, <2>1, Sizes DEF StartInv, Workers
<1>3. CASE task' = task /\ UNCHANGED <<worker, control, joining>>
  BY <1>1, <1>3 DEF StartInv
<1>4. ASSUME NEW w \in Workers, NEW x, worker[w] # "none", worker' = [worker EXCEPT ![w] = x],
             UNCHANGED <<task, control, joining>>
      PROVE  StartInv'
  BY <1>1, <1>4 DEF StartInv
<1>5. CASE \E w \in Workers : Begin(w) \/ Take(w) \/ Handle(w) \/ TimeOut(w) \/ FinishWorker(w)
  <2>1. PICK w \in Workers : Begin(w) \/ Take(w) \/ Handle(w) \/ TimeOut(w) \/ FinishWorker(w)
    BY <1>5
  <2>2. worker[w] # "none" /\ UNCHANGED <<task, control, joining>>
    BY <2>1 DEF Begin, Take, Handle, TimeOut, FinishWorker
  <2>3. \E x : worker' = [worker EXCEPT ![w] = x]
    BY <2>1 DEF Begin, Take, Handle, TimeOut, FinishWorker
  <2> QED
    BY <1>4, <2>2, <2>3
<1>6. CASE \E k \in Controllers : Join(k)
  BY <1>1, <1>6 DEF Join, StartInv
<1>7. ASSUME NEW k \in Controllers, Stop(k) \/ FinishDrained(k) PROVE StartInv'
  <2>1. task # 0 /\ task' = task
    BY <1>1, <1>7 DEF Stop, FinishDrained
  <2>2. PICK w, f : Drain(k, w, f)
    BY <1>7 DEF Stop, FinishDrained
  <2>3. \/ worker' = worker
        \/ worker' = [worker EXCEPT ![task] = "ended"]
    BY <2>2 DEF Drain, Cancel
  <2>4. \/ control' = [control EXCEPT ![k] = "draining"] /\ joining' = joining
        \/ /\ control' = [control EXCEPT ![k] = "joining"]
           /\ joining' = [joining EXCEPT ![k] = task]
    BY <2>2 DEF Drain
  <2>5. \A l \in Controllers : control'[l] = "joining" => joining'[l] \in 1..task
    BY <1>1, <2>1, <2>4
  <2>6. \A v \in Workers : v > task => worker'[v] = "none"
    BY <1>1, <2>1, <2>3
  <2> QED
    BY <1>1, <2>1, <2>5, <2>6 DEF StartInv
<1>8. CASE \/ \E e \in Events : Publish(e) \/ Unblock(e)
           \/ \E p \in Procs : Deliver(p)
           \/ \E c \in Consumers : On(c) \/ Off(c)
           \/ UNCHANGED vars
  BY <1>3, <1>8 DEF Publish, Unblock, Put, PutAside, Deliver, On, Off, vars
<1>9. ASSUME NEW k \in Controllers, StopCancelledDraining(k) PROVE StartInv'
  BY <1>1, <1>9 DEF StopCancelledDraining, StartInv
<1>10. ASSUME NEW k \in Controllers, StopCancelledJoining(k) PROVE StartInv'
  <2>1. /\ joining[k] \in 1..task /\ UNCHANGED <<task, control, joining>>
        /\ worker' = worker \/ worker' = [worker EXCEPT ![joining[k]] = "ended"]
    BY <1>1, <1>10 DEF StopCancelledJoining, Cancel
  <2>2. \A w \in Workers : w > task => w # joining[k]
    BY <1>1, <2>1
  <2>3. \A w \in Workers : w > task => worker'[w] = "none"
    BY <1>1, <2>1, <2>2
  <2> QED
    BY <1>1, <2>1, <2>3 DEF StartInv
<1> QED
  BY <1>2, <1>5, <1>6, <1>7, <1>8, <1>9, <1>10 DEF Next, Procs

LEMMA ListStep == EInv /\ [Next]_vars => ListInv'
<1> SUFFICES ASSUME EInv, [Next]_vars PROVE ListInv'
  OBVIOUS
<1>1. /\ subscribers \in Seq(Consumers) /\ subscribers # <<>> /\ Len(subscribers) <= MaxConsumers
      /\ \A p \in Procs : Len(work[p].told) <= MaxConsumers
      /\ work \in [Procs -> WorkTypes]
  BY DEF EInv, ListInv, AccountInv
<1>2. Len(subscribers) \in Nat \ {0} /\ 1 <= MaxConsumers /\ 0 <= MaxConsumers
  BY <1>1, LenProperties, EmptySeq, Sizes
<1>3. CASE UNCHANGED <<subscribers, work>>
  BY <1>1, <1>3 DEF ListInv
<1>4. ASSUME NEW c \in Consumers, On(c) PROVE ListInv'
  <2>1. /\ subscribers' = Append(subscribers, c) /\ work' = work
        /\ Len(subscribers) < MaxConsumers
    BY <1>4 DEF On
  <2>2. /\ Append(subscribers, c) \in Seq(Consumers) /\ Append(subscribers, c) # <<>>
        /\ Len(Append(subscribers, c)) = Len(subscribers) + 1
    BY <1>1, <1>4, AppendProperties
  <2>3. Len(Append(subscribers, c)) <= MaxConsumers
    BY <1>2, <2>1, <2>2, Sizes
  <2> QED
    BY <1>1, <2>1, <2>2, <2>3 DEF ListInv
<1>5. ASSUME NEW c \in Consumers, Off(c) PROVE ListInv'
  <2>1. work' = work /\ Len(subscribers) > 1 /\ subscribers' = RemoveFirst(subscribers, c)
    BY <1>5 DEF Off
  <2>2. CASE subscribers' = subscribers
    BY <1>3, <2>1, <2>2
  <2>3. CASE \E i \in 1..Len(subscribers) : subscribers' = RemoveAt(subscribers, i)
    <3>1. subscribers' \in Seq(Consumers) /\ Len(subscribers') = Len(subscribers) - 1
      BY <1>1, <2>3, RemoveAtMembers
    <3>2. subscribers' # <<>> /\ Len(subscribers') <= MaxConsumers
      BY <1>1, <1>2, <2>1, <3>1, Sizes
    <3> QED
      BY <1>1, <2>1, <3>1, <3>2 DEF ListInv
  <2> QED
    BY <1>1, <2>1, <2>2, <2>3, FirstRemoved
<1>6. ASSUME NEW p \in Procs, Tell(p), subscribers' = subscribers PROVE ListInv'
  <2>1. /\ \A r \in Procs \ {p} : work'[r].told = work[r].told
        /\ Len(work'[p].told) = Len(work[p].told) + 1
        /\ Len(work'[p].told) <= Len(subscribers)
    BY <1>1, <1>6, TellWork
  <2>2. Len(work[p].told) \in Nat
    BY <1>1, LenProperties DEF WorkTypes
  <2> QED
    BY <1>1, <1>2, <1>6, <2>1, <2>2, Sizes DEF ListInv
<1>7. ASSUME NEW p \in Procs, NEW w \in [Procs -> WorkTypes], NEW r, work' = [w EXCEPT ![p] = r],
             subscribers' = subscribers, Len(r.told) \in {0, 1},
             \A q \in Procs : Len(w[q].told) <= MaxConsumers
      PROVE  ListInv'
  <2>1. \A q \in Procs : work'[q] = IF q = p THEN r ELSE w[q]
    BY <1>7
  <2>2. \A q \in Procs : Len(work'[q].told) <= MaxConsumers
    BY <1>2, <1>7, <2>1
  <2> QED
    BY <1>1, <1>7, <2>2 DEF ListInv
<1>8. Len(NoWork.told) = 0 /\ NoWork \in WorkTypes
  BY Nothing
<1>9. ASSUME NEW w \in Workers,
             Begin(w) \/ Take(w) \/ Handle(w) \/ TimeOut(w) \/ FinishWorker(w)
      PROVE  ListInv'
  <2>1. w \in Procs
    BY DEF Procs
  <2>2. CASE Begin(w) \/ TimeOut(w)
    BY <1>3, <2>2 DEF Begin, TimeOut
  <2>3. CASE Take(w)
    <3> DEFINE r == [event |-> Head(queue), told |-> <<>>]
    <3>1. work' = [work EXCEPT ![w] = r] /\ subscribers' = subscribers
      BY <2>3 DEF Take, TakeOldest
    <3>2. Len(r.told) = 0
      OBVIOUS
    <3> HIDE DEF r
    <3> QED
      BY <1>1, <1>7, <2>1, <3>1, <3>2
  <2>4. CASE Handle(w)
    BY <1>6, <2>1, <2>4 DEF Handle
  <2>5. CASE FinishWorker(w)
    BY <1>1, <1>7, <1>8, <2>1, <2>5 DEF FinishWorker
  <2> QED
    BY <1>9, <2>2, <2>3, <2>4, <2>5
<1>10. ASSUME NEW k \in Controllers, Stop(k) \/ FinishDrained(k) PROVE ListInv'
  <2>1. PICK w, f : /\ Drain(k, w, f) /\ subscribers' = subscribers
                    /\ w = work \/ w = [work EXCEPT ![k] = NoWork]
    BY <1>10 DEF Stop, FinishDrained
  <2>2. k \in Procs
    BY DEF Procs
  <2>3. \A q \in Procs : w[q] = work[q] \/ w[q] = NoWork
    BY <1>1, <2>1
  <2>4. \A q \in Procs : Len(w[q].told) <= MaxConsumers
    BY <1>1, <1>8, <2>3, Sizes
  <2>5. w \in [Procs -> WorkTypes]
    BY <1>1, <1>8, <2>1
  <2>6. CASE queue # <<>>
    <3> DEFINE r == [event |-> Head(queue), told |-> <<subscribers[1]>>]
    <3>1. work' = [w EXCEPT ![k] = r]
      BY <2>1, <2>6 DEF Drain, TakeOldest
    <3>2. Len(r.told) = 1
      OBVIOUS
    <3> HIDE DEF r
    <3> QED
      BY <1>7, <2>1, <2>2, <2>4, <2>5, <3>1, <3>2
  <2>7. CASE queue = <<>>
    <3>1. work' = w \/ work' = [w EXCEPT ![task] = NoWork]
      BY <2>1, <2>7 DEF Drain, Cancel
    <3>2. \A q \in Procs : work'[q] = w[q] \/ work'[q] = NoWork
      BY <2>5, <3>1
    <3>3. \A q \in Procs : Len(work'[q].told) <= MaxConsumers
      BY <1>8, <2>4, <3>2, Sizes
    <3> QED
      BY <1>1, <2>1, <3>3 DEF ListInv
  <2> QED
    BY <2>6, <2>7
<1>11. CASE \/ \E e \in Events : Publish(e) \/ Unblock(e)
            \/ \E k \in Controllers : Start(k) \/ Join(k)
            \/ UNCHANGED vars
  BY <1>3, <1>11 DEF Publish, Unblock, Put, PutAside, Start, Join, vars
<1>12. ASSUME NEW k \in Controllers, StopCancelledDraining(k) \/ StopCancelledJoining(k)
       PROVE  ListInv'
  <2>1. /\ subscribers' = subscribers
        /\ work' = work \/ \E q : work' = [work EXCEPT ![q] = NoWork]
    BY <1>12 DEF StopCancelledDraining, StopCancelledJoining, Cancel
  <2>2. \A q \in Procs : work'[q] = work[q] \/ work'[q] = NoWork
    BY <1>1, <2>1
  <2>3. \A q \in Procs : Len(work'[q].told) <= MaxConsumers
    BY <1>1, <1>2, <1>8, <2>2
  <2> QED
    BY <1>1, <2>1, <2>3 DEF ListInv
<1>13. CASE \E p \in Procs : Deliver(p)
  BY <1>6, <1>13 DEF Deliver
<1> QED
  BY <1>4, <1>5, <1>9, <1>10, <1>11, <1>12, <1>13 DEF Next, Procs

LEMMA OtherStep == EInv /\ [Next]_vars => OtherInv'
<1> SUFFICES ASSUME EInv, [Next]_vars PROVE OtherInv'
  OBVIOUS
<1>1. /\ Len(queue) <= QueueSize /\ running \in BOOLEAN
      /\ joining \in [Controllers -> 0..MaxStarts] /\ task \in 0..MaxStarts
      /\ queue \in Seq(Events) /\ QueueSize \in Nat
  BY Sizes DEF EInv, OtherInv, StartInv, AccountInv, Account
<1>2. ASSUME NEW e, Put(e) PROVE Len(queue') <= QueueSize
  <2>1. Len(queue) < QueueSize /\ queue' = Append(queue, e)
    BY <1>2 DEF Put, HasRoom
  <2>2. Len(queue') = Len(queue) + 1 /\ Len(queue) \in Nat
    BY <1>1, <2>1
  <2> QED
    BY <1>1, <2>1, <2>2
<1>3. ASSUME NEW p, NEW t, NEW w, NEW f, TakeOldest(p, t, w, f) PROVE Len(queue') <= QueueSize
  <2>1. queue # <<>> /\ queue' = Tail(queue)
    BY <1>3 DEF TakeOldest
  <2>2. Len(queue') = Len(queue) - 1 /\ Len(queue) \in Nat
    BY <1>1, <2>1
  <2> QED
    BY <1>1, <2>2
<1>4. Len(queue') <= QueueSize
  <2>1. CASE queue' = queue
    BY <1>1, <2>1
  <2>2. CASE \E e \in Events : Publish(e) \/ Unblock(e)
    BY <1>2, <2>1, <2>2 DEF Publish, Unblock, PutAside
  <2>3. CASE \E w \in Workers : Take(w)
    BY <1>3, <2>3 DEF Take
  <2>4. CASE \E k \in Controllers : Stop(k) \/ FinishDrained(k)
    BY <1>3, <2>1, <2>4 DEF Stop, FinishDrained, Drain
  <2> QED
    BY <2>1, <2>2, <2>3, <2>4
    DEF Next, Begin, Handle, TimeOut, FinishWorker, Deliver, Start, Join, On, Off,
        StopCancelledDraining, StopCancelledJoining, vars
<1>5. running' \in BOOLEAN
  <2>1. running' = running \/ running' = TRUE \/ running' = FALSE
    BY DEF Next, Publish, Unblock, Put, PutAside, Begin, Take, Handle, TimeOut, FinishWorker,
           Deliver, Start, Stop, FinishDrained, Join,
           StopCancelledDraining, StopCancelledJoining, On, Off, vars
  <2> QED
    BY <1>1, <2>1, Zenon
<1>6. joining' \in [Controllers -> 0..MaxStarts]
  <2>1. \/ joining' = joining
        \/ \E k \in Controllers : \/ joining' = [joining EXCEPT ![k] = task]
                                  \/ joining' = [joining EXCEPT ![k] = 0]
    BY DEF Next, Publish, Unblock, Put, PutAside, Begin, Take, Handle, TimeOut, FinishWorker,
           Deliver, Start, Stop, FinishDrained, Drain, Join, StopCancelledDraining, StopCancelledJoining, On, Off, vars
  <2> QED
    BY <1>1, <2>1, Sizes
<1> QED
  BY <1>4, <1>5, <1>6 DEF OtherInv

-----------------------------------------------------------------------------
(* The theorems *)

LEMMA EInvInit == Init => EInv
<1> SUFFICES ASSUME Init PROVE EInv
  OBVIOUS
<1>1. /\ queue = <<>> /\ fate = [e \in Events |-> "new"]
      /\ work = [p \in Procs |-> NoWork]
      /\ worker = [w \in Workers |-> "none"] /\ control = [k \in Controllers |-> "idle"]
      /\ task = 0 /\ running = FALSE /\ joining = [k \in Controllers |-> 0]
      /\ subscribers = SetToSeq(Consumers)
  BY DEF Init, Procs
<1>2. queue \in Seq(Events) /\ IsInjective(queue) /\ ToSet(queue) = {} /\ Len(queue) = 0
  BY <1>1 DEF IsInjective, ToSet
<1>3. Account(queue, fate, Owner(work))
  <2>1. Owner(work) = [p \in Procs |-> NoEvent]
    BY <1>1, Nothing DEF Owner
  <2>2. fate \in [Events -> Fates] /\ \A e \in Events : fate[e] = "new"
    BY <1>1 DEF Fates
  <2> QED
    BY <1>2, <2>1, <2>2 DEF Account
<1>4. AccountInv
  BY <1>1, <1>3, Nothing DEF AccountInv, WorkersBusy, ControllersBusy, WorkerStates, Procs
<1>5. StartInv /\ OtherInv
  <2>1. StartInv
    BY <1>1, Sizes DEF StartInv
  <2>2. Len(queue) <= QueueSize /\ joining \in [Controllers -> 0..MaxStarts]
    BY <1>1, <1>2, Sizes
  <2>3. running \in BOOLEAN
    BY <1>1, Zenon
  <2> QED
    BY <2>1, <2>2, <2>3 DEF OtherInv
<1>6. ListInv
  <2> DEFINE n == Cardinality(Consumers)
  <2>1. n \in Nat /\ n # 0 /\ n <= MaxConsumers
    BY Sizes, FS_EmptySet
  <2>2. PICK f : f \in Bijection(1..n, Consumers)
    <3>1. \E m \in Nat : ExistsBijection(1..m, Consumers)
      BY Sizes, FS_NatBijection
    <3>2. ExistsBijection(1..n, Consumers)
      BY <3>1, FS_CountingElements
    <3> QED
      BY <3>2 DEF ExistsBijection
  <2>3. f \in [1..n -> Consumers] /\ IsInjective(f)
    BY <2>2 DEF Bijection, Injection
  <2>4. subscribers \in [1..n -> Consumers]
    BY <1>1, <2>3 DEF SetToSeq
  <2>5. subscribers \in Seq(Consumers) /\ Len(subscribers) = n
    BY <2>1, <2>4
  <2>6. \A p \in Procs : Len(work[p].told) <= MaxConsumers
    BY <1>1, Nothing, Sizes
  <2> QED
    BY <2>1, <2>4, <2>5, <2>6 DEF ListInv
<1> QED
  BY <1>4, <1>5, <1>6 DEF EInv

LEMMA AlwaysEInv == Spec => []EInv
<1>1. EInv /\ [Next]_vars => EInv'
  BY AccountStep, StartStep, ListStep, OtherStep DEF EInv
<1> QED
  BY <1>1, EInvInit, PTL DEF Spec

\* The state keeps its types: the queue stays within its size, and no event is
\* handed to more consumers than the list may hold.
THEOREM TypeCorrect == Spec => []TypeOK
<1>1. EInv => TypeOK
  <2> SUFFICES ASSUME EInv PROVE TypeOK
    OBVIOUS
  <2>1. AccountInv /\ StartInv /\ ListInv /\ OtherInv
    BY DEF EInv
  <2>2. queue \in Seq(Events) /\ fate \in [Events -> Fates]
    BY <2>1 DEF AccountInv, Account
  <2>3. \A p \in Procs : work[p] \in
          [event : Events \cup {NoEvent}, told : BoundedSeq(Consumers, MaxConsumers)]
    <3> SUFFICES ASSUME NEW p \in Procs
                 PROVE  /\ work[p] \in WorkTypes
                        /\ work[p].told \in BoundedSeq(Consumers, MaxConsumers)
      BY DEF WorkTypes
    <3>1. work[p] \in WorkTypes /\ work[p].told \in Seq(Consumers)
      BY <2>1 DEF AccountInv, WorkTypes
    <3>2. Len(work[p].told) \in 0..MaxConsumers
      BY <2>1, <3>1, Sizes, LenProperties DEF ListInv
    <3>3. work[p].told \in [1..Len(work[p].told) -> Consumers]
      BY <3>1, LenProperties
    <3> QED
      BY <3>1, <3>2, <3>3 DEF BoundedSeq, SeqOf
  <2>4. work \in [Procs ->
          [event : Events \cup {NoEvent}, told : BoundedSeq(Consumers, MaxConsumers)]]
    BY <2>1, <2>3 DEF AccountInv
  <2> QED
    BY <2>1, <2>2, <2>4
    DEF TypeOK, AccountInv, StartInv, ListInv, OtherInv, WorkerStates, Procs
<1> QED
  BY <1>1, AlwaysEInv, PTL

\* However start, stop, publish, the background tasks and their cancellation
\* interleave, an event waits in the queue once, or exactly one task that is
\* handling events has it, or it has met its end (handled, dropped or cut).
THEOREM Accounted == Spec => []EventsAccounted
<1>1. EInv => EventsAccounted
  <2> SUFFICES ASSUME EInv PROVE EventsAccounted
    OBVIOUS
  <2>1. /\ Account(queue, fate, Owner(work)) /\ DOMAIN work = Procs
        /\ \A p \in Procs : Owner(work)[p] = work[p].event
        /\ WorkersBusy(work, worker) /\ ControllersBusy(work, control)
    BY DEF EInv, AccountInv, Owner
  <2>2. \A p \in Procs : work[p].event \in Events \cup {NoEvent}
    BY <2>1 DEF Account
  <2>3. ToSet(queue) = {e \in Events : fate[e] = "queued"} /\ IsInjective(queue)
    <3>1. ToSet(queue) \subseteq Events
      BY <2>1, Members DEF Account
    <3> QED
      BY <2>1, <3>1 DEF Account
  <2>4. {work[p].event : p \in {q \in DOMAIN work : Busy(q)}} = {e \in Events : fate[e] = "taken"}
    <3>1. ASSUME NEW p \in Procs, Busy(p)
          PROVE  work[p].event \in Events /\ fate[work[p].event] = "taken"
      BY <2>1, <2>2, <3>1 DEF Account, Busy
    <3>2. ASSUME NEW e \in Events, fate[e] = "taken"
          PROVE  \E p \in Procs : Busy(p) /\ work[p].event = e
      BY <2>1, <3>2, Sizes DEF Account, Busy
    <3> QED
      BY <2>1, <3>1, <3>2
  <2>5. \A p, q \in DOMAIN work : Busy(p) /\ work[p].event = work[q].event => p = q
    BY <2>1 DEF Account, Busy
  <2>6. /\ \A w \in Workers : Busy(w) <=> worker[w] \in {"taken", "handling"}
        /\ \A k \in Controllers : Busy(k) <=> control[k] = "draining"
    BY <2>1 DEF WorkersBusy, ControllersBusy, Busy
  <2> QED
    BY <2>3, <2>4, <2>5, <2>6 DEF EventsAccounted
<1> QED
  BY <1>1, AlwaysEInv, PTL

-----------------------------------------------------------------------------
(* Consumers that come and go *)

\* Somebody who has an event and keeps it is told of, or stays as he is.
LEMMA KeepsWork ==
  ASSUME EInv, Next, NEW p \in Procs, Busy(p), work'[p].event = work[p].event
  PROVE  work'[p] = work[p] \/ (Tell(p) /\ subscribers' = subscribers)
<1>1. /\ Account(queue, fate, Owner(work)) /\ work \in [Procs -> WorkTypes]
      /\ WorkersBusy(work, worker) /\ ControllersBusy(work, control)
      /\ Owner(work)[p] = work[p].event
  BY DEF EInv, AccountInv, Owner
<1>2. work[p].event # NoEvent /\ fate[work[p].event] = "taken"
  BY <1>1 DEF Busy, Account
<1>3. NoWork.event = NoEvent
  BY Nothing
<1>4. queue # <<>> => Head(queue) # work[p].event
  <2> SUFFICES ASSUME queue # <<>> PROVE Head(queue) # work[p].event
    OBVIOUS
  <2>1. queue \in Seq(Events)
    BY <1>1 DEF Account
  <2>2. Head(queue) \in Events /\ Head(queue) \in ToSet(queue)
    BY <2>1, TailMembers
  <2> QED
    BY <1>1, <1>2, <2>2 DEF Account
<1>5. ASSUME NEW w \in Workers,
             Begin(w) \/ Take(w) \/ Handle(w) \/ TimeOut(w) \/ FinishWorker(w)
      PROVE  work'[p] = work[p] \/ (Tell(p) /\ subscribers' = subscribers)
  <2>1. CASE Begin(w) \/ TimeOut(w)
    BY <2>1 DEF Begin, TimeOut
  <2>2. CASE Take(w)
    BY <1>1, <1>2, <2>2 DEF Take, TakeOldest, WorkersBusy
  <2>3. CASE Handle(w)
    BY <1>1, <2>3 DEF Handle, Tell
  <2>4. CASE FinishWorker(w)
    BY <1>1, <1>2, <1>3, <2>4 DEF FinishWorker
  <2> QED
    BY <1>5, <2>1, <2>2, <2>3, <2>4
<1>6. ASSUME NEW r \in Procs, Deliver(r)
      PROVE  work'[p] = work[p] \/ (Tell(p) /\ subscribers' = subscribers)
  BY <1>1, <1>6 DEF Deliver, Tell
<1>7. ASSUME NEW k \in Controllers, Stop(k) \/ FinishDrained(k)
      PROVE  work'[p] = work[p]
  <2>1. PICK w, f : /\ Drain(k, w, f)
                    /\ w = work \/ w = [work EXCEPT ![k] = NoWork]
    BY <1>7 DEF Stop, FinishDrained
  <2>2. w \in [Procs -> WorkTypes] /\ (w[p] = work[p] \/ w[p] = NoWork)
    BY <1>1, <2>1, Nothing
  <2>3. CASE queue # <<>>
    <3>1. work' = [w EXCEPT ![k] = [event |-> Head(queue), told |-> <<subscribers[1]>>]]
      BY <2>1, <2>3 DEF Drain, TakeOldest
    <3>2. p # k
      BY <1>4, <2>2, <2>3, <3>1
    <3>3. work'[p] = w[p]
      BY <2>2, <3>1, <3>2
    <3> QED
      BY <1>2, <1>3, <2>2, <3>3
  <2>4. CASE queue = <<>>
    <3>1. work' = w \/ work' = [w EXCEPT ![task] = NoWork]
      BY <2>1, <2>4 DEF Drain, Cancel
    <3>2. work'[p] = work[p] \/ work'[p] = NoWork
      BY <2>2, <3>1
    <3> QED
      BY <1>2, <1>3, <3>2
  <2> QED
    BY <2>3, <2>4
<1>8. CASE \/ \E e \in Events : Publish(e) \/ Unblock(e)
           \/ \E k \in Controllers : Start(k) \/ Join(k)
           \/ \E c \in Consumers : On(c) \/ Off(c)
  BY <1>8 DEF Publish, Unblock, Put, PutAside, Start, Join, On, Off
<1>9. ASSUME NEW k \in Controllers, StopCancelledDraining(k) \/ StopCancelledJoining(k)
      PROVE  work'[p] = work[p]
  <2>1. work' = work \/ \E q : work' = [work EXCEPT ![q] = NoWork]
    BY <1>9 DEF StopCancelledDraining, StopCancelledJoining, Cancel
  <2>2. work'[p] = work[p] \/ work'[p] = NoWork
    BY <1>1, <2>1
  <2> QED
    BY <1>2, <1>3, <2>2
<1> QED
  BY <1>5, <1>6, <1>7, <1>8, <1>9 DEF Next, Procs

\* Who is passed over, for the list s and the consumers t told so far.
Missed(s, t) == {s[i] : i \in DOMAIN s \cap 1..Len(t)} \ ToSet(t)

LEMMA MissedIs ==
  ASSUME NEW s \in Seq(Consumers), NEW t \in Seq(Consumers)
  PROVE  \A x : x \in Missed(s, t) <=>
           /\ \E i \in 1..Len(s) : i <= Len(t) /\ s[i] = x
           /\ x \notin ToSet(t)
  BY LenProperties DEF Missed

\* Telling the next passes over nobody.
LEMMA MissedTell ==
  ASSUME NEW s \in Seq(Consumers), NEW t \in Seq(Consumers), NEW u,
         Len(t) + 1 <= Len(s), u = Append(t, s[Len(t) + 1])
  PROVE  Missed(s, u) \subseteq Missed(s, t)
<1>1. Len(t) \in Nat /\ Len(s) \in Nat /\ Len(t) + 1 \in 1..Len(s)
  BY LenProperties
<1>2. s[Len(t) + 1] \in Consumers
  BY <1>1, ElementOfSeq
<1>3. u \in Seq(Consumers) /\ ToSet(u) = ToSet(t) \cup {s[Len(t) + 1]}
  BY <1>2, AppendMembers
<1>4. Len(u) = Len(t) + 1
  BY <1>2
<1> SUFFICES ASSUME NEW x \in Missed(s, u) PROVE x \in Missed(s, t)
  OBVIOUS
<1>5. PICK i \in 1..Len(s) : i <= Len(u) /\ s[i] = x
  BY <1>3, MissedIs
<1>6. x \notin ToSet(u)
  BY <1>3, MissedIs
<1>7. i # Len(t) + 1 /\ x \notin ToSet(t)
  BY <1>3, <1>5, <1>6
<1>8. i <= Len(t)
  BY <1>1, <1>4, <1>5, <1>7
<1> QED
  BY <1>5, <1>7, <1>8, MissedIs

\* One who joins at the end is the only one who may be passed over.
LEMMA MissedOn ==
  ASSUME NEW s \in Seq(Consumers), NEW t \in Seq(Consumers), NEW c \in Consumers
  PROVE  Missed(Append(s, c), t) \subseteq Missed(s, t) \cup {c}
<1> DEFINE r == Append(s, c)
<1>1. /\ r \in Seq(Consumers) /\ Len(r) = Len(s) + 1 /\ Len(s) \in Nat
      /\ \A i \in 1..Len(s) : r[i] = s[i]
      /\ r[Len(s) + 1] = c
  OBVIOUS
<1> HIDE DEF r
<1>2. ASSUME NEW x \in Missed(r, t) PROVE x \in Missed(s, t) \cup {c}
  <2>1. PICK i \in 1..Len(r) : i <= Len(t) /\ r[i] = x
    BY <1>1, MissedIs
  <2>2. x \notin ToSet(t)
    BY <1>1, MissedIs
  <2>3. CASE i \in 1..Len(s)
    BY <1>1, <2>1, <2>2, <2>3, MissedIs
  <2>4. CASE i = Len(s) + 1
    BY <1>1, <2>1, <2>4
  <2> QED
    BY <1>1, <2>1, <2>3, <2>4
<1>3. Missed(r, t) \subseteq Missed(s, t) \cup {c}
  BY <1>2
<1> QED
  BY <1>3 DEF r

\* One who leaves moves one other into the part of the list that is done with.
LEMMA MissedOff ==
  ASSUME NEW s \in Seq(Consumers), NEW t \in Seq(Consumers), NEW i \in 1..Len(s)
  PROVE  Missed(RemoveAt(s, i), t) \subseteq Missed(s, t) \cup {s[Len(t) + 1]}
<1> DEFINE r == RemoveAt(s, i)
           a == SubSeq(s, 1, i - 1)
           b == SubSeq(s, i + 1, Len(s))
<1>1. Len(s) \in Nat /\ Len(t) \in Nat
  BY LenProperties
<1>2. r \in Seq(Consumers) /\ Len(r) = Len(s) - 1
  BY RemoveAtMembers
<1>3. \A j \in 1..Len(r) : r[j] = IF j < i THEN s[j] ELSE s[j + 1]
  <2>1. /\ a \in Seq(Consumers) /\ Len(a) = i - 1
        /\ \A j \in 1..i - 1 : a[j] = s[j]
    BY <1>1
  <2>2. /\ b \in Seq(Consumers) /\ Len(b) = Len(s) - i
        /\ \A j \in 1..Len(s) - i : b[j] = s[j + i]
    BY <1>1
  <2>3. r = a \o b
    BY DEF RemoveAt
  <2> HIDE DEF a, b, r
  <2>4. \A j \in 1..Len(r) : r[j] = IF j < i THEN a[j] ELSE b[j - (i - 1)]
    BY <1>1, <1>2, <2>1, <2>2, <2>3
  <2> SUFFICES ASSUME NEW j \in 1..Len(r) PROVE r[j] = IF j < i THEN s[j] ELSE s[j + 1]
    OBVIOUS
  <2>5. CASE j < i
    BY <1>1, <2>1, <2>4, <2>5
  <2>6. CASE ~ (j < i)
    <3>1. j - (i - 1) \in 1..Len(s) - i /\ j - (i - 1) + i = j + 1
      BY <1>1, <1>2, <2>6
    <3> QED
      BY <2>2, <2>4, <2>6, <3>1
  <2> QED
    BY <2>5, <2>6
<1> HIDE DEF r
<1>4. ASSUME NEW x \in Missed(r, t) PROVE x \in Missed(s, t) \cup {s[Len(t) + 1]}
  <2>1. PICK j \in 1..Len(r) : j <= Len(t) /\ r[j] = x
    BY <1>2, MissedIs
  <2>2. x \notin ToSet(t)
    BY <1>2, MissedIs
  <2>3. CASE j < i
    <3>1. j \in 1..Len(s) /\ s[j] = x
      BY <1>1, <1>2, <1>3, <2>1, <2>3
    <3> QED
      BY <2>1, <2>2, <3>1, MissedIs
  <2>4. CASE ~ (j < i) /\ j < Len(t)
    <3>1. j + 1 \in 1..Len(s) /\ j + 1 <= Len(t) /\ s[j + 1] = x
      BY <1>1, <1>2, <1>3, <2>1, <2>4
    <3> QED
      BY <2>2, <3>1, MissedIs
  <2>5. CASE ~ (j < i) /\ j = Len(t)
    BY <1>3, <2>1, <2>5
  <2> QED
    BY <1>1, <2>1, <2>3, <2>4, <2>5
<1>5. Missed(r, t) \subseteq Missed(s, t) \cup {s[Len(t) + 1]}
  BY <1>4
<1> QED
  BY <1>5 DEF r

\* A consumer that stays misses an event by the off() of another one only, and
\* no off() makes more than one miss it.
THEOREM OffFair == Spec => OffCostsOne
<1> DEFINE New(p) == PassedOver(p)' \ PassedOver(p)
           A == \A p \in DOMAIN work : Busy(p) /\ work'[p].event = work[p].event =>
                  LET new == PassedOver(p)' \ PassedOver(p) IN
                  /\ Cardinality(new) <= 1
                  /\ new # {} => subscribers' # subscribers
<1>1. EInv /\ EInv' /\ [Next]_vars => [A]_vars
  <2> SUFFICES ASSUME EInv, EInv', Next, NEW p \in Procs, Busy(p),
                      work'[p].event = work[p].event
               PROVE  /\ Cardinality(New(p)) <= 1
                      /\ New(p) # {} => subscribers' # subscribers
    BY DEF vars, EInv, AccountInv
  <2>1. /\ subscribers \in Seq(Consumers) /\ work[p].told \in Seq(Consumers)
        /\ subscribers' \in Seq(Consumers) /\ work'[p].told \in Seq(Consumers)
        /\ work \in [Procs -> WorkTypes]
    BY DEF EInv, ListInv, AccountInv, WorkTypes
  <2>2. /\ PassedOver(p) = Missed(subscribers, work[p].told)
        /\ PassedOver(p)' = Missed(subscribers', work'[p].told)
    BY DEF PassedOver, Missed
  <2>3. ASSUME NEW x, New(p) \subseteq {x} PROVE Cardinality(New(p)) <= 1
    <3>1. New(p) = {} \/ New(p) = {x}
      BY <2>3
    <3>2. Cardinality({}) = 0 /\ Cardinality({x}) = 1
      BY FS_EmptySet, FS_Singleton
    <3> QED
      BY <3>1, <3>2
  <2>4. CASE PassedOver(p)' \subseteq PassedOver(p)
    <3>1. New(p) = {}
      BY <2>4
    <3> QED
      BY <2>3, <3>1
  <2>5. CASE Tell(p) /\ subscribers' = subscribers
    <3>1. /\ Len(work[p].told) + 1 <= Len(subscribers)
          /\ work'[p].told = Append(work[p].told, subscribers[Len(work[p].told) + 1])
      BY <2>1, <2>5 DEF Tell, NextOf, WorkTypes
    <3>2. Missed(subscribers, work'[p].told) \subseteq Missed(subscribers, work[p].told)
      BY <2>1, <3>1, MissedTell
    <3>3. PassedOver(p)' \subseteq PassedOver(p)
      BY <2>2, <2>5, <3>2
    <3> QED
      BY <2>4, <3>3
  <2>6. CASE work'[p] = work[p] /\ subscribers' = subscribers
    <3>1. PassedOver(p)' = PassedOver(p)
      BY <2>2, <2>6
    <3> QED
      BY <2>4, <3>1
  <2>7. CASE work'[p] = work[p] /\ subscribers' # subscribers
    <3>1. \E c \in Consumers : On(c) \/ Off(c)
      BY <2>7 DEF Next, Publish, Unblock, Put, PutAside, Begin, Take, Handle, TimeOut,
                  FinishWorker, Deliver, Start, Stop, FinishDrained, Join,
                  StopCancelledDraining, StopCancelledJoining
    <3>2. PICK x : PassedOver(p)' \subseteq PassedOver(p) \cup {x}
      <4>1. PICK c \in Consumers : On(c) \/ Off(c)
        BY <3>1
      <4>2. CASE On(c)
        <5>1. subscribers' = Append(subscribers, c)
          BY <4>2 DEF On
        <5>2. PassedOver(p)' = Missed(Append(subscribers, c), work[p].told)
          BY <2>2, <2>7, <5>1
        <5>3. Missed(Append(subscribers, c), work[p].told)
                \subseteq Missed(subscribers, work[p].told) \cup {c}
          BY <2>1, MissedOn
        <5> QED
          BY <2>2, <5>2, <5>3
      <4>3. CASE Off(c)
        <5>1. PICK i \in 1..Len(subscribers) : subscribers' = RemoveAt(subscribers, i)
          BY <2>1, <2>7, <4>3, FirstRemoved DEF Off
        <5>2. PassedOver(p)' = Missed(RemoveAt(subscribers, i), work[p].told)
          BY <2>2, <2>7, <5>1
        <5>3. Missed(RemoveAt(subscribers, i), work[p].told)
                \subseteq Missed(subscribers, work[p].told)
                            \cup {subscribers[Len(work[p].told) + 1]}
          BY <2>1, MissedOff
        <5> QED
          BY <2>2, <5>2, <5>3
      <4> QED
        BY <4>1, <4>2, <4>3
    <3>3. New(p) \subseteq {x}
      BY <3>2
    <3> QED
      BY <2>3, <2>7, <3>3
  <2> QED
    BY <2>5, <2>6, <2>7, KeepsWork
<1> QED
  BY <1>1, AlwaysEInv, PTL DEF Spec, OffCostsOne
=============================================================================
