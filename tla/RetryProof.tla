------------------------------ MODULE RetryProof ------------------------------
(***************************************************************************)
(* Theorems about Retry, for any callers, configurations, exceptions and   *)
(* numbers of attempts.                                                    *)
(***************************************************************************)
EXTENDS Retry, DataLemmas, FiniteSetTheorems

Phases == {"idle", "running", "telling", "sleeping", "closing"}

\* A wait has been chosen, and another attempt is to come.
Waiting == {"telling", "sleeping"}

\* A call that is under way is at one of its attempts, and no call that has
\* been left keeps anything.  One that tells of its end is settled or at its
\* last attempt.
CallInv(c) ==
  /\ attempt[c] \in 0..MaxAttempts
  /\ phase[c] = "idle" => last[c] = NoOutcome
  /\ phase[c] # "idle" => attempt[c] >= 1
  /\ phase[c] \in Waiting => attempt[c] < MaxAttempts
  /\ last[c] \in Settling => phase[c] = "closing"
  /\ phase[c] = "closing" =>
       /\ way[c] # "bridged"
       /\ last[c] \in Outcomes
       /\ attempt[c] = MaxAttempts \/ last[c] \in Settling

EndedInv ==
  /\ ended.answer \notin {"none", "cancelled"}
       => ended.attempt = MaxAttempts \/ ended.last \in Settling
  /\ ended.attempt \in 0..MaxAttempts

RInv ==
  /\ config \in Configs
  /\ phase \in [Calls -> Phases]
  /\ attempt \in [Calls -> 0..MaxAttempts]
  /\ last \in [Calls -> Outcomes \cup {NoOutcome}]
  /\ way \in [Calls -> {"none", "coroutine", "bridged", "own_loop"}]
  /\ \A c \in Calls : CallInv(c)
  /\ EndedInv

LEMMA Config ==
  /\ MaxAttempts \in Nat \ {0}
  /\ AbortExceptions \subseteq Exceptions
  /\ Good \notin Exceptions /\ Poor \notin Exceptions /\ NoOutcome \notin Exceptions
  BY RetryAssumption DEF ConfigIsValid

\* The three outcomes that are no exceptions differ.
LEMMA Distinct == Good # Poor /\ Good # NoOutcome /\ Poor # NoOutcome
<1>1. ASSUME NEW a, NEW b PROVE Cardinality({a, b}) \in {1, 2}
  <2>1. IsFiniteSet({a}) /\ Cardinality({a}) = 1
    BY FS_Singleton
  <2>2. Cardinality({a} \cup {b}) = IF b \in {a} THEN Cardinality({a}) ELSE Cardinality({a}) + 1
    BY <2>1, FS_AddElement
  <2>3. {a, b} = {a} \cup {b}
    OBVIOUS
  <2> QED
    BY <2>1, <2>2, <2>3
<1>2. Cardinality({Good, Poor, NoOutcome}) = 3
  BY RetryAssumption
<1>3. CASE Good = Poor \/ Good = NoOutcome
  <2>1. {Good, Poor, NoOutcome} = {Poor, NoOutcome}
    BY <1>3
  <2>2. Cardinality({Poor, NoOutcome}) = 3
    BY <1>2, <2>1, Zenon
  <2>3. Cardinality({Poor, NoOutcome}) \in {1, 2}
    BY <1>1, Zenon
  <2> QED
    BY <2>2, <2>3
<1>4. CASE Poor = NoOutcome
  <2>1. {Good, Poor, NoOutcome} = {Good, NoOutcome}
    BY <1>4
  <2>2. Cardinality({Good, NoOutcome}) = 3
    BY <1>2, <2>1, Zenon
  <2>3. Cardinality({Good, NoOutcome}) \in {1, 2}
    BY <1>1, Zenon
  <2> QED
    BY <2>2, <2>3
<1> QED
  BY <1>3, <1>4

\* What asks for more settles nothing, and of outcomes the others settle the call.
LEMMA Asking ==
  /\ \A o \in Outcomes : AsksForMore(o) <=> o \notin Settling
  /\ NoOutcome \notin Settling
<1>1. Settling = {Good} \cup {e \in Exceptions : ~ ShouldRetry(e)}
  BY Config DEF Settling, ShouldRetry
<1>2. \A o \in Outcomes : AsksForMore(o) <=> o \notin Settling
  BY <1>1, Config, Distinct DEF Outcomes, AsksForMore
<1> QED
  BY <1>1, <1>2, Config, Distinct

LEMMA RInvInit == Init => RInv
<1> SUFFICES ASSUME Init PROVE RInv
  OBVIOUS
<1>1. \A c \in Calls : CallInv(c)
  BY Config, Asking DEF Init, CallInv, Waiting
<1>2. EndedInv
  BY Config DEF Init, Nobody, EndedInv
<1> QED
  BY <1>1, <1>2, Config DEF Init, RInv, Phases

\* A call ends at its attempt, with an outcome that settles it unless it was
\* cancelled or at its last attempt.
LEMMA LeavesStep ==
  ASSUME RInv, NEW c \in Calls, NEW o, NEW events, NEW answer, Leaves(c, o, events, answer),
         answer # "cancelled" => attempt[c] = MaxAttempts \/ o \in Settling
  PROVE  RInv'
<1>1. /\ way' = [way EXCEPT ![c] = "none"] /\ phase' = [phase EXCEPT ![c] = "idle"]
      /\ attempt' = [attempt EXCEPT ![c] = 0] /\ last' = [last EXCEPT ![c] = NoOutcome]
      /\ ended'.attempt = attempt[c] /\ ended'.last = o
      /\ ended'.answer = Surfaces(c, o, answer) /\ config' = config
  BY DEF Leaves
<1>2. /\ phase' \in [Calls -> Phases]
      /\ attempt' \in [Calls -> 0..MaxAttempts]
      /\ last' \in [Calls -> Outcomes \cup {NoOutcome}]
      /\ way' \in [Calls -> {"none", "coroutine", "bridged", "own_loop"}]
  BY <1>1, Config DEF RInv, Phases
<1>3. ASSUME NEW d \in Calls PROVE CallInv(d)'
  <2>1. CASE d = c
    BY <1>1, <2>1, Config, Asking DEF RInv, CallInv, Settling, Waiting
  <2>2. CASE d # c
    BY <1>1, <2>2, Config DEF RInv, CallInv, Settling, Waiting
  <2> QED
    BY <2>1, <2>2
<1>4. EndedInv'
  <2>1. answer = "cancelled" => ended'.answer = "cancelled"
    BY <1>1 DEF Surfaces
  <2> QED
    BY <1>1, <2>1 DEF EndedInv, RInv, Settling
<1> QED
  BY <1>1, <1>2, <1>3, <1>4 DEF RInv

LEMMA RInvStep == RInv /\ [Next]_vars => RInv'
<1> SUFFICES ASSUME RInv, [Next]_vars PROVE RInv'
  OBVIOUS
<1>1. /\ phase \in [Calls -> Phases]
      /\ attempt \in [Calls -> 0..MaxAttempts]
      /\ last \in [Calls -> Outcomes \cup {NoOutcome}]
      /\ way \in [Calls -> {"none", "coroutine", "bridged", "own_loop"}]
      /\ config \in Configs /\ EndedInv
      /\ \A c \in Calls : CallInv(c)
  BY DEF RInv
<1>2. Settling' = Settling /\ Nobody.answer = "none" /\ Nobody.attempt = 0
  BY DEF Settling, Nobody
<1>3. ended' = Nobody => EndedInv'
  BY <1>2, Config DEF EndedInv
<1>4. ASSUME NEW c \in Calls, NEW w \in {"coroutine", "bridged", "own_loop"}, Begin(c, w)
      PROVE  RInv'
  <2>1. /\ phase[c] = "idle" /\ way' = [way EXCEPT ![c] = w]
        /\ phase' = [phase EXCEPT ![c] = "running"] /\ attempt' = [attempt EXCEPT ![c] = 1]
        /\ last' = last /\ config' = config /\ ended' = Nobody
    BY <1>4 DEF Begin
  <2>2. \A d \in Calls : CallInv(d)'
    BY <1>1, <1>2, <2>1, Config DEF CallInv, Waiting
  <2> QED
    BY <1>1, <1>3, <2>1, <2>2, Config DEF RInv, Phases
<1>5. ASSUME NEW c \in Calls, NEW o \in Outcomes, Retry(c, o) PROVE RInv'
  <2>1. /\ phase[c] = "running" /\ AsksForMore(o) /\ attempt[c] < MaxAttempts
        /\ phase' = [phase EXCEPT ![c] = IF Publishes(c) THEN "telling" ELSE "sleeping"]
        /\ last' = [last EXCEPT ![c] = o]
        /\ UNCHANGED <<config, way, attempt>> /\ ended' = Nobody
    BY <1>5 DEF Retry, TriesAgain
  <2>2. o \notin Settling
    BY <2>1, Asking
  <2>3. \A d \in Calls : CallInv(d)'
    BY <1>1, <1>2, <2>1, <2>2 DEF CallInv, Waiting
  <2> QED
    BY <1>1, <1>3, <2>1, <2>3 DEF RInv, Phases
<1>6. ASSUME NEW c \in Calls, NEW o \in Outcomes, Finish(c, o) PROVE RInv'
  <2>1. /\ phase[c] = "running" /\ ~ (AsksForMore(o) /\ attempt[c] < MaxAttempts)
        /\ Leaves(c, o, told[c], AnswerTo(o))
    BY <1>6 DEF Finish, TriesAgain
  <2>2. attempt[c] = MaxAttempts \/ o \in Settling
    BY <1>1, <2>1, Asking, Config
  <2> QED
    BY <2>1, <2>2, LeavesStep
<1>7. ASSUME NEW c \in Calls, Wake(c) PROVE RInv'
  <2>1. /\ phase[c] = "sleeping" /\ phase' = [phase EXCEPT ![c] = "running"]
        /\ attempt' = [attempt EXCEPT ![c] = attempt[c] + 1]
        /\ UNCHANGED <<config, way, last>> /\ ended' = Nobody
    BY <1>7 DEF Wake
  <2>2. attempt[c] + 1 \in 1..MaxAttempts
    BY <1>1, <2>1, Config DEF CallInv, Waiting
  <2>3. \A d \in Calls : CallInv(d)'
    BY <1>1, <1>2, <2>1, <2>2, Config DEF CallInv, Waiting
  <2>4. attempt' \in [Calls -> 0..MaxAttempts]
    BY <1>1, <2>1, <2>2, Config
  <2> QED
    BY <1>1, <1>3, <2>1, <2>3, <2>4 DEF RInv, Phases
<1>8. ASSUME NEW c \in Calls, Cancel(c) PROVE RInv'
  BY <1>8, LeavesStep DEF Cancel
<1>9. CASE Tick \/ UNCHANGED vars
  <2>1. UNCHANGED <<config, way, phase, attempt, last>> /\ (ended' = Nobody \/ ended' = ended)
    BY <1>9 DEF Tick, vars
  <2>2. EndedInv'
    BY <1>1, <1>2, <1>3, <2>1 DEF EndedInv
  <2> QED
    BY <1>1, <1>2, <2>1, <2>2 DEF RInv, CallInv
<1>10. ASSUME NEW c \in Calls, NEW o \in Outcomes, Close(c, o) PROVE RInv'
  <2>1. /\ phase[c] = "running" /\ ~ (AsksForMore(o) /\ attempt[c] < MaxAttempts)
        /\ way[c] # "bridged"
        /\ phase' = [phase EXCEPT ![c] = "closing"] /\ last' = [last EXCEPT ![c] = o]
        /\ UNCHANGED <<config, way, attempt>> /\ ended' = Nobody
    BY <1>10 DEF Close, TriesAgain, Publishes
  <2>2. attempt[c] = MaxAttempts \/ o \in Settling
    BY <1>1, <2>1, Asking, Config
  <2>3. \A d \in Calls : CallInv(d)'
    BY <1>1, <1>2, <2>1, <2>2 DEF CallInv, Waiting
  <2> QED
    BY <1>1, <1>3, <2>1, <2>3 DEF RInv, Phases
<1>11. ASSUME NEW c \in Calls, Sleep(c) PROVE RInv'
  <2>1. /\ phase[c] = "telling" /\ phase' = [phase EXCEPT ![c] = "sleeping"]
        /\ UNCHANGED <<config, way, attempt, last>> /\ ended' = Nobody
    BY <1>11 DEF Sleep
  <2>2. \A d \in Calls : CallInv(d)'
    BY <1>1, <1>2, <2>1 DEF CallInv, Waiting
  <2> QED
    BY <1>1, <1>3, <2>1, <2>2 DEF RInv, Phases
<1>12. ASSUME NEW c \in Calls, Return(c) PROVE RInv'
  <2>1. /\ Leaves(c, last[c], told[c], AnswerTo(last[c]))
        /\ attempt[c] = MaxAttempts \/ last[c] \in Settling
    BY <1>1, <1>12 DEF Return, CallInv
  <2> QED
    BY <2>1, LeavesStep
<1> QED
  BY <1>4, <1>5, <1>6, <1>7, <1>8, <1>9, <1>10, <1>11, <1>12 DEF Next

LEMMA AlwaysRInv == Spec => []RInv
BY RInvInit, RInvStep, PTL DEF Spec

\* No attempt follows one that settled the call, and a call that is answered
\* without such an outcome has used up its attempts.
THEOREM Attempts == Spec => []AttemptsJustified
<1>1. RInv => AttemptsJustified
  BY DEF RInv, CallInv, EndedInv, AttemptsJustified
<1> QED
  BY <1>1, AlwaysRInv, PTL

-----------------------------------------------------------------------------
(* The events of a call *)

Retries(n) == [i \in 1..n |-> "Retry"]

\* The attempts of a call whose end has been told as a Retry event.
Past(c) ==
  CASE phase[c] = "idle"     -> 0
    [] phase[c] = "running"  -> attempt[c] - 1
    [] phase[c] \in Waiting  -> attempt[c]

\* The events t of a call that ended, or is about to, at attempt n with outcome o.
Closed(t, n, o) ==
  \E e \in EventTypes \ {"Retry"} :
    /\ t = Append(Retries(n - 1), e)
    /\ e = "Success" <=> o \notin Exceptions

Story(c) ==
  CASE way[c] = "bridged" -> told[c] = <<>>
    [] way[c] # "bridged" /\ phase[c] = "closing" -> Closed(told[c], attempt[c], last[c])
    [] way[c] # "bridged" /\ phase[c] # "closing" -> told[c] = Retries(Past(c))

\* The inductive invariant: what a call has told so far, and what it did when
\* it ended.
ToldInv ==
  /\ told \in [Calls -> Seq(EventTypes)]
  /\ \A c \in Calls : Story(c)
  /\ EventsTellTheCall

LEMMA NoRetries == Retries(0) = <<>>
  BY DEF Retries

LEMMA OneMoreRetry ==
  ASSUME NEW n \in Nat
  PROVE  Append(Retries(n), "Retry") = Retries(n + 1)
<1>1. Retries(n) \in Seq({"Retry"}) /\ Len(Retries(n)) = n
  BY DEF Retries
<1>2. Append(Retries(n), "Retry") \in Seq({"Retry"}) /\ Len(Append(Retries(n), "Retry")) = n + 1
  BY <1>1
<1>3. Retries(n + 1) \in Seq({"Retry"}) /\ Len(Retries(n + 1)) = n + 1
  BY DEF Retries
<1>4. \A i \in 1..n + 1 : Append(Retries(n), "Retry")[i] = Retries(n + 1)[i]
  BY <1>1 DEF Retries
<1> QED
  BY <1>2, <1>3, <1>4, SeqEqual

LEMMA ToldInit == Init => ToldInv
<1> SUFFICES ASSUME Init PROVE ToldInv
  OBVIOUS
<1>1. <<>> \in Seq(EventTypes)
  OBVIOUS
<1>2. EventsTellTheCall
  BY DEF Init, Nobody, EventsTellTheCall
<1>3. \A c \in Calls : Story(c)
  BY NoRetries DEF Init, Story, Past
<1> QED
  BY <1>1, <1>2, <1>3 DEF Init, ToldInv

\* A call that a step leaves alone.
LEMMA ToldOther ==
  ASSUME NEW d \in Calls, Story(d), phase'[d] = phase[d], attempt'[d] = attempt[d],
         last'[d] = last[d], told'[d] = told[d], way'[d] = way[d]
  PROVE  Story(d)'
<1>1. Past(d)' = Past(d)
  BY DEF Past
<1> QED
  BY <1>1 DEF Story

\* A call that ends keeps nothing, and its story is that of its last event.
LEMMA ToldLeaves ==
  ASSUME RInv, ToldInv, NEW c \in Calls, NEW o, NEW events, NEW answer,
         Leaves(c, o, events, answer), EventsTellTheCall'
  PROVE  ToldInv'
<1>1. /\ way' = [way EXCEPT ![c] = "none"] /\ phase' = [phase EXCEPT ![c] = "idle"]
      /\ attempt' = [attempt EXCEPT ![c] = 0] /\ told' = [told EXCEPT ![c] = <<>>]
      /\ last' = [last EXCEPT ![c] = NoOutcome]
  BY DEF Leaves
<1>2. <<>> \in Seq(EventTypes)
  OBVIOUS
<1>3. told' \in [Calls -> Seq(EventTypes)]
  BY <1>1, <1>2 DEF ToldInv
<1>4. ASSUME NEW d \in Calls PROVE Story(d)'
  <2>1. CASE d = c
    <3>1. phase'[c] = "idle" /\ told'[c] = <<>>
      BY <1>1 DEF RInv, ToldInv
    <3>2. Past(c)' = 0
      BY <3>1 DEF Past, Waiting
    <3> QED
      BY <2>1, <3>1, <3>2, NoRetries DEF Story
  <2>2. CASE d # c
    <3>1. /\ phase'[d] = phase[d] /\ attempt'[d] = attempt[d] /\ last'[d] = last[d]
          /\ told'[d] = told[d] /\ way'[d] = way[d]
      BY <1>1, <2>2 DEF RInv, ToldInv
    <3> QED
      BY <3>1, ToldOther DEF ToldInv
  <2> QED
    BY <2>1, <2>2
<1> QED
  BY <1>3, <1>4 DEF ToldInv

\* The last event agrees with the outcome, and the answer with it.
LEMMA LastEvents ==
  ASSUME NEW t, t \in Seq(EventTypes), NEW n, t = Retries(n - 1), NEW o
  PROVE  Closed(t \o LastEvent(o), n, o)
<1>1. PICK e \in EventTypes \ {"Retry"} :
        LastEvent(o) = <<e>> /\ (e = "Success" <=> o \notin Exceptions)
  BY DEF LastEvent, EventTypes
<1>2. t \o <<e>> = Append(t, e)
  OBVIOUS
<1> QED
  BY <1>1, <1>2 DEF Closed

LEMMA Answered ==
  ASSUME NEW o
  PROVE  /\ AnswerTo(o) \notin {"none", "cancelled"}
         /\ AnswerTo(o) = "result" <=> o \notin Exceptions
  BY DEF AnswerTo

LEMMA ToldStep == RInv /\ ToldInv /\ [Next]_vars => ToldInv'
<1> SUFFICES ASSUME RInv, ToldInv, [Next]_vars PROVE ToldInv'
  OBVIOUS
<1>1. /\ phase \in [Calls -> Phases]
      /\ attempt \in [Calls -> 0..MaxAttempts] /\ MaxAttempts \in Nat
      /\ way \in [Calls -> {"none", "coroutine", "bridged", "own_loop"}]
      /\ last \in [Calls -> Outcomes \cup {NoOutcome}]
      /\ \A c \in Calls : phase[c] # "idle" => attempt[c] >= 1
      /\ told \in [Calls -> Seq(EventTypes)]
      /\ \A c \in Calls : Story(c)
  BY Config DEF RInv, CallInv, ToldInv
<1>2. ended' = Nobody => EventsTellTheCall'
  BY DEF Nobody, EventsTellTheCall
<1>3. ASSUME NEW c \in Calls, NEW w \in {"coroutine", "bridged", "own_loop"}, Begin(c, w)
      PROVE  ToldInv'
  <2>1. /\ phase[c] = "idle" /\ way' = [way EXCEPT ![c] = w]
        /\ phase' = [phase EXCEPT ![c] = "running"] /\ attempt' = [attempt EXCEPT ![c] = 1]
        /\ UNCHANGED <<told, last>> /\ ended' = Nobody
    BY <1>3 DEF Begin
  <2>2. Story(c)'
    <3>1. phase'[c] = "running" /\ attempt'[c] = 1
      BY <1>1, <2>1, Config
    <3>2. Past(c)' = 0 /\ Past(c) = 0
      BY <2>1, <3>1 DEF Past, Waiting
    <3>3. told'[c] = <<>>
      BY <1>1, <2>1, <3>2, NoRetries DEF Story
    <3> QED
      BY <3>1, <3>2, <3>3, NoRetries DEF Story
  <2>3. \A d \in Calls \ {c} : Story(d)'
    BY <1>1, <2>1, ToldOther
  <2> QED
    BY <1>1, <1>2, <2>1, <2>2, <2>3 DEF ToldInv
<1>4. ASSUME NEW c \in Calls, NEW o \in Outcomes, Retry(c, o) PROVE ToldInv'
  <2>1. /\ phase[c] = "running"
        /\ phase' = [phase EXCEPT ![c] = IF Publishes(c) THEN "telling" ELSE "sleeping"]
        /\ last' = [last EXCEPT ![c] = o]
        /\ told' = [told EXCEPT ![c] = TellRetry(c)]
        /\ UNCHANGED <<way, attempt>> /\ ended' = Nobody
    BY <1>4 DEF Retry
  <2>2. Past(c) \in Nat /\ Past(c)' = Past(c) + 1 /\ phase'[c] \in Waiting
    <3>1. attempt[c] \in Nat /\ attempt[c] >= 1
      BY <1>1, <2>1
    <3>2. phase'[c] \in Waiting /\ attempt'[c] = attempt[c]
      BY <1>1, <2>1 DEF Waiting
    <3>3. Past(c) = attempt[c] - 1 /\ Past(c)' = attempt[c]
      BY <2>1, <3>2 DEF Past, Waiting
    <3> QED
      BY <3>1, <3>2, <3>3
  <2>3. \A d \in Calls \ {c} : Story(d)'
    BY <1>1, <2>1, ToldOther
  <2>4. TellRetry(c) = IF way[c] = "bridged" THEN <<>> ELSE Retries(Past(c) + 1)
    BY <1>1, <2>1, <2>2, OneMoreRetry DEF TellRetry, Publishes, Story
  <2>5. TellRetry(c) \in Seq(EventTypes)
    BY <1>1 DEF TellRetry, EventTypes
  <2>6. told' \in [Calls -> Seq(EventTypes)] /\ told'[c] = TellRetry(c)
    BY <1>1, <2>1, <2>5
  <2>7. Story(c)'
    BY <2>1, <2>2, <2>4, <2>6 DEF Story, Waiting
  <2> QED
    BY <1>2, <2>1, <2>3, <2>6, <2>7 DEF ToldInv
<1>5. ASSUME NEW c \in Calls, NEW o \in Outcomes, Finish(c, o) PROVE ToldInv'
  <2>1. way[c] = "bridged" /\ Leaves(c, o, told[c], AnswerTo(o))
    BY <1>5 DEF Finish, Publishes
  <2>2. EventsTellTheCall'
    BY <2>1 DEF Leaves, EventsTellTheCall
  <2> QED
    BY <2>1, <2>2, ToldLeaves
<1>6. ASSUME NEW c \in Calls, NEW o \in Outcomes, Close(c, o) PROVE ToldInv'
  <2>1. /\ phase[c] = "running" /\ way[c] # "bridged"
        /\ phase' = [phase EXCEPT ![c] = "closing"] /\ last' = [last EXCEPT ![c] = o]
        /\ told' = [told EXCEPT ![c] = told[c] \o LastEvent(o)]
        /\ UNCHANGED <<way, attempt>> /\ ended' = Nobody
    BY <1>6 DEF Close, Publishes
  <2>2. told[c] = Retries(attempt[c] - 1)
    BY <1>1, <2>1 DEF Story, Past, Waiting
  <2>3. Closed(told[c] \o LastEvent(o), attempt[c], o)
    BY <1>1, <2>2, LastEvents
  <2>4. /\ phase'[c] = "closing" /\ last'[c] = o /\ attempt'[c] = attempt[c]
        /\ told'[c] = told[c] \o LastEvent(o) /\ way'[c] # "bridged"
    BY <1>1, <2>1
  <2>5. Story(c)'
    BY <2>3, <2>4 DEF Story
  <2>6. \A d \in Calls \ {c} : Story(d)'
    BY <1>1, <2>1, ToldOther
  <2>7. told' \in [Calls -> Seq(EventTypes)]
    <3>1. LastEvent(o) \in Seq(EventTypes)
      <4>1. PICK e \in EventTypes : LastEvent(o) = <<e>>
        BY DEF LastEvent, EventTypes
      <4>2. <<e>> \in Seq(EventTypes)
        OBVIOUS
      <4> QED
        BY <4>1, <4>2
    <3> QED
      BY <1>1, <2>1, <3>1
  <2> QED
    BY <1>2, <2>1, <2>5, <2>6, <2>7 DEF ToldInv
<1>7. ASSUME NEW c \in Calls, Return(c) PROVE ToldInv'
  <2>1. /\ phase[c] = "closing" /\ way[c] # "bridged"
        /\ Leaves(c, last[c], told[c], AnswerTo(last[c]))
    BY <1>7 DEF Return, RInv, CallInv
  <2>2. /\ ended'.way = way[c] /\ ended'.attempt = attempt[c] /\ ended'.told = told[c]
        /\ ended'.last = last[c] /\ ended'.answer = AnswerTo(last[c])
    BY <2>1 DEF Leaves, Surfaces
  <2>3. Closed(told[c], attempt[c], last[c])
    BY <1>1, <2>1 DEF Story
  <2>4. EventsTellTheCall'
    BY <2>2, <2>3, Answered DEF EventsTellTheCall, Closed, Retries
  <2> QED
    BY <2>1, <2>4, ToldLeaves
<1>8. ASSUME NEW c \in Calls, Cancel(c) PROVE ToldInv'
  <2>1. /\ phase[c] # "idle" /\ way[c] = "coroutine"
        /\ Leaves(c, last[c], told[c], "cancelled")
    BY <1>8 DEF Cancel
  <2>2. /\ ended'.way = way[c] /\ ended'.attempt = attempt[c] /\ ended'.told = told[c]
        /\ ended'.last = last[c] /\ ended'.answer = "cancelled"
    BY <2>1 DEF Leaves, Surfaces
  <2>3. ASSUME phase[c] = "closing" PROVE EventsTellTheCall'
    <3>1. PICK e \in EventTypes \ {"Retry"} :
            /\ told[c] = Append(Retries(attempt[c] - 1), e)
            /\ e = "Success" <=> last[c] \notin Exceptions
      BY <1>1, <2>1, <2>3 DEF Story, Closed
    <3>2. ended'.told = Append([i \in 1..(ended'.attempt - 1) |-> "Retry"], e)
      BY <2>2, <3>1 DEF Retries
    <3>3. e = "Success" <=> ended'.last \notin Exceptions
      BY <2>2, <3>1
    <3> QED
      BY <2>2, <3>2, <3>3 DEF EventsTellTheCall
  <2>4. ASSUME phase[c] # "closing" PROVE EventsTellTheCall'
    <3>1. Past(c) \in {attempt[c] - 1, attempt[c]}
      BY <1>1, <2>1, <2>4 DEF Past, Phases, Waiting
    <3>2. told[c] = Retries(Past(c))
      BY <1>1, <2>1, <2>4 DEF Story
    <3>3. ended'.told = [i \in 1..Past(c) |-> "Retry"]
      BY <2>2, <3>2 DEF Retries
    <3>4. Past(c) \in {ended'.attempt - 1, ended'.attempt}
      BY <2>2, <3>1
    <3> QED
      BY <2>2, <3>3, <3>4 DEF EventsTellTheCall
  <2>5. EventsTellTheCall'
    BY <2>3, <2>4
  <2> QED
    BY <2>1, <2>5, ToldLeaves
<1>9. ASSUME NEW c \in Calls, Sleep(c) \/ Wake(c) PROVE ToldInv'
  <2>1. /\ UNCHANGED <<way, told, last>> /\ ended' = Nobody
        /\ \A d \in Calls \ {c} : phase'[d] = phase[d] /\ attempt'[d] = attempt[d]
    BY <1>1, <1>9 DEF Sleep, Wake
  <2>2. phase[c] \in Waiting /\ phase'[c] # "closing" /\ Past(c)' = Past(c)
    <3>1. CASE Sleep(c)
      <4>1. phase[c] = "telling" /\ phase'[c] = "sleeping" /\ attempt'[c] = attempt[c]
        BY <1>1, <3>1 DEF Sleep
      <4> QED
        BY <4>1 DEF Past, Waiting
    <3>2. CASE Wake(c)
      <4>1. /\ phase[c] = "sleeping" /\ phase'[c] = "running"
            /\ attempt'[c] = attempt[c] + 1 /\ attempt[c] \in Nat
        BY <1>1, <3>2 DEF Wake
      <4> QED
        BY <4>1 DEF Past, Waiting
    <3> QED
      BY <1>9, <3>1, <3>2
  <2>3. Story(c)'
    BY <1>1, <2>1, <2>2 DEF Story, Waiting
  <2>4. \A d \in Calls \ {c} : Story(d)'
    BY <1>1, <2>1, ToldOther
  <2> QED
    BY <1>1, <1>2, <2>1, <2>3, <2>4 DEF ToldInv
<1>10. CASE Tick \/ UNCHANGED vars
  <2>1. UNCHANGED <<way, phase, attempt, told, last>> /\ (ended' = Nobody \/ ended' = ended)
    BY <1>10 DEF Tick, vars
  <2>2. EventsTellTheCall'
    BY <1>2, <2>1 DEF EventsTellTheCall, ToldInv
  <2>3. \A d \in Calls : Story(d)'
    BY <1>1, <2>1, ToldOther
  <2> QED
    BY <1>1, <2>1, <2>2, <2>3 DEF ToldInv
<1> QED
  BY <1>3, <1>4, <1>5, <1>6, <1>7, <1>8, <1>9, <1>10 DEF Next

\* Handlers can tell from its events what a call that _execute_with_retry runs
\* did: a Retry event for each attempt but the last, and one that agrees with
\* the answer, which a cancelled call only may lack.  It claims nothing of
\* bridged calls.
THEOREM Told == Spec => []EventsTellTheCall
<1>1. ToldInv => EventsTellTheCall
  BY DEF ToldInv
<1> QED
  BY <1>1, AlwaysRInv, ToldInit, ToldStep, PTL DEF Spec

-----------------------------------------------------------------------------
(* The cache of FibonacciBackoff *)

\* What the n-th number is to be.
Numbers(n) == Cardinality(SparseSets(n))

\* The cache has the numbers up to some m.
Exact(cache) ==
  \E m \in Nat : m >= 2 /\ cache = [n \in 1..m |-> Numbers(n)]

LEMMA SparseFinite ==
  ASSUME NEW n \in Nat
  PROVE  IsFiniteSet(SparseSets(n)) /\ Numbers(n) \in Nat
<1>1. IsFiniteSet(1..(n - 2))
  BY FS_Interval
<1>2. IsFiniteSet(SUBSET (1..(n - 2)))
  BY <1>1, FS_SUBSET
<1>3. SparseSets(n) \subseteq SUBSET (1..(n - 2))
  BY DEF SparseSets
<1>4. IsFiniteSet(SparseSets(n))
  BY <1>2, <1>3, FS_Subset
<1> QED
  BY <1>4, FS_CardinalityType DEF Numbers

LEMMA FirstNumbers == Numbers(1) = 1 /\ Numbers(2) = 1
<1>1. SparseSets(1) = {{}} /\ SparseSets(2) = {{}}
  BY DEF SparseSets
<1>2. Cardinality({{}}) = 1
  BY FS_Singleton
<1> QED
  BY <1>1, <1>2 DEF Numbers

\* The sets for n are those for n - 1 and, with n - 2, those for n - 2.
LEMMA NextNumber ==
  ASSUME NEW n \in Nat, n > 2
  PROVE  Numbers(n) = Numbers(n - 1) + Numbers(n - 2)
<1> DEFINE A == SparseSets(n - 1)
           B == SparseSets(n - 2)
           f == [S \in B |-> S \cup {n - 2}]
           C == {S \cup {n - 2} : S \in B}
<1>0. n - 1 \in Nat /\ n - 2 \in Nat
  OBVIOUS
<1>1. \A S \in A : n - 2 \notin S /\ S \subseteq 1..(n - 3)
  BY DEF SparseSets
<1>2. \A S \in B : n - 2 \notin S /\ n - 3 \notin S /\ S \subseteq 1..(n - 4)
  BY DEF SparseSets
<1>3. A \cap C = {}
  BY <1>1
<1>4. A \subseteq SparseSets(n)
  BY DEF SparseSets
<1>5. C \subseteq SparseSets(n)
  <2> SUFFICES ASSUME NEW S \in B PROVE S \cup {n - 2} \in SparseSets(n)
    OBVIOUS
  <2>1. S \cup {n - 2} \subseteq 1..(n - 2)
    BY <1>2
  <2>2. \A k \in S \cup {n - 2} : k + 1 \notin S \cup {n - 2}
    BY <1>2 DEF SparseSets
  <2> QED
    BY <2>1, <2>2 DEF SparseSets
<1>6. SparseSets(n) \subseteq A \cup C
  <2> SUFFICES ASSUME NEW S \in SparseSets(n) PROVE S \in A \cup C
    OBVIOUS
  <2>1. S \subseteq 1..(n - 2) /\ \A k \in S : k + 1 \notin S
    BY DEF SparseSets
  <2>2. CASE n - 2 \notin S
    BY <2>1, <2>2 DEF SparseSets
  <2>3. CASE n - 2 \in S
    <3> DEFINE T == S \ {n - 2}
    <3>1. n - 3 \notin S
      BY <2>1, <2>3
    <3>2. T \subseteq 1..(n - 4)
      BY <2>1, <3>1
    <3>3. T \in B
      BY <2>1, <3>2 DEF SparseSets
    <3>4. S = T \cup {n - 2}
      BY <2>3
    <3> QED
      BY <3>3, <3>4
  <2> QED
    BY <2>2, <2>3
<1>7. f \in Bijection(B, C)
  <2>1. f \in Injection(B, C)
    <3>1. f \in [B -> C] /\ DOMAIN f = B
      OBVIOUS
    <3>2. ASSUME NEW S \in B, NEW T \in B, f[S] = f[T] PROVE S = T
      <4>1. S \cup {n - 2} = T \cup {n - 2} /\ n - 2 \notin S /\ n - 2 \notin T
        BY <1>2, <3>2
      <4> QED
        BY <4>1
    <3> HIDE DEF f, B, C
    <3> QED
      BY <3>1, <3>2 DEF Injection, IsInjective
  <2>2. f \in Surjection(B, C)
    BY DEF Surjection
  <2> QED
    BY <2>1, <2>2 DEF Bijection
<1> HIDE DEF A, B, C, f
<1>8. IsFiniteSet(A) /\ IsFiniteSet(B)
  BY <1>0, SparseFinite DEF A, B
<1>9. IsFiniteSet(C) /\ Cardinality(C) = Cardinality(B)
  <2>1. ExistsBijection(B, C)
    BY <1>7 DEF ExistsBijection
  <2> QED
    BY <1>8, <2>1, FS_Bijection
<1>10. Cardinality(A \cup C) = Cardinality(A) + Cardinality(C) - Cardinality(A \cap C)
  BY <1>8, <1>9, FS_Union
<1>11. Cardinality(A \cap C) = 0
  BY <1>3, FS_EmptySet
<1>12. Cardinality(A) \in Nat /\ Cardinality(C) \in Nat
  BY <1>8, <1>9, FS_CardinalityType
<1>13. SparseSets(n) = A \cup C
  BY <1>4, <1>5, <1>6
<1> QED
  BY <1>9, <1>10, <1>11, <1>12, <1>13 DEF Numbers, A, B

\* What the recursion of _fibonacci computes on top of an exact cache is exact,
\* and leaves the cache exact.
LEMMA Remembers ==
  ASSUME NEW cache, Exact(cache), NEW n \in Nat, n >= 1
  PROVE  /\ Exact(Remember(cache, n))
         /\ n \in DOMAIN Remember(cache, n)
         /\ Remember(cache, n)[n] = Numbers(n)
<1>1. PICK m \in Nat : m >= 2 /\ cache = [k \in 1..m |-> Numbers(k)]
  BY DEF Exact
<1>2. CASE n \in 1..m
  BY <1>1, <1>2 DEF Remember
<1>3. CASE n > m
  <2> DEFINE Solves(f) ==
        f = [k \in 1..n |-> IF k \in DOMAIN cache THEN cache[k] ELSE f[k - 1] + f[k - 2]]
             g == [k \in 1..n |-> Numbers(k)]
             h == CHOOSE f : Solves(f)
  <2>1. Remember(cache, n) = h
    BY <1>1, <1>3 DEF Remember
  <2>2. \A k \in 1..n :
          Numbers(k) = IF k \in DOMAIN cache THEN cache[k] ELSE Numbers(k - 1) + Numbers(k - 2)
    BY <1>1, NextNumber
  <2>3. Solves(g)
    <3>1. \A k \in 1..n : k \notin DOMAIN cache => k - 1 \in 1..n /\ k - 2 \in 1..n
      BY <1>1
    <3> QED
      BY <2>2, <3>1
  <2>4. Solves(h)
    <3> HIDE DEF Solves, g
    <3> QED
      BY <2>3
  <2>5. h = [k \in 1..n |-> h[k]] /\ DOMAIN h = 1..n
    BY <2>4
  <2>6. \A k \in 1..n : h[k] = IF k \in DOMAIN cache THEN cache[k] ELSE h[k - 1] + h[k - 2]
    BY <2>4
  <2> HIDE DEF h, g, Solves
  <2>7. \A k \in 1..n : h[k] = Numbers(k)
    <3> DEFINE T == {k \in 1..n : h[k] # Numbers(k)}
    <3> SUFFICES ASSUME T # {} PROVE FALSE
      OBVIOUS
    <3>0. T \subseteq Nat
      OBVIOUS
    <3>1. PICK k \in T : \A j \in T : k <= j
      <4> HIDE DEF T
      <4> QED
        BY <3>0, Least
    <3>2. k \notin DOMAIN cache
      BY <1>1, <2>6
    <3>3. k > 2 /\ k - 1 \in 1..n /\ k - 2 \in 1..n
      BY <1>1, <3>2
    <3>4. h[k - 1] = Numbers(k - 1) /\ h[k - 2] = Numbers(k - 2)
      BY <3>1, <3>3
    <3> QED
      BY <2>6, <3>2, <3>3, <3>4, NextNumber
  <2>8. h = [k \in 1..n |-> Numbers(k)]
    BY <2>5, <2>7
  <2>9. Exact(h) /\ n \in DOMAIN h /\ h[n] = Numbers(n)
    BY <1>1, <1>3, <2>8 DEF Exact
  <2> QED
    BY <2>1, <2>9
<1> QED
  BY <1>1, <1>2, <1>3

-----------------------------------------------------------------------------
(* The waits *)

LEMMA PowerType ==
  ASSUME NEW x \in Nat, NEW n \in Nat
  PROVE  Power(x, n) \in Nat
<1> DEFINE G == [k \in Nat |-> [v \in Nat |-> x * v]]
           Solves(f) == f = [k \in 0..n |-> IF k = 0 THEN 1 ELSE x * f[k - 1]]
           h == CHOOSE f : Solves(f)
<1>1. \A v \in Nat : x * v \in Nat
  OBVIOUS
<1>2. G \in [Nat -> [Nat -> Nat]]
  BY <1>1
<1>3. PICK g \in [0..n -> Nat] : Unfolds(g, n, 1, G)
  <2> HIDE DEF G
  <2> QED
    BY <1>2, Recursion
<1>4. Solves(g)
  <2>1. \A k \in 0..n : k # 0 => G[k][g[k - 1]] = x * g[k - 1]
    OBVIOUS
  <2>2. g = [k \in 0..n |-> g[k]]
    OBVIOUS
  <2> HIDE DEF G
  <2>3. \A k \in 0..n : g[k] = IF k = 0 THEN 1 ELSE x * g[k - 1]
    BY <1>3, <2>1 DEF Unfolds
  <2> QED
    BY <2>2, <2>3
<1>5. Solves(h)
  <2> HIDE DEF Solves
  <2> QED
    BY <1>4
<1>6. \A k \in 0..n : h[k] = IF k = 0 THEN 1 ELSE x * h[k - 1]
  BY <1>5
<1>7. Power(x, n) = h[n]
  BY DEF Power
<1> HIDE DEF h
<1>8. \A k \in 0..n : h[k] \in Nat
  <2> DEFINE T == {k \in 0..n : h[k] \notin Nat}
  <2> SUFFICES ASSUME T # {} PROVE FALSE
    OBVIOUS
  <2>1. T \subseteq Nat
    OBVIOUS
  <2>2. PICK k \in T : \A j \in T : k <= j
    <3> HIDE DEF T
    <3> QED
      BY <2>1, Least
  <2>3. k # 0 /\ k - 1 \in 0..n /\ h[k - 1] \in Nat
    BY <1>6, <2>2
  <2> QED
    BY <1>1, <1>6, <2>3
<1> QED
  BY <1>7, <1>8

LEMMA CappedType ==
  ASSUME NEW w \in Nat, NEW cap \in Nat \cup {Uncapped}
  PROVE  Capped(w, cap) \in Nat
BY DEF Capped

\* The waits after an attempt are some of Nat, with a least one; the cache
\* matters only for the number of the attempt.
LEMMA WaitsType ==
  ASSUME NEW i, IsInterval(i), NEW a \in Nat, a >= 1, NEW cache, cache[a] \in Nat
  PROVE  /\ Waits(i, a, cache) \subseteq Nat
         /\ Waits(i, a, cache) # {}
         /\ \A other : other[a] = cache[a] => Waits(i, a, other) = Waits(i, a, cache)
<1>1. /\ i.kind \in Kinds /\ i.initial \in Nat /\ i.step \in Int
      /\ i.cap \in Nat \cup {Uncapped} /\ a - 1 \in Nat
  BY DEF IsInterval
<1>2. CASE i.kind = "fixed"
  BY <1>1, <1>2 DEF Waits, Fixed
<1>3. CASE i.kind = "linear"
  <2>1. i.step * (a - 1) \in Int
    BY <1>1
  <2>2. NonNegative(i.initial + i.step * (a - 1)) \in Nat
    BY <1>1, <2>1 DEF NonNegative
  <2>3. Linear(i, a) \in Nat
    BY <1>1, <2>2, CappedType DEF Linear
  <2> QED
    BY <1>3, <2>3 DEF Waits
<1>4. CASE i.kind = "random"
  <2>1. i.cap \in Nat /\ i.cap >= i.initial
    BY <1>1, <1>4 DEF IsInterval, Uncapped
  <2>2. Random(i) \subseteq Nat /\ i.initial \in Random(i)
    BY <1>1, <2>1 DEF Random
  <2> QED
    BY <1>4, <2>2 DEF Waits
<1>5. CASE i.kind \in {"exponential", "exponential_random"}
  <2>1. i.step \in Nat
    BY <1>1, <1>5 DEF IsInterval
  <2>2. Power(i.step, a - 1) \in Nat
    BY <1>1, <2>1, PowerType
  <2>3. i.initial * Power(i.step, a - 1) \in Nat
    BY <1>1, <2>2
  <2>4. Exponential(i, a) \in Nat
    BY <1>1, <2>3, CappedType DEF Exponential
  <2>5. Jitter(i, a) \subseteq Nat /\ 0 \in Jitter(i, a)
    BY <2>4 DEF Jitter
  <2> QED
    BY <1>5, <2>4, <2>5 DEF Waits
<1>6. CASE i.kind = "fibonacci"
  <2>1. i.initial * cache[a] \in Nat
    BY <1>1
  <2>2. Fibonacci(i, a, cache) \in Nat
    BY <1>1, <2>1, CappedType DEF Fibonacci
  <2>3. \A other : other[a] = cache[a] => Fibonacci(i, a, other) = Fibonacci(i, a, cache)
    BY DEF Fibonacci
  <2> QED
    BY <1>6, <2>2, <2>3 DEF Waits
<1> QED
  BY <1>1, <1>2, <1>3, <1>4, <1>5, <1>6 DEF Kinds

LEMMA LeastOfNat ==
  ASSUME NEW W, W \subseteq Nat, W # {}
  PROVE  LeastOf(W) \in Nat /\ \A w \in W : LeastOf(W) <= w
<1>1. \E w \in W : \A v \in W : w <= v
  BY Least
<1>2. LeastOf(W) \in W /\ \A v \in W : LeastOf(W) <= v
  BY <1>1 DEF LeastOf
<1> QED
  BY <1>2

\* Whatever the cache holds by now, the least wait after an attempt is the same.
LEMMA SameLeast ==
  ASSUME NEW i, IsInterval(i), NEW cache, Exact(cache), NEW a \in Nat, a >= 1
  PROVE  LET least == LeastOf(Waits(i, a, Remember(cache, a))) IN
         /\ least \in Nat
         /\ \A known : known[a] = Numbers(a) => \A w \in Waits(i, a, known) : least <= w
         /\ \A other : Exact(other) => LeastOf(Waits(i, a, Remember(other, a))) = least
<1> DEFINE known == Remember(cache, a)
<1>1. known[a] = Numbers(a) /\ Numbers(a) \in Nat
  BY Remembers, SparseFinite
<1> HIDE DEF known
<1>2. Waits(i, a, known) \subseteq Nat /\ Waits(i, a, known) # {}
  BY <1>1, WaitsType
<1>3. \A other : other[a] = Numbers(a) => Waits(i, a, other) = Waits(i, a, known)
  BY <1>1, WaitsType
<1>4. /\ LeastOf(Waits(i, a, known)) \in Nat
      /\ \A w \in Waits(i, a, known) : LeastOf(Waits(i, a, known)) <= w
  BY <1>2, LeastOfNat
<1>5. ASSUME NEW other, Exact(other)
      PROVE  Waits(i, a, Remember(other, a)) = Waits(i, a, known)
  <2>1. Remember(other, a)[a] = Numbers(a)
    BY <1>5, Remembers
  <2> QED
    BY <1>3, <2>1
<1> QED
  BY <1>3, <1>4, <1>5 DEF known

\* Patience grows by the least wait after each attempt, from nothing.
LEMMA Patient ==
  ASSUME NEW i, IsInterval(i), NEW cache, Exact(cache), NEW n \in Nat, n >= 1
  PROVE  /\ Patience(i, cache, n) \in Nat
         /\ Patience(i, cache, 1) = 0
         /\ Patience(i, cache, n + 1)
              = Patience(i, cache, n) + LeastOf(Waits(i, n, Remember(cache, n)))
<1> DEFINE least(k) == LeastOf(Waits(i, k, Remember(cache, k)))
           Solves(f, m) == f = [k \in 0..m |-> IF k = 0 THEN 0 ELSE f[k - 1] + least(k)]
           total(m) == CHOOSE f : Solves(f, m)
<1>1. \A k \in Nat : k >= 1 => least(k) \in Nat
  BY SameLeast
<1>2. \A m \in Nat : Patience(i, cache, m) = total(m - 1)[m - 1]
  BY DEF Patience
<1> HIDE DEF least
<1>3. ASSUME NEW m \in Nat PROVE Solves(total(m), m)
  <2> DEFINE G == [k \in Nat |-> [v \in Nat |-> IF k = 0 THEN 0 ELSE v + least(k)]]
  <2>1. G \in [Nat -> [Nat -> Nat]]
    <3>1. \A k \in Nat, v \in Nat : (IF k = 0 THEN 0 ELSE v + least(k)) \in Nat
      BY <1>1
    <3> QED
      BY <3>1
  <2>2. PICK g \in [0..m -> Nat] : Unfolds(g, m, 0, G)
    <3> HIDE DEF G
    <3> QED
      BY <2>1, Recursion
  <2>3. Solves(g, m)
    <3>1. \A k \in 0..m : k # 0 => G[k][g[k - 1]] = g[k - 1] + least(k)
      OBVIOUS
    <3>2. g = [k \in 0..m |-> g[k]]
      OBVIOUS
    <3> HIDE DEF G
    <3>3. \A k \in 0..m : g[k] = IF k = 0 THEN 0 ELSE g[k - 1] + least(k)
      BY <2>2, <3>1 DEF Unfolds
    <3> QED
      BY <3>2, <3>3
  <2> HIDE DEF Solves
  <2> QED
    BY <2>3
<1>4. ASSUME NEW m \in Nat, NEW k \in 0..m
      PROVE  total(m)[k] = IF k = 0 THEN 0 ELSE total(m)[k - 1] + least(k)
  <2> DEFINE f == total(m)
  <2>1. f = [j \in 0..m |-> IF j = 0 THEN 0 ELSE f[j - 1] + least(j)]
    BY <1>3
  <2> HIDE DEF f
  <2>2. f[k] = IF k = 0 THEN 0 ELSE f[k - 1] + least(k)
    BY <2>1
  <2> QED
    BY <2>2 DEF f
<1> HIDE DEF total
<1>5. ASSUME NEW m \in Nat PROVE \A k \in 0..m : total(m)[k] \in Nat
  <2> DEFINE T == {k \in 0..m : total(m)[k] \notin Nat}
  <2> SUFFICES ASSUME T # {} PROVE FALSE
    OBVIOUS
  <2>1. T \subseteq Nat
    OBVIOUS
  <2>2. PICK k \in T : \A j \in T : k <= j
    <3> HIDE DEF T
    <3> QED
      BY <2>1, Least
  <2>3. k # 0 /\ k - 1 \in 0..m /\ total(m)[k - 1] \in Nat
    BY <1>4, <2>2
  <2> QED
    BY <1>1, <1>4, <2>3
<1>6. ASSUME NEW m \in Nat PROVE \A k \in 0..m : total(m + 1)[k] = total(m)[k]
  <2> DEFINE T == {k \in 0..m : total(m + 1)[k] # total(m)[k]}
  <2> SUFFICES ASSUME T # {} PROVE FALSE
    OBVIOUS
  <2>1. T \subseteq Nat
    OBVIOUS
  <2>2. PICK k \in T : \A j \in T : k <= j
    <3> HIDE DEF T
    <3> QED
      BY <2>1, Least
  <2>3. k \in 0..m /\ k \in 0..(m + 1) /\ m + 1 \in Nat
    OBVIOUS
  <2>4. k # 0 /\ k - 1 \in 0..m /\ total(m + 1)[k - 1] = total(m)[k - 1]
    BY <1>4, <2>2, <2>3
  <2> QED
    BY <1>4, <2>3, <2>4
<1>7. Patience(i, cache, n) \in Nat
  BY <1>2, <1>5
<1>8. Patience(i, cache, 1) = 0
  BY <1>2, <1>4
<1>9. Patience(i, cache, n + 1) = Patience(i, cache, n) + least(n)
  <2>1. n - 1 \in Nat /\ n - 1 \in 0..(n - 1) /\ n \in 0..n /\ n - 1 + 1 = n /\ n + 1 \in Nat
    OBVIOUS
  <2>2. total(n)[n - 1] = total(n - 1)[n - 1]
    BY <1>6, <2>1
  <2>3. total(n)[n] = total(n)[n - 1] + least(n)
    BY <1>4, <2>1
  <2> QED
    BY <1>2, <2>1, <2>2, <2>3
<1> QED
  BY <1>7, <1>8, <1>9 DEF least

\* It is the same for every exact cache.
LEMMA SamePatience ==
  ASSUME NEW i, IsInterval(i), NEW cache, Exact(cache), NEW other, Exact(other),
         NEW n \in Nat, n >= 1
  PROVE  Patience(i, cache, n) = Patience(i, other, n)
<1> DEFINE T == {k \in Nat : k >= 1 /\ Patience(i, cache, k) # Patience(i, other, k)}
<1> SUFFICES ASSUME T # {} PROVE FALSE
  OBVIOUS
<1>1. T \subseteq Nat
  OBVIOUS
<1>2. PICK k \in T : \A j \in T : k <= j
  <2> HIDE DEF T
  <2> QED
    BY <1>1, Least
<1>3. k # 1
  BY Patient
<1>4. k - 1 \in Nat /\ k - 1 >= 1 /\ k - 1 + 1 = k /\ k - 1 \notin T
  BY <1>2, <1>3
<1>5. Patience(i, cache, k - 1) = Patience(i, other, k - 1)
  BY <1>4
<1>6. /\ Patience(i, cache, k) = Patience(i, cache, k - 1)
                                   + LeastOf(Waits(i, k - 1, Remember(cache, k - 1)))
      /\ Patience(i, other, k) = Patience(i, other, k - 1)
                                   + LeastOf(Waits(i, k - 1, Remember(other, k - 1)))
  BY <1>4, Patient
<1>7. LeastOf(Waits(i, k - 1, Remember(cache, k - 1)))
        = LeastOf(Waits(i, k - 1, Remember(other, k - 1)))
  BY <1>4, SameLeast
<1> QED
  BY <1>2, <1>5, <1>6, <1>7

\* It never shrinks.
LEMMA PatienceGrows ==
  ASSUME NEW i, IsInterval(i), NEW cache, Exact(cache), NEW n \in Nat, n >= 1,
         NEW m \in Nat, n <= m
  PROVE  Patience(i, cache, n) <= Patience(i, cache, m)
<1> DEFINE T == {k \in Nat : n <= k /\ ~ (Patience(i, cache, n) <= Patience(i, cache, k))}
<1> SUFFICES ASSUME T # {} PROVE FALSE
  OBVIOUS
<1>1. T \subseteq Nat
  OBVIOUS
<1>2. PICK k \in T : \A j \in T : k <= j
  <2> HIDE DEF T
  <2> QED
    BY <1>1, Least
<1>3. k # n
  BY <1>2, Patient
<1>4. k - 1 \in Nat /\ k - 1 >= n /\ k - 1 >= 1 /\ k - 1 + 1 = k /\ k - 1 \notin T
  BY <1>2, <1>3
<1>5. Patience(i, cache, n) <= Patience(i, cache, k - 1)
  BY <1>4
<1>6. Patience(i, cache, k) = Patience(i, cache, k - 1)
                                + LeastOf(Waits(i, k - 1, Remember(cache, k - 1)))
  BY <1>4, Patient
<1>7. LeastOf(Waits(i, k - 1, Remember(cache, k - 1))) \in Nat
  BY <1>4, SameLeast
<1>8. Patience(i, cache, n) \in Nat /\ Patience(i, cache, k - 1) \in Nat
  BY <1>4, Patient
<1> QED
  BY <1>2, <1>5, <1>6, <1>7, <1>8

-----------------------------------------------------------------------------
(* The sleeps *)

\* The inductive invariant: the cache is exact, and what a call has waited and
\* has still to wait are what its next attempt needs.
WaitInv ==
  /\ Exact(fib)
  /\ left \in [Calls -> Nat]
  /\ elapsed \in [Calls -> Nat]
  /\ \A c \in Calls :
       /\ phase[c] = "running" => elapsed[c] >= LeastPatience(attempt[c])
       /\ phase[c] \in Waiting => elapsed[c] + left[c] >= LeastPatience(attempt[c] + 1)

LEMMA WaitInit == Init => WaitInv
<1> SUFFICES ASSUME Init PROVE WaitInv
  OBVIOUS
<1>1. FirstFibonacci = [n \in 1..2 |-> Numbers(n)]
  BY FirstNumbers DEF FirstFibonacci
<1>2. Exact(fib)
  BY <1>1 DEF Init, Exact
<1> QED
  BY <1>2 DEF Init, WaitInv, Waiting

\* The next attempt of a call that others see as it was needs what it needed.
LEMMA SameNeed ==
  ASSUME RInv, WaitInv, config' = config, Exact(fib'), NEW n \in Nat, n >= 1
  PROVE  /\ Patience(config'.interval, fib', n) = LeastPatience(n)
         /\ LeastPatience(n) \in Nat
<1>1. IsInterval(config.interval)
  BY RetryAssumption DEF RInv
<1>2. Exact(fib)
  BY DEF WaitInv
<1>3. LeastPatience(n) = Patience(config.interval, fib, n)
  BY DEF LeastPatience
<1> QED
  BY <1>1, <1>2, <1>3, SamePatience, Patient

\* A step of one call: the others need and have what they needed and had.
LEMMA WaitStep ==
  ASSUME RInv, WaitInv, NEW c \in Calls, config' = config, Exact(fib'),
         left' \in [Calls -> Nat], elapsed' \in [Calls -> Nat],
         \A d \in Calls \ {c} : /\ phase'[d] = phase[d] /\ attempt'[d] = attempt[d]
                                /\ left'[d] = left[d] /\ elapsed'[d] = elapsed[d],
         phase'[c] = "running" =>
           attempt'[c] \in 1..MaxAttempts /\ elapsed'[c] >= LeastPatience(attempt'[c]),
         phase'[c] \in Waiting =>
           /\ attempt'[c] \in 1..MaxAttempts
           /\ elapsed'[c] + left'[c] >= LeastPatience(attempt'[c] + 1)
  PROVE  WaitInv'
<1>1. \A d \in Calls : attempt[d] \in Nat /\ (phase[d] # "idle" => attempt[d] >= 1)
  BY Config DEF RInv, CallInv
<1>2. ASSUME NEW d \in Calls
      PROVE  /\ phase'[d] = "running"
                  => elapsed'[d] >= Patience(config'.interval, fib', attempt'[d])
             /\ phase'[d] \in Waiting
                  => elapsed'[d] + left'[d] >= Patience(config'.interval, fib', attempt'[d] + 1)
  <2>1. CASE phase'[d] = "running"
    <3>1. attempt'[d] \in Nat /\ attempt'[d] >= 1
      BY <1>1, <2>1, Config
    <3>2. Patience(config'.interval, fib', attempt'[d]) = LeastPatience(attempt'[d])
      BY <3>1, SameNeed
    <3> QED
      BY <2>1, <3>2 DEF WaitInv, Waiting
  <2>2. CASE phase'[d] \in Waiting
    <3>1. attempt'[d] + 1 \in Nat /\ attempt'[d] + 1 >= 1
      BY <1>1, <2>2, Config
    <3>2. Patience(config'.interval, fib', attempt'[d] + 1) = LeastPatience(attempt'[d] + 1)
      BY <3>1, SameNeed
    <3> QED
      BY <2>2, <3>2 DEF WaitInv, Waiting
  <2> QED
    BY <2>1, <2>2
<1> QED
  BY <1>2 DEF WaitInv, LeastPatience

LEMMA WaitNext == RInv /\ WaitInv /\ [Next]_vars => WaitInv'
<1> SUFFICES ASSUME RInv, WaitInv, [Next]_vars PROVE WaitInv'
  OBVIOUS
<1>1. /\ phase \in [Calls -> Phases]
      /\ attempt \in [Calls -> 0..MaxAttempts] /\ MaxAttempts \in Nat \ {0}
      /\ \A c \in Calls : /\ phase[c] # "idle" => attempt[c] \in 1..MaxAttempts
                          /\ phase[c] \in Waiting => attempt[c] + 1 \in 1..MaxAttempts
      /\ IsInterval(config.interval)
  BY Config, RetryAssumption DEF RInv, CallInv, Waiting
<1>2. /\ Exact(fib) /\ left \in [Calls -> Nat] /\ elapsed \in [Calls -> Nat]
      /\ \A c \in Calls :
           /\ phase[c] = "running" => elapsed[c] >= LeastPatience(attempt[c])
           /\ phase[c] \in Waiting => elapsed[c] + left[c] >= LeastPatience(attempt[c] + 1)
  BY DEF WaitInv
<1>3. ASSUME NEW c \in Calls, NEW w \in {"coroutine", "bridged", "own_loop"}, Begin(c, w)
      PROVE  WaitInv'
  <2>1. /\ phase' = [phase EXCEPT ![c] = "running"] /\ attempt' = [attempt EXCEPT ![c] = 1]
        /\ UNCHANGED <<config, fib, left, elapsed>>
    BY <1>3 DEF Begin
  <2>2. phase'[c] = "running" /\ attempt'[c] = 1
    BY <1>1, <2>1
  <2>3. LeastPatience(1) = 0
    BY <1>1, <1>2, Patient DEF LeastPatience
  <2>4. \A d \in Calls \ {c} : phase'[d] = phase[d] /\ attempt'[d] = attempt[d]
    BY <1>1, <2>1
  <2>5. elapsed'[c] >= LeastPatience(attempt'[c])
    BY <1>2, <2>1, <2>2, <2>3
  <2> QED
    BY <1>1, <1>2, <2>1, <2>2, <2>4, <2>5, WaitStep DEF Waiting
<1>4. ASSUME NEW c \in Calls, NEW o \in Outcomes, Retry(c, o) PROVE WaitInv'
  <2> DEFINE i == config.interval
             a == attempt[c]
             least == LeastOf(Waits(i, a, Remember(fib, a)))
  <2>1. /\ phase[c] = "running"
        /\ phase' = [phase EXCEPT ![c] = IF Publishes(c) THEN "telling" ELSE "sleeping"]
        /\ fib' = IF i.kind = "fibonacci" THEN Remember(fib, a) ELSE fib
        /\ UNCHANGED <<config, attempt, elapsed>>
    BY <1>4 DEF Retry
  <2>2. PICK w \in Waits(i, a, fib') : left' = [left EXCEPT ![c] = w]
    BY <1>4 DEF Retry
  <2>3. a \in Nat /\ a >= 1 /\ a \in 1..MaxAttempts
    BY <1>1, <2>1
  <2>4. /\ Exact(Remember(fib, a)) /\ Remember(fib, a)[a] = Numbers(a)
        /\ Numbers(a) \in Nat
    BY <1>2, <2>3, Remembers, SparseFinite
  <2>5. Exact(fib')
    BY <1>2, <2>1, <2>4
  <2>6. w \in Waits(i, a, Remember(fib, a))
    <3>1. CASE i.kind = "fibonacci"
      BY <2>1, <2>2, <3>1
    <3>2. CASE i.kind # "fibonacci"
      <4>1. Waits(i, a, fib') = Waits(i, a, Remember(fib, a))
        BY <3>2, <1>1 DEF Waits, IsInterval, Kinds
      <4> QED
        BY <2>2, <4>1
    <3> QED
      BY <3>1, <3>2
  <2> HIDE DEF i, a
  <2>7. w \in Nat
    BY <1>1, <2>3, <2>4, <2>6, WaitsType DEF i
  <2>8. least \in Nat /\ least <= w
    BY <1>1, <1>2, <2>3, <2>4, <2>6, SameLeast DEF i
  <2>9. LeastPatience(a + 1) = LeastPatience(a) + least /\ LeastPatience(a) \in Nat
    BY <1>1, <1>2, <2>3, Patient DEF LeastPatience, i
  <2> HIDE DEF least
  <2>10. left' \in [Calls -> Nat] /\ left'[c] = w /\ \A d \in Calls \ {c} : left'[d] = left[d]
    BY <1>2, <2>2, <2>7
  <2>11. /\ phase'[c] \in Waiting /\ phase'[c] # "running"
         /\ \A d \in Calls \ {c} : phase'[d] = phase[d]
    BY <1>1, <2>1 DEF Waiting
  <2>12. attempt'[c] = a /\ elapsed'[c] \in Nat /\ elapsed'[c] >= LeastPatience(a)
    BY <1>2, <2>1 DEF a
  <2>13. elapsed'[c] + left'[c] >= LeastPatience(attempt'[c] + 1)
    BY <2>7, <2>8, <2>9, <2>10, <2>12
  <2> QED
    BY <1>1, <1>2, <2>1, <2>3, <2>5, <2>10, <2>11, <2>12, <2>13, WaitStep
<1>5. ASSUME NEW c \in Calls, NEW o, NEW events, NEW answer, Leaves(c, o, events, answer)
      PROVE  WaitInv'
  <2>1. /\ phase' = [phase EXCEPT ![c] = "idle"] /\ attempt' = [attempt EXCEPT ![c] = 0]
        /\ left' = [left EXCEPT ![c] = 0] /\ elapsed' = [elapsed EXCEPT ![c] = 0]
        /\ UNCHANGED <<config, fib>>
    BY <1>5 DEF Leaves
  <2>2. phase'[c] = "idle" /\ left' \in [Calls -> Nat] /\ elapsed' \in [Calls -> Nat]
    BY <1>1, <1>2, <2>1
  <2>3. \A d \in Calls \ {c} : /\ phase'[d] = phase[d] /\ attempt'[d] = attempt[d]
                               /\ left'[d] = left[d] /\ elapsed'[d] = elapsed[d]
    BY <1>1, <1>2, <2>1
  <2> QED
    BY <1>2, <2>1, <2>2, <2>3, WaitStep DEF Waiting
<1>6. ASSUME NEW c \in Calls, Wake(c) PROVE WaitInv'
  <2>1. /\ phase[c] = "sleeping" /\ left[c] = 0
        /\ phase' = [phase EXCEPT ![c] = "running"]
        /\ attempt' = [attempt EXCEPT ![c] = attempt[c] + 1]
        /\ UNCHANGED <<config, fib, left, elapsed>>
    BY <1>6 DEF Wake
  <2>2. phase'[c] = "running" /\ attempt'[c] = attempt[c] + 1
    BY <1>1, <2>1
  <2>3. \A d \in Calls \ {c} : phase'[d] = phase[d] /\ attempt'[d] = attempt[d]
    BY <1>1, <2>1
  <2>4. elapsed'[c] >= LeastPatience(attempt'[c]) /\ attempt'[c] \in 1..MaxAttempts
    BY <1>1, <1>2, <2>1, <2>2 DEF Waiting
  <2> QED
    BY <1>1, <1>2, <2>1, <2>2, <2>3, <2>4, WaitStep DEF Waiting
<1>7. CASE Tick
  <2>1. /\ left' = [c \in Calls |->
             IF phase[c] = "sleeping" THEN NonNegative(left[c] - 1) ELSE left[c]]
        /\ elapsed' = [c \in Calls |->
             IF phase[c] # "idle" /\ elapsed[c] < LeastPatience(MaxAttempts)
               THEN elapsed[c] + 1 ELSE elapsed[c]]
        /\ UNCHANGED <<config, fib, phase, attempt>>
    BY <1>7 DEF Tick
  <2>2. ASSUME NEW c \in Calls
        PROVE  /\ left'[c] \in Nat /\ elapsed'[c] \in Nat /\ elapsed'[c] >= elapsed[c]
               /\ left'[c] + 1 >= left[c]
               /\ phase[c] # "idle" /\ elapsed[c] < LeastPatience(MaxAttempts)
                    => elapsed'[c] = elapsed[c] + 1
    BY <1>2, <2>1 DEF NonNegative
  <2>3. LeastPatience(MaxAttempts) \in Nat
    BY <1>1, <1>2, Patient DEF LeastPatience
  <2>4. ASSUME NEW c \in Calls, phase[c] = "running"
        PROVE  elapsed'[c] >= LeastPatience(attempt[c])
    <3>1. LeastPatience(attempt[c]) \in Nat
      BY <1>1, <1>2, <2>4, Patient DEF LeastPatience
    <3> QED
      BY <1>2, <2>2, <2>4, <3>1
  <2>5. ASSUME NEW c \in Calls, phase[c] \in Waiting
        PROVE  elapsed'[c] + left'[c] >= LeastPatience(attempt[c] + 1)
    <3>1. attempt[c] + 1 \in Nat /\ attempt[c] + 1 >= 1 /\ attempt[c] + 1 <= MaxAttempts
      BY <1>1, <2>5
    <3>2. LeastPatience(attempt[c] + 1) \in Nat
          /\ LeastPatience(attempt[c] + 1) <= LeastPatience(MaxAttempts)
      BY <1>1, <1>2, <3>1, Patient, PatienceGrows DEF LeastPatience
    <3>3. CASE elapsed[c] < LeastPatience(MaxAttempts)
      BY <1>2, <2>2, <2>5, <3>2, <3>3 DEF Waiting
    <3>4. CASE ~ (elapsed[c] < LeastPatience(MaxAttempts))
      BY <1>2, <2>2, <2>3, <3>2, <3>4 DEF Waiting
    <3> QED
      BY <3>3, <3>4
  <2>6. left' \in [Calls -> Nat] /\ elapsed' \in [Calls -> Nat]
    BY <2>1, <2>2
  <2>7. \A n : LeastPatience(n)' = LeastPatience(n)
    BY <2>1 DEF LeastPatience
  <2> QED
    BY <1>2, <2>1, <2>4, <2>5, <2>6, <2>7 DEF WaitInv
<1>8. CASE UNCHANGED vars
  BY <1>8 DEF vars, WaitInv, LeastPatience
<1>9. ASSUME NEW c \in Calls, NEW o \in Outcomes, Close(c, o) PROVE WaitInv'
  <2>1. /\ phase' = [phase EXCEPT ![c] = "closing"]
        /\ UNCHANGED <<config, fib, attempt, left, elapsed>>
    BY <1>9 DEF Close
  <2>2. phase'[c] = "closing" /\ \A d \in Calls \ {c} : phase'[d] = phase[d]
    BY <1>1, <2>1
  <2> QED
    BY <1>2, <2>1, <2>2, WaitStep DEF Waiting
<1>10. ASSUME NEW c \in Calls, Sleep(c) PROVE WaitInv'
  <2>1. /\ phase[c] = "telling" /\ phase' = [phase EXCEPT ![c] = "sleeping"]
        /\ UNCHANGED <<config, fib, attempt, left, elapsed>>
    BY <1>10 DEF Sleep
  <2>2. phase'[c] = "sleeping" /\ \A d \in Calls \ {c} : phase'[d] = phase[d]
    BY <1>1, <2>1
  <2>3. /\ attempt[c] \in 1..MaxAttempts
        /\ elapsed[c] + left[c] >= LeastPatience(attempt[c] + 1)
    BY <1>1, <1>2, <2>1 DEF Waiting
  <2> QED
    BY <1>2, <2>1, <2>2, <2>3, WaitStep
<1> QED
  BY <1>3, <1>4, <1>5, <1>6, <1>7, <1>8, <1>9, <1>10 DEF Next, Finish, Return, Cancel

LEMMA AlwaysWaitInv == Spec => [](RInv /\ WaitInv)
BY AlwaysRInv, WaitInit, WaitNext, PTL DEF Spec

\* An attempt starts no sooner than the waits after the attempts before it
\* allow, in both retry loops, whatever other calls do to the cache meanwhile.
THEOREM Backoff == Spec => []BackoffRespected
<1>1. WaitInv => BackoffRespected
  BY DEF WaitInv, BackoffRespected
<1> QED
  BY <1>1, AlwaysWaitInv, PTL

\* The next Fibonacci numbers always come out of the cache right, in whatever
\* order the calls extend it: they count the sets without neighbours.
THEOREM FibonacciRight == Spec => []FibonacciExact
<1>1. WaitInv => FibonacciExact
  <2> SUFFICES ASSUME Exact(fib), NEW n \in 1..MaxAttempts + 2
               PROVE  Remember(fib, n)[n] = Cardinality(SparseSets(n))
    BY DEF WaitInv, FibonacciExact
  <2>1. n \in Nat /\ n >= 1
    BY Config
  <2> QED
    BY <2>1, Remembers DEF Numbers
<1> QED
  BY <1>1, AlwaysWaitInv, PTL

\* What the other invariants leave open of TypeOK: how a call ended.
AnswerInv == ended.answer \in Answers

\* Types, with the number of attempts within max_attempts, and a wait that is
\* never negative, whatever interval function the configuration has.
THEOREM TypeCorrect == Spec => []TypeOK
<1>1. Init => AnswerInv
  BY DEF Init, Nobody, AnswerInv, Answers
<1>2. AnswerInv /\ [Next]_vars => AnswerInv'
  <2> SUFFICES ASSUME AnswerInv, [Next]_vars PROVE AnswerInv'
    OBVIOUS
  <2>1. \A o : AnswerTo(o) \in Answers
    BY DEF AnswerTo, Answers
  <2>2. ASSUME NEW c \in Calls, NEW o, NEW events, NEW answer \in Answers,
               Leaves(c, o, events, answer)
        PROVE  AnswerInv'
    BY <2>2 DEF Leaves, Surfaces, AnswerInv, Answers
  <2>3. ASSUME NEW c \in Calls, NEW o \in Outcomes, Finish(c, o) PROVE AnswerInv'
    BY <2>1, <2>2, <2>3 DEF Finish
  <2>6. ASSUME NEW c \in Calls, Return(c) PROVE AnswerInv'
    BY <2>1, <2>2, <2>6 DEF Return
  <2>4. ASSUME NEW c \in Calls, Cancel(c) PROVE AnswerInv'
    <3>1. "cancelled" \in Answers
      BY DEF Answers
    <3> QED
      BY <2>2, <2>4, <3>1 DEF Cancel
  <2>5. CASE ended' = Nobody \/ ended' = ended
    BY <2>5 DEF Nobody, AnswerInv, Answers
  <2> QED
    BY <2>3, <2>4, <2>5, <2>6 DEF Next, Begin, Retry, Close, Sleep, Wake, Tick, vars
<1>3. RInv /\ WaitInv /\ ToldInv /\ AnswerInv => TypeOK
  BY DEF RInv, WaitInv, ToldInv, AnswerInv, TypeOK, Phases
<1> QED
  BY <1>1, <1>2, <1>3, AlwaysWaitInv, ToldInit, ToldStep, PTL DEF Spec
=============================================================================
