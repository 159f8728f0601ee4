------------------------ MODULE BreakerListenerProof ------------------------
(***************************************************************************)
(* Theorems about BreakerListener, for any calls, operators, commands and  *)
(* every configuration that CircuitBreakerConfig.validate accepts.         *)
(***************************************************************************)
EXTENDS BreakerListener, BreakerLemmas, DataLemmas

-----------------------------------------------------------------------------
(* The inductive invariant.  Its parts are stated for the middle of a step *)
(* as well: t is the task that takes the step, s the state object, owner   *)
(* and queue the lock as t has left them so far.  Between steps t is       *)
(* NoTask, which is nobody.                                                *)

Phases == {"idle", "executing", "waiting", "publishing", "behind", "timingOut"}

Targets == StateTypes \cup {"RESET"}

JobType == [target : Targets, then : {"acquire", "leave"}]

\* In transition_to_state or reset.
Moving(u) == pc[u] \in {"waiting", "publishing"}

\* In HalfOpenState.acquire_permission, on its way to OPEN.
Reopens(u) == job[u] = Job("OPEN", "leave")

\* The state that a transition leads to.
Becomes(target) == IF target = "RESET" THEN "CLOSED" ELSE target

\* The permits given out cover the executing trials, and none is lost.
Exact(s) ==
  s.type = "HALF_OPEN"
    => /\ Cardinality(s.admitted) <= s.permits
       /\ s.permits <= Cardinality(s.admitted) + Len(s.trials)

\* The state object is as its calls, the holder of its lock and the task that
\* publishes it expect.
Sound(t, s) ==
  /\ s \in StateObjects
  /\ s.elapsed <= ElapsedLimit(s.type)
  /\ Len(s.trials) <= PermittedCalls
  /\ \A c \in s.admitted : pc[c] = "executing" /\ c # t
  /\ Exact(s)
  /\ s.trialLock # NoTask
       => /\ s.type = "HALF_OPEN" /\ s.trialLock # t
          /\ pc[s.trialLock] = "waiting" /\ Reopens(s.trialLock)
  /\ \A u \in Tasks \ {t} : pc[u] = "publishing" => s.type = Becomes(job[u].target)

\* Everybody but t who is in a transition holds _state_lock or is in its queue.
Locked(t, owner, queue) ==
  /\ owner \in Tasks \cup {NoTask}
  /\ queue \in Seq(Tasks) /\ IsInjective(queue)
  /\ owner \notin ToSet(queue)
  /\ owner = NoTask => queue = <<>>
  /\ \A u \in Tasks \ {t} : Moving(u) <=> u = owner \/ u \in ToSet(queue)
  /\ \A u \in Tasks \ {t} : pc[u] = "publishing" => u = owner
  /\ t \in Tasks => t # owner /\ t \notin ToSet(queue)

\* Whoever is behind somebody is in one line, once, and the head of the line is
\* on its way out of that HalfOpenState.
Lines ==
  /\ behind \in [Tasks -> Seq(Calls)]
  /\ \A u \in Tasks : IsInjective(behind[u])
  /\ \A u, v \in Tasks : u # v => ToSet(behind[u]) \cap ToSet(behind[v]) = {}
  /\ \A u \in Tasks : pc[u] = "behind" <=> \E v \in Tasks : u \in ToSet(behind[v])
  /\ \A u \in Tasks : behind[u] # <<>>
       => u \in Calls /\ (pc[u] = "timingOut" \/ (Moving(u) /\ Reopens(u)))

\* Only calls go on to ask for a permission, in the half-open state.
Jobs ==
  /\ pc \in [Tasks -> Phases]
  /\ job \in [Tasks -> JobType]
  /\ \A u \in Tasks : job[u].then = "acquire" => u \in Calls /\ job[u].target = "HALF_OPEN"

WindowOK == window \in Seq(CallOutcome) /\ (CountBased => Len(window) <= WindowSize)

Inv ==
  /\ Sound(NoTask, state)
  /\ Locked(NoTask, lockOwner, lockQueue)
  /\ Lines
  /\ Jobs

IInv == Inv /\ WindowOK

\* The same in the middle of a step of t.
Running(t, s, owner, queue) ==
  /\ Sound(t, s)
  /\ Locked(t, owner, queue)
  /\ Lines
  /\ Jobs
  /\ pc[t] # "behind"

-----------------------------------------------------------------------------
(* Records and constants *)

\* NoTask is nobody, and only finitely many calls execute.
LEMMA TaskFacts ==
  /\ NoTask \notin Tasks /\ Calls \subseteq Tasks /\ Operators \subseteq Tasks
  /\ \A S \in SUBSET Calls : IsFiniteSet(S) /\ Cardinality(S) \in Nat
<1>1. Calls \subseteq Tasks /\ Operators \subseteq Tasks
  BY DEF Tasks
<1>2. IsFiniteSet(Tasks)
  BY ListenerAssumption DEF Tasks
<1>3. ASSUME NEW S \in SUBSET Calls PROVE IsFiniteSet(S) /\ Cardinality(S) \in Nat
  <2>1. S \in SUBSET Tasks
    BY <1>1
  <2> QED
    BY <1>2, <2>1, FS_Subset, FS_CardinalityType
<1> QED
  BY <1>1, <1>3, ListenerAssumption DEF Tasks

\* A transition is typed.
LEMMA JobFacts ==
  ASSUME NEW target \in Targets, NEW then \in {"acquire", "leave"}
  PROVE  /\ Job(target, then) \in JobType
         /\ Job(target, then).target = target
         /\ Job(target, then).then = then
         /\ \A other, otherThen :
              Job(target, then) = Job(other, otherThen) => target = other /\ then = otherThen
  BY DEF Job, JobType

\* A state counts its time up to a limit.
LEMMA LimitType == \A type : ElapsedLimit(type) \in Nat
  BY PolicyConfig DEF ElapsedLimit

\* A new state object is sound, for everybody who publishes it.
LEMMA NewStateFacts ==
  ASSUME NEW type \in StateTypes
  PROVE  LET s == NewState(type)
         IN  /\ s \in StateObjects
             /\ s.type = type /\ s.elapsed = 0 /\ s.permits = 0
             /\ Len(s.trials) = 0 /\ s.trialLock = NoTask /\ s.admitted = {}
             /\ s.elapsed <= ElapsedLimit(type)
             /\ Exact(s)
<1>1. <<>> \in Seq(CallOutcome) /\ Len(<<>>) = 0
  BY EmptySeq
<1>2. Cardinality({}) = 0
  BY FS_EmptySet
<1> QED
  BY <1>1, <1>2, LimitType, WindowConfig DEF NewState, StateObjects, Exact

\* A call that ends, or one that is let in, changes nothing but who executes.
LEMMA AdmittedFacts ==
  ASSUME NEW s \in StateObjects, NEW c \in Calls, NEW r,
         r = [s EXCEPT !.admitted = @ \ {c}] \/ r = [s EXCEPT !.admitted = @ \cup {c}]
  PROVE  /\ r \in StateObjects
         /\ r.type = s.type /\ r.elapsed = s.elapsed /\ r.permits = s.permits
         /\ r.trials = s.trials /\ r.trialLock = s.trialLock
         /\ r = [s EXCEPT !.admitted = @ \ {c}] => r.admitted = s.admitted \ {c}
         /\ r = [s EXCEPT !.admitted = @ \cup {c}] => r.admitted = s.admitted \cup {c}
  BY DEF StateObjects

\* A permit is taken.
LEMMA PermitFacts ==
  ASSUME NEW s \in StateObjects, s.permits < PermittedCalls,
         NEW r, r = [s EXCEPT !.permits = @ + 1]
  PROVE  /\ r \in StateObjects /\ r.permits = s.permits + 1
         /\ r.type = s.type /\ r.elapsed = s.elapsed /\ r.trials = s.trials
         /\ r.admitted = s.admitted /\ r.trialLock = s.trialLock
  BY WindowConfig DEF StateObjects

\* The lock of a HalfOpenState is taken.
LEMMA TrialLockFacts ==
  ASSUME NEW s \in StateObjects, NEW c \in Calls, NEW r, r = [s EXCEPT !.trialLock = c]
  PROVE  /\ r \in StateObjects /\ r.trialLock = c
         /\ r.type = s.type /\ r.elapsed = s.elapsed /\ r.permits = s.permits
         /\ r.trials = s.trials /\ r.admitted = s.admitted
  BY DEF StateObjects

\* Nobody is in an empty line.
LEMMA EmptyMembers == ToSet(<<>>) = {} /\ IsInjective(<<>>)
  BY DEF ToSet, IsInjective

\* A task that is through with a step, idle or executing, changes nothing for
\* the others but for one who was behind it.
LEMMA SettledStep ==
  ASSUME NEW t \in Tasks, NEW s, NEW owner, NEW queue,
         Running(t, s, owner, queue),
         state' = s, lockOwner' = owner, lockQueue' = queue,
         job' = [job EXCEPT ![t] = NoJob],
         pc' \in [Tasks -> Phases], pc'[t] \in {"idle", "executing"},
         behind' \in [Tasks -> Seq(Calls)], behind'[t] = <<>>,
         \A u \in Tasks : IsInjective(behind'[u]),
         \A u, v \in Tasks : u # v => ToSet(behind'[u]) \cap ToSet(behind'[v]) = {},
         \A u \in Tasks : pc'[u] = "behind" <=> \E v \in Tasks : u \in ToSet(behind'[v]),
         \A u \in Tasks \ {t} : \/ pc'[u] = pc[u] /\ behind'[u] = behind[u]
                                \/ pc[u] = "behind" /\ pc'[u] = "timingOut" /\ u \in Calls
  PROVE  Inv'
<1>1. NoTask \notin Tasks /\ Calls \subseteq Tasks
  BY TaskFacts
<1>2. /\ job' \in [Tasks -> JobType] /\ job'[t] = NoJob /\ NoJob.then = "leave"
      /\ \A u \in Tasks \ {t} : job'[u] = job[u]
  <2>1. NoJob \in JobType /\ NoJob.then = "leave"
    BY JobFacts DEF NoJob, Targets, StateTypes
  <2> QED
    BY <2>1 DEF Running, Jobs
<1>3. Jobs'
  BY <1>2 DEF Running, Jobs
<1>4. Lines'
  <2>1. ASSUME NEW u \in Tasks, behind'[u] # <<>>
        PROVE  u \in Calls /\ (pc'[u] = "timingOut" \/ (Moving(u)' /\ Reopens(u)'))
    <3>1. u # t
      BY <2>1
    <3>2. CASE pc'[u] = pc[u] /\ behind'[u] = behind[u]
      <4>1. u \in Calls /\ (pc[u] = "timingOut" \/ (Moving(u) /\ Reopens(u)))
        BY <2>1, <3>2 DEF Running, Lines
      <4> QED
        BY <1>2, <3>1, <3>2, <4>1 DEF Moving, Reopens
    <3>3. CASE pc'[u] = "timingOut" /\ u \in Calls
      BY <3>3
    <3> QED
      BY <3>1, <3>2, <3>3
  <2> QED
    BY <2>1 DEF Lines
<1>5. Locked(NoTask, lockOwner, lockQueue)'
  <2>1. /\ owner \in Tasks \cup {NoTask} /\ queue \in Seq(Tasks) /\ IsInjective(queue)
        /\ owner \notin ToSet(queue) /\ (owner = NoTask => queue = <<>>)
    BY DEF Running, Locked
  <2>2. ASSUME NEW u \in Tasks, u # t
        PROVE  /\ Moving(u)' <=> u = owner \/ u \in ToSet(queue)
               /\ pc'[u] = "publishing" => u = owner
    <3>1. /\ Moving(u) <=> u = owner \/ u \in ToSet(queue)
          /\ pc[u] = "publishing" => u = owner
      BY <2>2 DEF Running, Locked
    <3>2. pc'[u] = pc[u] \/ (pc[u] = "behind" /\ pc'[u] = "timingOut")
      BY <2>2
    <3> QED
      BY <3>1, <3>2 DEF Moving
  <2>3. t # owner /\ t \notin ToSet(queue) /\ ~ Moving(t)' /\ pc'[t] # "publishing"
    BY DEF Running, Locked, Moving
  <2> QED
    BY <1>1, <2>1, <2>2, <2>3 DEF Locked
<1>6. Sound(NoTask, state)'
  <2>1. state' \in StateObjects /\ Exact(s)' /\ state'.elapsed <= ElapsedLimit(s.type)
        /\ Len(s.trials) <= PermittedCalls
    BY DEF Running, Sound, Exact
  <2>2. s.admitted \subseteq Calls /\ s.trialLock \in Calls \cup {NoTask}
    BY DEF Running, Sound, StateObjects
  <2>3. ASSUME NEW c \in s.admitted PROVE pc'[c] = "executing" /\ c # NoTask
    <3>1. c \in Tasks /\ pc[c] = "executing" /\ c # t
      BY <1>1, <2>2 DEF Running, Sound
    <3>2. pc'[c] = pc[c]
      BY <3>1
    <3> QED
      BY <1>1, <3>1, <3>2
  <2>4. ASSUME s.trialLock # NoTask
        PROVE  /\ s.type = "HALF_OPEN"
               /\ pc'[s.trialLock] = "waiting" /\ Reopens(s.trialLock)'
    BY <1>1, <1>2, <2>2, <2>4 DEF Running, Sound, Reopens
  <2>5. ASSUME NEW u \in Tasks, pc'[u] = "publishing" PROVE s.type = Becomes(job'[u].target)
    BY <1>2, <2>5 DEF Running, Sound
  <2> QED
    BY <2>1, <2>3, <2>4, <2>5 DEF Sound
<1> QED
  BY <1>3, <1>4, <1>5, <1>6 DEF Inv
-----------------------------------------------------------------------------
(* The pieces of a step *)

\* A task leaves the step, and the next in line for the lock of its
\* HalfOpenState is woken.
LEMMA LeaveStep ==
  ASSUME NEW t \in Tasks, NEW s, NEW owner, NEW queue,
         Running(t, s, owner, queue), Leave(t, s, owner, queue)
  PROVE  Inv'
<1>1. NoTask \notin Tasks /\ Calls \subseteq Tasks
  BY TaskFacts
<1>2. state' = s /\ lockOwner' = owner /\ lockQueue' = queue
  BY DEF Leave
<1>3. job' = [job EXCEPT ![t] = NoJob] /\ NoJob \in JobType /\ NoJob.then = "leave"
  BY JobFacts DEF Leave, NoJob, Targets, StateTypes
<1>4. /\ pc' \in [Tasks -> Phases] /\ pc'[t] = "idle"
      /\ behind' \in [Tasks -> Seq(Calls)] /\ behind'[t] = <<>>
      /\ \A u \in Tasks : IsInjective(behind'[u])
      /\ \A u, v \in Tasks : u # v => ToSet(behind'[u]) \cap ToSet(behind'[v]) = {}
      /\ \A u \in Tasks : pc'[u] = "behind" <=> \E v \in Tasks : u \in ToSet(behind'[v])
      /\ \A u \in Tasks \ {t} : \/ pc'[u] = pc[u] /\ behind'[u] = behind[u]
                                \/ pc[u] = "behind" /\ pc'[u] = "timingOut" /\ u \in Calls
  <2>1. \A u \in Tasks : behind[u] \in Seq(Calls) /\ IsInjective(behind[u])
    BY DEF Running, Lines
  <2>2. CASE behind[t] = <<>>
    <3>1. pc' = [pc EXCEPT ![t] = "idle"] /\ behind' = behind
      BY <2>2 DEF Leave
    <3> QED
      BY <2>2, <3>1 DEF Running, Lines, Jobs, Phases
  <2>3. CASE behind[t] # <<>>
    <3> DEFINE next == Head(behind[t])
               rest == Tail(behind[t])
    <3>1. /\ pc' = [pc EXCEPT ![t] = "idle", ![next] = "timingOut"]
          /\ behind' = [behind EXCEPT ![t] = <<>>, ![next] = rest]
      BY <2>3 DEF Leave
    <3>2. /\ rest \in Seq(Calls) /\ next \in Calls
          /\ ToSet(behind[t]) = ToSet(rest) \cup {next}
          /\ IsInjective(rest) /\ next \notin ToSet(rest)
      BY <2>1, <2>3, TailMembers
    <3> HIDE DEF next, rest
    <3>3. pc[next] = "behind" /\ next # t /\ next \in Tasks
      BY <1>1, <3>2 DEF Running, Lines
    <3>4. behind[next] = <<>>
      BY <3>3 DEF Running, Lines, Moving
    <3>5. /\ behind'[t] = <<>> /\ behind'[next] = rest
          /\ \A u \in Tasks \ {t, next} : behind'[u] = behind[u]
          /\ behind' \in [Tasks -> Seq(Calls)]
      <4>1. <<>> \in Seq(Calls)
        OBVIOUS
      <4>2. behind \in [Tasks -> Seq(Calls)]
        BY DEF Running, Lines
      <4> QED
        BY <3>1, <3>2, <3>3, <4>1, <4>2
    <3>6. /\ pc'[t] = "idle" /\ pc'[next] = "timingOut"
          /\ \A u \in Tasks \ {t, next} : pc'[u] = pc[u]
          /\ pc' \in [Tasks -> Phases]
      BY <3>1, <3>3 DEF Running, Jobs, Phases
    <3>7. ToSet(<<>>) = {} /\ IsInjective(<<>>)
      BY EmptyMembers
    <3>8. ToSet(behind[next]) = {}
      BY <3>4, <3>7
    <3>9. \A u \in Tasks : IsInjective(behind'[u])
      BY <2>1, <3>2, <3>5, <3>7
    <3>10. \A u, v \in Tasks : u # v => ToSet(behind'[u]) \cap ToSet(behind'[v]) = {}
      <4>1. \A u, v \in Tasks : u # v => ToSet(behind[u]) \cap ToSet(behind[v]) = {}
        BY DEF Running, Lines
      <4>2. ToSet(behind'[t]) = {} /\ ToSet(behind'[next]) \subseteq ToSet(behind[t])
        BY <3>2, <3>5, <3>7
      <4>3. \A u \in Tasks \ {t, next} : ToSet(behind'[u]) = ToSet(behind[u])
        BY <3>5
      <4> HIDE <3>5
      <4>4. ASSUME NEW u \in Tasks, NEW v \in Tasks, u # v
            PROVE  ToSet(behind'[u]) \cap ToSet(behind'[v]) = {}
        <5>1. CASE u = t \/ v = t
          BY <4>2, <5>1
        <5>2. CASE u # t /\ v # t /\ u = next
          <6>1. ToSet(behind'[v]) = ToSet(behind[v]) /\ ToSet(behind[t]) \cap ToSet(behind[v]) = {}
            BY <4>1, <4>3, <4>4, <5>2
          <6> QED
            BY <4>2, <5>2, <6>1
        <5>3. CASE u # t /\ v # t /\ v = next
          <6>1. ToSet(behind'[u]) = ToSet(behind[u]) /\ ToSet(behind[t]) \cap ToSet(behind[u]) = {}
            BY <4>1, <4>3, <4>4, <5>3
          <6> QED
            BY <4>2, <5>3, <6>1
        <5>4. CASE u \notin {t, next} /\ v \notin {t, next}
          BY <4>1, <4>3, <4>4, <5>4
        <5> QED
          BY <5>1, <5>2, <5>3, <5>4
      <4> QED
        BY <4>4
    <3>11. \A u \in Tasks : (\E v \in Tasks : u \in ToSet(behind'[v]))
                             <=> u # next /\ \E v \in Tasks : u \in ToSet(behind[v])
      <4>1. ASSUME NEW u \in Tasks, NEW v \in Tasks, u \in ToSet(behind'[v])
            PROVE  u # next /\ \E w \in Tasks : u \in ToSet(behind[w])
        <5>1. CASE v = next
          BY <3>2, <3>5, <4>1, <5>1
        <5>2. CASE v # next
          BY <3>2, <3>3, <3>5, <3>7, <4>1, <5>2 DEF Running, Lines
        <5> QED
          BY <5>1, <5>2
      <4>2. ASSUME NEW u \in Tasks, u # next, NEW v \in Tasks, u \in ToSet(behind[v])
            PROVE  \E w \in Tasks : u \in ToSet(behind'[w])
        <5>1. CASE v = t
          BY <3>2, <3>3, <3>5, <4>2, <5>1
        <5>2. CASE v # t
          BY <3>5, <3>8, <4>2, <5>2
        <5> QED
          BY <5>1, <5>2
      <4> QED
        BY <4>1, <4>2
    <3>12. \A u \in Tasks : pc'[u] = "behind" <=> \E v \in Tasks : u \in ToSet(behind'[v])
      <4>1. \A u \in Tasks : pc'[u] = "behind" <=> u # next /\ pc[u] = "behind"
        BY <3>3, <3>6 DEF Running
      <4>2. \A u \in Tasks : pc[u] = "behind" <=> \E v \in Tasks : u \in ToSet(behind[v])
        BY DEF Running, Lines
      <4> QED
        BY <3>11, <4>1, <4>2
    <3> QED
      BY <3>2, <3>3, <3>5, <3>6, <3>9, <3>10, <3>12
  <2> QED
    BY <2>2, <2>3
<1> QED
  BY <1>1, <1>2, <1>3, <1>4, SettledStep

\* A call executes: in HALF_OPEN with a permit of its own.
LEMMA ExecuteStep ==
  ASSUME NEW c \in Calls, NEW s, NEW r, NEW owner, NEW queue,
         Running(c, s, owner, queue), behind[c] = <<>>,
         \/ r = s /\ s.type # "HALF_OPEN"
         \/ r = [s EXCEPT !.permits = @ + 1] /\ s.permits < PermittedCalls,
         Execute(c, r, owner, queue)
  PROVE  Inv'
<1> DEFINE n == [r EXCEPT !.admitted = @ \cup {c}]
<1>1. NoTask \notin Tasks /\ Calls \subseteq Tasks /\ c \in Tasks
  BY TaskFacts
<1>2. s \in StateObjects
  BY DEF Running, Sound
<1>3. /\ r \in StateObjects /\ r.admitted = s.admitted
      /\ r.type = s.type /\ r.elapsed = s.elapsed
      /\ r.trials = s.trials /\ r.trialLock = s.trialLock
      /\ r.type = "HALF_OPEN" => r.permits = s.permits + 1
  BY <1>2, PermitFacts
<1>4. /\ n \in StateObjects /\ n.admitted = s.admitted \cup {c}
      /\ n.type = s.type /\ n.elapsed = s.elapsed /\ n.permits = r.permits
      /\ n.trials = s.trials /\ n.trialLock = s.trialLock
  BY <1>3, AdmittedFacts
<1>5. /\ state' = n /\ lockOwner' = owner /\ lockQueue' = queue /\ behind' = behind
      /\ pc' = [pc EXCEPT ![c] = "executing"]
      /\ job' = [job EXCEPT ![c] = NoJob]
  BY DEF Execute
<1> HIDE DEF n
<1>6. /\ pc' \in [Tasks -> Phases] /\ pc'[c] = "executing"
      /\ \A u \in Tasks \ {c} : pc'[u] = pc[u]
      /\ job' \in [Tasks -> JobType] /\ job'[c] = NoJob /\ NoJob.then = "leave"
      /\ \A u \in Tasks \ {c} : job'[u] = job[u]
  <2>1. NoJob \in JobType /\ NoJob.then = "leave"
    BY JobFacts DEF NoJob, Targets, StateTypes
  <2> QED
    BY <1>1, <1>5, <2>1 DEF Running, Jobs, Phases
<1>7. Jobs'
  BY <1>6 DEF Running, Jobs
<1>8. Lines'
  <2>1. ASSUME NEW u \in Tasks, behind[u] # <<>>
        PROVE  u \in Calls /\ (pc'[u] = "timingOut" \/ (Moving(u)' /\ Reopens(u)'))
    BY <1>6, <2>1 DEF Running, Lines, Moving, Reopens
  <2>2. \A u \in Tasks : pc'[u] = "behind" <=> pc[u] = "behind"
    BY <1>6 DEF Running
  <2> QED
    BY <1>5, <2>1, <2>2 DEF Running, Lines
<1>9. Locked(NoTask, lockOwner, lockQueue)'
  BY <1>1, <1>5, <1>6 DEF Running, Locked, Moving
<1>10. Sound(NoTask, state)'
  <2>1. Exact(n)
    <3>1. s.admitted \in SUBSET Calls /\ c \notin s.admitted
      BY <1>2 DEF Running, Sound, StateObjects
    <3>2. Cardinality(n.admitted) = Cardinality(s.admitted) + 1
          /\ Cardinality(s.admitted) \in Nat
      BY <1>4, <3>1, TaskFacts, FS_AddElement
    <3>3. s.permits \in Nat /\ Len(s.trials) \in Nat
      BY <1>2, WindowConfig, LenProperties DEF StateObjects
    <3> QED
      BY <1>3, <1>4, <3>2, <3>3 DEF Running, Sound, Exact
  <2>2. s.admitted \subseteq Calls /\ s.trialLock \in Calls \cup {NoTask}
    BY <1>2 DEF StateObjects
  <2>3. ASSUME NEW d \in n.admitted PROVE pc'[d] = "executing" /\ d # NoTask
    <3>1. d = c \/ (d \in Tasks \ {c} /\ pc[d] = "executing")
      BY <1>1, <1>4, <2>2 DEF Running, Sound
    <3> QED
      BY <1>1, <1>6, <3>1
  <2>4. ASSUME n.trialLock # NoTask
        PROVE  /\ n.type = "HALF_OPEN"
               /\ pc'[n.trialLock] = "waiting" /\ Reopens(n.trialLock)'
    <3>1. /\ n.type = "HALF_OPEN" /\ n.trialLock \in Tasks \ {c}
          /\ pc[n.trialLock] = "waiting" /\ Reopens(n.trialLock)
      BY <1>1, <1>4, <2>2, <2>4 DEF Running, Sound
    <3> QED
      BY <1>6, <3>1 DEF Reopens
  <2>5. ASSUME NEW u \in Tasks, pc'[u] = "publishing" PROVE n.type = Becomes(job'[u].target)
    BY <1>4, <1>6, <2>5 DEF Running, Sound
  <2>6. n.elapsed <= ElapsedLimit(n.type) /\ Len(n.trials) <= PermittedCalls
    BY <1>4 DEF Running, Sound
  <2> QED
    BY <1>4, <1>5, <2>1, <2>3, <2>4, <2>5, <2>6 DEF Sound, Exact
<1> QED
  BY <1>7, <1>8, <1>9, <1>10 DEF Inv

\* A task that has the lock, everybody else in transition being in its queue,
\* puts the new object in place and publishes it.
LEMMA InstallStep ==
  ASSUME NEW t \in Tasks, NEW target \in Targets, NEW then \in {"acquire", "leave"},
         Lines, Jobs, pc[t] # "behind",
         behind[t] # <<>> => t \in Calls /\ Job(target, then) = Job("OPEN", "leave"),
         then = "acquire" => t \in Calls /\ target = "HALF_OPEN",
         lockQueue' \in Seq(Tasks), IsInjective(lockQueue'), t \notin ToSet(lockQueue'),
         \A u \in Tasks \ {t} : Moving(u) <=> u \in ToSet(lockQueue'),
         \A u \in Tasks \ {t} : pc[u] # "publishing",
         Install(t, target), lockOwner' = t,
         job' = [job EXCEPT ![t] = Job(target, then)]
  PROVE  Inv'
<1>1. NoTask \notin Tasks
  BY TaskFacts
<1>2. Becomes(target) \in StateTypes
  BY DEF Becomes, Targets, StateTypes
<1>3. /\ state' = NewState(Becomes(target)) /\ behind' = behind
      /\ pc' = [pc EXCEPT ![t] = "publishing"]
  BY DEF Install, Becomes
<1>4. /\ pc' \in [Tasks -> Phases] /\ pc'[t] = "publishing"
      /\ \A u \in Tasks \ {t} : pc'[u] = pc[u]
      /\ job' \in [Tasks -> JobType]
      /\ job'[t] = Job(target, then) /\ job'[t].then = then /\ job'[t].target = target
      /\ \A u \in Tasks \ {t} : job'[u] = job[u]
  BY <1>3, JobFacts DEF Jobs, Phases
<1>5. Jobs'
  BY <1>4 DEF Jobs
<1>6. Lines'
  <2>1. ASSUME NEW u \in Tasks, behind[u] # <<>>
        PROVE  u \in Calls /\ (pc'[u] = "timingOut" \/ (Moving(u)' /\ Reopens(u)'))
    <3>1. CASE u = t
      BY <1>4, <2>1, <3>1 DEF Moving, Reopens
    <3>2. CASE u # t
      BY <1>4, <2>1, <3>2 DEF Lines, Moving, Reopens
    <3> QED
      BY <3>1, <3>2
  <2>2. \A u \in Tasks : pc'[u] = "behind" <=> pc[u] = "behind"
    BY <1>4
  <2> QED
    BY <1>3, <2>1, <2>2 DEF Lines
<1>7. Locked(NoTask, lockOwner, lockQueue)'
  BY <1>1, <1>4 DEF Locked, Moving
<1>8. Sound(NoTask, state)'
  <2> DEFINE n == NewState(Becomes(target))
  <2>1. /\ n \in StateObjects
        /\ n.type = Becomes(target) /\ n.elapsed <= ElapsedLimit(n.type)
        /\ Len(n.trials) = 0 /\ n.trialLock = NoTask /\ n.admitted = {}
        /\ Exact(n)
    BY <1>2, NewStateFacts
  <2> HIDE DEF n
  <2>2. ASSUME NEW u \in Tasks, pc'[u] = "publishing" PROVE n.type = Becomes(job'[u].target)
    BY <1>4, <2>1, <2>2
  <2> QED
    BY <1>3, <2>1, <2>2, WindowConfig DEF Sound, Exact, n
<1> QED
  BY <1>5, <1>6, <1>7, <1>8 DEF Inv

\* transition_to_state or reset, by a task that may have taken the lock of the
\* current HalfOpenState for it: the task waits, leaves, or publishes.
LEMMA TransitionStep ==
  ASSUME NEW t \in Tasks, NEW s, NEW r, NEW owner, NEW queue,
         NEW target \in Targets, NEW then \in {"acquire", "leave"},
         Running(t, s, owner, queue),
         \/ r = s
         \/ /\ r = [s EXCEPT !.trialLock = t] /\ t \in Calls
            /\ s.type = "HALF_OPEN" /\ Job(target, then) = Job("OPEN", "leave"),
         behind[t] # <<>> => t \in Calls /\ Job(target, then) = Job("OPEN", "leave"),
         then = "acquire" => t \in Calls /\ target = "HALF_OPEN",
         Transition(t, target, then, r, owner, queue)
  PROVE  Inv'
<1>1. NoTask \notin Tasks /\ Calls \subseteq Tasks
  BY TaskFacts
<1>2. s \in StateObjects
  BY DEF Running, Sound
<1>3. /\ r \in StateObjects /\ r.admitted = s.admitted
      /\ r.type = s.type /\ r.elapsed = s.elapsed /\ r.permits = s.permits
      /\ r.trials = s.trials
      /\ r.trialLock = s.trialLock \/ (r.trialLock = t /\ r # s)
  <2>1. CASE r = s
    BY <1>2, <2>1
  <2>2. CASE r # s
    BY <1>2, <2>2, TrialLockFacts
  <2> QED
    BY <2>1, <2>2
<1>4. CASE owner # NoTask
  <2>1. /\ state' = r /\ lockOwner' = owner /\ lockQueue' = Append(queue, t)
        /\ pc' = [pc EXCEPT ![t] = "waiting"]
        /\ job' = [job EXCEPT ![t] = Job(target, then)] /\ behind' = behind
    BY <1>4 DEF Transition
  <2>2. /\ pc' \in [Tasks -> Phases] /\ pc'[t] = "waiting"
        /\ \A u \in Tasks \ {t} : pc'[u] = pc[u]
        /\ job' \in [Tasks -> JobType]
        /\ job'[t] = Job(target, then) /\ job'[t].then = then /\ job'[t].target = target
        /\ \A u \in Tasks \ {t} : job'[u] = job[u]
    BY <2>1, JobFacts DEF Running, Jobs, Phases
  <2>3. /\ lockQueue' \in Seq(Tasks) /\ IsInjective(lockQueue')
        /\ ToSet(lockQueue') = ToSet(queue) \cup {t}
    BY <2>1, AppendMembers DEF Running, Locked
  <2>4. Jobs'
    BY <2>2 DEF Running, Jobs
  <2>5. Lines'
    <3>1. ASSUME NEW u \in Tasks, behind[u] # <<>>
          PROVE  u \in Calls /\ (pc'[u] = "timingOut" \/ (Moving(u)' /\ Reopens(u)'))
      <4>1. CASE u = t
        BY <2>2, <3>1, <4>1 DEF Moving, Reopens
      <4>2. CASE u # t
        BY <2>2, <3>1, <4>2 DEF Running, Lines, Moving, Reopens
      <4> QED
        BY <4>1, <4>2
    <3>2. \A u \in Tasks : pc'[u] = "behind" <=> pc[u] = "behind"
      BY <2>2 DEF Running
    <3> QED
      BY <2>1, <3>1, <3>2 DEF Running, Lines
  <2>6. Locked(NoTask, lockOwner, lockQueue)'
    <3>1. owner \in Tasks /\ owner # t /\ owner \notin ToSet(queue)
      BY <1>4 DEF Running, Locked
    <3>2. \A u \in Tasks : Moving(u)' <=> u = t \/ Moving(u)
      BY <2>2 DEF Moving
    <3> QED
      BY <1>1, <2>1, <2>2, <2>3, <3>1, <3>2 DEF Running, Locked
  <2>7. Sound(NoTask, state)'
    <3>1. r.admitted \subseteq Calls /\ s.trialLock \in Calls \cup {NoTask}
      BY <1>2, <1>3 DEF StateObjects
    <3>2. ASSUME NEW c \in r.admitted PROVE pc'[c] = "executing" /\ c # NoTask
      <4>1. c \in Tasks \ {t} /\ pc[c] = "executing"
        BY <1>1, <1>3, <3>1, <3>2 DEF Running, Sound
      <4> QED
        BY <1>1, <2>2, <4>1
    <3>3. ASSUME r.trialLock # NoTask
          PROVE  /\ r.type = "HALF_OPEN"
                 /\ pc'[r.trialLock] = "waiting" /\ Reopens(r.trialLock)'
      <4>1. CASE r.trialLock = s.trialLock
        <5>1. /\ r.type = "HALF_OPEN" /\ r.trialLock \in Tasks \ {t}
              /\ pc[r.trialLock] = "waiting" /\ Reopens(r.trialLock)
          BY <1>1, <1>3, <3>1, <3>3, <4>1 DEF Running, Sound
        <5> QED
          BY <2>2, <5>1 DEF Reopens
      <4>2. CASE r.trialLock = t /\ r # s
        BY <1>3, <2>2, <4>2 DEF Reopens
      <4> QED
        BY <1>3, <4>1, <4>2
    <3>4. ASSUME NEW u \in Tasks, pc'[u] = "publishing" PROVE r.type = Becomes(job'[u].target)
      BY <1>3, <2>2, <3>4 DEF Running, Sound
    <3>5. r.elapsed <= ElapsedLimit(r.type) /\ Len(r.trials) <= PermittedCalls /\ Exact(r)
      BY <1>3 DEF Running, Sound, Exact
    <3> QED
      BY <1>3, <2>1, <3>2, <3>3, <3>4, <3>5 DEF Sound, Exact
  <2> QED
    BY <2>4, <2>5, <2>6, <2>7 DEF Inv
<1>5. CASE owner = NoTask /\ r.type = target
  <2>1. r = s
    BY <1>3, <1>5, JobFacts DEF Targets, StateTypes
  <2> QED
    BY <1>5, <2>1, LeaveStep DEF Transition
<1>6. CASE owner = NoTask /\ r.type # target
  <2>1. queue = <<>>
    BY <1>6 DEF Running, Locked
  <2>2. /\ Install(t, target) /\ lockOwner' = t /\ lockQueue' = queue
        /\ job' = [job EXCEPT ![t] = Job(target, then)]
    BY <1>6 DEF Transition
  <2>3. ToSet(queue) = {} /\ queue \in Seq(Tasks) /\ IsInjective(queue)
    BY <2>1, EmptyMembers
  <2>4. \A u \in Tasks \ {t} : ~ Moving(u)
    BY <1>1, <1>6, <2>3 DEF Running, Locked
  <2>5. Lines /\ Jobs /\ pc[t] # "behind"
    BY DEF Running
  <2>6. \A u \in Tasks \ {t} : pc[u] # "publishing"
    BY <2>4 DEF Moving
  <2> QED
    BY <2>2, <2>3, <2>4, <2>5, <2>6, InstallStep
<1> QED
  BY <1>4, <1>5, <1>6

\* HalfOpenState.acquire_permission, by a call that nobody is behind.
LEMMA AcquireTrialStep ==
  ASSUME NEW c \in Calls, NEW owner, NEW queue,
         Running(c, state, owner, queue), behind[c] = <<>>,
         state.type = "HALF_OPEN", AcquireTrial(c, owner, queue)
  PROVE  Inv'
<1>1. NoTask \notin Tasks /\ Calls \subseteq Tasks /\ c \in Tasks
  BY TaskFacts
<1>2. state \in StateObjects
  BY DEF Running, Sound
<1>3. CASE state.trialLock # NoTask
  <2> DEFINE h == state.trialLock
             line == Append(behind[h], c)
  <2>1. /\ h \in Calls /\ h # c /\ h \in Tasks
        /\ pc[h] = "waiting" /\ Reopens(h)
    BY <1>1, <1>2, <1>3 DEF Running, Sound, StateObjects
  <2>2. /\ pc' = [pc EXCEPT ![c] = "behind"] /\ behind' = [behind EXCEPT ![h] = line]
        /\ lockOwner' = owner /\ lockQueue' = queue
        /\ job' = [job EXCEPT ![c] = NoJob] /\ state' = state
    BY <1>3 DEF AcquireTrial
  <2> HIDE DEF h
  <2>3. /\ pc' \in [Tasks -> Phases] /\ pc'[c] = "behind"
        /\ \A u \in Tasks \ {c} : pc'[u] = pc[u]
        /\ job' \in [Tasks -> JobType] /\ job'[c] = NoJob /\ NoJob.then = "leave"
        /\ \A u \in Tasks \ {c} : job'[u] = job[u]
    <3>1. NoJob \in JobType /\ NoJob.then = "leave"
      BY JobFacts DEF NoJob, Targets, StateTypes
    <3> QED
      BY <1>1, <2>2, <3>1 DEF Running, Jobs, Phases
  <2>4. Jobs'
    BY <2>3 DEF Running, Jobs
  <2>5. \A u \in Tasks : c \notin ToSet(behind[u])
    BY <1>1 DEF Running, Lines
  <2>6. /\ line \in Seq(Calls) /\ IsInjective(line) /\ ToSet(line) = ToSet(behind[h]) \cup {c}
    BY <2>1, <2>5, AppendMembers DEF Running, Lines
  <2>7. /\ behind' \in [Tasks -> Seq(Calls)] /\ behind'[h] = line
        /\ \A u \in Tasks \ {h} : behind'[u] = behind[u]
    BY <2>1, <2>2, <2>6 DEF Running, Lines
  <2> HIDE DEF line
  <2>8. Lines'
    <3>1. \A u \in Tasks : IsInjective(behind'[u])
      BY <2>6, <2>7 DEF Running, Lines
    <3>2. ASSUME NEW u \in Tasks, NEW v \in Tasks, u # v
          PROVE  ToSet(behind'[u]) \cap ToSet(behind'[v]) = {}
      <4>1. ToSet(behind[u]) \cap ToSet(behind[v]) = {}
        BY <3>2 DEF Running, Lines
      <4>2. \A w \in Tasks : ToSet(behind'[w]) = IF w = h THEN ToSet(behind[w]) \cup {c}
                                                  ELSE ToSet(behind[w])
        BY <2>6, <2>7
      <4> QED
        BY <2>5, <3>2, <4>1, <4>2
    <3>3. ASSUME NEW u \in Tasks
          PROVE  pc'[u] = "behind" <=> \E v \in Tasks : u \in ToSet(behind'[v])
      <4>1. CASE u = c
        BY <2>1, <2>3, <2>6, <2>7, <4>1
      <4>2. CASE u # c
        <5>1. \A v \in Tasks : u \in ToSet(behind'[v]) <=> u \in ToSet(behind[v])
          BY <2>6, <2>7, <4>2
        <5>2. pc'[u] = pc[u]
          BY <2>3, <4>2
        <5>3. pc[u] = "behind" <=> \E v \in Tasks : u \in ToSet(behind[v])
          BY DEF Running, Lines
        <5> QED
          BY <5>1, <5>2, <5>3
      <4> QED
        BY <4>1, <4>2
    <3>4. ASSUME NEW u \in Tasks, behind'[u] # <<>>
          PROVE  u \in Calls /\ (pc'[u] = "timingOut" \/ (Moving(u)' /\ Reopens(u)'))
      <4>1. CASE u = h
        BY <2>1, <2>3, <4>1 DEF Moving, Reopens
      <4>2. CASE u # h
        <5>1. behind[u] # <<>> /\ u # c
          BY <2>7, <3>4, <4>2
        <5> QED
          BY <2>3, <5>1 DEF Running, Lines, Moving, Reopens
      <4> QED
        BY <4>1, <4>2
    <3> QED
      BY <2>7, <3>1, <3>2, <3>3, <3>4 DEF Lines
  <2>9. Locked(NoTask, lockOwner, lockQueue)'
    BY <1>1, <2>2, <2>3 DEF Running, Locked, Moving
  <2>10. Sound(NoTask, state)'
    <3>1. state.admitted \subseteq Calls
      BY <1>2 DEF StateObjects
    <3>2. ASSUME NEW d \in state.admitted PROVE pc'[d] = "executing" /\ d # NoTask
      <4>1. d \in Tasks \ {c} /\ pc[d] = "executing"
        BY <1>1, <3>1, <3>2 DEF Running, Sound
      <4> QED
        BY <1>1, <2>3, <4>1
    <3>3. pc'[state.trialLock] = "waiting" /\ Reopens(state.trialLock)'
      BY <2>1, <2>2, <2>3 DEF Reopens, h
    <3>4. ASSUME NEW u \in Tasks, pc'[u] = "publishing"
          PROVE  state.type = Becomes(job'[u].target)
      BY <2>3, <3>4 DEF Running, Sound
    <3>5. state.elapsed <= ElapsedLimit(state.type) /\ Len(state.trials) <= PermittedCalls
          /\ Exact(state)
      BY DEF Running, Sound
    <3> QED
      BY <1>1, <1>2, <2>1, <2>2, <3>2, <3>3, <3>4, <3>5 DEF Sound, Exact, h
  <2> QED
    BY <2>4, <2>8, <2>9, <2>10 DEF Inv
<1>4. CASE state.trialLock = NoTask /\ TrialTimeIsUp(state)
  <2>1. Transition(c, "OPEN", "leave", [state EXCEPT !.trialLock = c], owner, queue)
    BY <1>4 DEF AcquireTrial
  <2>2. "OPEN" \in Targets /\ "leave" \in {"acquire", "leave"}
    BY DEF Targets, StateTypes
  <2> QED
    BY <1>1, <2>1, <2>2, TransitionStep
<1>5. CASE state.trialLock = NoTask /\ ~ TrialTimeIsUp(state)
  <2>1. CASE state.permits < PermittedCalls
    <3>1. Execute(c, [state EXCEPT !.permits = @ + 1], owner, queue)
      BY <1>5, <2>1 DEF AcquireTrial
    <3> QED
      BY <2>1, <3>1, ExecuteStep
  <2>2. CASE ~ state.permits < PermittedCalls
    <3>1. Leave(c, state, owner, queue)
      BY <1>5, <2>2 DEF AcquireTrial
    <3> QED
      BY <1>1, <3>1, LeaveStep
  <2> QED
    BY <2>1, <2>2
<1> QED
  BY <1>3, <1>4, <1>5

\* acquire_permission of the current state object.
LEMMA AcquirePermissionStep ==
  ASSUME NEW c \in Calls, NEW owner, NEW queue,
         Running(c, state, owner, queue), behind[c] = <<>>,
         AcquirePermission(c, owner, queue)
  PROVE  Inv'
<1>1. c \in Tasks
  BY TaskFacts
<1>2. CASE state.type \in {"CLOSED", "DISABLED", "METRICS_ONLY"} /\ Execute(c, state, owner, queue)
  BY <1>2, ExecuteStep
<1>3. CASE Leave(c, state, owner, queue)
  BY <1>1, <1>3, LeaveStep
<1>4. CASE Transition(c, "HALF_OPEN", "acquire", state, owner, queue)
  <2>1. "HALF_OPEN" \in Targets /\ "acquire" \in {"acquire", "leave"}
    BY DEF Targets, StateTypes
  <2> QED
    BY <1>1, <1>4, <2>1, TransitionStep
<1>5. CASE state.type = "HALF_OPEN" /\ AcquireTrial(c, owner, queue)
  BY <1>5, AcquireTrialStep
<1> QED
  BY <1>2, <1>3, <1>4, <1>5 DEF AcquirePermission

-----------------------------------------------------------------------------
(* The actions *)

\* A task that begins a step outside any transition.
LEMMA BeginFacts ==
  ASSUME Inv, NEW t \in Tasks, ~ Moving(t), pc[t] # "behind"
  PROVE  /\ pc[t] # "executing" => Running(t, state, lockOwner, lockQueue)
         /\ Locked(t, lockOwner, lockQueue) /\ Lines /\ Jobs
         /\ pc[t] # "timingOut" => behind[t] = <<>>
<1>1. NoTask \notin Tasks
  BY TaskFacts
<1>2. Locked(t, lockOwner, lockQueue)
  BY <1>1 DEF Inv, Locked
<1>3. pc[t] # "timingOut" => behind[t] = <<>>
  BY DEF Inv, Lines
<1>4. ASSUME pc[t] # "executing" PROVE Sound(t, state)
  BY <1>1, <1>4 DEF Inv, Sound, Moving
<1> QED
  BY <1>2, <1>3, <1>4 DEF Inv, Running

\* A task that has _state_lock and hands it to the first waiter.
LEMMA ProceedStep ==
  ASSUME Inv, NEW t \in Tasks, Moving(t), lockOwner = t,
         pc[t] = "waiting" => state.type = job[t].target,
         Proceed(t)
  PROVE  Inv'
<1> DEFINE owner == IF lockQueue = <<>> THEN NoTask ELSE Head(lockQueue)
           queue == IF lockQueue = <<>> THEN <<>> ELSE Tail(lockQueue)
<1>1. NoTask \notin Tasks
  BY TaskFacts
<1>2. /\ lockQueue \in Seq(Tasks) /\ IsInjective(lockQueue) /\ t \notin ToSet(lockQueue)
      /\ \A u \in Tasks \ {t} : Moving(u) <=> u \in ToSet(lockQueue)
      /\ \A u \in Tasks \ {t} : pc[u] # "publishing"
  BY <1>1 DEF Inv, Locked
<1>3. Locked(t, owner, queue)
  <2>1. CASE lockQueue = <<>>
    <3>1. owner = NoTask /\ queue = <<>> /\ ToSet(lockQueue) = {}
      BY <2>1, EmptyMembers
    <3> QED
      BY <1>1, <1>2, <2>1, <3>1 DEF Locked
  <2>2. CASE lockQueue # <<>>
    <3>1. owner = Head(lockQueue) /\ queue = Tail(lockQueue)
      BY <2>2
    <3>2. /\ queue \in Seq(Tasks) /\ owner \in Tasks /\ IsInjective(queue)
          /\ ToSet(lockQueue) = ToSet(queue) \cup {owner} /\ owner \notin ToSet(queue)
      BY <1>2, <2>2, <3>1, TailMembers
    <3> HIDE DEF owner, queue
    <3> QED
      BY <1>1, <1>2, <3>2 DEF Locked
  <2> QED
    BY <2>1, <2>2
<1>4. Sound(t, state)
  <2>1. state.trialLock # t
    <3>1. ASSUME state.trialLock = t PROVE FALSE
      <4>1. state.type = "HALF_OPEN" /\ pc[t] = "waiting" /\ Reopens(t)
        BY <1>1, <3>1 DEF Inv, Sound
      <4>2. job[t].target = "OPEN"
        BY <4>1, JobFacts DEF Reopens, Targets, StateTypes
      <4> QED
        BY <4>1, <4>2
    <3> QED
      BY <3>1
  <2> QED
    BY <1>1, <2>1 DEF Inv, Sound, Moving
<1>5. Running(t, state, owner, queue)
  BY <1>3, <1>4 DEF Inv, Running, Moving
<1> HIDE DEF owner, queue
<1>6. CASE job[t].then = "acquire"
  <2>1. t \in Calls /\ behind[t] = <<>>
    <3>1. t \in Calls
      BY <1>6 DEF Inv, Jobs
    <3>2. ~ Reopens(t)
      BY <1>6, JobFacts DEF Reopens, Targets, StateTypes
    <3> QED
      BY <3>1, <3>2 DEF Inv, Lines, Moving
  <2>2. AcquirePermission(t, owner, queue)
    BY <1>6 DEF Proceed, owner, queue
  <2> QED
    BY <1>5, <2>1, <2>2, AcquirePermissionStep
<1>7. CASE job[t].then # "acquire"
  <2>1. Leave(t, state, owner, queue)
    BY <1>7 DEF Proceed, owner, queue
  <2> QED
    BY <1>5, <2>1, LeaveStep
<1> QED
  BY <1>6, <1>7

\* The turn of a waiter comes.
LEMMA TakeLockStep ==
  ASSUME Inv, NEW t \in Tasks, TakeLock(t)
  PROVE  Inv'
<1>1. Moving(t) /\ pc[t] = "waiting" /\ lockOwner = t
  BY DEF TakeLock, Moving
<1>2. CASE state.type = job[t].target
  BY <1>1, <1>2, ProceedStep DEF TakeLock
<1>3. CASE state.type # job[t].target
  <2>1. Install(t, job[t].target) /\ UNCHANGED <<lockOwner, lockQueue, job>>
    BY <1>3 DEF TakeLock
  <2>2. job[t] \in JobType /\ job \in [Tasks -> JobType] /\ Lines /\ Jobs
    BY DEF Inv, Jobs
  <2> DEFINE target == job[t].target
             then == job[t].then
  <2>3. target \in Targets /\ then \in {"acquire", "leave"} /\ job[t] = Job(target, then)
    BY <2>2 DEF JobType, Job
  <2>4. job' = [job EXCEPT ![t] = Job(target, then)]
    BY <2>1, <2>2, <2>3
  <2>5. behind[t] # <<>> => t \in Calls /\ Job(target, then) = Job("OPEN", "leave")
    BY <1>1, <2>3 DEF Inv, Lines, Reopens
  <2>6. then = "acquire" => t \in Calls /\ target = "HALF_OPEN"
    BY <2>2 DEF Jobs
  <2>7. /\ lockQueue' \in Seq(Tasks) /\ IsInjective(lockQueue') /\ t \notin ToSet(lockQueue')
        /\ \A u \in Tasks \ {t} : Moving(u) <=> u \in ToSet(lockQueue')
        /\ \A u \in Tasks \ {t} : pc[u] # "publishing"
    BY <1>1, <2>1, TaskFacts DEF Inv, Locked
  <2> HIDE DEF target, then
  <2>8. Install(t, target) /\ lockOwner' = t
    BY <1>1, <2>1 DEF target
  <2> QED
    BY <1>1, <2>2, <2>3, <2>4, <2>5, <2>6, <2>7, <2>8, InstallStep
<1> QED
  BY <1>2, <1>3

\* The listener returns.
LEMMA PublishedStep ==
  ASSUME Inv, NEW t \in Tasks, Published(t)
  PROVE  Inv'
<1>1. Moving(t) /\ pc[t] = "publishing" /\ lockOwner = t
  BY TaskFacts DEF Published, Moving, Inv, Locked
<1> QED
  BY <1>1, ProceedStep DEF Published

\* A call asks for its permission.
LEMMA AcquireStep ==
  ASSUME Inv, NEW c \in Calls, Acquire(c)
  PROVE  Inv'
<1>1. c \in Tasks /\ pc[c] = "idle" /\ ~ Moving(c)
  BY TaskFacts DEF Acquire, Moving
<1>2. Running(c, state, lockOwner, lockQueue) /\ behind[c] = <<>>
  BY <1>1, BeginFacts
<1> QED
  BY <1>2, AcquirePermissionStep DEF Acquire

\* The application changes the state.
LEMMA CommandStep ==
  ASSUME Inv, NEW t \in Operators, NEW target \in Commands, Command(t, target)
  PROVE  Inv'
<1>1. t \in Tasks /\ pc[t] = "idle" /\ ~ Moving(t)
  BY TaskFacts DEF Command, Moving
<1>2. Running(t, state, lockOwner, lockQueue) /\ behind[t] = <<>>
  BY <1>1, BeginFacts
<1>3. target \in Targets /\ "leave" \in {"acquire", "leave"}
  BY ListenerAssumption DEF Targets
<1> QED
  BY <1>1, <1>2, <1>3, TransitionStep DEF Command

\* One who was behind another finds the time up as well.
LEMMA TimeOutStep ==
  ASSUME Inv, NEW c \in Calls, TimeOut(c)
  PROVE  Inv'
<1>1. c \in Tasks /\ pc[c] = "timingOut" /\ ~ Moving(c)
  BY TaskFacts DEF TimeOut, Moving
<1>2. Running(c, state, lockOwner, lockQueue)
  BY <1>1, BeginFacts
<1>3. "OPEN" \in Targets /\ "leave" \in {"acquire", "leave"}
  BY DEF Targets, StateTypes
<1> QED
  BY <1>1, <1>2, <1>3, TransitionStep DEF TimeOut

\* A call that has ended leaves the state object sound: in HALF_OPEN its permit
\* is covered by its outcome now, or the trials were complete before.
LEMMA EndedFacts ==
  ASSUME Inv, NEW c \in Calls, pc[c] = "executing", NEW o \in CallOutcome, NEW gone, NEW r,
         gone = [state EXCEPT !.admitted = @ \ {c}],
         \/ state.type # "HALF_OPEN" /\ r = gone
         \/ state.type = "HALF_OPEN" /\ r = [gone EXCEPT !.trials = AddTrial(state.trials, o)]
  PROVE  Running(c, r, lockOwner, lockQueue) /\ behind[c] = <<>>
<1>1. NoTask \notin Tasks /\ Calls \subseteq Tasks /\ c \in Tasks
  BY TaskFacts
<1>2. ~ Moving(c) /\ pc[c] # "behind" /\ pc[c] # "timingOut"
  BY DEF Moving
<1>3. Locked(c, lockOwner, lockQueue) /\ Lines /\ Jobs /\ behind[c] = <<>>
  BY <1>1, <1>2, BeginFacts
<1>4. state \in StateObjects /\ Len(state.trials) <= PermittedCalls /\ Exact(state)
  BY DEF Inv, Sound
<1>5. state.admitted \in SUBSET Calls /\ state.trials \in Seq(CallOutcome)
      /\ state.permits \in 0..PermittedCalls
  BY <1>4 DEF StateObjects
<1>6. /\ gone \in StateObjects /\ gone.admitted = state.admitted \ {c}
      /\ gone.type = state.type /\ gone.elapsed = state.elapsed
      /\ gone.permits = state.permits
      /\ gone.trials = state.trials /\ gone.trialLock = state.trialLock
  BY <1>4, AdmittedFacts
<1> DEFINE ts == AddTrial(state.trials, o)
<1>7. ts \in Seq(CallOutcome) /\ Len(ts) <= PermittedCalls
      /\ (Len(ts) < PermittedCalls => Len(ts) = Len(state.trials) + 1)
  BY <1>4, <1>5, AddTrialType, LenProperties, WindowConfig DEF IsComplete
<1>8. /\ r \in StateObjects /\ r.admitted = state.admitted \ {c}
      /\ r.type = state.type /\ r.elapsed = state.elapsed /\ r.permits = state.permits
      /\ r.trialLock = state.trialLock
      /\ r.trials = IF state.type = "HALF_OPEN" THEN ts ELSE state.trials
  <2>1. CASE state.type # "HALF_OPEN"
    BY <1>6, <2>1
  <2>2. CASE state.type = "HALF_OPEN"
    <3>1. r = [gone EXCEPT !.trials = ts]
      BY <2>2
    <3> HIDE DEF ts
    <3>2. /\ r \in StateObjects /\ r.trials = ts
          /\ r.type = gone.type /\ r.elapsed = gone.elapsed /\ r.permits = gone.permits
          /\ r.admitted = gone.admitted /\ r.trialLock = gone.trialLock
      <4>1. gone \in StateObjects /\ ts \in Seq(CallOutcome)
        BY <1>6, <1>7
      <4> QED
        BY <3>1, <4>1 DEF StateObjects
    <3> QED
      BY <1>6, <2>2, <3>2
  <2> QED
    BY <2>1, <2>2
<1> HIDE DEF ts
<1>9. Exact(r)
  <2>1. Cardinality(state.admitted) \in Nat /\ Cardinality(r.admitted) \in Nat
        /\ \/ Cardinality(r.admitted) = Cardinality(state.admitted)
           \/ Cardinality(r.admitted) = Cardinality(state.admitted) - 1
    <3>1. IsFiniteSet(state.admitted)
      BY <1>5, TaskFacts
    <3> QED
      BY <1>5, <1>8, <3>1, TaskFacts, FS_RemoveElement
  <2>2. Len(state.trials) \in Nat /\ Len(ts) \in Nat /\ PermittedCalls \in Nat
    BY <1>5, <1>7, LenProperties, WindowConfig
  <2> QED
    BY <1>4, <1>5, <1>7, <1>8, <2>1, <2>2 DEF Exact
<1>10. Sound(c, r)
  <2>1. \A d \in r.admitted : pc[d] = "executing" /\ d # c
    BY <1>8 DEF Inv, Sound
  <2>2. ASSUME r.trialLock # NoTask
        PROVE  /\ r.type = "HALF_OPEN" /\ r.trialLock # c
               /\ pc[r.trialLock] = "waiting" /\ Reopens(r.trialLock)
    BY <1>8, <2>2 DEF Inv, Sound
  <2>3. \A u \in Tasks \ {c} : pc[u] = "publishing" => r.type = Becomes(job[u].target)
    BY <1>1, <1>8 DEF Inv, Sound
  <2>4. r.elapsed <= ElapsedLimit(r.type) /\ Len(r.trials) <= PermittedCalls
    BY <1>4, <1>7, <1>8 DEF Inv, Sound
  <2> QED
    BY <1>8, <1>9, <2>1, <2>2, <2>3, <2>4 DEF Sound
<1> QED
  BY <1>2, <1>3, <1>10 DEF Running

\* The protected function ends.
LEMMA CompleteStep ==
  ASSUME Inv, NEW c \in Calls, NEW verdict \in Verdicts, Complete(c, verdict)
  PROVE  Inv'
<1> DEFINE o    == Outcome(verdict # "fails", FALSE)
           w    == AddCall(window, o)
           ts   == AddTrial(state.trials, o)
           gone == [state EXCEPT !.admitted = @ \ {c}]
           done == [gone EXCEPT !.trials = ts]
<1>1. c \in Tasks /\ pc[c] = "executing" /\ o \in CallOutcome
  BY TaskFacts, OutcomeType DEF Complete
<1>2. /\ state.type # "HALF_OPEN" => Running(c, gone, lockOwner, lockQueue)
      /\ state.type = "HALF_OPEN" => Running(c, done, lockOwner, lockQueue)
      /\ behind[c] = <<>>
  BY <1>1, EndedFacts
<1>3. "OPEN" \in Targets /\ TrialTarget(ts) \in Targets /\ "leave" \in {"acquire", "leave"}
  BY DEF Targets, StateTypes, TrialTarget
<1>4. CASE state.type = "CLOSED"
  <2>1. \/ Transition(c, "OPEN", "leave", gone, lockOwner, lockQueue)
        \/ Leave(c, gone, lockOwner, lockQueue)
    BY <1>4 DEF Complete
  <2> HIDE DEF gone
  <2> QED
    BY <1>1, <1>2, <1>3, <1>4, <2>1, TransitionStep, LeaveStep
<1>5. CASE state.type = "HALF_OPEN"
  <2>1. \/ Transition(c, TrialTarget(ts), "leave", done, lockOwner, lockQueue)
        \/ Leave(c, done, lockOwner, lockQueue)
    BY <1>5 DEF Complete
  <2> HIDE DEF done, ts
  <2> QED
    BY <1>1, <1>2, <1>3, <1>5, <2>1, TransitionStep, LeaveStep
<1>6. CASE state.type \in {"OPEN", "FORCED_OPEN", "DISABLED", "METRICS_ONLY"}
  <2>1. Leave(c, gone, lockOwner, lockQueue)
    BY <1>6 DEF Complete
  <2> HIDE DEF gone
  <2> QED
    BY <1>1, <1>2, <1>6, <2>1, LeaveStep
<1> QED
  BY <1>4, <1>5, <1>6 DEF Complete

\* Time passes.
LEMMA TickStep ==
  ASSUME Inv, Tick
  PROVE  Inv'
<1>1. /\ state.elapsed < ElapsedLimit(state.type)
      /\ state' = [state EXCEPT !.elapsed = @ + 1]
      /\ UNCHANGED <<lockOwner, lockQueue, behind, pc, job>>
  BY DEF Tick
<1>2. state \in StateObjects
  BY DEF Inv, Sound
<1>3. /\ state' \in StateObjects /\ state'.elapsed = state.elapsed + 1
      /\ state'.type = state.type /\ state'.permits = state.permits
      /\ state'.trials = state.trials /\ state'.trialLock = state.trialLock
      /\ state'.admitted = state.admitted
  BY <1>1, <1>2 DEF StateObjects
<1>4. state'.elapsed <= ElapsedLimit(state'.type)
  BY <1>1, <1>2, <1>3, LimitType DEF StateObjects
<1>5. Sound(NoTask, state)'
  BY <1>1, <1>3, <1>4 DEF Inv, Sound, Exact, Reopens
<1>6. Locked(NoTask, lockOwner, lockQueue)' /\ Lines' /\ Jobs'
  BY <1>1 DEF Inv, Locked, Lines, Jobs, Moving, Reopens
<1> QED
  BY <1>5, <1>6 DEF Inv

\* The window is typed whatever happens.
LEMMA WindowStep ==
  ASSUME WindowOK, [Next]_vars
  PROVE  WindowOK'
<1>1. window \in Seq(CallOutcome) /\ (CountBased => Len(window) <= WindowSize)
  BY DEF WindowOK
<1>2. <<>> \in Seq(CallOutcome) /\ Len(<<>>) = 0 /\ 0 <= WindowSize
  BY WindowConfig
<1>3. CASE window' = window
  BY <1>1, <1>3 DEF WindowOK
<1>4. CASE window' = <<>>
  BY <1>2, <1>4 DEF WindowOK
<1>5. ASSUME NEW c \in Calls, NEW verdict \in Verdicts, Complete(c, verdict) PROVE WindowOK'
  <2> DEFINE o == Outcome(verdict # "fails", FALSE)
             w == AddCall(window, o)
  <2>1. window' \in {window, w}
    BY <1>5 DEF Complete
  <2>2. o \in CallOutcome
    BY OutcomeType
  <2> HIDE DEF o
  <2>3. w \in Seq(CallOutcome) /\ (CountBased => Len(w) <= WindowSize)
    BY <1>1, <2>2, AddCallType
  <2> HIDE DEF w
  <2> QED
    BY <1>1, <2>1, <2>3 DEF WindowOK
<1>6. CASE Tick
  BY <1>1, <1>6, OlderType DEF Tick, WindowOK
<1>7. ASSUME NEW t \in Operators, NEW target \in Commands, Command(t, target) PROVE WindowOK'
  BY <1>3, <1>4, <1>7 DEF Command
<1>8. ASSUME NEW t \in Tasks, TakeLock(t) PROVE WindowOK'
  BY <1>3, <1>4, <1>8 DEF TakeLock
<1>9. ASSUME NEW t \in Tasks, Published(t) PROVE WindowOK'
  BY <1>3, <1>9 DEF Published
<1>10. ASSUME NEW c \in Calls, Acquire(c) \/ TimeOut(c) PROVE WindowOK'
  BY <1>3, <1>10 DEF Acquire, TimeOut
<1> QED
  BY <1>3, <1>5, <1>6, <1>7, <1>8, <1>9, <1>10 DEF Next, vars

-----------------------------------------------------------------------------
(* The invariant *)

\* Nobody is in a transition at first.
LEMMA InvInit == Init => IInv
<1> SUFFICES ASSUME Init PROVE IInv
  OBVIOUS
<1>1. "CLOSED" \in StateTypes
  BY DEF StateTypes
<1>2. /\ state \in StateObjects /\ state.type = "CLOSED"
      /\ Len(state.trials) = 0 /\ state.trialLock = NoTask /\ state.admitted = {}
      /\ state.elapsed <= ElapsedLimit(state.type) /\ Exact(state)
  BY <1>1, NewStateFacts DEF Init
<1>3. Jobs
  <2>1. NoJob \in JobType /\ NoJob.then = "leave"
    BY JobFacts DEF NoJob, Targets, StateTypes
  <2> QED
    BY <2>1 DEF Init, Jobs, Phases
<1>4. Lines
  BY EmptyMembers DEF Init, Lines
<1>5. Locked(NoTask, lockOwner, lockQueue)
  BY TaskFacts, EmptyMembers DEF Init, Locked, Moving
<1>6. Sound(NoTask, state)
  BY <1>2, WindowConfig DEF Init, Sound
<1>7. WindowOK
  BY WindowConfig DEF Init, WindowOK
<1> QED
  BY <1>3, <1>4, <1>5, <1>6, <1>7 DEF IInv, Inv

\* Every step keeps it.
LEMMA IInvStep == IInv /\ [Next]_vars => IInv'
<1> SUFFICES ASSUME IInv, [Next]_vars PROVE IInv'
  OBVIOUS
<1>1. Inv /\ WindowOK
  BY DEF IInv
<1>2. WindowOK'
  BY <1>1, WindowStep
<1>3. ASSUME NEW c \in Calls, Acquire(c) PROVE Inv'
  BY <1>1, <1>3, AcquireStep
<1>4. ASSUME NEW c \in Calls, NEW verdict \in Verdicts, Complete(c, verdict) PROVE Inv'
  BY <1>1, <1>4, CompleteStep
<1>5. ASSUME NEW t \in Operators, NEW target \in Commands, Command(t, target) PROVE Inv'
  BY <1>1, <1>5, CommandStep
<1>6. ASSUME NEW t \in Tasks, TakeLock(t) PROVE Inv'
  BY <1>1, <1>6, TakeLockStep
<1>7. ASSUME NEW t \in Tasks, Published(t) PROVE Inv'
  BY <1>1, <1>7, PublishedStep
<1>8. ASSUME NEW c \in Calls, TimeOut(c) PROVE Inv'
  BY <1>1, <1>8, TimeOutStep
<1>9. ASSUME Tick PROVE Inv'
  BY <1>1, <1>9, TickStep
<1>10. ASSUME UNCHANGED vars PROVE Inv'
  BY <1>1, <1>10
     DEF vars, Inv, Sound, Exact, Locked, Lines, Jobs, Moving, Reopens
<1>11. Inv'
  BY <1>3, <1>4, <1>5, <1>6, <1>7, <1>8, <1>9, <1>10 DEF Next
<1> QED
  BY <1>2, <1>11 DEF IInv

\* The invariant holds of every behaviour.
THEOREM Invariant == Spec => []IInv
  BY InvInit, IInvStep, PTL DEF Spec

\* TypeOK always holds: the state object, the windows, both kinds of lock and
\* what each task is about are typed and within their sizes, for any number of
\* tasks that make transitions of circuit_breaker.py while a listener suspends.
THEOREM TypeCorrect == Spec => []TypeOK
<1>1. IInv => TypeOK
  <2> SUFFICES ASSUME IInv PROVE TypeOK
    OBVIOUS
  <2>1. /\ state \in StateObjects /\ state.elapsed <= ElapsedLimit(state.type)
        /\ Len(state.trials) <= PermittedCalls
        /\ \A c \in state.admitted : pc[c] = "executing"
    BY DEF IInv, Inv, Sound
  <2>2. state.admitted \subseteq Calls
    BY <2>1 DEF StateObjects
  <2>3. window \in Seq(CallOutcome) /\ (CountBased => Len(window) <= WindowSize)
    BY DEF IInv, WindowOK
  <2>4. lockOwner \in Tasks \cup {NoTask} /\ lockQueue \in Seq(Tasks)
        /\ behind \in [Tasks -> Seq(Calls)]
    BY DEF IInv, Inv, Locked, Lines
  <2>5. /\ pc \in [Tasks -> {"idle", "executing", "waiting", "publishing", "behind",
                             "timingOut"}]
        /\ job \in [Tasks -> [target : StateTypes \cup {"RESET"},
                              then : {"acquire", "leave"}]]
    BY DEF IInv, Inv, Jobs, Phases, JobType, Targets
  <2> QED
    BY <2>1, <2>2, <2>3, <2>4, <2>5 DEF TypeOK
<1> QED
  BY <1>1, Invariant, PTL

\* Every waiter of _state_lock and of a HalfOpenState's lock is in exactly one
\* queue, once, nobody waits for a free lock, and at most one task publishes:
\* the fair hand-over of asyncio.Lock in transition_to_state, reset and
\* HalfOpenState.acquire_permission, for any number of tasks.
THEOREM Locks == Spec => []LocksConsistent
<1>1. IInv => LocksConsistent
  <2> SUFFICES ASSUME IInv PROVE LocksConsistent
    OBVIOUS
  <2>1. Locked(NoTask, lockOwner, lockQueue) /\ Lines
    BY DEF IInv, Inv
  <2>2. NoTask \notin Tasks
    BY TaskFacts
  <2>3. ToSet(lockQueue) \subseteq Tasks
    BY <2>1, Members DEF Locked
  <2>4. {t \in Tasks : pc[t] \in {"waiting", "publishing"}}
          = ToSet(lockQueue) \cup ({lockOwner} \ {NoTask})
    BY <2>1, <2>2, <2>3 DEF Locked, Moving
  <2>5. {t \in Tasks : pc[t] = "publishing"} \subseteq {lockOwner}
    BY <2>1, <2>2 DEF Locked
  <2>6. /\ IsInjective(lockQueue) /\ lockOwner \notin ToSet(lockQueue)
        /\ lockOwner = NoTask => lockQueue = <<>>
    BY <2>1 DEF Locked
  <2>7. /\ \A t \in Tasks : pc[t] = "behind" <=> \E u \in Tasks : t \in ToSet(behind[u])
        /\ \A t, u \in Tasks : /\ IsInjective(behind[t])
                               /\ t # u => ToSet(behind[t]) \cap ToSet(behind[u]) = {}
    BY <2>1 DEF Lines
  <2> QED
    BY <2>4, <2>5, <2>6, <2>7 DEF LocksConsistent
<1> QED
  BY <1>1, Invariant, PTL

\* In HALF_OPEN the permits given out cover the executing trials, and none is
\* lost: HalfOpenState keeps its _permits_used right however many tasks ask,
\* wait behind its lock, end, or force a transition while a listener suspends.
THEOREM Permits == Spec => []PermitsExact
<1>1. IInv => PermitsExact
  BY DEF IInv, Inv, Sound, Exact, PermitsExact
<1> QED
  BY <1>1, Invariant, PTL

-----------------------------------------------------------------------------
(* Who is in a transition stays in it when another task takes a step *)

\* Of the others, only one who was behind t goes on when t leaves.
LEMMA LeaveAlters ==
  ASSUME Lines, Jobs, NEW t \in Tasks, NEW s, NEW owner, NEW queue, Leave(t, s, owner, queue),
         NEW u \in Tasks \ {t}, Moving(u)
  PROVE  pc'[u] = pc[u]
<1>1. CASE behind[t] = <<>>
  BY <1>1 DEF Leave, Jobs
<1>2. CASE behind[t] # <<>>
  <2>1. behind[t] \in Seq(Calls)
    BY DEF Lines
  <2>2. Head(behind[t]) \in ToSet(behind[t])
    BY <1>2, <2>1, TailMembers
  <2>3. u # Head(behind[t])
    BY <2>2 DEF Lines, Moving
  <2>4. pc' = [pc EXCEPT ![t] = "idle", ![Head(behind[t])] = "timingOut"]
    BY <1>2 DEF Leave
  <2> QED
    BY <2>3, <2>4 DEF Jobs
<1> QED
  BY <1>1, <1>2

\* The others notice nothing of a transition.
LEMMA TransitionAlters ==
  ASSUME Lines, Jobs, NEW t \in Tasks, NEW target, NEW then, NEW s, NEW owner, NEW queue,
         Transition(t, target, then, s, owner, queue),
         NEW u \in Tasks \ {t}, Moving(u)
  PROVE  pc'[u] = pc[u]
<1>1. CASE owner # NoTask
  BY <1>1 DEF Transition, Jobs
<1>2. CASE owner = NoTask /\ s.type = target
  BY <1>2, LeaveAlters DEF Transition
<1>3. CASE owner = NoTask /\ s.type # target
  BY <1>3 DEF Transition, Install, Jobs
<1> QED
  BY <1>1, <1>2, <1>3

\* Nor of a call that asks for its permission.
LEMMA AcquireAlters ==
  ASSUME Lines, Jobs, NEW c \in Calls, NEW owner, NEW queue, AcquirePermission(c, owner, queue),
         NEW u \in Tasks \ {c}, Moving(u)
  PROVE  pc'[u] = pc[u]
<1>1. c \in Tasks
  BY TaskFacts
<1>2. ASSUME NEW s, Execute(c, s, owner, queue) PROVE pc'[u] = pc[u]
  BY <1>2 DEF Execute, Jobs
<1>3. ASSUME NEW s, Leave(c, s, owner, queue) PROVE pc'[u] = pc[u]
  BY <1>1, <1>3, LeaveAlters
<1>4. ASSUME NEW s, NEW target, NEW then, Transition(c, target, then, s, owner, queue)
      PROVE  pc'[u] = pc[u]
  BY <1>1, <1>4, TransitionAlters
<1>5. ASSUME AcquireTrial(c, owner, queue) PROVE pc'[u] = pc[u]
  <2>1. CASE pc' = [pc EXCEPT ![c] = "behind"]
    BY <2>1 DEF Jobs
  <2> QED
    BY <1>2, <1>3, <1>4, <1>5, <2>1 DEF AcquireTrial
<1> QED
  BY <1>2, <1>3, <1>4, <1>5 DEF AcquirePermission

\* So a task comes out of a transition in a step of its own, with the state it
\* wanted in place.
LEMMA OutOfTransition ==
  ASSUME IInv, Next, NEW u \in Tasks, Moving(u), ~ Moving(u)'
  PROVE  state.type = Becomes(job[u].target)
<1>1. Inv /\ Lines /\ Jobs
  BY DEF IInv, Inv
<1>2. pc'[u] # pc[u]
  BY DEF Moving
<1>3. Calls \subseteq Tasks /\ Operators \subseteq Tasks
  BY TaskFacts
<1>4. ASSUME NEW c \in Calls, Acquire(c) PROVE FALSE
  BY <1>1, <1>2, <1>4, AcquireAlters DEF Acquire, Moving
<1>5. ASSUME NEW c \in Calls, NEW verdict \in Verdicts, Complete(c, verdict) PROVE FALSE
  <2>1. c # u /\ c \in Tasks
    BY <1>3, <1>5 DEF Complete, Moving
  <2>2. ASSUME NEW s, NEW owner, NEW queue, Leave(c, s, owner, queue) PROVE FALSE
    BY <1>1, <1>2, <2>1, <2>2, LeaveAlters
  <2>3. ASSUME NEW s, NEW owner, NEW queue, NEW target, NEW then,
               Transition(c, target, then, s, owner, queue)
        PROVE  FALSE
    BY <1>1, <1>2, <2>1, <2>3, TransitionAlters
  <2> QED
    BY <1>5, <2>2, <2>3 DEF Complete
<1>6. ASSUME NEW t \in Operators, NEW target \in Commands, Command(t, target) PROVE FALSE
  BY <1>1, <1>2, <1>3, <1>6, TransitionAlters DEF Command, Moving
<1>7. ASSUME NEW c \in Calls, TimeOut(c) PROVE FALSE
  BY <1>1, <1>2, <1>3, <1>7, TransitionAlters DEF TimeOut, Moving
<1>8. ASSUME NEW t \in Tasks, t # u, Proceed(t), job[t].then = "acquire" => t \in Calls
      PROVE  FALSE
  <2>1. ASSUME NEW s, NEW owner, NEW queue, Leave(t, s, owner, queue) PROVE FALSE
    BY <1>1, <1>2, <1>8, <2>1, LeaveAlters
  <2>2. ASSUME NEW owner, NEW queue, t \in Calls, AcquirePermission(t, owner, queue)
        PROVE  FALSE
    BY <1>1, <1>2, <1>8, <2>2, AcquireAlters
  <2> QED
    BY <1>8, <2>1, <2>2 DEF Proceed
<1>9. \A t \in Tasks : job[t].then = "acquire" => t \in Calls
  BY <1>1 DEF Inv, Jobs
<1>10. ASSUME NEW t \in Tasks, TakeLock(t) PROVE t = u /\ state.type = job[u].target
  <2>1. CASE state.type = job[t].target
    BY <1>8, <1>9, <1>10, <2>1 DEF TakeLock
  <2>2. CASE state.type # job[t].target
    <3>1. pc' = [pc EXCEPT ![t] = "publishing"] /\ pc \in [Tasks -> Phases]
      BY <1>1, <1>10, <2>2 DEF TakeLock, Install, Inv, Jobs
    <3> QED
      BY <1>2, <3>1 DEF Moving
  <2> QED
    BY <2>1, <2>2
<1>11. ASSUME NEW t \in Tasks, Published(t) PROVE t = u /\ pc[u] = "publishing"
  BY <1>8, <1>9, <1>11 DEF Published
<1>12. ~ Tick
  BY <1>2 DEF Tick
<1>13. \/ state.type = job[u].target
       \/ pc[u] = "publishing"
  BY <1>4, <1>5, <1>6, <1>7, <1>10, <1>11, <1>12 DEF Next
<1>14. CASE state.type = job[u].target
  <2>1. state.type # "RESET"
    BY <1>1 DEF Inv, Sound, StateObjects, StateTypes
  <2> QED
    BY <1>14, <2>1 DEF Becomes
<1>15. CASE pc[u] = "publishing"
  BY <1>1, <1>15, TaskFacts DEF Inv, Sound
<1> QED
  BY <1>13, <1>14, <1>15

\* Whoever made the breaker half-open, or waited for another to do it, asks for
\* its permission in the half-open state: no transition gets in between the end
\* of the one and the question, in OpenState.acquire_permission.
THEOREM AsksInHalfOpen == Spec => AsksHalfOpen
<1>1. IInv /\ [Next]_vars
        => [\A c \in Calls :
              job[c].then = "acquire" /\ InTransition(pc[c]) /\ ~ InTransition(pc'[c])
                => state.type = "HALF_OPEN"]_vars
  <2> SUFFICES ASSUME IInv, Next, NEW c \in Calls,
                      job[c].then = "acquire", InTransition(pc[c]), ~ InTransition(pc'[c])
               PROVE  state.type = "HALF_OPEN"
    BY DEF vars
  <2>1. c \in Tasks /\ Moving(c) /\ ~ Moving(c)'
    BY TaskFacts DEF InTransition, Moving
  <2>2. state.type = Becomes(job[c].target)
    BY <2>1, OutOfTransition
  <2>3. job[c].target = "HALF_OPEN"
    BY <2>1 DEF IInv, Inv, Jobs
  <2> QED
    BY <2>2, <2>3 DEF Becomes
<1> QED
  BY <1>1, Invariant, PTL DEF Spec, AsksHalfOpen
=============================================================================
