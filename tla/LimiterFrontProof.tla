-------------------------- MODULE LimiterFrontProof --------------------------
(***************************************************************************)
(* Theorems about RateLimiter, for any number of calls, limit, cycle       *)
(* length and timeout, and about LimiterFront, for any calls, threads and  *)
(* fronts.                                                                 *)
(***************************************************************************)
EXTENDS LimiterFront, DataLemmas

\* What validate() says of the configuration.
LEMMA Config ==
  /\ LimitForPeriod \in Nat \ {0}
  /\ CycleLength \in Nat \ {0}
  /\ TimeoutDuration \in Nat
  BY LimiterAssumption DEF ConfigIsValid

\* What a cycle has given and what it has left do not exceed the limit.  A
\* state that is not of the present cycle has given nothing in it.
GrantsAccounted ==
  /\ fresh => granted + permissions <= LimitForPeriod
  /\ ~ fresh => granted = 0

\* The inductive invariant.
IInv == TypeOK /\ GrantsAccounted /\ SleepsToNextCycle

\* The limiter starts with all its permissions and without sleepers.
LEMMA IInvInit == Init => IInv
<1> USE Config
<1> SUFFICES ASSUME Init PROVE IInv
  OBVIOUS
<1>1. TypeOK
  BY DEF Init, TypeOK
<1>2. GrantsAccounted
  BY DEF Init, GrantsAccounted
<1>3. SleepsToNextCycle
  BY DEF Init, SleepsToNextCycle
<1> QED
  BY <1>1, <1>2, <1>3 DEF IInv

\* Every step of a call, of the application and of the clock keeps the
\* accounts.
LEMMA IInvStep == IInv /\ [Next]_vars => IInv'
<1> USE Config
<1> SUFFICES ASSUME IInv, [Next]_vars PROVE IInv'
  OBVIOUS
<1>0. TypeOK /\ GrantsAccounted /\ SleepsToNextCycle
  BY DEF IInv
<1>1. ASSUME NEW c \in Calls, Grant(c) PROVE IInv'
  <2>1. TypeOK'
    BY <1>0, <1>1 DEF Grant, TypeOK, Refreshed, OneMore
  <2>2. GrantsAccounted'
    BY <1>0, <1>1 DEF Grant, TypeOK, GrantsAccounted, Refreshed, OneMore
  <2>3. SleepsToNextCycle'
    BY <1>0, <1>1 DEF Grant, SleepsToNextCycle
  <2> QED
    BY <2>1, <2>2, <2>3 DEF IInv
<1>2. ASSUME NEW c \in Calls, PutOff(c), Sleep(c) \/ Deny(c) PROVE IInv'
  <2>1. TypeOK'
    BY <1>0, <1>2 DEF PutOff, Sleep, Deny, TypeOK, WaitTime
  <2>2. GrantsAccounted'
    BY <1>0, <1>2 DEF PutOff, TypeOK, GrantsAccounted, Refreshed
  <2>3. SleepsToNextCycle'
    BY <1>0, <1>2 DEF PutOff, Sleep, Deny, TypeOK, SleepsToNextCycle, WaitTime
  <2> QED
    BY <2>1, <2>2, <2>3 DEF IInv
<1>3. ASSUME NEW c \in Calls, Wake(c) \/ Cancel(c) PROVE IInv'
  <2>1. TypeOK'
    BY <1>0, <1>3 DEF Wake, Cancel, TypeOK, OneMore
  <2>2. GrantsAccounted'
    BY <1>0, <1>3 DEF Wake, Cancel, GrantsAccounted
  <2>3. SleepsToNextCycle'
    BY <1>0, <1>3 DEF Wake, Cancel, TypeOK, SleepsToNextCycle
  <2> QED
    BY <2>1, <2>2, <2>3 DEF IInv
<1>4. CASE Reset
  <2>1. TypeOK'
    BY <1>0, <1>4 DEF Reset, TypeOK
  <2>2. GrantsAccounted'
    BY <1>4 DEF Reset, GrantsAccounted
  <2>3. SleepsToNextCycle'
    BY <1>0, <1>4 DEF Reset, SleepsToNextCycle
  <2> QED
    BY <2>1, <2>2, <2>3 DEF IInv
<1>5. CASE Tick
  <2>1. TypeOK'
    <3>1. left' \in [Calls -> -1..CycleLength]
      BY <1>0, <1>5 DEF Tick, TypeOK
    <3>2. offset' \in 0..CycleLength - 1
      BY <1>0, <1>5 DEF Tick, TypeOK
    <3>3. fresh' \in BOOLEAN
      <4>1. fresh' = fresh \/ fresh' = FALSE
        BY <1>5 DEF Tick
      <4> QED
        BY <1>0, <4>1, Zenon DEF TypeOK
    <3>4. /\ permissions' \in 0..LimitForPeriod
          /\ granted' \in 0..LimitForPeriod + 1
          /\ started' \in 0..LimitForPeriod + 1
      BY <1>0, <1>5 DEF Tick, TypeOK
    <3> QED
      BY <3>1, <3>2, <3>3, <3>4 DEF TypeOK
  <2>2. GrantsAccounted'
    BY <1>0, <1>5 DEF Tick, TypeOK, GrantsAccounted
  <2>3. SleepsToNextCycle'
    BY <1>0, <1>5 DEF Tick, TypeOK, SleepsToNextCycle
  <2> QED
    BY <2>1, <2>2, <2>3 DEF IInv
<1>6. CASE UNCHANGED vars
  BY <1>0, <1>6 DEF vars, IInv, TypeOK, GrantsAccounted, SleepsToNextCycle
<1> QED
  BY <1>1, <1>2, <1>3, <1>4, <1>5, <1>6 DEF Next, Sleep, Deny

\* The inductive invariant holds in every reachable state.
LEMMA AlwaysIInv == Spec => []IInv
BY IInvInit, IInvStep, PTL DEF Spec

\* The state of the limiter keeps its types: the permissions never leave
\* 0..limit_for_period.
THEOREM TypeCorrect == Spec => []TypeOK
<1>1. IInv => TypeOK
  BY DEF IInv
<1> QED
  BY <1>1, AlwaysIInv, PTL

\* No cycle gives more than limit_for_period permissions.
THEOREM Grants == Spec => []GrantsBounded
<1>1. IInv => GrantsBounded
  BY Config DEF IInv, TypeOK, GrantsAccounted, GrantsBounded
<1> QED
  BY <1>1, AlwaysIInv, PTL

\* Every sleeper wakes at the end of the cycle that refused it, within its
\* timeout.
THEOREM Sleeps == Spec => []SleepsToNextCycle
<1>1. IInv => SleepsToNextCycle
  BY DEF IInv
<1> QED
  BY <1>1, AlwaysIInv, PTL

-----------------------------------------------------------------------------
(* The limiter implements FixedWindow *)

\* All permissions of the first cycle are there.
LEMMA WindowInit == Init => Window!Init
BY Config DEF Init, Window!Init, Refreshed

\* Each step of the limiter is one of FixedWindow or changes nothing it sees.
LEMMA WindowStep == IInv /\ [Next]_vars => [Window!Next]_(Window!windowVars)
<1> USE Config
<1> DEFINE asleep == {c \in Calls : left[c] > 0}
           over   == {c \in Calls : left[c] = 0}
<1> SUFFICES ASSUME IInv, [Next]_vars
             PROVE  Window!Next \/ UNCHANGED <<Refreshed, offset, asleep, over>>
  BY DEF Window!windowVars
<1>0. TypeOK /\ SleepsToNextCycle
  BY DEF IInv
<1>1. ASSUME NEW c \in Calls, Grant(c) PROVE Window!Grant
  BY <1>0, <1>1 DEF Grant, Window!Grant, Refreshed, TypeOK
<1>2. ASSUME NEW c \in Calls, Sleep(c) PROVE Window!PutOff(c)
  <2>1. left[c] = -1 /\ left' = [left EXCEPT ![c] = WaitTime] /\ WaitTime > 0
    BY <1>0, <1>2 DEF Sleep, PutOff, Awake, WaitTime, TypeOK
  <2>2. asleep' = asleep \cup {c} /\ over' = over
    BY <1>0, <2>1 DEF TypeOK
  <2>3. Refreshed = 0 /\ Refreshed' = 0 /\ offset' = offset
    BY <1>2 DEF Sleep, PutOff, Refreshed
  <2> QED
    BY <2>1, <2>2, <2>3 DEF Window!PutOff
<1>3. ASSUME NEW c \in Calls, Deny(c) PROVE UNCHANGED <<Refreshed, offset, asleep, over>>
  BY <1>3 DEF Deny, PutOff, Refreshed
<1>4. ASSUME NEW c \in Calls, Wake(c) PROVE Window!GoOn(c)
  <2>1. left[c] = 0 /\ left' = [left EXCEPT ![c] = -1]
    BY <1>4 DEF Wake
  <2>2. over' = over \ {c} /\ asleep' = asleep
    BY <1>0, <2>1 DEF TypeOK
  <2>3. UNCHANGED <<Refreshed, offset>>
    BY <1>4 DEF Wake, Refreshed
  <2> QED
    BY <2>1, <2>2, <2>3 DEF Window!GoOn
<1>5. ASSUME NEW c \in Calls, Cancel(c) PROVE Window!GoOn(c) \/ Window!GiveUp(c)
  <2>1. left[c] # -1 /\ left' = [left EXCEPT ![c] = -1]
    BY <1>5 DEF Cancel, Awake
  <2>2. UNCHANGED <<Refreshed, offset>>
    BY <1>5 DEF Cancel, Refreshed
  <2>3. CASE left[c] = 0
    <3>1. over' = over \ {c} /\ asleep' = asleep
      BY <1>0, <2>1, <2>3 DEF TypeOK
    <3> QED
      BY <2>2, <2>3, <3>1 DEF Window!GoOn
  <2>4. CASE left[c] > 0
    <3>1. asleep' = asleep \ {c} /\ over' = over
      BY <1>0, <2>1, <2>4 DEF TypeOK
    <3> QED
      BY <2>2, <2>4, <3>1 DEF Window!GiveUp
  <2> QED
    BY <1>0, <2>1, <2>3, <2>4 DEF TypeOK
<1>6. CASE Reset
  <2>1. Refreshed' = LimitForPeriod /\ UNCHANGED <<offset, asleep, over>>
    BY <1>6 DEF Reset, Refreshed
  <2> QED
    BY <2>1 DEF Window!Next, Window!Restart
<1>7. CASE Tick
  <2>1. left' = [c \in Calls |-> IF left[c] > 0 THEN left[c] - 1 ELSE left[c]]
    BY <1>7 DEF Tick
  <2>2. CASE offset < CycleLength - 1
    <3>1. asleep' = asleep /\ over' = over
      BY <1>0, <2>1, <2>2 DEF TypeOK, SleepsToNextCycle
    <3>2. Window!Pass
      BY <1>7, <2>2, <3>1 DEF Tick, Window!Pass, Refreshed
    <3> QED
      BY <3>2 DEF Window!Next
  <2>3. CASE offset = CycleLength - 1
    <3>1. asleep' = {} /\ over' = over \cup asleep
      BY <1>0, <2>1, <2>3 DEF TypeOK, SleepsToNextCycle
    <3>2. Window!NewPeriod
      BY <1>7, <2>3, <3>1 DEF Tick, Window!NewPeriod, Refreshed
    <3> QED
      BY <3>2 DEF Window!Next
  <2> QED
    BY <1>0, <2>2, <2>3 DEF TypeOK
<1>8. CASE UNCHANGED vars
  BY <1>8 DEF vars, Refreshed
<1> QED
  BY <1>1, <1>2, <1>3, <1>4, <1>5, <1>6, <1>7, <1>8 DEF Next, Window!Next

\* Refreshing when asked cannot be told from refreshing at the start of every
\* cycle.
THEOREM Refinement == Spec => KeepsWindow
BY WindowInit, WindowStep, AlwaysIInv, PTL DEF Spec, KeepsWindow, Window!Spec

-----------------------------------------------------------------------------
(* A consequence for the choice of the timeout *)

NeverDenied == ~ \E c \in Calls : Deny(c)

\* With a timeout of a whole cycle nobody is ever turned away: the number of
\* callers that go on with the next cycle has no bound but that of the tasks.
THEOREM NeverDenies ==
  ASSUME TimeoutDuration >= CycleLength
  PROVE  Spec => [][NeverDenied]_vars
<1>1. IInv /\ [Next]_vars => [NeverDenied]_vars
  <2> SUFFICES ASSUME IInv, NEW c \in Calls, Deny(c) PROVE FALSE
    BY DEF NeverDenied
  <2>1. WaitTime <= CycleLength
    BY Config DEF IInv, TypeOK, WaitTime
  <2>2. WaitTime \in Int /\ WaitTime > TimeoutDuration
    BY Config DEF Deny, IInv, TypeOK, WaitTime
  <2> QED
    BY <2>1, <2>2, Config
<1> QED
  BY <1>1, AlwaysIInv, PTL DEF Spec

-----------------------------------------------------------------------------
(* The limiter behind the fronts is a RateLimiter *)

\* The application begins to register a listener with f, or to take one back.
Register(f) ==
  \E l \in Listeners : AddListener(f, l) \/ (f \in Revocable /\ RemoveListener(f, l))

\* Whatever a front, a thread or the application does is for the limiter made
\* last a step of its own, or none: a new limiter begins like one that is reset.
LEMMA LimiterStep == [FrontNext]_allVars => [Next]_vars
<1> SUFFICES ASSUME [FrontNext]_allVars PROVE [Next]_vars
  OBVIOUS
<1>1. ASSUME NEW c \in Calls, NEW f \in Fronts, Call(c, f) PROVE [Next]_vars
  BY <1>1 DEF Call
<1>2. ASSUME NEW c \in Calls, Create(c) PROVE [Next]_vars
  BY <1>2 DEF Create, Next
<1>3. ASSUME NEW c \in Calls, Use(c) PROVE [Next]_vars
  BY <1>3 DEF Use, Next
<1>4. ASSUME NEW c \in Calls, GoOn(c) PROVE [Next]_vars
  BY <1>4 DEF GoOn, Next
<1>5. ASSUME NEW c \in Calls, GiveUp(c) PROVE [Next]_vars
  BY <1>5 DEF GiveUp, Next
<1>6. ASSUME NEW c \in Calls, \/ Find(c) \/ Fetch(c) \/ Keep(c) \/ Flush(c) \/ UseOld(c)
                              \/ NextListener(c) \/ Attach(c)
      PROVE  [Next]_vars
  BY <1>6 DEF Find, Fetch, Keep, NextListener, Attach, Flush, UseOld
<1>7. ASSUME NEW f \in Fronts, Register(f) \/ Drop(f)
      PROVE  [Next]_vars
  BY <1>7 DEF Register, AddListener, RemoveListener, Drop
<1>8. ASSUME Follow \/ RegistryRemove \/ Pass PROVE [Next]_vars
  BY <1>8 DEF Follow, RegistryRemove, Pass, Next
<1>9. CASE UNCHANGED allVars
  BY <1>9 DEF allVars
<1> QED
  BY <1>1, <1>2, <1>3, <1>4, <1>5, <1>6, <1>7, <1>8, <1>9, FrontAssumption
     DEF FrontNext, Register

\* The limiter that the fronts of a name share implements the specification of
\* RateLimiter, for tasks of one loop and for threads with loops of their own.
THEOREM SharedLimiter == FrontSpec => Spec
<1>1. FrontInit => Init
  BY DEF FrontInit
<1> QED
  BY <1>1, LimiterStep, PTL DEF FrontSpec, Spec

\* However many fronts, tasks or threads use it, the limiter of a name gives no
\* more than limit_for_period permissions in a cycle (GrantsBounded).
THEOREM SharedGrants == FrontSpec => []GrantsBounded
  BY SharedLimiter, Grants, PTL

-----------------------------------------------------------------------------
(* The inductive invariant of the fronts *)

Stations == {"idle", "looking", "found", "got", "flushing", "holding", "waiting", "asleep"}

CallType == [at : Stations, via : Fronts \cup {None}, mine : 0..MaxLimiters]

LockType == [holder : Calls \cup {None}, waiter : Calls \cup {None}, bound : BOOLEAN]

FrontTypeOK ==
  /\ entry \in 0..MaxLimiters
  /\ made \in 0..MaxLimiters
  /\ limiter \in [Fronts -> 0..MaxLimiters]
  /\ call \in [Calls -> CallType]
  /\ lock \in [0..MaxLimiters -> LockType]

\* A call knows its front for as long as it needs it, and the limiter it has or
\* waits for.
Located ==
  \A c \in Calls :
    /\ call[c].at \in {"looking", "found", "got", "flushing"} => call[c].via \in Fronts
    /\ call[c].at = "waiting" /\ call[c].mine = 0 => call[c].via \in Fronts
    /\ call[c].at = "got" => call[c].mine # 0
    /\ call[c].at = "flushing" => limiter[call[c].via] # 0

\* Whoever does what needs a lock holds it, and whoever is in a lock's queue
\* waits for that lock.
LocksHeld ==
  /\ \A c \in Calls :
       /\ call[c].at \in {"looking", "found"} => lock[0].holder = c
       /\ call[c].at = "holding" => lock[call[c].mine].holder = c
  /\ \A i \in 0..MaxLimiters :
       lock[i].waiter # None => /\ call[lock[i].waiter].at = "waiting"
                                /\ call[lock[i].waiter].mine = i
                                /\ lock[i].bound

\* Whoever sleeps does nothing else.
Sleepers == \A c \in Calls : left[c] # -1 => call[c].at = "asleep"

FrontInv ==
  /\ FrontTypeOK
  /\ Located
  /\ LocksHeld
  /\ Sleepers
  /\ OneLimiterPerName
\* A call that has nothing and needs nothing.
LEMMA IdleType ==
  Idle \in CallType /\ Idle.at = "idle" /\ Idle.via = None /\ Idle.mine = 0
  BY FrontAssumption DEF Idle, Doing, CallType, Stations

\* Nobody has or waits for anything at first.
LEMMA FrontInvInit == FrontInit => FrontInv
<1> SUFFICES ASSUME FrontInit PROVE FrontInv
  OBVIOUS
<1> USE FrontAssumption
<1>1. call = [c \in Calls |-> Idle]
  BY DEF FrontInit
<1>2. \A i \in 0..MaxLimiters : lock[i] = Unlocked /\ Unlocked \in LockType
  BY DEF FrontInit, Unlocked, LockType
<1>3. FrontTypeOK
  BY <1>1, <1>2, IdleType DEF FrontInit, FrontTypeOK
<1>4. Located
  BY <1>1, IdleType DEF Located
<1>5. LocksHeld
  BY <1>1, <1>2, IdleType DEF LocksHeld, Unlocked
<1>6. Sleepers
  BY DEF FrontInit, Init, Sleepers
<1>7. OneLimiterPerName
  BY <1>1, IdleType DEF FrontInit, OneLimiterPerName, Range
<1> QED
  BY <1>3, <1>4, <1>5, <1>6, <1>7 DEF FrontInv

-----------------------------------------------------------------------------
(* The locks *)

\* Every call names a lock.
LEMMA Indices ==
  ASSUME FrontTypeOK
  PROVE  /\ 0 \in 0..MaxLimiters
         /\ \A d \in Calls : call[d].mine \in 0..MaxLimiters
  BY FrontAssumption DEF FrontTypeOK, CallType

\* Where c goes, everybody else stays where it is.
LEMMA GoesFacts ==
  ASSUME FrontTypeOK, NEW c \in Calls, NEW s \in CallType, Goes(c, s)
  PROVE  /\ call' \in [Calls -> CallType]
         /\ call'[c] = s
         /\ \A d \in Calls \ {c} : call'[d] = call[d]
  BY DEF Goes, FrontTypeOK

\* A lock that changes leaves the others as they are.
LockBecomes(i, r) == lock' = [lock EXCEPT ![i] = r]

LEMMA LockUpdate ==
  ASSUME FrontTypeOK, NEW i \in 0..MaxLimiters, NEW r \in LockType, LockBecomes(i, r)
  PROVE  /\ lock' \in [0..MaxLimiters -> LockType]
         /\ lock'[i] = r
         /\ \A j \in 0..MaxLimiters \ {i} : lock'[j] = lock[j]
  BY DEF FrontTypeOK, LockBecomes

\* A lock that somebody takes.
TakenBy(l, c) == [l EXCEPT !.holder = c]

LEMMA LockTaken ==
  ASSUME NEW l \in LockType, NEW c \in Calls
  PROVE  /\ TakenBy(l, c) \in LockType
         /\ TakenBy(l, c).holder = c
         /\ TakenBy(l, c).waiter = l.waiter
  BY DEF LockType, TakenBy

\* Who is in a lock's queue waits for that lock.
LEMMA WaiterFacts ==
  ASSUME FrontTypeOK, LocksHeld, NEW j \in 0..MaxLimiters, lock[j].waiter # None
  PROVE  /\ lock[j].waiter \in Calls
         /\ call[lock[j].waiter].at = "waiting"
         /\ call[lock[j].waiter].mine = j
         /\ lock[j].bound
<1>1. lock[j] \in LockType
  BY DEF FrontTypeOK
<1> QED
  BY <1>1 DEF LocksHeld, LockType

\* Who asks for a lock gets it, waits for it or fails; the others see nothing of
\* that, and a lock that has lost its wake-up keeps its waiter.
LEMMA AcquireFacts ==
  ASSUME FrontTypeOK, LocksHeld,
         NEW c \in Calls, NEW i \in 0..MaxLimiters, NEW s \in CallType,
         call[c].at \in {"idle", "flushing"}, s.mine = i,
         s.at = IF i = 0 THEN "looking" ELSE "holding",
         Acquire(c, i, s)
  PROVE  /\ call' \in [Calls -> CallType]
         /\ lock' \in [0..MaxLimiters -> LockType]
         /\ LocksHeld'
         /\ call'[c] \in {s, [s EXCEPT !.at = "waiting"], Idle}
         /\ \A d \in Calls \ {c} : call'[d] = call[d]
         /\ \A j \in 0..MaxLimiters :
              Lost(j) => Lost(j)' /\ lock'[j].waiter = lock[j].waiter
<1> USE FrontAssumption
<1> DEFINE w == [s EXCEPT !.at = "waiting"]
<1>0. w \in CallType /\ w.at = "waiting" /\ w.mine = i
  BY DEF CallType, Stations
<1>1. CASE lock[i].holder = None /\ lock[i].waiter = None
  <2>1. lock' = [lock EXCEPT ![i].holder = c] /\ Goes(c, s)
    BY <1>1 DEF Acquire
  <2>2. /\ lock' \in [0..MaxLimiters -> LockType]
        /\ lock'[i].holder = c /\ lock'[i].waiter = None
        /\ \A j \in 0..MaxLimiters \ {i} : lock'[j] = lock[j]
    <3> DEFINE r == TakenBy(lock[i], c)
    <3>0. lock[i] \in LockType
      BY DEF FrontTypeOK
    <3>1. r \in LockType /\ r.holder = c /\ r.waiter = None
      BY <1>1, <3>0, LockTaken
    <3>2. LockBecomes(i, r)
      BY <2>1 DEF TakenBy, LockBecomes
    <3> HIDE DEF r
    <3> QED
      BY <3>1, <3>2, LockUpdate
  <2>3. /\ call' \in [Calls -> CallType] /\ call'[c] = s
        /\ \A d \in Calls \ {c} : call'[d] = call[d]
    BY <2>1, GoesFacts
  <2>4. ASSUME NEW d \in Calls
        PROVE  /\ call'[d].at \in {"looking", "found"} => lock'[0].holder = d
               /\ call'[d].at = "holding" => lock'[call'[d].mine].holder = d
    <3>1. CASE d = c
      BY <2>2, <2>3, <3>1
    <3>2. CASE d # c
      BY <1>1, <2>2, <2>3, <3>2 DEF LocksHeld, FrontTypeOK, CallType
    <3> QED
      BY <3>1, <3>2
  <2>5. ASSUME NEW j \in 0..MaxLimiters, lock'[j].waiter # None
        PROVE  /\ call'[lock'[j].waiter].at = "waiting"
               /\ call'[lock'[j].waiter].mine = j
               /\ lock'[j].bound
    <3>1. j # i /\ lock'[j] = lock[j]
      BY <2>2, <2>5
    <3>2. lock[j].waiter \in Calls \ {c}
      BY <2>5, <3>1, WaiterFacts
    <3> QED
      BY <2>3, <2>5, <3>1, <3>2 DEF LocksHeld
  <2>6. LocksHeld'
    BY <2>4, <2>5 DEF LocksHeld
  <2>7. \A j \in 0..MaxLimiters : Lost(j) => Lost(j)' /\ lock'[j].waiter = lock[j].waiter
    BY <1>1, <2>2 DEF Lost
  <2> QED
    BY <2>2, <2>3, <2>6, <2>7
<1>2. CASE (lock[i].holder # None \/ lock[i].waiter # None) /\ lock[i].bound
  <2>1. lock' = lock /\ Goes(c, Idle)
    BY <1>2 DEF Acquire
  <2>2. /\ call' \in [Calls -> CallType] /\ call'[c] = Idle
        /\ \A d \in Calls \ {c} : call'[d] = call[d]
    BY <2>1, IdleType, GoesFacts
  <2>3. ASSUME NEW j \in 0..MaxLimiters, lock[j].waiter # None
        PROVE  lock[j].waiter \in Calls \ {c}
    BY <2>3 DEF LocksHeld, FrontTypeOK, LockType
  <2>4. LocksHeld'
    BY <2>1, <2>2, <2>3, IdleType DEF LocksHeld
  <2> QED
    BY <2>1, <2>2, <2>4 DEF Lost, FrontTypeOK
<1>3. CASE (lock[i].holder # None \/ lock[i].waiter # None) /\ ~ lock[i].bound
  <2>1. lock' = [lock EXCEPT ![i] = [@ EXCEPT !.waiter = c, !.bound = TRUE]] /\ Goes(c, w)
    BY <1>3 DEF Acquire
  <2>2. /\ lock' \in [0..MaxLimiters -> LockType]
        /\ lock'[i].holder = lock[i].holder /\ lock'[i].waiter = c /\ lock'[i].bound
        /\ \A j \in 0..MaxLimiters \ {i} : lock'[j] = lock[j]
    <3> DEFINE r == [lock[i] EXCEPT !.waiter = c, !.bound = TRUE]
    <3>0. lock[i] \in LockType
      BY DEF FrontTypeOK
    <3>1. r \in LockType /\ r.holder = lock[i].holder /\ r.waiter = c /\ r.bound
      BY <3>0 DEF LockType
    <3>2. LockBecomes(i, r)
      BY <2>1 DEF LockBecomes
    <3> HIDE DEF r
    <3> QED
      BY <3>1, <3>2, LockUpdate
  <2> HIDE DEF w
  <2>3. /\ call' \in [Calls -> CallType] /\ call'[c] = w
        /\ \A d \in Calls \ {c} : call'[d] = call[d]
    BY <1>0, <2>1, GoesFacts
  <2>4. ASSUME NEW d \in Calls
        PROVE  /\ call'[d].at \in {"looking", "found"} => lock'[0].holder = d
               /\ call'[d].at = "holding" => lock'[call'[d].mine].holder = d
    <3>1. CASE d = c
      BY <1>0, <2>3, <3>1
    <3>2. CASE d # c
      <4>1. \A j \in 0..MaxLimiters : lock'[j].holder = lock[j].holder
        BY <2>2
      <4> QED
        BY <2>3, <3>2, <4>1, Indices DEF LocksHeld
    <3> QED
      BY <3>1, <3>2
  <2>5. ASSUME NEW j \in 0..MaxLimiters, lock'[j].waiter # None
        PROVE  /\ call'[lock'[j].waiter].at = "waiting"
               /\ call'[lock'[j].waiter].mine = j
               /\ lock'[j].bound
    <3>1. CASE j = i
      BY <1>0, <2>2, <2>3, <3>1
    <3>2. CASE j # i
      <4>1. lock[j].waiter \in Calls \ {c}
        BY <2>2, <2>5, <3>2 DEF LocksHeld, FrontTypeOK, LockType
      <4> QED
        BY <2>2, <2>3, <2>5, <3>2, <4>1 DEF LocksHeld
    <3> QED
      BY <3>1, <3>2
  <2>6. LocksHeld'
    BY <2>4, <2>5 DEF LocksHeld
  <2>7. \A j \in 0..MaxLimiters : Lost(j) => j # i
    BY <1>3 DEF Lost, LocksHeld
  <2>8. \A j \in 0..MaxLimiters : Lost(j) => Lost(j)' /\ lock'[j].waiter = lock[j].waiter
    BY <2>2, <2>7 DEF Lost
  <2> QED
    BY <2>2, <2>3, <2>6, <2>8 DEF w
<1> QED
  BY <1>1, <1>2, <1>3

\* Who gives a lock back may wake its waiter, which does what that lock is for;
\* a lock that has lost its wake-up stays as it is, and so does its waiter.
LEMMA ReleaseFacts ==
  ASSUME FrontTypeOK, LocksHeld,
         NEW c \in Calls, NEW i \in 0..MaxLimiters, NEW s \in CallType,
         \/ i = 0 /\ call[c].at \in {"looking", "found"}
         \/ call[c].at = "holding" /\ call[c].mine = i,
         s.at \in {"idle", "got", "asleep"},
         Release(c, i, s)
  PROVE  /\ call' \in [Calls -> CallType]
         /\ lock' \in [0..MaxLimiters -> LockType]
         /\ LocksHeld'
         /\ call'[c] = s
         /\ \A d \in Calls \ {c} :
              \/ call'[d] = call[d]
              \/ /\ call[d].at = "waiting"
                 /\ call'[d].via = call[d].via /\ call'[d].mine = call[d].mine
                 /\ call'[d].at = IF call[d].mine = 0 THEN "looking" ELSE "holding"
         /\ \A j \in 0..MaxLimiters :
              Lost(j) => /\ Lost(j)' /\ lock'[j].waiter = lock[j].waiter
                         /\ call'[lock[j].waiter] = call[lock[j].waiter]
<1> USE FrontAssumption
<1>0. lock[i].holder = c
  BY DEF LocksHeld
<1>1. CASE lock' = [lock EXCEPT ![i].holder = None] /\ Goes(c, s)
  <2>1. /\ lock' \in [0..MaxLimiters -> LockType]
        /\ lock'[i] = [lock[i] EXCEPT !.holder = None]
        /\ \A j \in 0..MaxLimiters \ {i} : lock'[j] = lock[j]
    BY <1>1 DEF FrontTypeOK, LockType
  <2>2. lock'[i].waiter = lock[i].waiter /\ lock'[i].bound = lock[i].bound
    BY <2>1 DEF FrontTypeOK, LockType
  <2>3. LocksHeld'
    <3>1. /\ call'[c] = s
          /\ \A d \in Calls \ {c} : call'[d] = call[d]
      BY <1>1, GoesFacts
    <3>2. ASSUME NEW d \in Calls
          PROVE  /\ call'[d].at \in {"looking", "found"} => lock'[0].holder = d
                 /\ call'[d].at = "holding" => lock'[call'[d].mine].holder = d
      <4>1. CASE d = c
        BY <3>1, <4>1
      <4>2. CASE d # c
        <5>1. \A j \in 0..MaxLimiters : lock[j].holder = d => lock'[j] = lock[j]
          BY <1>0, <2>1, <4>2
        <5> QED
          BY <3>1, <4>2, <5>1, Indices DEF LocksHeld
      <4> QED
        BY <4>1, <4>2
    <3>3. ASSUME NEW j \in 0..MaxLimiters, lock'[j].waiter # None
          PROVE  /\ call'[lock'[j].waiter].at = "waiting"
                 /\ call'[lock'[j].waiter].mine = j
                 /\ lock'[j].bound
      <4>1. lock'[j].waiter = lock[j].waiter /\ lock'[j].bound = lock[j].bound
        BY <2>1, <2>2
      <4>2. lock[j].waiter \in Calls \ {c}
        BY <3>3, <4>1 DEF LocksHeld, FrontTypeOK, LockType
      <4> QED
        BY <3>1, <3>3, <4>1, <4>2 DEF LocksHeld
    <3> QED
      BY <3>2, <3>3 DEF LocksHeld
  <2>4. \A j \in 0..MaxLimiters : Lost(j) => j # i /\ lock[j].waiter \in Calls \ {c}
    BY <1>0 DEF Lost, LocksHeld, FrontTypeOK, LockType
  <2> QED
    BY <1>1, <2>1, <2>3, <2>4, GoesFacts DEF Lost
<1>2. CASE LET w == lock[i].waiter IN
           /\ w # None
           /\ lock' = [lock EXCEPT ![i] = [@ EXCEPT !.holder = w, !.waiter = None]]
           /\ call' = [call EXCEPT ![c] = s,
                                   ![w].at = IF i = 0 THEN "looking" ELSE "holding"]
  <2> DEFINE w == lock[i].waiter
             wake == IF i = 0 THEN "looking" ELSE "holding"
  <2>1. w \in Calls \ {c} /\ call[w].at = "waiting" /\ call[w].mine = i
    BY <1>2 DEF LocksHeld, FrontTypeOK, LockType
  <2>2. wake \in Stations
    BY DEF Stations
  <2>3. call' = [call EXCEPT ![c] = s, ![w].at = wake]
    BY <1>2
  <2>4. lock' = [lock EXCEPT ![i] = [@ EXCEPT !.holder = w, !.waiter = None]]
    BY <1>2
  <2> HIDE DEF w, wake
  <2>5. /\ lock' \in [0..MaxLimiters -> LockType]
        /\ lock'[i].holder = w /\ lock'[i].waiter = None
        /\ \A j \in 0..MaxLimiters \ {i} : lock'[j] = lock[j]
    <3> DEFINE r == [lock[i] EXCEPT !.holder = w, !.waiter = None]
    <3>0. lock[i] \in LockType
      BY DEF FrontTypeOK
    <3>1. r \in LockType /\ r.holder = w /\ r.waiter = None
      BY <2>1, <3>0 DEF LockType
    <3>2. LockBecomes(i, r)
      BY <2>4 DEF LockBecomes
    <3> HIDE DEF r
    <3> QED
      BY <3>1, <3>2, LockUpdate
  <2>7. /\ call'[c] = s
        /\ call'[w] = [call[w] EXCEPT !.at = wake]
        /\ \A d \in Calls \ {c, w} : call'[d] = call[d]
        /\ call' \in [Calls -> CallType]
    BY <2>1, <2>2, <2>3 DEF FrontTypeOK, CallType
  <2>8. call'[w].at = wake /\ call'[w].via = call[w].via /\ call'[w].mine = i
    BY <2>1, <2>7 DEF FrontTypeOK, CallType
  <2>9. LocksHeld'
    <3>1. \A d \in Calls : /\ call'[d].at \in {"looking", "found"} => lock'[0].holder = d
                           /\ call'[d].at = "holding" => lock'[call'[d].mine].holder = d
      <4> TAKE d \in Calls
      <4>1. CASE d = c
        BY <2>7, <4>1
      <4>2. CASE d = w
        BY <2>5, <2>8, <4>2 DEF wake
      <4>3. CASE d \notin {c, w}
        <5>1. \A j \in 0..MaxLimiters : lock[j].holder = d => lock'[j] = lock[j]
          BY <1>0, <2>5, <4>3
        <5> QED
          BY <2>7, <4>3, <5>1, Indices DEF LocksHeld
      <4> QED
        BY <4>1, <4>2, <4>3
    <3>2. ASSUME NEW j \in 0..MaxLimiters, lock'[j].waiter # None
          PROVE  /\ call'[lock'[j].waiter].at = "waiting"
                 /\ call'[lock'[j].waiter].mine = j
                 /\ lock'[j].bound
      <4>1. j # i /\ lock'[j] = lock[j]
        BY <2>5, <3>2
      <4>2. lock[j].waiter \in Calls \ {c, w}
        BY <2>1, <3>2, <4>1 DEF LocksHeld, FrontTypeOK, LockType
      <4> QED
        BY <2>7, <3>2, <4>1, <4>2 DEF LocksHeld
    <3> QED
      BY <3>1, <3>2 DEF LocksHeld
  <2>10. \A j \in 0..MaxLimiters : Lost(j) => j # i /\ lock[j].waiter \in Calls \ {c, w}
    BY <1>0, <2>1 DEF Lost, LocksHeld, FrontTypeOK, LockType
  <2>11. \A j \in 0..MaxLimiters :
           Lost(j) => /\ Lost(j)' /\ lock'[j].waiter = lock[j].waiter
                      /\ call'[lock[j].waiter] = call[lock[j].waiter]
    BY <2>5, <2>7, <2>10 DEF Lost
  <2>12. \A d \in Calls \ {c} :
              \/ call'[d] = call[d]
              \/ /\ call[d].at = "waiting"
                 /\ call'[d].via = call[d].via /\ call'[d].mine = call[d].mine
                 /\ call'[d].at = IF call[d].mine = 0 THEN "looking" ELSE "holding"
    BY <2>1, <2>7, <2>8 DEF wake
  <2> QED
    BY <2>5, <2>7, <2>9, <2>11, <2>12
<1> QED
  BY <1>1, <1>2 DEF Release

\* A call that goes on with no lock in its hands leaves the locks as they are.
LEMMA GoesKeepsLocks ==
  ASSUME FrontTypeOK, LocksHeld,
         NEW c \in Calls, NEW s \in CallType,
         call[c].at # "waiting", Goes(c, s), lock' = lock,
         s.at \in {"idle", "flushing"} \/ (call[c].at = "looking" /\ s.at = "found")
  PROVE  LocksHeld'
<1>1. call'[c] = s /\ \A d \in Calls \ {c} : call'[d] = call[d]
  BY GoesFacts
<1>2. ASSUME NEW j \in 0..MaxLimiters, lock[j].waiter # None
      PROVE  lock[j].waiter \in Calls \ {c}
  BY <1>2, FrontAssumption DEF LocksHeld, FrontTypeOK, LockType
<1> QED
  BY <1>1, <1>2 DEF LocksHeld

-----------------------------------------------------------------------------
(* The limiter of the name *)

\* The limiters that the fronts and the calls of the name have.
Users == Range(limiter) \cup {call[c].mine : c \in Calls}

\* The fronts and calls of the name still have the same limiter when nobody
\* gets one from elsewhere than the others and the registry.
LEMMA NameStep ==
  ASSUME FrontTypeOK, FrontTypeOK', OneLimiterPerName, removed' = removed,
         LetGo \/ entry' = entry,
         \A f \in Fronts : limiter'[f] \in Users \cup {0},
         \A d \in Calls : call'[d].mine \in Users \cup {0, entry}
  PROVE  OneLimiterPerName'
<1>1. \A i \in Users : i \in {0, entry} \cup removed
  BY DEF OneLimiterPerName, Users
<1>2. ASSUME NEW i \in Users' PROVE i \in {0, entry'} \cup removed
  <2>1. i \in Users \cup {0, entry}
    BY <1>2 DEF Users, Range, FrontTypeOK
  <2>2. LetGo /\ i = entry => entry' = entry
    BY <1>2 DEF LetGo, Users
  <2> QED
    BY <1>1, <2>1, <2>2
<1> QED
  BY <1>2 DEF OneLimiterPerName, Users

\* Who has a limiter is one of its users.
LEMMA UserFacts ==
  ASSUME FrontTypeOK
  PROVE  /\ \A f \in Fronts : limiter[f] \in Users
         /\ \A d \in Calls : call[d].mine \in Users
  BY DEF FrontTypeOK, Users, Range

\* The registry forgets its limiter or has it still.
LEMMA LetGoType ==
  ASSUME FrontTypeOK, LetGo
  PROVE  entry' \in 0..MaxLimiters
  BY FrontAssumption DEF FrontTypeOK, LetGo

-----------------------------------------------------------------------------
(* The steps of a call *)

\* What a call is to do is of the type of its state.
LEMMA DoingType ==
  ASSUME NEW p \in Stations, NEW f \in Fronts \cup {None}, NEW i \in 0..MaxLimiters
  PROVE  /\ Doing(p, f, i) \in CallType
         /\ Doing(p, f, i).at = p
         /\ Doing(p, f, i).via = f
         /\ Doing(p, f, i).mine = i
  BY DEF Doing, CallType

\* A call that comes has its front's limiter, or goes to the registry for it.
LEMMA CallStep ==
  ASSUME FrontInv, NEW c \in Calls, NEW f \in Fronts, Call(c, f)
  PROVE  FrontInv'
<1> USE FrontAssumption
<1>0. FrontTypeOK /\ Located /\ LocksHeld /\ Sleepers /\ OneLimiterPerName
  BY DEF FrontInv
<1> DEFINE i == limiter[f]
           s == IF i # 0 THEN Doing("holding", None, i) ELSE Doing("looking", f, 0)
<1>1. i \in 0..MaxLimiters
  BY <1>0 DEF FrontTypeOK
<1>2. /\ s \in CallType /\ s.mine = i
      /\ s.at = IF i = 0 THEN "looking" ELSE "holding"
      /\ i = 0 => s.via = f
  BY <1>1, DoingType DEF Stations
<1>3. Acquire(c, i, s)
  BY DEF Call
<1>4. call[c].at = "idle" /\ call[c] = Idle
  BY IdleType DEF Call
<1>5. UNCHANGED <<vars, registryVars, listenerVars>>
  BY DEF Call
<1> HIDE DEF i, s
<1>6. /\ call' \in [Calls -> CallType]
      /\ lock' \in [0..MaxLimiters -> LockType]
      /\ LocksHeld'
      /\ call'[c] \in {s, [s EXCEPT !.at = "waiting"], Idle}
      /\ \A d \in Calls \ {c} : call'[d] = call[d]
  BY <1>0, <1>1, <1>2, <1>3, <1>4, AcquireFacts
<1>7. /\ call'[c].mine \in {0, i}
      /\ call'[c].at \in {"idle", "waiting", "looking", "holding"}
      /\ call'[c].at = "looking" => call'[c].via \in Fronts
      /\ call'[c].at = "waiting" /\ call'[c].mine = 0 => call'[c].via \in Fronts
  BY <1>2, <1>6, IdleType DEF CallType
<1>8. FrontTypeOK'
  BY <1>0, <1>5, <1>6 DEF FrontTypeOK, registryVars, listenerVars
<1>9. Located'
  BY <1>0, <1>5, <1>6, <1>7 DEF Located, listenerVars
<1>10. Sleepers'
  BY <1>0, <1>4, <1>5, <1>6 DEF Sleepers, vars
<1>11. OneLimiterPerName'
  <2>1. \A g \in Fronts : limiter'[g] \in Users \cup {0}
    BY <1>0, <1>5, UserFacts DEF listenerVars
  <2>2. \A d \in Calls : call'[d].mine \in Users \cup {0, entry}
    BY <1>0, <1>6, <1>7, UserFacts DEF i
  <2> QED
    BY <1>0, <1>5, <1>8, <2>1, <2>2, NameStep DEF registryVars
<1> QED
  BY <1>6, <1>8, <1>9, <1>10, <1>11 DEF FrontInv

\* Nor does looking up the name, keeping the limiter or waking up upset anything.
LEMMA GoingStep ==
  ASSUME FrontInv, TypeOK, NEW c \in Calls,
         Find(c) \/ Keep(c) \/ GoOn(c) \/ GiveUp(c)
  PROVE  FrontInv'
<1> USE FrontAssumption
<1>0. FrontTypeOK /\ Located /\ LocksHeld /\ Sleepers /\ OneLimiterPerName
  BY DEF FrontInv
<1>1. PICK s \in CallType :
        /\ Goes(c, s) /\ s.via \in {None, call[c].via} /\ s.mine \in {0, call[c].mine}
        /\ \/ call[c].at = "looking" /\ s.at = "found" /\ s.via = call[c].via
           \/ call[c].at = "got" /\ s.at = "flushing" /\ s.via = call[c].via
              /\ limiter'[call[c].via] # 0
           \/ call[c].at = "asleep" /\ s.at = "idle"
  <2>1. CASE Find(c)
    <3> DEFINE s == [call[c] EXCEPT !.at = "found"]
    <3>0. call[c] \in CallType
      BY <1>0 DEF FrontTypeOK
    <3>1. s \in CallType /\ s.at = "found" /\ s.via = call[c].via /\ s.mine = call[c].mine
      BY <3>0 DEF CallType, Stations
    <3>2. Goes(c, s) /\ call[c].at = "looking"
      BY <2>1 DEF Find
    <3> QED
      BY <3>1, <3>2
  <2>2. CASE Keep(c)
    <3> DEFINE s == [call[c] EXCEPT !.at = "flushing"]
    <3>1. s \in CallType /\ s.at = "flushing" /\ s.via = call[c].via /\ s.mine = call[c].mine
      BY <1>0 DEF FrontTypeOK, CallType, Stations
    <3>2. Goes(c, s) /\ call[c].at = "got"
      BY <2>2 DEF Keep
    <3>3. limiter'[call[c].via] # 0
      BY <1>0, <2>2 DEF Keep, FrontTypeOK, Located
    <3> QED
      BY <3>1, <3>2, <3>3
  <2>3. CASE GoOn(c) \/ GiveUp(c)
    <3>1. call[c].at = "asleep"
      BY <1>0, <2>3 DEF GoOn, GiveUp, Wake, Cancel, Awake, Sleepers
    <3>2. Goes(c, Idle)
      BY <2>3 DEF GoOn, GiveUp
    <3> QED
      BY <3>1, <3>2, IdleType
  <2> QED
    BY <2>1, <2>2, <2>3
<1>2. /\ lock' = lock /\ made' = made /\ removed' = removed
      /\ LetGo \/ entry' = entry
  BY DEF Find, Keep, GoOn, GiveUp, registryVars
<1>3. \/ limiter' = limiter
      \/ call[c].at = "got" /\ limiter' = [limiter EXCEPT ![call[c].via] = call[c].mine]
  BY DEF Find, Keep, GoOn, GiveUp, listenerVars
<1>4. /\ call' \in [Calls -> CallType] /\ call'[c] = s
      /\ \A d \in Calls \ {c} : call'[d] = call[d]
  BY <1>0, <1>1, GoesFacts
<1>5. /\ limiter' \in [Fronts -> 0..MaxLimiters]
      /\ \A f \in Fronts : limiter'[f] = limiter[f]
                           \/ (limiter'[f] = call[c].mine /\ limiter'[f] # 0)
  <2>1. CASE limiter' = limiter
    BY <1>0, <2>1 DEF FrontTypeOK
  <2>2. CASE call[c].at = "got" /\ limiter' = [limiter EXCEPT ![call[c].via] = call[c].mine]
    <3>1. call[c].via \in Fronts /\ call[c].mine \in 0..MaxLimiters /\ call[c].mine # 0
      BY <1>0, <2>2, Indices DEF Located
    <3> QED
      BY <1>0, <2>2, <3>1 DEF FrontTypeOK
  <2> QED
    BY <1>3, <2>1, <2>2
<1>6. FrontTypeOK'
  BY <1>0, <1>2, <1>4, <1>5, LetGoType DEF FrontTypeOK
<1>7. Located'
  BY <1>0, <1>1, <1>4, <1>5 DEF Located
<1>8. LocksHeld'
  <2>1. call[c].at # "waiting" /\ Goes(c, s) /\ lock' = lock
    BY <1>1, <1>2
  <2>2. s.at \in {"idle", "flushing"} \/ (call[c].at = "looking" /\ s.at = "found")
    BY <1>1
  <2> QED
    BY <1>0, <2>1, <2>2, GoesKeepsLocks
<1>9. Sleepers'
  <2>1. \A d \in Calls \ {c} : left'[d] = left[d]
    BY DEF Find, Keep, GoOn, GiveUp, Wake, Cancel, vars, TypeOK
  <2>2. left'[c] # -1 => left'[c] = left[c] /\ call[c].at # "asleep"
    BY <1>0, <1>1 DEF Find, Keep, GoOn, GiveUp, Wake, Cancel, vars, TypeOK, Sleepers
  <2> QED
    BY <1>0, <1>4, <2>1, <2>2 DEF Sleepers
<1>10. OneLimiterPerName'
  <2>1. \A f \in Fronts : limiter'[f] \in Users \cup {0}
    BY <1>0, <1>5, UserFacts
  <2>2. \A d \in Calls : call'[d].mine \in Users \cup {0, entry}
    BY <1>0, <1>1, <1>4, UserFacts
  <2> QED
    BY <1>0, <1>2, <1>6, <2>1, <2>2, NameStep
<1> QED
  BY <1>6, <1>7, <1>8, <1>9, <1>10 DEF FrontInv

\* A call that goes on with the limiter its front has by now.
LEMMA FlushStep ==
  ASSUME FrontInv, NEW c \in Calls, Flush(c)
  PROVE  FrontInv'
<1> USE FrontAssumption
<1>0. FrontTypeOK /\ Located /\ LocksHeld /\ Sleepers /\ OneLimiterPerName
  BY DEF FrontInv
<1> DEFINE f == call[c].via
           i == limiter[f]
           s == Doing("holding", None, i)
<1>1. call[c].at = "flushing" /\ f \in Fronts /\ i \in 1..MaxLimiters
  BY <1>0 DEF Flush, Located, FrontTypeOK
<1>2. s \in CallType /\ s.mine = i /\ s.at = "holding"
  BY <1>1, DoingType DEF Stations
<1>3. Acquire(c, i, s)
  BY DEF Flush
<1>4. UNCHANGED <<vars, made, removed, limiter>> /\ LetGo
  BY DEF Flush
<1> HIDE DEF f, i, s
<1>5. /\ call' \in [Calls -> CallType]
      /\ lock' \in [0..MaxLimiters -> LockType]
      /\ LocksHeld'
      /\ call'[c] \in {s, [s EXCEPT !.at = "waiting"], Idle}
      /\ \A d \in Calls \ {c} : call'[d] = call[d]
  BY <1>0, <1>1, <1>2, <1>3, AcquireFacts
<1>6. /\ call'[c].mine \in {0, i}
      /\ call'[c].at \in {"idle", "waiting", "holding"}
      /\ call'[c].at = "waiting" => call'[c].mine # 0
  BY <1>1, <1>2, <1>5, IdleType DEF CallType
<1>7. FrontTypeOK'
  BY <1>0, <1>4, <1>5, LetGoType DEF FrontTypeOK
<1>8. Located'
  BY <1>0, <1>4, <1>5, <1>6 DEF Located
<1>9. Sleepers'
  BY <1>0, <1>1, <1>4, <1>5 DEF Sleepers, vars
<1>10. OneLimiterPerName'
  <2>1. i \in Users
    BY <1>0, <1>1, UserFacts DEF i
  <2>2. \A d \in Calls : call'[d].mine \in Users \cup {0, entry}
    BY <1>0, <1>5, <1>6, <2>1, UserFacts
  <2> QED
    BY <1>0, <1>4, <1>7, <2>2, UserFacts, NameStep
<1> QED
  BY <1>5, <1>7, <1>8, <1>9, <1>10 DEF FrontInv

\* A call that gives a lock back has done what it took the lock for.
LEMMA ReleaseKind ==
  ASSUME FrontInv, TypeOK, NEW c \in Calls,
         Fetch(c) \/ Create(c) \/ Use(c) \/ UseOld(c)
  PROVE  \E i \in 0..MaxLimiters, s \in CallType :
           /\ Release(c, i, s)
           /\ \/ i = 0 /\ call[c].at \in {"looking", "found"}
              \/ call[c].at = "holding" /\ call[c].mine = i
           /\ s.at \in {"idle", "got", "asleep"}
           /\ s.at = "got" => s.via \in Fronts /\ s.mine # 0
           /\ s.mine \in {0, call[c].mine, entry'}
           /\ \A d \in Calls : left'[d] # -1 => IF d = c THEN s.at = "asleep" ELSE left[d] # -1
<1> USE FrontAssumption
<1>1. FrontTypeOK /\ Located /\ Sleepers
  BY DEF FrontInv
<1>2. /\ 0 \in 0..MaxLimiters /\ call[c].mine \in 0..MaxLimiters
      /\ Doing("asleep", None, call[c].mine) \in CallType
      /\ Doing("asleep", None, call[c].mine).at = "asleep"
      /\ Doing("asleep", None, call[c].mine).mine = call[c].mine
  BY <1>1, Indices, DoingType DEF Stations
<1>3. CASE Fetch(c)
  <2> DEFINE s == IF entry = 0 THEN Idle ELSE Doing("got", call[c].via, entry)
  <2>1. call[c].at = "found" /\ call[c].via \in Fronts /\ Release(c, 0, s)
    BY <1>1, <1>3 DEF Fetch, Located
  <2>2. /\ s \in CallType /\ s.mine = entry
        /\ \/ s.at = "idle" /\ entry = 0
           \/ s.at = "got" /\ s.via \in Fronts /\ entry # 0
    BY <1>1, <2>1, IdleType, DoingType DEF FrontTypeOK, Stations
  <2>3. left' = left /\ left[c] = -1 /\ entry' = entry
    BY <1>1, <1>3 DEF Fetch, vars, registryVars, Sleepers
  <2> HIDE DEF s
  <2> QED
    BY <1>2, <1>3, <2>1, <2>2, <2>3
<1>4. CASE Create(c)
  <2> DEFINE s == Doing("got", call[c].via, made')
  <2>1. call[c].at = "looking" /\ call[c].via \in Fronts /\ Release(c, 0, s)
    BY <1>1, <1>4 DEF Create, Located
  <2>2. made' \in 1..MaxLimiters /\ entry' = made'
    BY <1>1, <1>4 DEF Create, FrontTypeOK
  <2>3. s \in CallType /\ s.at = "got" /\ s.via \in Fronts /\ s.mine = made'
    BY <2>1, <2>2, DoingType DEF Stations
  <2>4. left' = left /\ left[c] = -1
    BY <1>1, <1>4 DEF Create, Reset, Sleepers
  <2> HIDE DEF s
  <2> QED
    BY <1>2, <2>1, <2>2, <2>3, <2>4
<1>5. CASE UseOld(c)
  <2>1. call[c].at = "holding" /\ Release(c, call[c].mine, Idle)
    BY <1>5 DEF UseOld
  <2>2. left' = left /\ left[c] = -1
    BY <1>1, <1>5 DEF UseOld, vars, Sleepers
  <2> QED
    BY <1>2, <2>1, <2>2, IdleType
<1>6. CASE Use(c)
  <2>1. call[c].at = "holding" /\ left[c] = -1
    BY <1>1, <1>6 DEF Use, Sleepers
  <2>2. CASE Release(c, call[c].mine, Idle) /\ left' = left
    BY <1>2, <2>1, <2>2, IdleType
  <2>3. CASE Sleep(c) /\ Release(c, call[c].mine, Doing("asleep", None, call[c].mine))
    <3> DEFINE s == Doing("asleep", None, call[c].mine)
    <3>0. /\ s \in CallType /\ s.at = "asleep" /\ s.mine = call[c].mine
          /\ Release(c, call[c].mine, s)
      BY <1>2, <2>3
    <3> HIDE DEF s
    <3>1. \A d \in Calls \ {c} : left'[d] = left[d]
      BY <2>3 DEF Sleep, TypeOK
    <3> QED
      BY <1>2, <2>1, <3>0, <3>1
  <2> QED
    BY <1>6, <2>2, <2>3 DEF Use, Grant, Deny, Reset, vars
<1> QED
  BY <1>3, <1>4, <1>5, <1>6

\* A call that is through with a lock has a limiter, sleeps or is over.
LEMMA ReleaseStep ==
  ASSUME FrontInv, TypeOK, NEW c \in Calls,
         Fetch(c) \/ Create(c) \/ Use(c) \/ UseOld(c)
  PROVE  FrontInv'
<1> USE FrontAssumption
<1>0. FrontTypeOK /\ Located /\ LocksHeld /\ Sleepers /\ OneLimiterPerName
  BY DEF FrontInv
<1>1. limiter' = limiter /\ removed' = removed
  BY DEF Fetch, Create, Use, UseOld, registryVars, listenerVars
<1>2. /\ entry' \in 0..MaxLimiters /\ made' \in 0..MaxLimiters
      /\ Create(c) => entry = 0 /\ entry' # 0
      /\ ~ Create(c) => LetGo \/ entry' = entry
  <2>1. CASE Fetch(c)
    BY <1>0, <2>1 DEF Fetch, Create, FrontTypeOK, registryVars
  <2>2. CASE Create(c)
    BY <1>0, <2>2 DEF Create, Fetch, FrontTypeOK
  <2>3. CASE Use(c) \/ UseOld(c)
    BY <1>0, <2>3, LetGoType DEF Use, UseOld, Create, Fetch, FrontTypeOK
  <2> QED
    BY <2>1, <2>2, <2>3
<1>3. PICK i \in 0..MaxLimiters, s \in CallType :
        /\ Release(c, i, s)
        /\ \/ i = 0 /\ call[c].at \in {"looking", "found"}
           \/ call[c].at = "holding" /\ call[c].mine = i
        /\ s.at \in {"idle", "got", "asleep"}
        /\ s.at = "got" => s.via \in Fronts /\ s.mine # 0
        /\ s.mine \in {0, call[c].mine, entry'}
        /\ \A d \in Calls : left'[d] # -1 => IF d = c THEN s.at = "asleep" ELSE left[d] # -1
  BY ReleaseKind
<1>4. /\ call' \in [Calls -> CallType]
      /\ lock' \in [0..MaxLimiters -> LockType]
      /\ LocksHeld'
      /\ call'[c] = s
      /\ \A d \in Calls \ {c} :
           \/ call'[d] = call[d]
           \/ /\ call[d].at = "waiting"
              /\ call'[d].via = call[d].via /\ call'[d].mine = call[d].mine
              /\ call'[d].at = IF call[d].mine = 0 THEN "looking" ELSE "holding"
  BY <1>0, <1>3, ReleaseFacts
<1>5. FrontTypeOK'
  BY <1>0, <1>1, <1>2, <1>4 DEF FrontTypeOK
<1>6. Located'
  BY <1>0, <1>1, <1>3, <1>4 DEF Located
<1>7. Sleepers'
  BY <1>0, <1>3, <1>4 DEF Sleepers
<1>8. OneLimiterPerName'
  <2>1. \A d \in Calls \ {c} : call'[d].mine = call[d].mine
    BY <1>4
  <2>2. CASE ~ Create(c)
    <3>1. entry' \in {0, entry}
      BY <1>2, <2>2 DEF LetGo
    <3>2. \A d \in Calls : call'[d].mine \in Users \cup {0, entry}
      BY <1>0, <1>3, <1>4, <2>1, <3>1, UserFacts
    <3> QED
      BY <1>0, <1>1, <1>2, <1>5, <2>2, <3>2, UserFacts, NameStep
  <2>3. CASE Create(c)
    <3>1. \A j \in Users : j \in {0} \cup removed
      BY <1>0, <1>2, <2>3 DEF OneLimiterPerName, Users
    <3>2. \A j \in Users' : j \in Users \cup {0, entry'}
      BY <1>0, <1>1, <1>3, <1>4, <2>1, UserFacts DEF Users
    <3> QED
      BY <1>1, <3>1, <3>2 DEF OneLimiterPerName, Users
  <2> QED
    BY <2>2, <2>3
<1> QED
  BY <1>4, <1>5, <1>6, <1>7, <1>8 DEF FrontInv

-----------------------------------------------------------------------------
(* The steps of the application and of the clock *)

\* Nothing the application does touches a call or a lock, nor does a call that
\* goes through the listeners.
LEMMA OutsideStep ==
  ASSUME FrontInv, TypeOK,
         \/ \E c \in Calls : NextListener(c) \/ Attach(c)
         \/ \E f \in Fronts : Register(f) \/ Drop(f)
         \/ Follow \/ RegistryRemove \/ Pass \/ UNCHANGED allVars
  PROVE  FrontInv'
<1> USE FrontAssumption
<1>0. FrontTypeOK /\ Located /\ LocksHeld /\ Sleepers /\ OneLimiterPerName
  BY DEF FrontInv
<1>1. UNCHANGED <<made, call, lock>>
  BY DEF NextListener, Attach, Register, AddListener, RemoveListener, Follow,
         Drop, RegistryRemove, Pass, allVars, frontVars, registryVars
<1>2. /\ limiter' \in [Fronts -> 0..MaxLimiters]
      /\ \A f \in Fronts : \/ limiter'[f] = limiter[f]
                           \/ limiter'[f] = 0 /\ \A c \in Calls : call[c].via # f
  <2>1. CASE limiter' = limiter
    BY <1>0, <2>1 DEF FrontTypeOK
  <2>2. ASSUME NEW f \in Fronts, Drop(f)
        PROVE  /\ limiter' \in [Fronts -> 0..MaxLimiters]
               /\ \A g \in Fronts : \/ limiter'[g] = limiter[g]
                                    \/ limiter'[g] = 0 /\ \A c \in Calls : call[c].via # g
    BY <1>0, <2>2 DEF Drop, FrontTypeOK
  <2> QED
    BY <2>1, <2>2 DEF NextListener, Attach, Register, AddListener, RemoveListener,
                      Follow, RegistryRemove, Pass,
                      allVars, frontVars, listenerVars
<1>3. \/ removed' = removed /\ (LetGo \/ entry' = entry)
      \/ entry' = 0 /\ removed' = removed \cup {entry} /\ limiter' = limiter
  BY DEF NextListener, Attach, Register, AddListener, RemoveListener, Follow,
         Drop, RegistryRemove, Pass,
         allVars, frontVars, registryVars, listenerVars
<1>4. entry' \in 0..MaxLimiters
  BY <1>0, <1>3, LetGoType DEF FrontTypeOK
<1>5. FrontTypeOK'
  BY <1>0, <1>1, <1>2, <1>4 DEF FrontTypeOK
<1>6. Located'
  BY <1>0, <1>1, <1>2 DEF Located
<1>7. LocksHeld'
  BY <1>0, <1>1 DEF LocksHeld
<1>8. Sleepers'
  <2>1. \A d \in Calls : left'[d] # -1 => left[d] # -1
    <3>1. CASE left' = left
      BY <3>1
    <3>2. CASE Pass
      BY <3>2 DEF Pass, Tick, TypeOK
    <3> QED
      BY <3>1, <3>2 DEF NextListener, Attach, Register, AddListener, RemoveListener,
                            Follow, Drop, RegistryRemove, vars, allVars
  <2> QED
    BY <1>0, <1>1, <2>1 DEF Sleepers
<1>9. OneLimiterPerName'
  <2>1. CASE removed' = removed /\ (LetGo \/ entry' = entry)
    <3>1. \A f \in Fronts : limiter'[f] \in Users \cup {0}
      BY <1>0, <1>2, UserFacts
    <3>2. \A d \in Calls : call'[d].mine \in Users \cup {0, entry}
      BY <1>0, <1>1, UserFacts
    <3> QED
      BY <1>0, <1>5, <2>1, <3>1, <3>2, NameStep
  <2>2. CASE entry' = 0 /\ removed' = removed \cup {entry} /\ limiter' = limiter
    BY <1>0, <1>1, <2>2 DEF OneLimiterPerName
  <2> QED
    BY <1>3, <2>1, <2>2
<1> QED
  BY <1>5, <1>6, <1>7, <1>8, <1>9 DEF FrontInv

-----------------------------------------------------------------------------
(* The theorems *)

\* Every step of the fronts keeps their invariant.
LEMMA FrontInvStep == FrontInv /\ IInv /\ [FrontNext]_allVars => FrontInv'
<1> SUFFICES ASSUME FrontInv, IInv, [FrontNext]_allVars PROVE FrontInv'
  OBVIOUS
<1>0. TypeOK
  BY DEF IInv
<1>1. ASSUME NEW c \in Calls, NEW f \in Fronts, Call(c, f) PROVE FrontInv'
  BY <1>1, CallStep
<1>2. ASSUME NEW c \in Calls, Find(c) \/ Keep(c) \/ GoOn(c) \/ GiveUp(c) PROVE FrontInv'
  BY <1>0, <1>2, GoingStep
<1>3. ASSUME NEW c \in Calls, Fetch(c) \/ Create(c) \/ Use(c) \/ UseOld(c) PROVE FrontInv'
  BY <1>0, <1>3, ReleaseStep
<1>4. ASSUME NEW c \in Calls, Flush(c) PROVE FrontInv'
  BY <1>4, FlushStep
<1>5. CASE \/ \E c \in Calls : NextListener(c) \/ Attach(c)
           \/ \E f \in Fronts : Register(f) \/ Drop(f)
           \/ Follow \/ RegistryRemove \/ Pass \/ UNCHANGED allVars
  BY <1>0, <1>5, OutsideStep
<1> QED
  BY <1>1, <1>2, <1>3, <1>4, <1>5, FrontAssumption DEF FrontNext, Register

\* Both the limiter's invariant and that of its fronts hold at all times.
LEMMA AlwaysFrontInv == FrontSpec => [](FrontInv /\ IInv)
<1>1. FrontSpec => []IInv
  BY SharedLimiter, AlwaysIInv, PTL
<1> QED
  BY <1>1, FrontInvInit, FrontInvStep, PTL DEF FrontSpec

\* All fronts and calls of a name use the limiter that the registry has, unless
\* they have theirs from before a remove() (OneLimiterPerName).
THEOREM OneLimiter == FrontSpec => []OneLimiterPerName
<1>1. FrontInv => OneLimiterPerName
  BY DEF FrontInv
<1> QED
  BY <1>1, AlwaysFrontInv, PTL

\* A lock that has lost its wake-up keeps its waiter in every step.
LEMMA LostStep ==
  ASSUME FrontInv, IInv, [FrontNext]_allVars, NEW i \in 0..MaxLimiters, Lost(i)
  PROVE  Lost(i)' /\ call'[lock[i].waiter] = call[lock[i].waiter]
<1> USE FrontAssumption
<1> DEFINE w == lock[i].waiter
<1>0. FrontTypeOK /\ Located /\ LocksHeld /\ Sleepers
  BY DEF FrontInv
<1>1. w \in Calls /\ call[w].at = "waiting" /\ lock[i].holder = None /\ w # None
  BY <1>0 DEF Lost, LocksHeld, FrontTypeOK, LockType
<1> HIDE DEF w
<1>2. ASSUME NEW c \in Calls, NEW s \in CallType, call[c].at # "waiting",
             Goes(c, s), lock' = lock
      PROVE  Lost(i)' /\ call'[w] = call[w]
    BY <1>0, <1>1, <1>2, GoesFacts DEF Lost
<1>3. ASSUME NEW c \in Calls, NEW f \in Fronts, Call(c, f)
      PROVE  Lost(i)' /\ call'[w] = call[w]
  <2> DEFINE j == limiter[f]
             s == IF j # 0 THEN Doing("holding", None, j) ELSE Doing("looking", f, 0)
  <2>1. /\ j \in 0..MaxLimiters /\ s \in CallType /\ s.mine = j
        /\ s.at = IF j = 0 THEN "looking" ELSE "holding"
    BY <1>0, DoingType DEF FrontTypeOK, Stations
  <2>2. Acquire(c, j, s) /\ call[c].at = "idle"
    BY <1>3, IdleType DEF Call
  <2> HIDE DEF j, s
  <2> QED
    BY <1>0, <1>1, <2>1, <2>2, AcquireFacts
<1>4. ASSUME NEW c \in Calls, Flush(c) PROVE Lost(i)' /\ call'[w] = call[w]
  <2> DEFINE j == limiter[call[c].via]
             s == Doing("holding", None, j)
  <2>1. /\ j \in 1..MaxLimiters /\ s \in CallType /\ s.mine = j /\ s.at = "holding"
    BY <1>0, <1>4, DoingType DEF Flush, Located, FrontTypeOK, Stations
  <2>2. Acquire(c, j, s) /\ call[c].at = "flushing"
    BY <1>4 DEF Flush
  <2> HIDE DEF j, s
  <2> QED
    BY <1>0, <1>1, <2>1, <2>2, AcquireFacts
<1>5. ASSUME NEW c \in Calls, Find(c) \/ Keep(c) \/ GoOn(c) \/ GiveUp(c)
      PROVE  Lost(i)' /\ call'[w] = call[w]
  <2>1. lock' = lock /\ \A d \in Calls \ {c} : call'[d] = call[d]
    BY <1>0, <1>5 DEF Find, Keep, GoOn, GiveUp, Goes, FrontTypeOK
  <2>2. c # w
    BY <1>0, <1>1, <1>5 DEF Find, Keep, GoOn, GiveUp, Wake, Cancel, Awake, Sleepers
  <2> QED
    BY <1>1, <2>1, <2>2 DEF Lost, w
<1>6. ASSUME NEW c \in Calls, Fetch(c) \/ Create(c) \/ Use(c) \/ UseOld(c)
      PROVE  Lost(i)' /\ call'[w] = call[w]
  <2>1. PICK j \in 0..MaxLimiters, s \in CallType :
          /\ Release(c, j, s)
          /\ \/ j = 0 /\ call[c].at \in {"looking", "found"}
             \/ call[c].at = "holding" /\ call[c].mine = j
          /\ s.at \in {"idle", "got", "asleep"}
    BY <1>6, ReleaseKind DEF FrontInv, IInv
  <2> QED
    BY <1>0, <1>1, <2>1, ReleaseFacts DEF w
<1>7. ASSUME UNCHANGED <<call, lock>> PROVE Lost(i)' /\ call'[w] = call[w]
  BY <1>1, <1>7 DEF Lost
<1>8. CASE \/ \E c \in Calls : NextListener(c) \/ Attach(c)
           \/ \E f \in Fronts : Register(f) \/ Drop(f)
           \/ Follow \/ RegistryRemove \/ Pass \/ UNCHANGED allVars
  BY <1>7, <1>8 DEF NextListener, Attach, Register, AddListener, RemoveListener, Follow,
     Drop, RegistryRemove, Pass, allVars, frontVars
<1> QED
  BY <1>3, <1>4, <1>5, <1>6, <1>8, FrontAssumption DEF FrontNext, Register, w

\* A limiter behind a lock that has lost its wake-up gives nothing away.
LEMMA LostLimiterStep ==
  ASSUME FrontInv, IInv, [FrontNext]_allVars, Lost(made), made' = made
  PROVE  permissions' = permissions /\ granted' <= granted
<1> USE FrontAssumption
<1>0. /\ FrontTypeOK /\ LocksHeld /\ TypeOK
      /\ made \in Nat /\ granted \in Nat /\ granted <= granted /\ 0 <= granted
  BY Config DEF FrontInv, FrontTypeOK, IInv, TypeOK
<1>1. ASSUME NEW c \in Calls, Use(c) PROVE FALSE
  <2>1. call[c].at = "holding" /\ call[c].mine = made
    BY <1>1 DEF Use
  <2> QED
    BY <1>0, <2>1 DEF LocksHeld, Lost
<1>2. ASSUME NEW c \in Calls, Create(c) PROVE FALSE
  BY <1>0, <1>2 DEF Create
<1>3. ASSUME UNCHANGED <<permissions, granted>>
      PROVE  permissions' = permissions /\ granted' <= granted
  BY <1>0, <1>3
<1>4. CASE Pass
  BY <1>0, <1>4 DEF Pass, Tick
<1>5. ASSUME NEW c \in Calls, NEW f \in Fronts, Call(c, f)
      PROVE  UNCHANGED <<permissions, granted>>
  BY <1>5 DEF Call, vars
<1>6. ASSUME NEW c \in Calls,
             \/ Find(c) \/ Fetch(c) \/ Keep(c) \/ Flush(c) \/ UseOld(c)
             \/ GoOn(c) \/ GiveUp(c)
      PROVE  UNCHANGED <<permissions, granted>>
  BY <1>6 DEF Find, Fetch, Keep, Flush, UseOld, GoOn, GiveUp, Wake, Cancel, vars
<1>7. CASE \/ \E c \in Calls : NextListener(c) \/ Attach(c)
           \/ \E f \in Fronts : Register(f) \/ Drop(f)
           \/ Follow \/ RegistryRemove \/ UNCHANGED allVars
  BY <1>3, <1>7 DEF NextListener, Attach, Register, AddListener, RemoveListener, Follow,
     Drop, RegistryRemove, allVars, vars
<1> QED
  BY <1>1, <1>2, <1>3, <1>4, <1>5, <1>6, <1>7, FrontAssumption DEF FrontNext, Register

\* A lock that was released while the loop of its waiter slept is never taken
\* again: the waiter stays where it is, and the limiter behind the lock grants
\* nothing any more (LostForEver).
THEOREM WakeUpLost == FrontSpec => LostForEver
<1> DEFINE A == /\ \A i \in 0..MaxLimiters :
                     Lost(i) => Lost(i)' /\ call'[lock[i].waiter] = call[lock[i].waiter]
                /\ Lost(made) /\ made' = made
                     => permissions' = permissions /\ granted' <= granted
<1>1. FrontInv /\ IInv /\ [FrontNext]_allVars => [A]_allVars
  BY LostStep, LostLimiterStep
<1>2. LostForEver <=> [][A]_allVars
  BY DEF LostForEver
<1> QED
  BY <1>1, <1>2, AlwaysFrontInv, PTL DEF FrontSpec

-----------------------------------------------------------------------------
(* The listeners *)

\* The call holds lock i for what it does.
Holds(c, i) ==
  \/ i = 0 /\ call[c].at \in {"looking", "found"}
  \/ call[c].at = "holding" /\ call[c].mine = i

\* Tasks: one at most is in the middle of something, so that none ever finds a
\* lock taken, nor does the application change a list meanwhile; a front that a
\* task gets a limiter for has none until then.
Alone ==
  /\ \A c, d \in Calls : c # d => call[c].at \in Resting \/ call[d].at \in Resting
  /\ \A c \in Calls :
       /\ call[c].at # "waiting"
       /\ call[c].at \in {"looking", "found", "got"} => limiter[call[c].via] = 0
  /\ \A i \in 0..MaxLimiters : lock[i].holder # None => Holds(lock[i].holder, i)
  /\ application # Free => \A c \in Calls : call[c].at \in Resting

\* The lists of listeners, the loops through them and the registrations.
ListenType ==
  /\ pending \in [Fronts -> Seq(Listeners)]
  /\ attached \in [Fronts -> [Limiters -> Seq(Listeners)]]
  /\ turn \in [Calls -> [next : Nat \ {0}, item : Listeners \cup {None}]]
  /\ application # Free
       => /\ application.at \in {"adding", "removing"}
          /\ application.via \in Fronts /\ application.item \in Listeners
          /\ application.at = "removing" => application.via \in Revocable

\* What the limiter of front f has in its list through f.
Has(f) == attached[f][limiter[f]]

Flushes(c, f) == call[c].via = f /\ call[c].at = "flushing"

\* The p-th listener of f is attached, or somebody is about to attach it.
Served(f, p) ==
  \/ pending[f][p] \in ToSet(Has(f))
  \/ \E c \in Calls : Flushes(c, f) /\ (turn[c].next <= p \/ turn[c].item = pending[f][p])
  \/ application.via = f /\ application.item = pending[f][p]

Covered ==
  \A f \in Fronts \ Revocable :
    limiter[f] # 0 => \A p \in 1..Len(pending[f]) : Served(f, p)

\* How many listeners a loop has handed to the limiter.
Handed(c) == IF turn[c].item = None THEN turn[c].next - 1 ELSE turn[c].next - 2

\* Tasks: the limiter has what the front has, but for what the loop has still to
\* hand over, or for the one listener that the application is at.
Aligned ==
  /\ \A f \in Fronts :
       /\ limiter[f] = 0 => attached[f] = NoListeners
       /\ limiter[f] # 0 /\ Settled(f) => Has(f) = pending[f]
       /\ limiter[f] # 0 /\ application.via = f
            => pending[f] = IF application.at = "adding"
                              THEN Append(Has(f), application.item)
                              ELSE RemoveFirst(Has(f), application.item)
  /\ \A c \in Calls, f \in Fronts :
       Flushes(c, f)
         => /\ Has(f) = SubSeq(pending[f], 1, Handed(c))
            /\ turn[c].next <= Len(pending[f]) + 1
            /\ turn[c].item # None => turn[c].next > 1
                                       /\ turn[c].item = pending[f][turn[c].next - 1]

ListenState ==
  /\ ListenType
  /\ Covered
  /\ ~ threaded => Aligned

ListenInv ==
  /\ threaded \in BOOLEAN
  /\ ListenState
  /\ ~ threaded => Alone

LEMMA ListTypes ==
  ASSUME ListenType, NEW f \in Fronts
  PROVE  /\ pending[f] \in Seq(Listeners) /\ Len(pending[f]) \in Nat
         /\ \A p \in 1..Len(pending[f]) : p \in Nat /\ pending[f][p] \in Listeners
         /\ attached[f] \in [Limiters -> Seq(Listeners)]
         /\ \A i \in Limiters : attached[f][i] \in Seq(Listeners)
<1>1. pending[f] \in Seq(Listeners)
  BY DEF ListenType
<1>2. Len(pending[f]) \in Nat
  BY <1>1, LenProperties
<1>3. \A p \in 1..Len(pending[f]) : p \in Nat /\ pending[f][p] \in Listeners
  BY <1>1, <1>2, ElementOfSeq
<1>4. attached[f] \in [Limiters -> Seq(Listeners)]
  BY DEF ListenType
<1>5. \A i \in Limiters : attached[f][i] \in Seq(Listeners)
  BY <1>4
<1> QED
  BY <1>1, <1>2, <1>3, <1>4, <1>5

\* One limiter's list changes.
ListBecomes(f, i, r) == attached' = [attached EXCEPT ![f] = [attached[f] EXCEPT ![i] = r]]

OnlyListIs(f, i, r) ==
  /\ attached' \in [Fronts -> [Limiters -> Seq(Listeners)]]
  /\ attached'[f][i] = r
  /\ \A g \in Fronts \ {f} : attached'[g] = attached[g]

LEMMA ListChanged ==
  ASSUME ListenType, NEW f \in Fronts, NEW i \in Limiters, NEW r \in Seq(Listeners),
         ListBecomes(f, i, r)
  PROVE  OnlyListIs(f, i, r)
<1>1. attached[f] \in [Limiters -> Seq(Listeners)] /\ DOMAIN attached = Fronts
  BY ListTypes DEF ListenType
<1>2. [attached[f] EXCEPT ![i] = r] \in [Limiters -> Seq(Listeners)]
  BY <1>1
<1>3. [attached[f] EXCEPT ![i] = r][i] = r
  BY <1>1
<1> DEFINE a == [attached[f] EXCEPT ![i] = r]
<1>4. a \in [Limiters -> Seq(Listeners)] /\ a[i] = r /\ attached' = [attached EXCEPT ![f] = a]
  BY <1>2, <1>3 DEF ListBecomes
<1> HIDE DEF a
<1>5. attached'[f] = a /\ \A g \in Fronts \ {f} : attached'[g] = attached[g]
  BY <1>1, <1>4
<1>6. attached' \in [Fronts -> [Limiters -> Seq(Listeners)]]
  BY <1>4 DEF ListenType
<1> QED
  BY <1>4, <1>5, <1>6 DEF OnlyListIs

\* The task that takes a step holds the locks that are held, for what it does.
LEMMA OnlyHolder ==
  ASSUME FrontInv, Alone, ~ threaded, NEW c \in Calls \cup {None}, MayStep(c)
  PROVE  /\ \A d \in Calls \ {c} : call[d].at \in Resting
         /\ \A i \in 0..MaxLimiters :
              /\ lock[i].waiter = None
              /\ lock[i].holder # None => lock[i].holder = c /\ Holds(c, i)
<1>0. FrontTypeOK /\ LocksHeld
  BY DEF FrontInv
<1>1. \A d \in Calls \ {c} : call[d].at \in Resting
  BY DEF MayStep
<1>2. ASSUME NEW i \in 0..MaxLimiters PROVE lock[i].waiter = None
  BY <1>0, WaiterFacts DEF Alone
<1>3. ASSUME NEW i \in 0..MaxLimiters, lock[i].holder # None
      PROVE  lock[i].holder = c /\ Holds(c, i)
  <2>1. lock[i].holder \in Calls /\ Holds(lock[i].holder, i)
    BY <1>0, <1>3 DEF Alone, FrontTypeOK, LockType
  <2> QED
    BY <1>1, <2>1 DEF Holds, Resting
<1> QED
  BY <1>1, <1>2, <1>3

\* A task that asks for a lock gets it.
LEMMA AcquireAlone ==
  ASSUME FrontInv, Alone, ~ threaded, NEW c \in Calls, MayStep(c),
         call[c].at \in {"idle", "flushing"},
         NEW i \in 0..MaxLimiters, NEW s \in CallType, Acquire(c, i, s)
  PROVE  /\ call'[c] = s /\ \A d \in Calls \ {c} : call'[d] = call[d]
         /\ \A j \in 0..MaxLimiters : lock'[j].holder # None => lock'[j].holder = c /\ j = i
<1>0. FrontTypeOK /\ LocksHeld
  BY DEF FrontInv
<1>1. \A j \in 0..MaxLimiters : lock[j].waiter = None /\ lock[j].holder = None
  BY OnlyHolder DEF Holds
<1>2. lock' = [lock EXCEPT ![i].holder = c] /\ Goes(c, s)
  BY <1>1 DEF Acquire
<1>3. LockBecomes(i, TakenBy(lock[i], c))
  BY <1>2 DEF LockBecomes, TakenBy
<1>4. lock[i] \in LockType
  BY <1>0 DEF FrontTypeOK
<1>5. TakenBy(lock[i], c) \in LockType /\ TakenBy(lock[i], c).holder = c
  BY <1>4, LockTaken
<1>6. lock'[i].holder = c /\ \A j \in 0..MaxLimiters \ {i} : lock'[j] = lock[j]
  BY <1>0, <1>3, <1>5, LockUpdate
<1>7. call'[c] = s /\ \A d \in Calls \ {c} : call'[d] = call[d]
  BY <1>0, <1>2, GoesFacts
<1> QED
  BY <1>1, <1>6, <1>7

\* A task that gives its lock back has none any more, and wakes nobody.
LEMMA ReleaseAlone ==
  ASSUME FrontInv, Alone, ~ threaded, NEW c \in Calls, MayStep(c),
         NEW i \in 0..MaxLimiters, NEW s \in CallType, Holds(c, i), Release(c, i, s)
  PROVE  /\ call'[c] = s /\ \A d \in Calls \ {c} : call'[d] = call[d]
         /\ \A j \in 0..MaxLimiters : lock'[j].holder = None
<1>0. FrontTypeOK
  BY DEF FrontInv
<1>1. \A j \in 0..MaxLimiters :
        lock[j].waiter = None /\ (lock[j].holder # None => Holds(c, j))
  BY OnlyHolder
<1>2. lock' = [lock EXCEPT ![i].holder = None] /\ Goes(c, s)
  BY <1>1 DEF Release
<1>3. \A j \in 0..MaxLimiters : j # i => lock[j].holder = None
  BY <1>1 DEF Holds
<1>4. \A j \in 0..MaxLimiters : lock'[j].holder = None
  BY <1>0, <1>2, <1>3 DEF FrontTypeOK, LockType
<1>5. call'[c] = s /\ \A d \in Calls \ {c} : call'[d] = call[d]
  BY <1>0, <1>2, GoesFacts
<1> QED
  BY <1>4, <1>5

\* After a step of a task the tasks are still alone if it minds the fronts.
LEMMA AloneStep ==
  ASSUME FrontInv, Alone, ~ threaded, NEW c \in Calls, MayStep(c),
         application' = application,
         \A d \in Calls \ {c} : call'[d] = call[d],
         call'[c].at # "waiting",
         call'[c].at \in {"looking", "found", "got"} => limiter'[call'[c].via] = 0,
         \A i \in 0..MaxLimiters : lock'[i].holder # None => lock'[i].holder = c /\ Holds(c, i)'
  PROVE  Alone'
<1>1. \A d \in Calls \ {c} : call'[d].at \in Resting \ {"waiting"}
  BY OnlyHolder DEF Alone
<1>2. \A d \in Calls, e \in Calls : d # e => call'[d].at \in Resting \/ call'[e].at \in Resting
  BY <1>1
<1>3. ASSUME NEW d \in Calls
      PROVE  /\ call'[d].at # "waiting"
             /\ call'[d].at \in {"looking", "found", "got"} => limiter'[call'[d].via] = 0
  BY <1>1 DEF Resting
<1>4. application' = Free
  BY DEF MayStep
<1> QED
  BY <1>2, <1>3, <1>4 DEF Alone

\* Lists of listeners and loops stay as they are while nobody is at them.
LEMMA ListenersAsTheyAre ==
  ASSUME ListenState, UNCHANGED <<threaded, listenerVars>>,
         \A c \in Calls : call[c].at = "flushing" \/ call'[c].at = "flushing"
                          => call'[c] = call[c]
  PROVE  ListenState'
<1>1. UNCHANGED <<threaded, limiter, pending, attached, turn, application>>
  BY DEF listenerVars
<1>2. ListenType'
  BY <1>1 DEF ListenState, ListenType
<1>3. \A c \in Calls, f \in Fronts : Flushes(c, f)' <=> Flushes(c, f)
  BY DEF Flushes
<1>4. Covered'
  BY <1>1, <1>3 DEF ListenState, Covered, Served, Has
<1>5. \A f \in Fronts : Settled(f)' => Settled(f)
  BY <1>1 DEF Settled
<1>6. Aligned => Aligned'
  BY <1>1, <1>3, <1>5 DEF Aligned, Has, Handed
<1> QED
  BY <1>1, <1>2, <1>4, <1>6 DEF ListenState

\* A call that comes attaches nothing, and a task that comes is alone.
LEMMA CallListens ==
  ASSUME FrontInv, ListenInv, NEW c \in Calls, NEW f \in Fronts, Call(c, f)
  PROVE  ListenInv'
<1> DEFINE i == limiter[f]
           s == IF i # 0 THEN Doing("holding", None, i) ELSE Doing("looking", f, 0)
<1>0. FrontTypeOK /\ LocksHeld
  BY DEF FrontInv
<1>1. i \in 0..MaxLimiters
  BY <1>0 DEF FrontTypeOK
<1>2. /\ s \in CallType /\ s.mine = i
      /\ s.at = IF i = 0 THEN "looking" ELSE "holding"
      /\ i = 0 => s.via = f
  BY <1>1, DoingType, FrontAssumption DEF Stations
<1>3. Acquire(c, i, s) /\ call[c].at = "idle" /\ MayStep(c)
  BY IdleType DEF Call
<1>4. UNCHANGED <<threaded, listenerVars>> /\ UNCHANGED <<limiter, application>>
  BY DEF Call, listenerVars
<1>5. i = 0 => limiter[f] = 0
  OBVIOUS
<1> HIDE DEF i, s
<1>6. /\ \A d \in Calls \ {c} : call'[d] = call[d]
      /\ call'[c].at \in {"looking", "holding", "waiting", "idle"}
  <2>1. /\ \A d \in Calls \ {c} : call'[d] = call[d]
        /\ call'[c] \in {s, [s EXCEPT !.at = "waiting"], Idle}
    BY <1>0, <1>1, <1>2, <1>3, AcquireFacts
  <2> QED
    BY <1>2, <2>1, IdleType DEF CallType
<1>7. ListenState'
  BY <1>3, <1>4, <1>6, ListenersAsTheyAre DEF ListenInv
<1>8. ASSUME ~ threaded PROVE Alone'
  <2>1. /\ call'[c] = s
        /\ \A j \in 0..MaxLimiters : lock'[j].holder # None => lock'[j].holder = c /\ j = i
    BY <1>1, <1>2, <1>3, <1>8, AcquireAlone DEF ListenInv
  <2>2. /\ call'[c].at # "waiting"
        /\ call'[c].at \in {"looking", "found", "got"} => limiter'[call'[c].via] = 0
    BY <1>2, <1>4, <1>5, <2>1
  <2>3. \A j \in 0..MaxLimiters :
          lock'[j].holder # None => lock'[j].holder = c /\ Holds(c, j)'
    BY <1>2, <2>1 DEF Holds
  <2> QED
    BY <1>3, <1>4, <1>6, <1>8, <2>2, <2>3, AloneStep DEF ListenInv
<1> QED
  BY <1>4, <1>7, <1>8 DEF ListenInv

\* A call goes on with what it is to do when it gives a lock back.
LEMMA GoesOnWith ==
  ASSUME FrontTypeOK, LocksHeld, NEW c \in Calls, call[c].at # "waiting",
         NEW i \in 0..MaxLimiters, NEW s, Release(c, i, s)
  PROVE  call'[c] = s
<1>1. CASE Goes(c, s)
  BY <1>1 DEF Goes, FrontTypeOK
<1>2. CASE lock[i].waiter # None /\ call' = [call EXCEPT ![c] = s,
              ![lock[i].waiter].at = IF i = 0 THEN "looking" ELSE "holding"]
  <2>1. lock[i].waiter # c
    BY <1>2, WaiterFacts
  <2> QED
    BY <1>2, <2>1 DEF FrontTypeOK
<1> QED
  BY <1>1, <1>2 DEF Release

\* Nor does one that gives a lock back.
LEMMA ReleaseListens ==
  ASSUME FrontInv, TypeOK, ListenInv, NEW c \in Calls,
         Fetch(c) \/ Create(c) \/ Use(c) \/ UseOld(c)
  PROVE  ListenInv'
<1>0. FrontTypeOK /\ LocksHeld
  BY DEF FrontInv
<1>1. UNCHANGED <<threaded, listenerVars>> /\ UNCHANGED <<limiter, application>> /\ MayStep(c)
  BY DEF Fetch, Create, Use, UseOld, listenerVars
<1>2. PICK i \in 0..MaxLimiters, s \in CallType :
        /\ Release(c, i, s)
        /\ \/ i = 0 /\ call[c].at \in {"looking", "found"}
           \/ call[c].at = "holding" /\ call[c].mine = i
        /\ s.at \in {"idle", "got", "asleep"}
  BY ReleaseKind
<1>3. /\ call'[c] = s
      /\ \A d \in Calls \ {c} :
           \/ call'[d] = call[d]
           \/ call[d].at = "waiting" /\ call'[d].at \in {"looking", "holding"}
  BY <1>0, <1>2, ReleaseFacts
<1>4. ListenState'
  BY <1>1, <1>2, <1>3, ListenersAsTheyAre DEF ListenInv
<1>5. ASSUME ~ threaded PROVE Alone'
  <2>1. /\ call'[c] = s /\ \A d \in Calls \ {c} : call'[d] = call[d]
        /\ \A j \in 0..MaxLimiters : lock'[j].holder = None
    BY <1>1, <1>2, <1>5, ReleaseAlone DEF ListenInv, Holds
  <2>2. call'[c].at = "got" => limiter'[call'[c].via] = 0
    <3>1. CASE Fetch(c) \/ Create(c)
      <4>1. Release(c, 0, IF entry = 0 THEN Idle ELSE Doing("got", call[c].via, entry))
            \/ Release(c, 0, Doing("got", call[c].via, made'))
        BY <3>1 DEF Fetch, Create
      <4>2. call'[c] \in {Idle, Doing("got", call[c].via, entry), Doing("got", call[c].via, made')}
        <5>1. call[c].at # "waiting" /\ 0 \in 0..MaxLimiters
          BY <3>1, FrontAssumption DEF Fetch, Create
        <5>2. CASE Release(c, 0, Doing("got", call[c].via, made'))
          BY <1>0, <5>1, <5>2, GoesOnWith
        <5>3. CASE Release(c, 0, IF entry = 0 THEN Idle ELSE Doing("got", call[c].via, entry))
          BY <1>0, <5>1, <5>3, GoesOnWith
        <5> QED
          BY <4>1, <5>2, <5>3
      <4>3. call'[c].at = "got" => call'[c].via = call[c].via
        BY <4>2, IdleType DEF Doing
      <4>4. call[c].at \in {"looking", "found"}
        BY <3>1 DEF Fetch, Create
      <4> QED
        BY <1>1, <1>5, <4>3, <4>4 DEF ListenInv, Alone
    <3>2. CASE Use(c) \/ UseOld(c)
      <4>1. PICK r \in {Idle, Doing("asleep", None, call[c].mine)} : Release(c, call[c].mine, r)
        BY <3>2 DEF Use, UseOld
      <4>2. call[c].at # "waiting" /\ call[c].mine \in 0..MaxLimiters
        BY <1>0, <3>2 DEF Use, UseOld, FrontTypeOK, CallType
      <4>3. call'[c] = r
        BY <1>0, <4>1, <4>2, GoesOnWith
      <4> QED
        BY <4>1, <4>3, IdleType DEF Doing
    <3> QED
      BY <3>1, <3>2
  <2> QED
    BY <1>1, <1>2, <1>5, <2>1, <2>2, AloneStep DEF ListenInv
<1> QED
  BY <1>1, <1>4, <1>5 DEF ListenInv

\* Nor looking at the registry or waking up; and who keeps a limiter is about
\* to attach the listener.
LEMMA GoingListens ==
  ASSUME FrontInv, TypeOK, ListenInv, NEW c \in Calls,
         Find(c) \/ Keep(c) \/ GoOn(c) \/ GiveUp(c)
  PROVE  ListenInv'
<1>0. FrontTypeOK /\ Located /\ LocksHeld /\ Sleepers
  BY DEF FrontInv
<1>1. CASE Find(c)
  <2> DEFINE s == [call[c] EXCEPT !.at = "found"]
  <2>1. call[c] \in CallType
    BY <1>0 DEF FrontTypeOK
  <2>2. s \in CallType /\ s.at = "found" /\ s.via = call[c].via
    BY <2>1 DEF CallType, Stations
  <2>3. /\ call[c].at = "looking" /\ MayStep(c) /\ Goes(c, s)
        /\ UNCHANGED <<threaded, listenerVars>> /\ UNCHANGED <<limiter, application, lock>>
    BY <1>1 DEF Find, listenerVars
  <2> HIDE DEF s
  <2>4. call'[c] = s /\ \A d \in Calls \ {c} : call'[d] = call[d]
    BY <1>0, <2>2, <2>3, GoesFacts
  <2>5. ListenState'
    BY <2>2, <2>3, <2>4, ListenersAsTheyAre DEF ListenInv
  <2>6. ASSUME ~ threaded PROVE Alone'
    <3>1. \A i \in 0..MaxLimiters :
            lock'[i].holder # None => lock'[i].holder = c /\ Holds(c, i)'
      BY <2>2, <2>3, <2>4, <2>6, OnlyHolder DEF Holds, ListenInv
    <3>2. limiter'[call'[c].via] = 0
      BY <2>2, <2>3, <2>4, <2>6 DEF ListenInv, Alone
    <3> QED
      BY <2>2, <2>3, <2>4, <2>6, <3>1, <3>2, AloneStep DEF ListenInv
  <2> QED
    BY <2>3, <2>5, <2>6 DEF ListenInv
<1>2. CASE Keep(c)
  <2> PICK s, f, i : s = [call[c] EXCEPT !.at = "flushing"]
                     /\ f = call[c].via /\ i = call[c].mine
    OBVIOUS
  <2>1. call[c] \in CallType /\ f \in Fronts /\ i \in Limiters
    BY <1>0, <1>2 DEF FrontTypeOK, CallType, Located, Keep, Limiters
  <2>2. s \in CallType /\ s.at = "flushing" /\ s.via = f
    BY <2>1 DEF CallType, Stations
  <2>3. /\ call[c].at = "got" /\ MayStep(c) /\ Goes(c, s)
        /\ limiter' = [limiter EXCEPT ![f] = i]
        /\ turn' = [turn EXCEPT ![c] = Start]
        /\ UNCHANGED <<threaded, pending, attached, application, lock>>
    BY <1>2 DEF Keep
  <2>4. call'[c] = s /\ \A d \in Calls \ {c} : call'[d] = call[d]
    BY <1>0, <2>2, <2>3, GoesFacts
  <2>5. /\ limiter'[f] = i /\ i # 0
        /\ \A g \in Fronts \ {f} : limiter'[g] = limiter[g]
    BY <1>0, <2>1, <2>3 DEF FrontTypeOK, Limiters
  <2>6. /\ turn'[c].next = 1 /\ turn'[c].item = None
        /\ \A d \in Calls \ {c} : turn'[d] = turn[d]
        /\ turn' \in [Calls -> [next : Nat \ {0}, item : Listeners \cup {None}]]
    BY <2>3 DEF ListenInv, ListenState, ListenType, Start, Turn
  <2>7. /\ Flushes(c, f)' /\ \A g \in Fronts \ {f} : ~ Flushes(c, g) /\ ~ Flushes(c, g)'
        /\ \A d \in Calls \ {c}, g \in Fronts : Flushes(d, g)' <=> Flushes(d, g)
    BY <2>2, <2>3, <2>4 DEF Flushes
  <2>8. ListenType'
    BY <2>3, <2>6 DEF ListenInv, ListenState, ListenType
  <2>9. Covered'
    <3> SUFFICES ASSUME NEW g \in Fronts \ Revocable, limiter'[g] # 0,
                        NEW p \in 1..Len(pending[g])
                 PROVE  Served(g, p)'
      BY <2>3 DEF Covered
    <3>1. CASE g = f
      <4>1. p \in Nat /\ 1 <= p
        BY ListTypes DEF ListenInv, ListenState
      <4>2. Flushes(c, g)' /\ turn'[c].next <= p
        BY <2>6, <2>7, <3>1, <4>1
      <4> QED
        BY <4>2 DEF Served
    <3>2. CASE g # f
      <4>1. Served(g, p) /\ Has(g)' = Has(g)
        BY <2>3, <2>5, <3>2 DEF ListenInv, ListenState, Covered, Has
      <4> QED
        BY <2>3, <2>6, <2>7, <3>2, <4>1 DEF Served
    <3> QED
      BY <3>1, <3>2
  <2>10. ASSUME ~ threaded PROVE Aligned'
    <3>1. /\ limiter[f] = 0 /\ application = Free /\ Free.via = None
          /\ \A d \in Calls \ {c} : call[d].at \in Resting
      BY <2>3, <2>10 DEF ListenInv, Alone, MayStep, Free, Job
    <3>2. \A d \in Calls \ {c}, g \in Fronts : ~ Flushes(d, g)'
      BY <2>7, <3>1 DEF Flushes, Resting
    <3>3. attached[f] = NoListeners /\ attached[f][i] = <<>>
      BY <2>1, <2>10, <3>1 DEF ListenInv, ListenState, Aligned, NoListeners
    <3>4. Has(f)' = SubSeq(pending[f], 1, 0) /\ Handed(c)' = 0
      <4>1. pending[f] \in Seq(Listeners)
        BY <2>1 DEF ListenInv, ListenState, ListenType
      <4>2. SubSeq(pending[f], 1, 0) = <<>>
        BY <4>1, Beginnings
      <4>3. Has(f)' = <<>>
        BY <2>3, <2>5, <3>3 DEF Has
      <4> QED
        BY <2>6, <4>2, <4>3 DEF Handed
    <3>5. 1 <= Len(pending[f]) + 1
      <4>1. pending[f] \in Seq(Listeners)
        BY <2>1 DEF ListenInv, ListenState, ListenType
      <4> QED
        BY <4>1, LenProperties
    <3>6. ~ Settled(f)' /\ application'.via # f
      <4>1. application'.via = None
        BY <2>3, <3>1
      <4> QED
        BY <2>1, <2>2, <2>4, <4>1, FrontAssumption DEF Settled
    <3>7. ASSUME NEW g \in Fronts \ {f}
          PROVE  Has(g)' = Has(g) /\ (Settled(g)' => Settled(g))
      BY <2>3, <2>4, <2>5, <3>7 DEF Has, Settled
    <3>8. ASSUME NEW g \in Fronts
          PROVE  /\ limiter'[g] = 0 => attached'[g] = NoListeners
                 /\ limiter'[g] # 0 /\ Settled(g)' => Has(g)' = pending'[g]
                 /\ ~ (application'.via = g)
      <4>1. CASE g = f
        BY <2>3, <2>5, <3>6, <4>1
      <4>2. CASE g # f
        BY <2>3, <2>5, <2>10, <3>1, <3>7, <4>2, FrontAssumption
           DEF ListenInv, ListenState, Aligned
      <4> QED
        BY <3>1, <4>1, <4>2, FrontAssumption
    <3>9. ASSUME NEW d \in Calls, NEW g \in Fronts, Flushes(d, g)'
          PROVE  /\ Has(g)' = SubSeq(pending'[g], 1, Handed(d)')
                 /\ turn'[d].next <= Len(pending'[g]) + 1
                 /\ turn'[d].item = None
      <4>1. d = c /\ g = f
        BY <2>7, <3>2, <3>9
      <4> QED
        BY <2>3, <2>6, <3>4, <3>5, <4>1 DEF Has, Handed
    <3> QED
      BY <3>8, <3>9 DEF Aligned
  <2>11. ASSUME ~ threaded PROVE Alone'
    <3>1. \A j \in 0..MaxLimiters : lock'[j].holder = None
      BY <2>3, <2>11, OnlyHolder DEF Holds, ListenInv
    <3> QED
      BY <2>2, <2>3, <2>4, <2>11, <3>1, AloneStep DEF ListenInv
  <2> QED
    BY <2>3, <2>8, <2>9, <2>10, <2>11 DEF ListenInv, ListenState
<1>3. CASE GoOn(c) \/ GiveUp(c)
  <2>1. call[c].at = "asleep"
    BY <1>0, <1>3 DEF GoOn, GiveUp, Wake, Cancel, Awake, Sleepers
  <2>2. /\ MayStep(c) \/ (~ threaded /\ LoopIsFree)
        /\ Goes(c, Idle)
        /\ UNCHANGED <<threaded, listenerVars>> /\ UNCHANGED <<limiter, application, lock>>
    BY <1>3 DEF GoOn, GiveUp, listenerVars
  <2>3. MayStep(c)
    <3>1. Calls \ {None} = Calls
      BY FrontAssumption
    <3> QED
      BY <2>2, <3>1 DEF LoopIsFree, MayStep
  <2>4. call'[c] = Idle /\ \A d \in Calls \ {c} : call'[d] = call[d]
    BY <1>0, <2>2, GoesFacts, IdleType
  <2>5. ListenState'
    BY <2>1, <2>2, <2>4, IdleType, ListenersAsTheyAre DEF ListenInv
  <2>6. ASSUME ~ threaded PROVE Alone'
    <3>1. \A j \in 0..MaxLimiters : lock'[j].holder = None
      BY <2>1, <2>2, <2>3, <2>6, OnlyHolder DEF Holds, ListenInv
    <3> QED
      BY <2>2, <2>3, <2>4, <2>6, <3>1, IdleType, AloneStep DEF ListenInv
  <2> QED
    BY <2>2, <2>5, <2>6 DEF ListenInv
<1> QED
  BY <1>1, <1>2, <1>3

\* The loop goes on to its next listener.
LEMMA NextListens ==
  ASSUME FrontInv, ListenInv, NEW c \in Calls, NextListener(c)
  PROVE  ListenInv'
<1>0. FrontTypeOK /\ Located
  BY DEF FrontInv
<1> PICK f, n, l : f = call[c].via /\ n = turn[c].next /\ l = pending[f][n]
  OBVIOUS
<1>1. /\ Flushes(c, f) /\ f \in Fronts /\ MayStep(c) /\ turn[c].item = None
      /\ n <= Len(pending[f])
      /\ turn' = [turn EXCEPT ![c] = Turn(n + 1, l)]
      /\ UNCHANGED <<threaded, limiter, pending, attached, application, call, lock>>
  BY <1>0 DEF NextListener, Located, Flushes
<1>2. /\ n \in Nat \ {0} /\ pending[f] \in Seq(Listeners) /\ Len(pending[f]) \in Nat
      /\ l \in Listeners
  <2>1. n \in Nat \ {0} /\ pending[f] \in Seq(Listeners)
    BY <1>1 DEF ListenInv, ListenState, ListenType
  <2>2. Len(pending[f]) \in Nat
    BY <2>1, LenProperties
  <2>3. n \in 1..Len(pending[f])
    BY <1>1, <2>1, <2>2
  <2> QED
    BY <2>1, <2>2, <2>3, ElementOfSeq
<1>3. /\ turn'[c].next = n + 1 /\ turn'[c].item = l /\ l # None
      /\ \A d \in Calls \ {c} : turn'[d] = turn[d]
      /\ turn' \in [Calls -> [next : Nat \ {0}, item : Listeners \cup {None}]]
  BY <1>1, <1>2, FrontAssumption DEF ListenInv, ListenState, ListenType, Turn
<1>4. ListenType'
  BY <1>1, <1>3 DEF ListenInv, ListenState, ListenType
<1>5. \A d \in Calls, g \in Fronts : Flushes(d, g)' <=> Flushes(d, g)
  BY <1>1 DEF Flushes
<1>6. Covered'
  <2> SUFFICES ASSUME NEW g \in Fronts \ Revocable, limiter[g] # 0,
                      NEW p \in 1..Len(pending[g])
               PROVE  Served(g, p)'
    BY <1>1 DEF Covered
  <2>1. Served(g, p) /\ Has(g)' = Has(g)
    BY <1>1 DEF ListenInv, ListenState, Covered, Has
  <2>2. /\ p \in Nat /\ pending[g][p] \in Listeners
    <3>1. pending[g] \in Seq(Listeners)
      BY DEF ListenInv, ListenState, ListenType
    <3> QED
      BY <3>1, LenProperties, ElementOfSeq
  <2>3. CASE Flushes(c, g) /\ (n <= p \/ turn[c].item = pending[g][p])
    <3>1. n <= p /\ g = f
      BY <1>1, <2>2, <2>3, FrontAssumption DEF Flushes
    <3>2. n + 1 <= p \/ l = pending[g][p]
      BY <1>2, <2>2, <3>1
    <3>3. /\ Flushes(c, g)'
          /\ turn'[c].next <= p \/ turn'[c].item = pending'[g][p]
      BY <1>1, <1>3, <1>5, <2>3, <3>2
    <3> QED
      BY <3>3 DEF Served
  <2>4. CASE ~ (Flushes(c, g) /\ (n <= p \/ turn[c].item = pending[g][p]))
    BY <1>1, <1>3, <1>5, <2>1, <2>4 DEF Served
  <2> QED
    BY <2>3, <2>4
<1>7. ASSUME ~ threaded PROVE Aligned'
  <2>1. \A d \in Calls \ {c}, g \in Fronts : ~ Flushes(d, g)
    BY <1>1, <1>7 DEF MayStep, Flushes, Resting
  <2>2. Handed(c) = n - 1 /\ Handed(c)' = n - 1 /\ n + 1 <= Len(pending[f]) + 1 /\ n + 1 > 1
        /\ n + 1 - 1 = n
    <3>1. n + 1 <= Len(pending[f]) + 1 /\ n + 1 > 1 /\ n + 1 - 1 = n /\ n + 1 - 2 = n - 1
      BY <1>1, <1>2
    <3>2. Handed(c) = n - 1
      BY <1>1 DEF Handed
    <3>3. Handed(c)' = n - 1
      BY <1>2, <1>3, <3>1 DEF Handed
    <3> QED
      BY <3>1, <3>2, <3>3
  <2>3. \A g \in Fronts : Settled(g)' <=> Settled(g)
    BY <1>1 DEF Settled
  <2>4. Has(f) = SubSeq(pending[f], 1, n - 1)
    BY <1>1, <1>7, <2>2 DEF ListenInv, ListenState, Aligned
  <2>5. ASSUME NEW d \in Calls, NEW g \in Fronts, Flushes(d, g)'
        PROVE  /\ Has(g)' = SubSeq(pending'[g], 1, Handed(d)')
               /\ turn'[d].next <= Len(pending'[g]) + 1
               /\ turn'[d].item # None => turn'[d].next > 1
                                           /\ turn'[d].item = pending'[g][turn'[d].next - 1]
    <3>1. d = c /\ g = f
      BY <1>1, <1>5, <2>1, <2>5 DEF Flushes
    <3>2. /\ Has(f)' = SubSeq(pending'[f], 1, Handed(c)')
          /\ turn'[c].next <= Len(pending'[f]) + 1
          /\ turn'[c].next > 1 /\ turn'[c].item = pending'[f][turn'[c].next - 1]
      <4>1. Has(f)' = Has(f) /\ pending' = pending
        BY <1>1 DEF Has
      <4>2. turn'[c].next = n + 1 /\ turn'[c].item = pending[f][n]
        BY <1>3
      <4>3. turn'[c].next - 1 = n
        BY <1>2, <4>2
      <4>4. Has(f)' = SubSeq(pending'[f], 1, Handed(c)')
        BY <2>2, <2>4, <4>1
      <4>5. turn'[c].next <= Len(pending'[f]) + 1 /\ turn'[c].next > 1
        BY <2>2, <4>1, <4>2
      <4> QED
        BY <4>1, <4>2, <4>3, <4>4, <4>5
    <3> QED
      BY <3>1, <3>2 DEF Has, Handed
  <2> QED
    BY <1>1, <1>7, <2>3, <2>5 DEF ListenInv, ListenState, Aligned, Has
<1>8. Alone => Alone'
  BY <1>1 DEF Alone, Holds
<1> QED
  BY <1>1, <1>4, <1>6, <1>7, <1>8 DEF ListenInv, ListenState

\* The limiter that the front has gets the listener that the loop is at.
LEMMA AttachListens ==
  ASSUME FrontInv, ListenInv, NEW c \in Calls, Attach(c)
  PROVE  ListenInv'
<1>0. FrontTypeOK /\ Located
  BY DEF FrontInv
<1> PICK f, i, l, n : /\ f = call[c].via /\ i = limiter[f]
                      /\ l = turn[c].item /\ n = turn[c].next
  OBVIOUS
<1>1. /\ Flushes(c, f) /\ f \in Fronts /\ MayStep(c) /\ l # None
      /\ attached' = [attached EXCEPT ![f][i] = Append(@, l)]
      /\ turn' = [turn EXCEPT ![c].item = None]
      /\ UNCHANGED <<threaded, limiter, pending, application, call, lock>>
  BY <1>0 DEF Attach, Located, Flushes
<1>2. /\ i \in Limiters /\ l \in Listeners /\ n \in Nat \ {0}
      /\ Has(f) \in Seq(Listeners) /\ attached[f][i] = Has(f)
      /\ turn[c] \in [next : Nat \ {0}, item : Listeners \cup {None}]
  <2>1. i \in Limiters
    BY <1>0, <1>1 DEF Located, FrontTypeOK, Limiters, Flushes
  <2>2. attached[f][i] \in Seq(Listeners)
    BY <1>1, <2>1, ListTypes DEF ListenInv, ListenState
  <2>3. turn[c] \in [next : Nat \ {0}, item : Listeners \cup {None}]
    BY DEF ListenInv, ListenState, ListenType
  <2> QED
    BY <1>1, <2>1, <2>2, <2>3 DEF Has
<1>3. Append(Has(f), l) \in Seq(Listeners) /\ ToSet(Append(Has(f), l)) = ToSet(Has(f)) \cup {l}
  BY <1>2, AppendMembers
<1>4. /\ attached' \in [Fronts -> [Limiters -> Seq(Listeners)]]
      /\ attached'[f][i] = Append(Has(f), l)
      /\ \A g \in Fronts \ {f} : attached'[g] = attached[g]
  <2>1. ListBecomes(f, i, Append(Has(f), l))
    BY <1>1, <1>2 DEF ListBecomes
  <2>2. ListenType
    BY DEF ListenInv, ListenState
  <2>3. f \in Fronts
    BY <1>1
  <2>4. i \in Limiters /\ Append(Has(f), l) \in Seq(Listeners)
    BY <1>2, <1>3
  <2>5. OnlyListIs(f, i, Append(Has(f), l))
    BY <2>1, <2>2, <2>3, <2>4, ListChanged
  <2> QED
    BY <2>5 DEF OnlyListIs
<1>5. /\ Has(f)' = Append(Has(f), l)
      /\ \A g \in Fronts \ {f} : Has(g)' = Has(g)
  BY <1>1, <1>2, <1>4 DEF Has
<1>6. /\ turn'[c].next = n /\ turn'[c].item = None
      /\ \A d \in Calls \ {c} : turn'[d] = turn[d]
      /\ turn' \in [Calls -> [next : Nat \ {0}, item : Listeners \cup {None}]]
  BY <1>1, <1>2 DEF ListenInv, ListenState, ListenType
<1>7. ListenType'
  BY <1>1, <1>4, <1>6 DEF ListenInv, ListenState, ListenType
<1>8. \A d \in Calls, g \in Fronts : Flushes(d, g)' <=> Flushes(d, g)
  BY <1>1 DEF Flushes
<1>9. Covered'
  <2> SUFFICES ASSUME NEW g \in Fronts \ Revocable, limiter[g] # 0,
                      NEW p \in 1..Len(pending[g])
               PROVE  Served(g, p)'
    BY <1>1 DEF Covered
  <2>1. Served(g, p)
    BY DEF ListenInv, ListenState, Covered
  <2>2. ToSet(Has(g)) \subseteq ToSet(Has(g)')
    <3>1. CASE g = f
      BY <1>3, <1>5, <3>1
    <3>2. CASE g # f
      BY <1>5, <3>2
    <3> QED
      BY <3>1, <3>2
  <2>3. CASE Flushes(c, g) /\ l = pending[g][p]
    <3>1. g = f
      BY <1>1, <2>3 DEF Flushes
    <3>2. pending'[g][p] \in ToSet(Has(g)')
      BY <1>1, <1>3, <1>5, <2>3, <3>1
    <3> QED
      BY <3>2 DEF Served
  <2>4. CASE ~ (Flushes(c, g) /\ l = pending[g][p])
    BY <1>1, <1>6, <1>8, <2>1, <2>2, <2>4 DEF Served
  <2> QED
    BY <2>3, <2>4
<1>10. ASSUME ~ threaded PROVE Aligned'
  <2>1. /\ \A d \in Calls \ {c}, g \in Fronts : ~ Flushes(d, g)
        /\ application = Free /\ Free.via = None
    BY <1>1, <1>10 DEF MayStep, Flushes, Resting, Free, Job
  <2>2. /\ Has(f) = SubSeq(pending[f], 1, n - 2)
        /\ n <= Len(pending[f]) + 1 /\ n > 1 /\ l = pending[f][n - 1]
    BY <1>1, <1>10 DEF ListenInv, ListenState, Aligned, Handed
  <2>3. Has(f)' = SubSeq(pending[f], 1, n - 1)
    <3>1. pending[f] \in Seq(Listeners) /\ Len(pending[f]) \in Nat
      BY <1>1, LenProperties DEF ListenInv, ListenState, ListenType
    <3>2. PICK m : m = n - 2
      OBVIOUS
    <3>3. m \in 0..Len(pending[f]) - 1 /\ m + 1 = n - 1
      <4>1. n \in Nat
        BY <1>2
      <4> QED
        BY <2>2, <3>1, <3>2, <4>1
    <3>4. SubSeq(pending[f], 1, m + 1) = Append(SubSeq(pending[f], 1, m), pending[f][m + 1])
      BY <3>1, <3>3, Beginnings
    <3> QED
      BY <1>5, <2>2, <3>2, <3>3, <3>4
  <2>4. Handed(c)' = n - 1
    BY <1>6 DEF Handed
  <2>5. \A g \in Fronts : Settled(g)' => Settled(g) /\ g # f
    BY <1>1 DEF Settled, Flushes
  <2>6. limiter[f] # 0
    BY <1>2 DEF Limiters
  <2>7. ASSUME NEW d \in Calls, NEW g \in Fronts, Flushes(d, g)'
        PROVE  /\ Has(g)' = SubSeq(pending'[g], 1, Handed(d)')
               /\ turn'[d].next <= Len(pending'[g]) + 1
               /\ turn'[d].item = None
    <3>1. d = c /\ g = f
      BY <1>1, <1>8, <2>1, <2>7 DEF Flushes
    <3> QED
      BY <1>1, <1>6, <2>2, <2>3, <2>4, <3>1 DEF Has, Handed
  <2>8. ASSUME NEW g \in Fronts
        PROVE  /\ limiter'[g] = 0 => attached'[g] = NoListeners
               /\ limiter'[g] # 0 /\ Settled(g)' => Has(g)' = pending'[g]
               /\ ~ (application'.via = g)
    BY <1>1, <1>4, <1>5, <1>10, <2>1, <2>5, <2>6, FrontAssumption
       DEF ListenInv, ListenState, Aligned
  <2> QED
    BY <2>7, <2>8 DEF Aligned
<1>11. Alone => Alone'
  BY <1>1 DEF Alone, Holds
<1> QED
  BY <1>1, <1>7, <1>9, <1>10, <1>11 DEF ListenInv, ListenState

\* The loop is over: it has handed all listeners to the limiter.
LEMMA FlushListens ==
  ASSUME FrontInv, ListenInv, NEW c \in Calls, Flush(c)
  PROVE  ListenInv'
<1> PICK f, i, s : f = call[c].via /\ i = limiter[f] /\ s = Doing("holding", None, i)
  OBVIOUS
<1>0. FrontTypeOK /\ Located /\ LocksHeld
  BY DEF FrontInv
<1>1. /\ call[c].at = "flushing" /\ Flushes(c, f) /\ f \in Fronts
      /\ i \in 1..MaxLimiters /\ i \in 0..MaxLimiters
  BY <1>0, FrontAssumption DEF Flush, Located, FrontTypeOK, Flushes
<1>2. s \in CallType /\ s.mine = i /\ s.at = "holding" /\ s.via = None
  BY <1>1, DoingType DEF Stations
<1>3. /\ Acquire(c, i, s) /\ MayStep(c)
      /\ turn[c].item = None /\ turn[c].next > Len(pending[f])
      /\ turn' = [turn EXCEPT ![c] = Start]
      /\ UNCHANGED <<threaded, limiter, pending, attached, application>>
  BY DEF Flush
<1>4. /\ \A d \in Calls \ {c} : call'[d] = call[d]
      /\ call'[c] \in {s, [s EXCEPT !.at = "waiting"], Idle}
  BY <1>0, <1>1, <1>2, <1>3, AcquireFacts, FrontAssumption
<1>5. /\ \A g \in Fronts : ~ Flushes(c, g)'
      /\ \A d \in Calls \ {c}, g \in Fronts : Flushes(d, g)' <=> Flushes(d, g)
  BY <1>2, <1>4, IdleType DEF CallType, Flushes
<1>6. /\ \A d \in Calls \ {c} : turn'[d] = turn[d]
      /\ turn' \in [Calls -> [next : Nat \ {0}, item : Listeners \cup {None}]]
  BY <1>3 DEF ListenInv, ListenState, ListenType, Start, Turn
<1>7. ListenType'
  BY <1>3, <1>6 DEF ListenInv, ListenState, ListenType
<1>8. Covered'
  <2> SUFFICES ASSUME NEW g \in Fronts \ Revocable, limiter[g] # 0,
                      NEW p \in 1..Len(pending[g])
               PROVE  Served(g, p)'
    BY <1>3 DEF Covered
  <2>1. Served(g, p) /\ Has(g)' = Has(g)
    BY <1>3 DEF ListenInv, ListenState, Covered, Has
  <2>2. p \in Nat /\ p <= Len(pending[g]) /\ pending[g][p] \in Listeners
        /\ Len(pending[g]) \in Nat
    <3>1. pending[g] \in Seq(Listeners)
      BY DEF ListenInv, ListenState, ListenType
    <3> QED
      BY <3>1, LenProperties, ElementOfSeq
  <2>3. ~ (Flushes(c, g) /\ (turn[c].next <= p \/ turn[c].item = pending[g][p]))
    <3>1. turn[c].next \in Nat
      BY DEF ListenInv, ListenState, ListenType
    <3> QED
      BY <1>3, <2>2, <3>1, FrontAssumption DEF Flushes
  <2> QED
    BY <1>3, <1>5, <1>6, <2>1, <2>3 DEF Served
<1>9. ASSUME ~ threaded PROVE Aligned'
  <2>1. /\ \A d \in Calls, g \in Fronts : ~ Flushes(d, g)'
        /\ application = Free /\ Free.via = None
    BY <1>3, <1>5, <1>9 DEF MayStep, Flushes, Resting, Free, Job
  <2>2. Has(f) = pending[f]
    <3>1. /\ Has(f) = SubSeq(pending[f], 1, turn[c].next - 1)
          /\ turn[c].next <= Len(pending[f]) + 1
      BY <1>1, <1>3, <1>9 DEF ListenInv, ListenState, Aligned, Handed
    <3>2. pending[f] \in Seq(Listeners) /\ Len(pending[f]) \in Nat /\ turn[c].next \in Nat
      BY <1>1, LenProperties DEF ListenInv, ListenState, ListenType
    <3>3. turn[c].next - 1 = Len(pending[f])
      BY <1>3, <3>1, <3>2
    <3> QED
      BY <3>1, <3>2, <3>3, Beginnings
  <2>3. ASSUME NEW g \in Fronts \ {f} PROVE Settled(g)' => Settled(g)
    BY <1>3, <1>4, <2>3 DEF Settled
  <2>4. ASSUME NEW g \in Fronts
        PROVE  /\ limiter'[g] = 0 => attached'[g] = NoListeners
               /\ limiter'[g] # 0 /\ Settled(g)' => Has(g)' = pending'[g]
               /\ ~ (application'.via = g)
    BY <1>3, <1>9, <2>1, <2>2, <2>3, FrontAssumption
       DEF ListenInv, ListenState, Aligned, Has
  <2> QED
    BY <2>1, <2>4 DEF Aligned
<1>10. ASSUME ~ threaded PROVE Alone'
  <2>1. /\ call'[c] = s
        /\ \A j \in 0..MaxLimiters : lock'[j].holder # None => lock'[j].holder = c /\ j = i
    BY <1>1, <1>2, <1>3, <1>10, AcquireAlone DEF ListenInv
  <2>2. \A j \in 0..MaxLimiters :
          lock'[j].holder # None => lock'[j].holder = c /\ Holds(c, j)'
    BY <1>2, <2>1 DEF Holds
  <2> QED
    BY <1>2, <1>3, <1>4, <1>10, <2>1, <2>2, AloneStep DEF ListenInv
<1> QED
  BY <1>3, <1>7, <1>8, <1>9, <1>10 DEF ListenInv, ListenState

\* The application registers a listener or takes one back: in the front's list
\* at first.
LEMMA RegisterListens ==
  ASSUME FrontInv, ListenInv, NEW f \in Fronts, Register(f)
  PROVE  ListenInv'
<1>1. /\ LoopIsFree /\ application = Free /\ Free.via = None
      /\ UNCHANGED <<threaded, limiter, attached, turn, call, lock>>
  BY DEF Register, AddListener, RemoveListener, Free, Job
<1>2. PICK l \in Listeners, k \in {"adding", "removing"} :
        /\ k = "removing" => f \in Revocable
        /\ pending' = [pending EXCEPT ![f] = IF k = "adding" THEN Append(@, l)
                                                             ELSE RemoveFirst(@, l)]
        /\ application' = Job(k, f, l)
  BY DEF Register, AddListener, RemoveListener
<1>3. pending[f] \in Seq(Listeners)
  BY DEF ListenInv, ListenState, ListenType
<1>4. Append(pending[f], l) \in Seq(Listeners) /\ RemoveFirst(pending[f], l) \in Seq(Listeners)
  BY <1>3, AppendProperties, FirstRemoved
<1>5. /\ pending' \in [Fronts -> Seq(Listeners)]
      /\ pending'[f] = IF k = "adding" THEN Append(pending[f], l) ELSE RemoveFirst(pending[f], l)
      /\ \A g \in Fronts \ {f} : pending'[g] = pending[g]
  BY <1>2, <1>4 DEF ListenInv, ListenState, ListenType
<1>6. application'.at = k /\ application'.via = f /\ application'.item = l
  BY <1>2 DEF Job
<1>7. ListenType'
  BY <1>1, <1>2, <1>5, <1>6 DEF ListenInv, ListenState, ListenType
<1>8. \A c \in Calls, g \in Fronts : Flushes(c, g)' <=> Flushes(c, g)
  BY <1>1 DEF Flushes
<1>9. Covered'
  <2> SUFFICES ASSUME NEW g \in Fronts \ Revocable, limiter[g] # 0,
                      NEW p \in 1..Len(pending'[g])
               PROVE  Served(g, p)'
    BY <1>1 DEF Covered
  <2>1. Has(g)' = Has(g)
    BY <1>1 DEF Has
  <2>2. p \in 1..Len(pending[g]) => Served(g, p)
    BY DEF ListenInv, ListenState, Covered
  <2>3. CASE g # f
    BY <1>1, <1>5, <1>8, <2>1, <2>2, <2>3, FrontAssumption DEF Served
  <2>4. CASE g = f
    <3>1. k = "adding" /\ pending'[f] = Append(pending[f], l)
      BY <1>2, <1>5, <2>4
    <3>2. /\ Len(pending'[f]) = Len(pending[f]) + 1 /\ Len(pending[f]) \in Nat
          /\ \A q \in 1..Len(pending[f]) : pending'[f][q] = pending[f][q]
          /\ pending'[f][Len(pending[f]) + 1] = l
      BY <1>3, <3>1, AppendProperties, LenProperties
    <3>3. CASE p = Len(pending[f]) + 1
      BY <1>6, <2>4, <3>2, <3>3 DEF Served
    <3>4. CASE p # Len(pending[f]) + 1
      <4>1. p \in 1..Len(pending[f]) /\ pending'[f][p] = pending[f][p]
        BY <2>4, <3>2, <3>4
      <4> QED
        BY <1>1, <1>8, <2>1, <2>2, <2>4, <4>1, FrontAssumption DEF Served
    <3> QED
      BY <3>3, <3>4
  <2> QED
    BY <2>3, <2>4
<1>10. ASSUME ~ threaded PROVE Aligned' /\ Alone'
  <2>1. \A c \in Calls : call[c].at \in Resting
    BY <1>1, <1>10, FrontAssumption DEF LoopIsFree, MayStep
  <2>2. \A c \in Calls, g \in Fronts : ~ Flushes(c, g) /\ ~ Flushes(c, g)'
    BY <1>8, <2>1 DEF Flushes, Resting
  <2>3. \A g \in Fronts : Settled(g)
    BY <1>1, <2>2, FrontAssumption DEF Settled, Flushes
  <2>4. \A g \in Fronts : Has(g)' = Has(g) /\ (limiter[g] # 0 => Has(g) = pending[g])
    BY <1>1, <1>10, <2>3 DEF ListenInv, ListenState, Aligned, Has
  <2>5. ~ Settled(f)'
    BY <1>6 DEF Settled
  <2>6. ASSUME NEW g \in Fronts
        PROVE  /\ limiter'[g] = 0 => attached'[g] = NoListeners
               /\ limiter'[g] # 0 /\ Settled(g)' => Has(g)' = pending'[g]
               /\ limiter'[g] # 0 /\ application'.via = g
                    => pending'[g] = IF application'.at = "adding"
                                       THEN Append(Has(g)', application'.item)
                                       ELSE RemoveFirst(Has(g)', application'.item)
    <3>1. limiter'[g] = 0 => attached'[g] = NoListeners
      BY <1>1, <1>10 DEF ListenInv, ListenState, Aligned
    <3>2. CASE g = f
      BY <1>1, <1>5, <1>6, <2>4, <2>5, <3>1, <3>2
    <3>3. CASE g # f
      BY <1>1, <1>5, <1>6, <2>4, <3>1, <3>3
    <3> QED
      BY <3>2, <3>3
  <2>7. Aligned'
    BY <2>2, <2>6 DEF Aligned
  <2>8. Alone'
    BY <1>1, <1>10, <2>1 DEF ListenInv, Alone, Holds
  <2> QED
    BY <2>7, <2>8
<1> QED
  BY <1>1, <1>7, <1>9, <1>10 DEF ListenInv, ListenState

\* Then the same in the limiter's list.
LEMMA FollowListens ==
  ASSUME FrontInv, ListenInv, Follow
  PROVE  ListenInv'
<1>0. FrontTypeOK
  BY DEF FrontInv
<1> PICK f, l, i, r :
      /\ f = application.via /\ l = application.item /\ i = limiter[f]
      /\ r = IF application.at = "adding" THEN Append(Has(f), l) ELSE RemoveFirst(Has(f), l)
  OBVIOUS
<1>1. /\ f \in Fronts /\ l \in Listeners /\ application # Free
      /\ application.at \in {"adding", "removing"}
      /\ application.at = "removing" => f \in Revocable
      /\ i \in 0..MaxLimiters
  BY <1>0 DEF Follow, ListenInv, ListenState, ListenType, FrontTypeOK
<1>2. /\ application' = Free /\ Free.via = None
      /\ UNCHANGED <<threaded, limiter, pending, turn, call, lock>>
  BY DEF Follow, Free, Job
<1>3. CASE i = 0
  <2>1. attached' = attached
    BY <1>3 DEF Follow
  <2>2. ListenType'
    BY <1>2, <2>1 DEF ListenInv, ListenState, ListenType
  <2>3. \A c \in Calls, g \in Fronts : Flushes(c, g)' <=> Flushes(c, g)
    BY <1>2 DEF Flushes
  <2>4. ASSUME NEW g \in Fronts, limiter[g] # 0
        PROVE  g # f /\ Has(g)' = Has(g) /\ (Settled(g)' => Settled(g))
    BY <1>2, <1>3, <2>1, <2>4 DEF Has, Settled
  <2>5. Covered'
    BY <1>2, <2>3, <2>4 DEF ListenInv, ListenState, Covered, Served
  <2>6. ASSUME ~ threaded PROVE Aligned'
    <3>1. ASSUME NEW g \in Fronts
          PROVE  /\ limiter'[g] = 0 => attached'[g] = NoListeners
                 /\ limiter'[g] # 0 /\ Settled(g)' => Has(g)' = pending'[g]
                 /\ ~ (application'.via = g)
      BY <1>2, <2>1, <2>4, <2>6, FrontAssumption DEF ListenInv, ListenState, Aligned
    <3>2. ASSUME NEW c \in Calls, NEW g \in Fronts, Flushes(c, g)' PROVE FALSE
      BY <1>1, <2>3, <2>6, <3>2 DEF ListenInv, Alone, Flushes, Resting
    <3> QED
      BY <3>1, <3>2 DEF Aligned
  <2>7. Alone => Alone'
    BY <1>2 DEF Alone, Holds
  <2> QED
    BY <1>2, <2>2, <2>5, <2>6, <2>7 DEF ListenInv, ListenState
<1>4. CASE i # 0
  <2>1. i \in Limiters /\ Has(f) = attached[f][i] /\ Has(f) \in Seq(Listeners)
    <3>1. i \in Limiters
      BY <1>1, <1>4 DEF Limiters
    <3> QED
      BY <1>1, <3>1, ListTypes DEF Has, ListenInv, ListenState
  <2>2. /\ r \in Seq(Listeners)
        /\ application.at = "adding" => ToSet(r) = ToSet(Has(f)) \cup {l}
    BY <1>1, <2>1, AppendMembers, FirstRemoved
  <2>3. ListBecomes(f, i, r)
    BY <1>4, <2>1 DEF Follow, ListBecomes
  <2>4. /\ attached' \in [Fronts -> [Limiters -> Seq(Listeners)]]
        /\ attached'[f][i] = r
        /\ \A g \in Fronts \ {f} : attached'[g] = attached[g]
    <3>1. ListenType
      BY DEF ListenInv, ListenState
    <3>2. f \in Fronts /\ i \in Limiters /\ r \in Seq(Listeners)
      BY <1>1, <2>1, <2>2
    <3>3. OnlyListIs(f, i, r)
      BY <2>3, <3>1, <3>2, ListChanged
    <3> QED
      BY <3>3 DEF OnlyListIs
  <2>5. Has(f)' = r /\ \A g \in Fronts \ {f} : Has(g)' = Has(g)
    BY <1>2, <2>4 DEF Has
  <2>6. ListenType'
    BY <1>2, <2>4 DEF ListenInv, ListenState, ListenType
  <2>7. \A c \in Calls, g \in Fronts : Flushes(c, g)' <=> Flushes(c, g)
    BY <1>2 DEF Flushes
  <2>8. Covered'
    <3> SUFFICES ASSUME NEW g \in Fronts \ Revocable, limiter[g] # 0,
                        NEW p \in 1..Len(pending[g])
                 PROVE  Served(g, p)'
      BY <1>2 DEF Covered
    <3>1. Served(g, p)
      BY DEF ListenInv, ListenState, Covered
    <3>2. CASE g # f
      BY <1>2, <2>5, <2>7, <3>1, <3>2 DEF Served
    <3>3. CASE g = f
      <4>1. ToSet(Has(g)') = ToSet(Has(g)) \cup {l}
        BY <1>1, <2>2, <2>5, <3>3
      <4> QED
        BY <1>2, <2>7, <3>1, <4>1 DEF Served
    <3> QED
      BY <3>2, <3>3
  <2>9. ASSUME ~ threaded PROVE Aligned'
    <3>1. ASSUME NEW c \in Calls, NEW g \in Fronts, Flushes(c, g)' PROVE FALSE
      BY <1>1, <2>7, <2>9, <3>1 DEF ListenInv, Alone, Flushes, Resting
    <3>2. pending[f] = r
      BY <1>1, <1>4, <2>9 DEF ListenInv, ListenState, Aligned
    <3>3. \A g \in Fronts \ {f} : Settled(g)' => Settled(g)
      BY <1>2 DEF Settled
    <3>4. ASSUME NEW g \in Fronts
          PROVE  /\ limiter'[g] = 0 => attached'[g] = NoListeners
                 /\ limiter'[g] # 0 /\ Settled(g)' => Has(g)' = pending'[g]
                 /\ ~ (application'.via = g)
      <4>1. CASE g = f
        BY <1>2, <1>4, <2>5, <3>2, <4>1, FrontAssumption
      <4>2. CASE g # f
        BY <1>2, <2>4, <2>5, <2>9, <3>3, <4>2, FrontAssumption
           DEF ListenInv, ListenState, Aligned
      <4> QED
        BY <4>1, <4>2
    <3> QED
      BY <3>1, <3>4 DEF Aligned
  <2>10. Alone => Alone'
    BY <1>2 DEF Alone, Holds
  <2> QED
    BY <1>2, <2>6, <2>8, <2>9, <2>10 DEF ListenInv, ListenState
<1> QED
  BY <1>3, <1>4

\* A front that is dropped has no limiter and no listeners.
LEMMA DropListens ==
  ASSUME FrontInv, ListenInv, NEW f \in Fronts, Drop(f)
  PROVE  ListenInv'
<1>0. FrontTypeOK
  BY DEF FrontInv
<1>1. /\ LoopIsFree /\ application.via # f
      /\ \A c \in Calls : call[c].via # f
      /\ limiter' = [limiter EXCEPT ![f] = 0]
      /\ pending' = [pending EXCEPT ![f] = <<>>]
      /\ attached' = [attached EXCEPT ![f] = NoListeners]
      /\ UNCHANGED <<threaded, turn, application, call, lock>>
  BY DEF Drop
<1>2. /\ NoListeners \in [Limiters -> Seq(Listeners)]
      /\ <<>> \in Seq(Listeners)
  BY EmptySeq DEF NoListeners
<1>3. /\ limiter'[f] = 0 /\ attached'[f] = NoListeners
      /\ \A g \in Fronts \ {f} : /\ limiter'[g] = limiter[g]
                                 /\ pending'[g] = pending[g]
                                 /\ attached'[g] = attached[g]
  BY <1>0, <1>1 DEF ListenInv, ListenState, ListenType, FrontTypeOK
<1>4. ListenType'
  BY <1>1, <1>2 DEF ListenInv, ListenState, ListenType
<1>5. \A c \in Calls, g \in Fronts : /\ Flushes(c, g)' <=> Flushes(c, g)
                                     /\ ~ Flushes(c, f)
  BY <1>1 DEF Flushes
<1>6. ASSUME NEW g \in Fronts, g # f
      PROVE  Has(g)' = Has(g) /\ (Settled(g)' => Settled(g))
  BY <1>1, <1>3, <1>6 DEF Has, Settled
<1>7. Covered'
  <2> SUFFICES ASSUME NEW g \in Fronts \ Revocable, limiter'[g] # 0,
                      NEW p \in 1..Len(pending'[g])
               PROVE  Served(g, p)'
    BY DEF Covered
  <2>1. g # f
    BY <1>3
  <2>2. Served(g, p)
    BY <1>3, <2>1 DEF ListenInv, ListenState, Covered
  <2> QED
    BY <1>1, <1>3, <1>5, <1>6, <2>1, <2>2 DEF Served
<1>8. Aligned => Aligned'
  <2> SUFFICES ASSUME Aligned PROVE Aligned'
    OBVIOUS
  <2>1. ASSUME NEW g \in Fronts
        PROVE  /\ limiter'[g] = 0 => attached'[g] = NoListeners
               /\ limiter'[g] # 0 /\ Settled(g)' => Has(g)' = pending'[g]
               /\ limiter'[g] # 0 /\ application'.via = g
                    => pending'[g] = IF application'.at = "adding"
                                       THEN Append(Has(g)', application'.item)
                                       ELSE RemoveFirst(Has(g)', application'.item)
    <3>1. CASE g = f
      BY <1>3, <3>1
    <3>2. CASE g # f
      BY <1>1, <1>3, <1>6, <3>2 DEF Aligned
    <3> QED
      BY <3>1, <3>2
  <2>2. ASSUME NEW c \in Calls, NEW g \in Fronts, Flushes(c, g)'
        PROVE  /\ Has(g)' = SubSeq(pending'[g], 1, Handed(c)')
               /\ turn'[c].next <= Len(pending'[g]) + 1
               /\ turn'[c].item # None => turn'[c].next > 1
                                           /\ turn'[c].item = pending'[g][turn'[c].next - 1]
    <3>1. g # f /\ Flushes(c, g)
      BY <1>5, <2>2
    <3> QED
      BY <1>1, <1>3, <1>6, <3>1 DEF Aligned, Handed
  <2> QED
    BY <2>1, <2>2 DEF Aligned
<1>9. ASSUME ~ threaded, Alone PROVE Alone'
  <2>1. \A d \in Calls : call[d].at \in Resting
    BY <1>1, <1>9, FrontAssumption DEF LoopIsFree, MayStep
  <2>2. \A d \in Calls : call[d].at \notin {"looking", "found", "got"}
    BY <2>1 DEF Resting
  <2> QED
    BY <1>1, <1>9, <2>1, <2>2 DEF Alone, Holds
<1> QED
  BY <1>1, <1>4, <1>7, <1>8, <1>9 DEF ListenInv, ListenState

\* The registry and the clock touch no listener.
LEMMA OutsideListens ==
  ASSUME ListenInv, RegistryRemove \/ Pass \/ UNCHANGED allVars
  PROVE  ListenInv'
<1>1. UNCHANGED <<threaded, listenerVars, call, lock>>
  BY DEF RegistryRemove, Pass, allVars, frontVars
<1>2. ListenState'
  BY <1>1, ListenersAsTheyAre DEF ListenInv
<1>3. Alone => Alone'
  BY <1>1 DEF Alone, Holds, listenerVars
<1> QED
  BY <1>1, <1>2, <1>3 DEF ListenInv

LEMMA AlwaysListenInv == FrontSpec => []ListenInv
<1>1. FrontInit => ListenInv
  <2> SUFFICES ASSUME FrontInit PROVE ListenInv
    OBVIOUS
  <2>1. /\ threaded \in BOOLEAN
        /\ pending = [f \in Fronts |-> <<>>] /\ attached = [f \in Fronts |-> NoListeners]
        /\ turn = [c \in Calls |-> Start] /\ application = Free
        /\ \A f \in Fronts : limiter[f] = 0
        /\ \A c \in Calls : call[c] = Idle
        /\ \A i \in 0..MaxLimiters : lock[i].holder = None
    BY DEF FrontInit, Unlocked
  <2>2. /\ NoListeners \in [Limiters -> Seq(Listeners)] /\ <<>> \in Seq(Listeners)
        /\ Start \in [next : Nat \ {0}, item : Listeners \cup {None}]
    BY EmptySeq DEF NoListeners, Start, Turn
  <2>3. ListenType
    BY <2>1, <2>2 DEF ListenType
  <2>4. Alone
    BY <2>1, IdleType DEF Alone, Resting
  <2>5. \A c \in Calls, f \in Fronts : ~ Flushes(c, f)
    BY <2>1, IdleType DEF Flushes
  <2>6. Aligned
    BY <2>1, <2>5 DEF Aligned
  <2>7. Covered
    BY <2>1 DEF Covered
  <2> QED
    BY <2>1, <2>3, <2>4, <2>6, <2>7 DEF ListenInv, ListenState
<1>2. FrontInv /\ IInv /\ ListenInv /\ [FrontNext]_allVars => ListenInv'
  <2> SUFFICES ASSUME FrontInv, TypeOK, ListenInv, [FrontNext]_allVars PROVE ListenInv'
    BY DEF IInv
  <2>1. ASSUME NEW c \in Calls, NEW f \in Fronts, Call(c, f) PROVE ListenInv'
    BY <2>1, CallListens
  <2>2. ASSUME NEW c \in Calls, Find(c) \/ Keep(c) \/ GoOn(c) \/ GiveUp(c) PROVE ListenInv'
    BY <2>2, GoingListens
  <2>3. ASSUME NEW c \in Calls, Fetch(c) \/ Create(c) \/ Use(c) \/ UseOld(c) PROVE ListenInv'
    BY <2>3, ReleaseListens
  <2>4. ASSUME NEW c \in Calls, NextListener(c) \/ Attach(c) \/ Flush(c) PROVE ListenInv'
    BY <2>4, NextListens, AttachListens, FlushListens
  <2>5. ASSUME NEW f \in Fronts, Register(f) \/ Drop(f) PROVE ListenInv'
    BY <2>5, RegisterListens, DropListens
  <2>6. CASE Follow
    BY <2>6, FollowListens
  <2>7. CASE RegistryRemove \/ Pass \/ UNCHANGED allVars
    BY <2>7, OutsideListens
  <2> QED
    BY <2>1, <2>2, <2>3, <2>4, <2>5, <2>6, <2>7, FrontAssumption DEF FrontNext, Register
<1> QED
  BY <1>1, <1>2, AlwaysFrontInv, PTL DEF FrontSpec

\* The listeners of a front that has its limiter, when nobody is at them
\* (ListenersKept): with tasks the limiter has them all, in their order and as
\* often; with threads it has them all if none was ever taken back.
THEOREM AttachedListeners == FrontSpec => []ListenersKept
<1>1. ListenInv => ListenersKept
  <2> SUFFICES ASSUME ListenInv, NEW f \in Fronts, limiter[f] # 0, Settled(f)
               PROVE  /\ ~ threaded => Has(f) = pending[f]
                      /\ f \notin Revocable => ToSet(pending[f]) \subseteq ToSet(Has(f))
    BY DEF ListenersKept, Has
  <2>1. ~ threaded => Has(f) = pending[f]
    BY DEF ListenInv, ListenState, Aligned
  <2>2. ASSUME f \notin Revocable, NEW l \in ToSet(pending[f]) PROVE l \in ToSet(Has(f))
    <3>1. pending[f] \in Seq(Listeners)
      BY DEF ListenInv, ListenState, ListenType
    <3>2. PICK p \in 1..Len(pending[f]) : pending[f][p] = l
      BY <3>1, Members
    <3>3. Served(f, p)
      BY <2>2 DEF ListenInv, ListenState, Covered
    <3> QED
      BY <3>2, <3>3 DEF Served, Settled, Flushes
  <2> QED
    BY <2>1, <2>2
<1> QED
  BY <1>1, AlwaysListenInv, PTL

\* No task waits for a lock or finds it bound to another loop.
Uncontended ==
  ~ threaded => /\ \A c \in Calls : call[c].at # "waiting"
                /\ \A i \in 0..MaxLimiters : lock[i].waiter = None

\* On one event loop the locks of the registry and of the limiter are always free
\* when a task asks for them: what the locks lose, they lose to threads.
THEOREM TasksNeverWait == FrontSpec => []Uncontended
<1>1. FrontInv /\ ListenInv => Uncontended
  <2> SUFFICES ASSUME FrontInv, Alone PROVE \A i \in 0..MaxLimiters : lock[i].waiter = None
    BY DEF ListenInv, Uncontended, Alone
  <2> QED
    BY WaiterFacts DEF Alone, FrontInv
<1> QED
  BY <1>1, AlwaysListenInv, AlwaysFrontInv, PTL
=============================================================================
