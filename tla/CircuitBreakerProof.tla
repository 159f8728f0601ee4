------------------------ MODULE CircuitBreakerProof ------------------------
(***************************************************************************)
(* Theorems about CircuitBreaker, for every set of calls and every         *)
(* configuration that CircuitBreakerConfig.validate accepts.               *)
(***************************************************************************)
EXTENDS CircuitBreaker, BreakerLemmas

-----------------------------------------------------------------------------
(* Type correctness *)

\* The time a state object counts has a limit.
LEMMA ElapsedLimitType == ElapsedLimit \in Nat
  BY BreakerAssumption, PolicyConfig DEF ElapsedLimit

\* Each step publishes events of the known kinds.
LEMMA EventsType ==
  ASSUME NEW verdict
  PROVE  /\ EventsBefore(verdict) \in Seq(EventTypes)
         /\ EventsAfter(verdict) \in Seq(EventTypes)
<1>1. /\ << >> \in Seq(EventTypes)
      /\ <<"IgnoredError">> \in Seq(EventTypes)
      /\ <<"Success">> \in Seq(EventTypes)
      /\ <<"Error">> \in Seq(EventTypes)
  BY DEF EventTypes
<1>2. EventsBefore(verdict) \in {<< >>, <<"IgnoredError">>}
  BY Zenon DEF EventsBefore
<1>3. EventsAfter(verdict) \in {<<"Success">>, <<"Error">>}
  BY Zenon DEF EventsAfter
<1>4. QED
  BY <1>1, <1>2, <1>3

\* A fresh state object is well typed, whoever installs it.
LEMMA InstallType ==
  ASSUME NEW t \in StateTypes, NEW who \in {"application", "automatic"},
         Install(t, who)
  PROVE  /\ stateType' \in StateTypes
         /\ elapsed' \in 0..ElapsedLimit'
         /\ permits' \in 0..PermittedCalls
         /\ trials' \in Seq(CallOutcome) /\ Len(trials') <= PermittedCalls
         /\ driver' \in {"application", "automatic"}
<1>1. 0 \in 0..ElapsedLimit'
  BY BreakerAssumption, PolicyConfig DEF ElapsedLimit
<1>2. << >> \in Seq(CallOutcome) /\ Len(<< >>) = 0
  BY EmptySeq
<1>3. QED
  BY <1>1, <1>2, WindowConfig DEF Install

\* A new breaker is well typed.
LEMMA InitType == Init => TypeOK
<1> SUFFICES ASSUME Init
             PROVE  TypeOK
  OBVIOUS
<1>1. \A S : << >> \in Seq(S) /\ Len(<< >>) = 0
  BY EmptySeq
<1>2. 0 \in 0..ElapsedLimit /\ 0 \in 0..SlowCallDuration
  BY ElapsedLimitType, BreakerAssumption, PolicyConfig
<1>3. QED
  BY <1>1, <1>2, WindowConfig DEF Init, TypeOK, StateTypes, Replies

\* acquire_permission, in any state, keeps the types.
LEMMA AcquireType ==
  ASSUME TypeOK, NEW c \in Calls, Acquire(c)
  PROVE  TypeOK'
<1>1. CASE Pass(c)
  BY <1>1, BreakerAssumption, PolicyConfig
     DEF Pass, Starts, TypeOK, ElapsedLimit, stateVars, Replies, EventTypes
<1>2. CASE RejectOpen(c)
  BY <1>2, BreakerAssumption, PolicyConfig
     DEF RejectOpen, Rejected, TypeOK, ElapsedLimit, stateVars, callVars, Replies, EventTypes
<1>3. CASE Probe(c)
  BY <1>3, BreakerAssumption, PolicyConfig, WindowConfig
     DEF Probe, Starts, TypeOK, ElapsedLimit, StateTypes, Replies, EventTypes
<1>4. CASE AdmitTrial(c)
  <2>1. permits' \in 0..PermittedCalls
    BY <1>4, WindowConfig DEF AdmitTrial, TypeOK
  <2>2. UNCHANGED <<stateType, elapsed, trials, driver, window>> /\ ElapsedLimit' = ElapsedLimit
    BY <1>4 DEF AdmitTrial, Starts, ElapsedLimit
  <2> QED
    BY <1>4, <2>1, <2>2, BreakerAssumption DEF AdmitTrial, Starts, TypeOK, Replies, EventTypes
<1>5. CASE RejectTrial(c)
  BY <1>5, BreakerAssumption, PolicyConfig
     DEF RejectTrial, Rejected, TypeOK, ElapsedLimit, stateVars, callVars, Replies, EventTypes
<1>6. CASE ExpireHalfOpen(c)
  BY <1>6, InstallType
     DEF ExpireHalfOpen, Rejected, TypeOK, StateTypes, callVars, Replies, EventTypes
<1>7. QED
  BY <1>1, <1>2, <1>3, <1>4, <1>5, <1>6 DEF Acquire

\* The outcome of a call that ends is well typed.
LEMMA OutcomeOfType ==
  ASSUME NEW c, NEW verdict
  PROVE  OutcomeOf(c, verdict) \in CallOutcome
<1>1. (verdict # "fails") \in BOOLEAN
  BY Zenon
<1>2. IsSlow(c) \in BOOLEAN
  BY SMT DEF IsSlow
<1>3. Outcome(verdict # "fails", IsSlow(c)) \in CallOutcome
  BY <1>1, <1>2, OutcomeType, Zenon
<1>4. QED
  BY <1>3 DEF OutcomeOf

\* The end of a call, in any state, keeps the types.
LEMMA CompleteType ==
  ASSUME TypeOK, NEW c \in Calls, NEW verdict \in Verdicts, Complete(c, verdict)
  PROVE  TypeOK'
<1> DEFINE o == OutcomeOf(c, verdict)
           w == AddCall(window, o)
           ts == AddTrial(trials, o)
<1>1. o \in CallOutcome
  BY OutcomeOfType
<1>2. /\ w \in Seq(CallOutcome) /\ (CountBased => Len(w) <= WindowSize)
      /\ ts \in Seq(CallOutcome) /\ Len(ts) <= PermittedCalls
  BY <1>1, AddCallType, AddTrialType DEF TypeOK
<1>3. /\ phase' \in [Calls -> {"idle", "executing"}]
      /\ spent' \in [Calls -> 0..SlowCallDuration]
  BY BreakerAssumption, PolicyConfig DEF Complete, Returns, TypeOK
<1>4. admitted \ {c} \subseteq {d \in Calls : phase'[d] = "executing"}
  BY DEF Complete, Returns, TypeOK
<1>5. ReplyTo(verdict) \in Replies /\ "runtime_error" \in Replies
  BY DEF ReplyTo, Replies
<1>6. /\ EventsBefore(verdict) \in Seq(EventTypes)
      /\ EventsAfter(verdict) \in Seq(EventTypes)
      /\ << >> \in Seq(EventTypes)
      /\ <<"StateTransition">> \in Seq(EventTypes)
      /\ <<"IgnoredError">> \in Seq(EventTypes)
      /\ <<"StateTransition", RateEvent(w)>> \in Seq(EventTypes)
  BY EventsType DEF EventTypes, RateEvent
<1> HIDE DEF o, w, ts
<1>7. CASE CompleteClosed(c, verdict)
  <2>1. window' = w /\ reply' = ReplyTo(verdict)
    BY <1>7 DEF CompleteClosed, w, o
  <2>2. events' \in Seq(EventTypes)
    BY <1>6, <1>7, ConcatProperties DEF CompleteClosed, w, o
  <2>3. CASE Trips(w, verdict)
    <3>1. Install("OPEN", "automatic") /\ admitted' = {}
      BY <1>7, <2>3 DEF CompleteClosed, w, o
    <3>2. QED
      BY <1>2, <1>3, <1>5, <2>1, <2>2, <3>1, InstallType DEF TypeOK, StateTypes
  <2>4. CASE ~ Trips(w, verdict)
    <3>1. UNCHANGED stateVars /\ admitted' = admitted \ {c}
      BY <1>7, <2>4 DEF CompleteClosed, w, o
    <3>2. QED
      BY <1>2, <1>3, <1>4, <1>5, <2>1, <2>2, <3>1
         DEF TypeOK, stateVars, ElapsedLimit
  <2>5. QED
    BY <2>3, <2>4
<1>8. CASE CompleteHalfOpen(c, verdict)
  <2>1. window' = window /\ reply' = ReplyTo(verdict)
    BY <1>8 DEF CompleteHalfOpen
  <2>2. events' \in Seq(EventTypes)
    BY <1>6, <1>8, ConcatProperties DEF CompleteHalfOpen
  <2>3. CASE IsComplete(ts)
    <3>1. Install(TrialTarget(ts), "automatic") /\ admitted' = {}
      BY <1>8, <2>3 DEF CompleteHalfOpen, ts, o
    <3>2. TrialTarget(ts) \in StateTypes
      BY DEF TrialTarget, StateTypes
    <3>3. QED
      BY <1>3, <1>5, <2>1, <2>2, <3>1, <3>2, InstallType DEF TypeOK
  <2>4. CASE ~ IsComplete(ts)
    <3>1. /\ trials' = ts /\ admitted' = admitted \ {c}
          /\ UNCHANGED <<stateType, elapsed, permits, driver>>
      BY <1>8, <2>4 DEF CompleteHalfOpen, ts, o
    <3>2. QED
      BY <1>2, <1>3, <1>4, <1>5, <2>1, <2>2, <3>1 DEF TypeOK, ElapsedLimit
  <2>5. QED
    BY <2>3, <2>4
<1>9. CASE CompleteUnjudged(c, verdict)
  <2>1. events' \in Seq(EventTypes)
    BY <1>6, <1>9, ConcatProperties DEF CompleteUnjudged
  <2>2. window' \in {window, w}
    BY <1>9 DEF CompleteUnjudged, w, o
  <2>3. QED
    BY <1>2, <1>3, <1>4, <1>5, <1>9, <2>1, <2>2
       DEF CompleteUnjudged, TypeOK, stateVars, ElapsedLimit
<1>10. CASE CompleteOpen(c, verdict)
  BY <1>3, <1>4, <1>5, <1>6, <1>10
     DEF CompleteOpen, TypeOK, stateVars, ElapsedLimit
<1>11. QED
  BY <1>7, <1>8, <1>9, <1>10 DEF Complete

\* A cancelled call keeps the types.
LEMMA CancelType ==
  ASSUME TypeOK, NEW c \in Calls, Cancel(c)
  PROVE  TypeOK'
  BY BreakerAssumption, PolicyConfig
     DEF Cancel, Returns, TypeOK, stateVars, ElapsedLimit, Replies, EventTypes

\* The operations of the application keep the types.
LEMMA ApplicationType ==
  ASSUME TypeOK, Application
  PROVE  TypeOK'
<1>1. ASSUME NEW t \in ManualTargets, Manual(t)
      PROVE  TypeOK'
  <2>1. t \in StateTypes
    BY BreakerAssumption, PolicyConfig
  <2>2. events' \in Seq(EventTypes)
    <3>1. << >> \in Seq(EventTypes) /\ <<"StateTransition">> \in Seq(EventTypes)
      BY DEF EventTypes
    <3>2. TransitionEvents(t) \in {<< >>, <<"StateTransition">>}
      BY Zenon DEF TransitionEvents
    <3>3. QED
      BY <1>1, <3>1, <3>2 DEF Manual
  <2>3. CASE stateType = t
    BY <1>1, <2>2, <2>3
       DEF Manual, TransitionTo, TypeOK, stateVars, callVars, ElapsedLimit, Replies
  <2>4. CASE stateType # t
    BY <1>1, <2>1, <2>2, <2>4, InstallType
       DEF Manual, TransitionTo, TypeOK, callVars, Replies
  <2>5. QED
    BY <2>3, <2>4
<1>2. CASE Reset
  BY <1>2, InstallType, EmptySeq, WindowConfig
     DEF Reset, TypeOK, StateTypes, callVars, Replies, EventTypes
<1>3. QED
  BY <1>1, <1>2 DEF Application

\* A tick keeps the types.
LEMMA TickType ==
  ASSUME TypeOK, Tick
  PROVE  TypeOK'
<1>1. elapsed' \in 0..ElapsedLimit'
  <2>1. elapsed' \in 0..ElapsedLimit
    BY ElapsedLimitType DEF Tick, TypeOK
  <2>2. QED
    BY <2>1 DEF Tick, ElapsedLimit
<1>2. window' \in Seq(CallOutcome) /\ (CountBased => Len(window') <= WindowSize)
  BY OlderType DEF Tick, TypeOK
<1>3. spent' \in [Calls -> 0..SlowCallDuration]
  BY BreakerAssumption, PolicyConfig DEF Tick, TypeOK
<1>4. QED
  BY <1>1, <1>2, <1>3 DEF Tick, TypeOK, Replies, EventTypes

\* get_metrics, which expires old entries, keeps the types.
LEMMA GetMetricsType ==
  ASSUME TypeOK, GetMetrics
  PROVE  TypeOK'
<1>1. window' \in Seq(CallOutcome) /\ (CountBased => Len(window') <= WindowSize)
  BY ExpireType DEF GetMetrics, TypeOK
<1>2. QED
  BY <1>1 DEF GetMetrics, TypeOK, stateVars, callVars, ElapsedLimit, Replies, EventTypes

\* TypeOK holds in every reachable state: in particular the sliding window stays
\* within its size, and a half-open state within its permits and trials.
THEOREM TypeCorrect == Spec => []TypeOK
<1>1. TypeOK /\ [Next]_vars => TypeOK'
  <2> SUFFICES ASSUME TypeOK, [Next]_vars
               PROVE  TypeOK'
    OBVIOUS
  <2>1. CASE Next
    BY <2>1, AcquireType, CompleteType, CancelType, ApplicationType, TickType,
       GetMetricsType DEF Next
  <2>2. CASE UNCHANGED vars
    BY <2>2 DEF TypeOK, vars, ElapsedLimit
  <2>3. QED
    BY <2>1, <2>2
<1>2. QED
  BY InitType, <1>1, PTL DEF Spec
-----------------------------------------------------------------------------
(* Permits *)

PermitInv == AdmissionBounded /\ NoPermitLost

\* How the executing calls of a state are counted when one comes or goes.
LEMMA AdmittedCount ==
  ASSUME TypeOK, NEW c \in Calls
  PROVE  /\ Cardinality(admitted) \in Nat
         /\ c \notin admitted => Cardinality(admitted \cup {c}) = Cardinality(admitted) + 1
         /\ Cardinality(admitted \ {c}) \in Nat
         /\ Cardinality(admitted \ {c}) <= Cardinality(admitted)
         /\ Cardinality(admitted) <= Cardinality(admitted \ {c}) + 1
<1>1. admitted \in SUBSET Calls
  BY DEF TypeOK
<1>2. IsFiniteSet(admitted) /\ Cardinality(admitted) \in Nat
  BY <1>1, CallsAssumption, FS_Subset, FS_CardinalityType
<1>3. IsFiniteSet(admitted \ {c}) /\ Cardinality(admitted \ {c}) \in Nat
  BY <1>2, FS_RemoveElement, FS_CardinalityType
<1>4. Cardinality(admitted \ {c})
        = IF c \in admitted THEN Cardinality(admitted) - 1 ELSE Cardinality(admitted)
  BY <1>2, FS_RemoveElement
<1>5. c \notin admitted => Cardinality(admitted \cup {c}) = Cardinality(admitted) + 1
  BY <1>2, FS_AddElement
<1>6. QED
  BY <1>2, <1>3, <1>4, <1>5

\* Asking for a permission keeps the account of the permits.
LEMMA PermitsAcquire ==
  ASSUME TypeOK, PermitInv, NEW c \in Calls, Acquire(c)
  PROVE  PermitInv'
<1> USE DEF PermitInv, AdmissionBounded, NoPermitLost
<1>1. CASE Pass(c)
  BY <1>1 DEF Pass, stateVars
<1>2. CASE RejectOpen(c)
  BY <1>2 DEF RejectOpen, stateVars
<1>3. CASE Probe(c)
  <2>1. Len(trials') = 0 /\ permits' = 1
    BY <1>3, EmptySeq DEF Probe
  <2>2. Cardinality(admitted') = 1
    BY <1>3, FS_Singleton DEF Probe
  <2>3. QED
    BY <1>3, <2>1, <2>2 DEF Probe
<1>4. CASE AdmitTrial(c)
  <2>1. c \notin admitted
    BY <1>4 DEF AdmitTrial, TypeOK
  <2>2. Len(trials) \in Nat /\ permits \in Nat
    BY LenProperties, WindowConfig DEF TypeOK
  <2>3. Cardinality(admitted') = Cardinality(admitted) + 1 /\ Cardinality(admitted) \in Nat
    BY <1>4, <2>1, AdmittedCount DEF AdmitTrial
  <2>4. QED
    BY <1>4, <2>2, <2>3 DEF AdmitTrial
<1>5. CASE RejectTrial(c)
  BY <1>5 DEF RejectTrial, stateVars
<1>6. CASE ExpireHalfOpen(c)
  BY <1>6 DEF ExpireHalfOpen, Install
<1>7. QED
  BY <1>1, <1>2, <1>3, <1>4, <1>5, <1>6 DEF Acquire

\* So does the end of a call: its permit becomes an outcome.
LEMMA PermitsComplete ==
  ASSUME TypeOK, PermitInv, NEW c \in Calls, NEW verdict \in Verdicts,
         Complete(c, verdict)
  PROVE  PermitInv'
<1> DEFINE o == OutcomeOf(c, verdict)
           ts == AddTrial(trials, o)
<1> USE DEF PermitInv, AdmissionBounded, NoPermitLost
<1>1. /\ Cardinality(admitted) \in Nat
      /\ Cardinality(admitted \ {c}) \in Nat
      /\ Cardinality(admitted \ {c}) <= Cardinality(admitted)
      /\ Cardinality(admitted) <= Cardinality(admitted \ {c}) + 1
  BY AdmittedCount
<1>2. CASE CompleteClosed(c, verdict)
  BY <1>2 DEF CompleteClosed, Install, stateVars
<1>3. CASE CompleteHalfOpen(c, verdict)
  <2>1. CASE IsComplete(ts)
    BY <1>3, <2>1 DEF CompleteHalfOpen, Install, TrialTarget
  <2>2. CASE ~ IsComplete(ts)
    <3>1. o \in CallOutcome
      BY OutcomeOfType
    <3>2. Len(ts) = Len(trials) + 1 /\ Len(trials) \in Nat
      BY <2>2, <3>1, AddTrialType, LenProperties DEF TypeOK
    <3>3. /\ trials' = ts /\ admitted' = admitted \ {c}
          /\ UNCHANGED <<stateType, permits>>
      BY <1>3, <2>2 DEF CompleteHalfOpen
    <3>4. permits \in Nat
      BY WindowConfig DEF TypeOK
    <3> HIDE DEF ts, o
    <3>5. QED
      BY <1>1, <1>3, <3>2, <3>3, <3>4 DEF CompleteHalfOpen
  <2>3. QED
    BY <2>1, <2>2
<1>4. CASE CompleteUnjudged(c, verdict)
  BY <1>4 DEF CompleteUnjudged, stateVars
<1>5. CASE CompleteOpen(c, verdict)
  BY <1>5 DEF CompleteOpen, stateVars
<1>6. QED
  BY <1>2, <1>3, <1>4, <1>5 DEF Complete

\* A cancellation only ever lowers the number of trials that execute.
LEMMA PermitsCancel ==
  ASSUME TypeOK, PermitInv, NEW c \in Calls, Cancel(c)
  PROVE  PermitInv'
<1>1. /\ Cardinality(admitted \ {c}) <= Cardinality(admitted)
      /\ Cardinality(admitted) \in Nat /\ Cardinality(admitted \ {c}) \in Nat
  BY AdmittedCount
<1>2. permits \in Nat
  BY WindowConfig DEF TypeOK
<1>3. QED
  BY <1>1, <1>2 DEF PermitInv, AdmissionBounded, NoPermitLost, Cancel, stateVars

\* What the application installs has given out no permit.
LEMMA PermitsApplication ==
  ASSUME TypeOK, PermitInv, Application
  PROVE  PermitInv'
<1> USE DEF PermitInv, AdmissionBounded, NoPermitLost
<1>1. ASSUME NEW t \in ManualTargets, Manual(t)
      PROVE  PermitInv'
  <2>1. CASE stateType = t
    BY <1>1, <2>1 DEF Manual, TransitionTo, stateVars
  <2>2. CASE stateType # t
    BY <1>1, <2>2, FS_EmptySet, EmptySeq DEF Manual, TransitionTo, Install
  <2>3. QED
    BY <2>1, <2>2
<1>2. CASE Reset
  BY <1>2 DEF Reset, Install
<1>3. QED
  BY <1>1, <1>2 DEF Application

\* So the account of the permits is inductive, given the types.
LEMMA PermitsStep == TypeOK /\ PermitInv /\ [Next]_vars => PermitInv'
<1> SUFFICES ASSUME TypeOK, PermitInv, [Next]_vars
             PROVE  PermitInv'
  OBVIOUS
<1>1. CASE Tick \/ GetMetrics \/ UNCHANGED vars
  BY <1>1 DEF Tick, GetMetrics, vars, stateVars, PermitInv, AdmissionBounded, NoPermitLost
<1>2. CASE Next
  BY <1>1, <1>2, PermitsAcquire, PermitsComplete, PermitsCancel, PermitsApplication
     DEF Next
<1>3. QED
  BY <1>1, <1>2

\* It holds in every reachable state.
LEMMA PermitsInvariant == Spec => [](TypeOK /\ PermitInv)
<1>1. Init => PermitInv
  BY DEF Init, PermitInv, AdmissionBounded, NoPermitLost
<1>2. QED
  BY <1>1, TypeCorrect, PermitsStep, PTL DEF Spec

\* A half-open breaker never runs more trials than it gave permits for, and a
\* breaker that is open or forced open has let in none of the executing calls.
THEOREM Admission == Spec => []AdmissionBounded
<1>1. TypeOK /\ PermitInv => AdmissionBounded
  BY DEF PermitInv
<1>2. QED
  BY <1>1, PermitsInvariant, PTL

\* As long as no caller cancels, every permit of a half-open breaker is held by
\* an executing call or was turned into a recorded outcome.
THEOREM PermitsKept == Spec => []NoPermitLost
<1>1. TypeOK /\ PermitInv => NoPermitLost
  BY DEF PermitInv
<1>2. QED
  BY <1>1, PermitsInvariant, PTL

-----------------------------------------------------------------------------
(* The contract *)

\* Every step of the breaker is a step its contract allows, or none.
LEMMA ContractStep == TypeOK /\ [Next]_vars => [Contract!Next]_(Contract!contractVars)
<1> SUFFICES ASSUME TypeOK, [Next]_vars
             PROVE  [Contract!Next]_(Contract!contractVars)
  OBVIOUS
<1> USE DEF Contract!contractVars
<1>1. ASSUME UNCHANGED stateVars
      PROVE  [Contract!Next]_(Contract!contractVars)
  BY <1>1 DEF stateVars
<1>2. ASSUME NEW t \in StateTypes, Install(t, "application")
      PROVE  Contract!Next
  BY <1>2 DEF Install, Contract!Next, Contract!Command, Contract!Become, Contract!Modes,
     StateTypes
<1>3. ASSUME NEW c \in Calls, Acquire(c)
      PROVE  [Contract!Next]_(Contract!contractVars)
  <2>1. CASE Pass(c) \/ RejectOpen(c) \/ RejectTrial(c)
    BY <1>1, <2>1 DEF Pass, RejectOpen, RejectTrial
  <2>2. CASE Probe(c)
    <3>1. elapsed = WaitDuration
      BY <2>2, BreakerAssumption, PolicyConfig DEF Probe, WaitIsOver, TypeOK, ElapsedLimit
    <3>2. Contract!Probe
      BY <2>2, <3>1 DEF Probe, WaitIsOver, Contract!Probe, Contract!Become
    <3>3. QED
      BY <3>2 DEF Contract!Next
  <2>3. CASE AdmitTrial(c)
    BY <2>3 DEF AdmitTrial, Contract!Next, Contract!Admit
  <2>4. CASE ExpireHalfOpen(c)
    BY <2>4 DEF ExpireHalfOpen, Install, Contract!Next, Contract!Resolve, Contract!Become
  <2>5. QED
    BY <1>3, <2>1, <2>2, <2>3, <2>4 DEF Acquire
<1>4. ASSUME NEW c \in Calls, NEW verdict \in Verdicts, Complete(c, verdict)
      PROVE  [Contract!Next]_(Contract!contractVars)
  <2>1. CASE CompleteClosed(c, verdict)
    <3>1. CASE UNCHANGED stateVars
      BY <1>1, <3>1
    <3>2. CASE Install("OPEN", "automatic")
      BY <2>1, <3>2 DEF CompleteClosed, Install, Contract!Next, Contract!Trip,
         Contract!Become
    <3>3. QED
      BY <2>1, <3>1, <3>2 DEF CompleteClosed
  <2>2. CASE CompleteHalfOpen(c, verdict)
    <3> DEFINE ts == AddTrial(trials, OutcomeOf(c, verdict))
    <3>1. CASE IsComplete(ts)
      <4>1. Install(TrialTarget(ts), "automatic") /\ stateType = "HALF_OPEN"
        BY <2>2, <3>1 DEF CompleteHalfOpen
      <4>2. TrialTarget(ts) \in {"OPEN", "CLOSED"}
        BY Zenon DEF TrialTarget
      <4> HIDE DEF ts
      <4>3. Contract!Resolve
        BY <4>1, <4>2 DEF Install, Contract!Resolve, Contract!Become
      <4>4. QED
        BY <4>3 DEF Contract!Next
    <3>2. CASE ~ IsComplete(ts)
      BY <2>2, <3>2 DEF CompleteHalfOpen
    <3>3. QED
      BY <3>1, <3>2
  <2>3. CASE CompleteUnjudged(c, verdict) \/ CompleteOpen(c, verdict)
    BY <1>1, <2>3 DEF CompleteUnjudged, CompleteOpen
  <2>4. QED
    BY <1>4, <2>1, <2>2, <2>3 DEF Complete
<1>5. ASSUME Application
      PROVE  [Contract!Next]_(Contract!contractVars)
  <2>1. ASSUME NEW t \in ManualTargets, Manual(t)
        PROVE  [Contract!Next]_(Contract!contractVars)
    BY <1>1, <1>2, <2>1, BreakerAssumption, PolicyConfig DEF Manual, TransitionTo
  <2>2. CASE Reset
    BY <1>2, <2>2 DEF Reset, StateTypes
  <2>3. QED
    BY <1>5, <2>1, <2>2 DEF Application
<1>6. CASE Tick
  <2>1. CASE stateType = "OPEN" /\ elapsed < WaitDuration
    <3>1. elapsed' = elapsed + 1
      BY <1>6, <2>1 DEF Tick, ElapsedLimit
    <3>2. QED
      BY <1>6, <2>1, <3>1 DEF Tick, Contract!Next, Contract!Wait
  <2>2. CASE stateType = "OPEN" /\ ~ elapsed < WaitDuration
    <3>1. elapsed' = elapsed
      BY <1>6, <2>2 DEF Tick, ElapsedLimit
    <3>2. QED
      BY <1>6, <3>1 DEF Tick
  <2>3. CASE stateType # "OPEN"
    BY <1>6, <2>3 DEF Tick
  <2>4. QED
    BY <2>1, <2>2, <2>3
<1>7. CASE GetMetrics \/ (\E c \in Calls : Cancel(c)) \/ UNCHANGED vars
  BY <1>1, <1>7 DEF GetMetrics, Cancel, vars, stateVars
<1>8. QED
  BY <1>3, <1>4, <1>5, <1>6, <1>7 DEF Next

\* The breaker implements its contract: changes of state are legal and have the
\* initiator they claim, OPEN lasts the whole wait unless the application ends
\* it, and a half-open period lets in no more than the permitted calls.
THEOREM Refinement == Spec => KeepsContract
<1>1. Init => Contract!Init
  BY DEF Init, Contract!Init
<1>2. QED
  BY <1>1, ContractStep, TypeCorrect, PTL DEF Spec, KeepsContract, Contract!Spec
-----------------------------------------------------------------------------
(* A configuration that validate() accepts and that never opens *)

\* minimum_number_of_calls above the size of a count-based window, and an
\* application that does not itself ask for OPEN or HALF_OPEN.
CannotFill ==
  /\ CountBased
  /\ MinimumCalls > WindowSize
  /\ ManualTargets \cap {"OPEN", "HALF_OPEN"} = {}

\* Such a breaker never opens, whatever its calls do: the window forgets its
\* oldest outcome before _check_thresholds sees enough of them.
THEOREM NeverTrips ==
  ASSUME CannotFill
  PROVE  Spec => [](stateType \notin {"OPEN", "HALF_OPEN"})
<1> DEFINE Shut == stateType \notin {"OPEN", "HALF_OPEN"}
<1>1. Init => Shut
  BY DEF Init
<1>2. TypeOK /\ Shut /\ [Next]_vars => Shut'
  <2> SUFFICES ASSUME TypeOK, Shut, [Next]_vars
               PROVE  Shut'
    OBVIOUS
  <2>1. ASSUME NEW c \in Calls, Acquire(c)
        PROVE  Shut'
    BY <2>1 DEF Acquire, Pass, RejectOpen, Probe, AdmitTrial, RejectTrial,
       ExpireHalfOpen, stateVars
  <2>2. ASSUME NEW c \in Calls, NEW verdict \in Verdicts, Complete(c, verdict)
        PROVE  Shut'
    <3> DEFINE w == AddCall(window, OutcomeOf(c, verdict))
    <3>1. CASE CompleteClosed(c, verdict)
      <4>1. w \in Seq(CallOutcome) /\ Len(w) <= WindowSize
        BY OutcomeOfType, AddCallType, CannotFill DEF CannotFill, TypeOK
      <4>2. Len(w) \in Nat
        BY <4>1, LenProperties
      <4> HIDE DEF w
      <4>3. ~ Trips(w, verdict)
        BY <4>1, <4>2, CannotFill, WindowConfig, BreakerAssumption, PolicyConfig
           DEF Trips, CannotFill
      <4>4. UNCHANGED stateVars
        BY <3>1, <4>3 DEF CompleteClosed, w
      <4>5. QED
        BY <4>4 DEF stateVars
    <3>2. QED
      BY <2>2, <3>1 DEF Complete, CompleteHalfOpen, CompleteUnjudged, CompleteOpen,
         stateVars
  <2>3. CASE Application
    BY <2>3, CannotFill
       DEF Application, Manual, Reset, TransitionTo, Install, stateVars, CannotFill
  <2>4. CASE Tick \/ GetMetrics \/ (\E c \in Calls : Cancel(c)) \/ UNCHANGED vars
    BY <2>4 DEF Tick, GetMetrics, Cancel, vars, stateVars
  <2>5. QED
    BY <2>1, <2>2, <2>3, <2>4 DEF Next
<1>3. QED
  BY <1>1, <1>2, TypeCorrect, PTL DEF Spec

-----------------------------------------------------------------------------
(* The order of the sliding window *)

\* Entries of a time-based window stay in order of age, whoever records them and
\* however old they get: _cleanup_old_entries may stop at the first young one,
\* and then (ExpireIsExact) drops what is too old and nothing else.
THEOREM WindowOrder == Spec => []WindowInOrder
<1>1. Init => WindowInOrder
  BY DEF Init, WindowInOrder
<1>2. TypeOK /\ WindowInOrder /\ [Next]_vars => WindowInOrder'
  <2> SUFFICES ASSUME TypeOK, WindowInOrder, [Next]_vars
               PROVE  WindowInOrder'
    OBVIOUS
  <2>1. window \in Seq(CallOutcome) /\ InOrder(window)
    BY DEF TypeOK, WindowInOrder, InOrder
  <2>2. ASSUME InOrder(window') PROVE WindowInOrder'
    BY <2>2 DEF WindowInOrder, InOrder
  <2>3. CASE window' = window
    BY <2>1, <2>2, <2>3
  <2>4. ASSUME NEW c \in Calls, NEW verdict \in Verdicts, Complete(c, verdict)
        PROVE  WindowInOrder'
    <3> DEFINE o == OutcomeOf(c, verdict)
    <3>1. o \in CallOutcome /\ o.age = 0
      BY OutcomeOfType DEF OutcomeOf, Outcome
    <3>2. window' = window \/ window' = AddCall(window, o)
      BY <2>4 DEF Complete, CompleteClosed, CompleteHalfOpen, CompleteUnjudged, CompleteOpen
    <3> HIDE DEF o
    <3> QED
      BY <2>1, <2>2, <2>3, <3>1, <3>2, AddCallOrder
  <2>5. CASE Tick
    BY <2>1, <2>2, <2>3, <2>5, OlderOrder DEF Tick
  <2>6. CASE GetMetrics
    BY <2>1, <2>2, <2>6, ExpireOrder DEF GetMetrics
  <2>7. CASE Reset
    BY <2>7 DEF Reset, WindowInOrder
  <2>8. ASSUME NEW c \in Calls, Acquire(c) \/ Cancel(c)
        PROVE  WindowInOrder'
    BY <2>3, <2>8 DEF Acquire, Pass, RejectOpen, Probe, AdmitTrial, RejectTrial,
       ExpireHalfOpen, Starts, Rejected, Cancel
  <2>9. ASSUME NEW t \in ManualTargets, Manual(t) PROVE WindowInOrder'
    BY <2>3, <2>9 DEF Manual
  <2> QED
    BY <2>3, <2>4, <2>5, <2>6, <2>7, <2>8, <2>9 DEF Next, Application, vars
<1> QED
  BY <1>1, <1>2, TypeCorrect, PTL DEF Spec

-----------------------------------------------------------------------------
(* The events of a step *)

Announces(e) == \E i \in 1..Len(e) : e[i] = "StateTransition"

\* Publishing one list of events after another announces what either does.
LEMMA AnnouncesConcat ==
  ASSUME NEW a \in Seq(EventTypes), NEW b \in Seq(EventTypes)
  PROVE  Announces(a \o b) <=> Announces(a) \/ Announces(b)
<1> DEFINE m == Len(a)
           n == Len(b)
           ab == a \o b
<1>1. m \in Nat /\ n \in Nat
  BY LenProperties
<1>2. /\ Len(ab) = m + n
      /\ \A i \in 1..m + n : ab[i] = IF i <= m THEN a[i] ELSE b[i - m]
  BY ConcatProperties
<1> HIDE DEF m, n, ab
<1>3. ASSUME Announces(a) PROVE Announces(ab)
  <2>1. PICK i \in 1..m : a[i] = "StateTransition"
    BY <1>3 DEF Announces, m
  <2>2. i \in 1..m + n /\ i <= m
    BY <1>1
  <2> QED
    BY <1>2, <2>1, <2>2 DEF Announces
<1>4. ASSUME Announces(b) PROVE Announces(ab)
  <2>1. PICK i \in 1..n : b[i] = "StateTransition"
    BY <1>4 DEF Announces, n
  <2>2. m + i \in 1..m + n /\ ~ m + i <= m /\ m + i - m = i
    BY <1>1
  <2>3. ab[m + i] = b[m + i - m]
    BY <1>1, <1>2, <2>2
  <2>4. ab[m + i] = "StateTransition"
    BY <2>1, <2>2, <2>3
  <2>5. m + i \in 1..Len(ab)
    BY <1>2, <2>2
  <2> QED
    BY <2>4, <2>5, Zenon DEF Announces
<1>5. ASSUME Announces(ab) PROVE Announces(a) \/ Announces(b)
  <2>1. PICK i \in 1..m + n : ab[i] = "StateTransition"
    BY <1>2, <1>5 DEF Announces
  <2>2. CASE i <= m
    BY <1>1, <1>2, <2>1, <2>2 DEF Announces, m
  <2>3. CASE ~ i <= m
    <3>1. i - m \in 1..n /\ b[i - m] = "StateTransition"
      BY <1>1, <1>2, <2>1, <2>3
    <3> QED
      BY <3>1 DEF Announces, n
  <2> QED
    BY <2>2, <2>3
<1> QED
  BY <1>3, <1>4, <1>5 DEF ab

\* The events before and after the judgement of a call announce nothing.
LEMMA CallEvents ==
  ASSUME NEW verdict, NEW e \in Seq(EventTypes)
  PROVE  /\ ~ Announces(EventsBefore(verdict)) /\ ~ Announces(EventsAfter(verdict))
         /\ Announces(EventsBefore(verdict) \o e \o EventsAfter(verdict)) <=> Announces(e)
         /\ ~ Announces(EventsBefore(verdict) \o EventsAfter(verdict))
<1>1. ~ Announces(<<>>) /\ ~ Announces(<<"IgnoredError">>)
      /\ ~ Announces(<<"Success">>) /\ ~ Announces(<<"Error">>)
  BY DEF Announces
<1>2. EventsBefore(verdict) \in {<<>>, <<"IgnoredError">>}
  BY Zenon DEF EventsBefore
<1>3. EventsAfter(verdict) \in {<<"Success">>, <<"Error">>}
  BY Zenon DEF EventsAfter
<1>4. ~ Announces(EventsBefore(verdict)) /\ ~ Announces(EventsAfter(verdict))
  BY <1>1, <1>2, <1>3
<1>5. EventsBefore(verdict) \in Seq(EventTypes) /\ EventsAfter(verdict) \in Seq(EventTypes)
  BY EventsType
<1>6. EventsBefore(verdict) \o e \in Seq(EventTypes)
  BY <1>5, ConcatProperties
<1> QED
  BY <1>4, <1>5, <1>6, AnnouncesConcat

\* What the single events announce.
LEMMA ShortEvents ==
  /\ ~ Announces(<<>>) /\ ~ Announces(<<"Reset">>)
  /\ ~ Announces(<<"CallNotPermitted">>) /\ ~ Announces(<<"IgnoredError">>)
  /\ Announces(<<"StateTransition">>)
  /\ Announces(<<"StateTransition", "CallNotPermitted">>)
  /\ \A e : Announces(<<"StateTransition", e>>)
  BY DEF Announces

\* The end of a call announces the change of state it causes, and no other.
LEMMA CompleteAnnounces ==
  ASSUME TypeOK, NEW c \in Calls, NEW verdict \in Verdicts, Complete(c, verdict)
  PROVE  (stateType' # stateType) <=> Announces(events')
<1>1. /\ <<>> \in Seq(EventTypes) /\ <<"StateTransition">> \in Seq(EventTypes)
      /\ \A w : <<"StateTransition", RateEvent(w)>> \in Seq(EventTypes)
  <2>1. \A w : RateEvent(w) \in {"FailureRateExceeded", "SlowCallRateExceeded"}
    BY Zenon DEF RateEvent
  <2> QED
    BY <2>1 DEF EventTypes
<1>2. CASE CompleteClosed(c, verdict)
  <2> DEFINE w == AddCall(window, OutcomeOf(c, verdict))
  <2>1. CASE Trips(w, verdict)
    <3>1. stateType = "CLOSED" /\ stateType' = "OPEN"
      BY <1>2, <2>1 DEF CompleteClosed, Install
    <3>2. events' = EventsBefore(verdict) \o <<"StateTransition", RateEvent(w)>>
                    \o EventsAfter(verdict)
      BY <1>2, <2>1 DEF CompleteClosed
    <3> HIDE DEF w
    <3> QED
      BY <1>1, <3>1, <3>2, CallEvents, ShortEvents
  <2>2. CASE ~ Trips(w, verdict)
    <3>1. stateType' = stateType
      BY <1>2, <2>2 DEF CompleteClosed, stateVars
    <3>2. events' = EventsBefore(verdict) \o <<>> \o EventsAfter(verdict)
      BY <1>2, <2>2 DEF CompleteClosed
    <3> QED
      BY <1>1, <3>1, <3>2, CallEvents, ShortEvents
  <2> QED
    BY <2>1, <2>2
<1>3. CASE CompleteHalfOpen(c, verdict)
  <2> DEFINE ts == AddTrial(trials, OutcomeOf(c, verdict))
  <2>1. CASE IsComplete(ts)
    <3>1. stateType = "HALF_OPEN" /\ stateType' = TrialTarget(ts)
      BY <1>3, <2>1 DEF CompleteHalfOpen, Install
    <3>2. TrialTarget(ts) \in {"OPEN", "CLOSED"}
      BY Zenon DEF TrialTarget
    <3>3. events' = EventsBefore(verdict) \o <<"StateTransition">> \o EventsAfter(verdict)
      BY <1>3, <2>1 DEF CompleteHalfOpen
    <3> HIDE DEF ts
    <3> QED
      BY <1>1, <3>1, <3>2, <3>3, CallEvents, ShortEvents
  <2>2. CASE ~ IsComplete(ts)
    <3>1. stateType' = stateType
      BY <1>3, <2>2 DEF CompleteHalfOpen
    <3>2. events' = EventsBefore(verdict) \o <<>> \o EventsAfter(verdict)
      BY <1>3, <2>2 DEF CompleteHalfOpen
    <3> QED
      BY <1>1, <3>1, <3>2, CallEvents, ShortEvents
  <2> QED
    BY <2>1, <2>2
<1>4. CASE CompleteUnjudged(c, verdict)
  BY <1>1, <1>4, CallEvents DEF CompleteUnjudged, stateVars
<1>5. CASE CompleteOpen(c, verdict)
  <2>1. events' = <<"IgnoredError">> \/ events' = EventsBefore(verdict)
    BY <1>5 DEF CompleteOpen
  <2> QED
    BY <1>1, <1>5, <2>1, CallEvents, ShortEvents DEF CompleteOpen, stateVars
<1> QED
  BY <1>2, <1>3, <1>4, <1>5 DEF Complete

\* Listeners learn of every change of state in the step that makes it, and of no
\* other: each transition of states.py and circuit_breaker.py publishes one
\* StateTransition.  The changes reset() makes are exempt; none is announced for
\* a step that changes nothing, reset() included.
THEOREM Announcements == Spec => ChangesAnnounced
<1>1. TypeOK /\ [Next]_vars
        => [/\ Announced => stateType' # stateType
            /\ stateType' # stateType => Announced \/ Reset]_vars
  <2> SUFFICES ASSUME TypeOK, Next
               PROVE  /\ Announces(events') => stateType' # stateType
                      /\ stateType' # stateType => Announces(events') \/ Reset
    BY DEF Announced, Announces, vars
  <2>1. CASE Reset
    <3>1. events' = <<"Reset">>
      BY <2>1 DEF Reset
    <3> QED
      BY <2>1, <3>1, ShortEvents
  <2>2. ASSUME ~ Reset PROVE (stateType' # stateType) <=> Announces(events')
    <3>1. ASSUME NEW c \in Calls, Acquire(c)
          PROVE  (stateType' # stateType) <=> Announces(events')
      BY <3>1, ShortEvents
         DEF Acquire, Pass, RejectOpen, Probe, AdmitTrial, RejectTrial, ExpireHalfOpen,
             Install, stateVars
    <3>2. ASSUME NEW c \in Calls, NEW verdict \in Verdicts, Complete(c, verdict)
          PROVE  (stateType' # stateType) <=> Announces(events')
      BY <3>2, CompleteAnnounces
    <3>3. ASSUME NEW t \in ManualTargets, Manual(t)
          PROVE  (stateType' # stateType) <=> Announces(events')
      BY <3>3, ShortEvents DEF Manual, TransitionTo, TransitionEvents, Install, stateVars
    <3>4. CASE Tick \/ GetMetrics \/ \E c \in Calls : Cancel(c)
      BY <3>4, ShortEvents DEF Tick, GetMetrics, Cancel, stateVars
    <3> QED
      BY <2>2, <3>1, <3>2, <3>3, <3>4 DEF Next, Application
  <2> QED
    BY <2>1, <2>2
<1> QED
  BY <1>1, TypeCorrect, PTL DEF Spec, ChangesAnnounced

\* What _cleanup_old_entries would drop now: the outdated entries, no other.
OutdatedDropped ==
  ~ CountBased
    => \E k \in 0..Len(window) :
         /\ Expire(window) = SubSeq(window, k + 1, Len(window))
         /\ \A i \in 1..Len(window) : i <= k <=> window[i].age > WindowSize

\* Whenever the window is looked at, the loop that stops at the first entry young
\* enough has dropped all outdated entries and kept all others.
THEOREM CleanUp == Spec => []OutdatedDropped
<1>1. TypeOK /\ WindowInOrder => OutdatedDropped
  BY ExpireIsExact DEF TypeOK, WindowInOrder, InOrder, OutdatedDropped
<1> QED
  BY <1>1, TypeCorrect, WindowOrder, PTL
=============================================================================
