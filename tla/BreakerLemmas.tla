---------------------------- MODULE BreakerLemmas ----------------------------
(***************************************************************************)
(* Lemmas about BreakerMetrics and BreakerPolicy, for every configuration  *)
(* that CircuitBreakerConfig.validate accepts: what both models of the     *)
(* circuit breaker need.                                                   *)
(***************************************************************************)
EXTENDS BreakerPolicy, DataLemmas, FiniteSetTheorems

\* What validate() says of the windows.
LEMMA WindowConfig ==
  /\ WindowSize \in Nat \ {0}
  /\ WindowType \in {"COUNT_BASED", "TIME_BASED"}
  /\ PermittedCalls \in Nat \ {0}
  BY WindowAssumption DEF WindowConfigIsValid

\* What it says of the rest.
LEMMA PolicyConfig ==
  /\ FailureRateThreshold \in 1..100
  /\ SlowCallRateThreshold \in 1..100
  /\ MinimumCalls \in Nat \ {0}
  /\ WaitDuration \in Nat \ {0}
  /\ MaxWaitHalfOpen \in Nat
  /\ AutomaticHalfOpen \in BOOLEAN
  BY PolicyAssumption DEF PolicyConfigIsValid

-----------------------------------------------------------------------------
(* The windows of BreakerMetrics *)

\* Entries of a window age up to a natural number of ticks.
LEMMA AgeLimitType == AgeLimit \in Nat
  BY WindowConfig DEF AgeLimit

\* What record_success and record_failure make is an outcome.
LEMMA OutcomeType ==
  ASSUME NEW ok \in BOOLEAN, NEW slow \in BOOLEAN
  PROVE  Outcome(ok, slow) \in CallOutcome
  BY AgeLimitType DEF Outcome, CallOutcome

\* _cleanup_old_entries drops the entries up to the first that is young enough,
\* or all of them.
LEMMA ExpireDrops ==
  ASSUME NEW w \in Seq(CallOutcome), ~ CountBased
  PROVE  \E k \in 0..Len(w) :
           /\ Expire(w) = SubSeq(w, k + 1, Len(w))
           /\ \A i \in 1..k : w[i].age > WindowSize
           /\ k < Len(w) => w[k + 1].age <= WindowSize
<1> DEFINE n == Len(w)
           young == {i \in 1..n : w[i].age <= WindowSize} \cup {n + 1}
           first == CHOOSE i \in young : \A j \in young : i <= j
<1>1. n \in Nat /\ WindowSize \in Nat
  BY LenProperties, WindowConfig
<1>2. \A i \in 1..n : w[i].age \in Nat
  <2>1. \A i \in 1..n : w[i] \in CallOutcome
    BY ElementOfSeq
  <2> QED
    BY <2>1, AgeLimitType DEF CallOutcome
<1>3. young \subseteq Nat /\ n + 1 \in young
  BY <1>1
<1>4. \A i \in 1..n : w[i].age <= WindowSize <=> i \in young
  BY <1>1
<1>5. \A i \in young : i \in 1..n + 1
  BY <1>1
<1>6. Expire(w) = SubSeq(w, first, n)
  BY DEF Expire
<1> HIDE DEF young, n
<1>7. first \in young /\ \A j \in young : first <= j
  <2>1. \E i \in young : \A j \in young : i <= j
    BY <1>3, Least
  <2> QED
    BY <2>1
<1> HIDE DEF first
<1> DEFINE k == first - 1
<1>8. k \in 0..n /\ k + 1 = first
  BY <1>1, <1>5, <1>7
<1>9. \A i \in 1..k : w[i].age > WindowSize
  <2> SUFFICES ASSUME NEW i \in 1..k PROVE w[i].age > WindowSize
    OBVIOUS
  <2>1. i \in 1..n /\ i < first
    BY <1>1, <1>8
  <2>2. i \notin young
    BY <1>1, <1>3, <1>7, <2>1
  <2> QED
    BY <1>1, <1>2, <1>4, <2>1, <2>2
<1>10. k < n => w[k + 1].age <= WindowSize
  BY <1>1, <1>4, <1>7, <1>8
<1> QED
  BY <1>6, <1>8, <1>9, <1>10 DEF n

\* It leaves a window of outcomes, no longer than it was.
LEMMA ExpireType ==
  ASSUME NEW w \in Seq(CallOutcome)
  PROVE  /\ Expire(w) \in Seq(CallOutcome)
         /\ Len(Expire(w)) <= Len(w)
         /\ CountBased => Expire(w) = w
<1>1. Len(w) \in Nat
  BY LenProperties
<1>2. CASE CountBased
  BY <1>1, <1>2 DEF Expire
<1>3. CASE ~ CountBased
  <2>1. PICK k \in 0..Len(w) : Expire(w) = SubSeq(w, k + 1, Len(w))
    BY <1>3, ExpireDrops
  <2>2. \A i \in k + 1 .. Len(w) : i \in 1..Len(w)
    BY <1>1
  <2>3. /\ SubSeq(w, k + 1, Len(w)) \in Seq(CallOutcome)
        /\ Len(SubSeq(w, k + 1, Len(w))) <= Len(w)
    BY <1>1, <2>2, SubSeqProperties
  <2> QED
    BY <1>3, <2>1, <2>3
<1> QED
  BY <1>2, <1>3

\* A recorded outcome leaves a window of outcomes; a count-based one stays
\* within the window's size.
LEMMA AddCallType ==
  ASSUME NEW w \in Seq(CallOutcome), NEW o \in CallOutcome,
         CountBased => Len(w) <= WindowSize
  PROVE  /\ AddCall(w, o) \in Seq(CallOutcome)
         /\ (CountBased => Len(AddCall(w, o)) <= WindowSize)
<1> DEFINE longer == Append(Expire(w), o)
<1>1. /\ longer \in Seq(CallOutcome)
      /\ Len(longer) = Len(Expire(w)) + 1
  BY ExpireType, AppendProperties
<1>2. Len(Expire(w)) \in Nat
  BY ExpireType, LenProperties
<1>3. CASE CountBased /\ Len(longer) > WindowSize
  <2>1. AddCall(w, o) = Tail(longer)
    BY <1>3 DEF AddCall
  <2>2. longer # << >>
    BY <1>1, <1>2
  <2> HIDE DEF longer
  <2>3. Tail(longer) \in Seq(CallOutcome) /\ Len(Tail(longer)) = Len(longer) - 1
    BY <1>1, <2>2, HeadTailProperties
  <2>4. QED
    BY <1>1, <1>2, <1>3, <2>1, <2>3, ExpireType, WindowConfig, LenProperties
<1>4. CASE ~ (CountBased /\ Len(longer) > WindowSize)
  <2>1. AddCall(w, o) = longer
    BY <1>4 DEF AddCall
  <2>2. QED
    BY <1>1, <1>2, <1>4, <2>1, WindowConfig
<1>5. QED
  BY <1>3, <1>4

\* A tick keeps the window and its length.
LEMMA OlderType ==
  ASSUME NEW w \in Seq(CallOutcome)
  PROVE  Older(w) \in Seq(CallOutcome) /\ Len(Older(w)) = Len(w)
<1>1. Len(w) \in Nat /\ DOMAIN w = 1..Len(w)
  BY LenProperties
<1>2. \A i \in 1..Len(w) : Older(w)[i] \in CallOutcome
  <2> SUFFICES ASSUME NEW i \in 1..Len(w)
               PROVE  Older(w)[i] \in CallOutcome
    OBVIOUS
  <2>1. w[i] \in CallOutcome
    BY <1>1, ElementOfSeq
  <2>2. Older(w)[i] =
          [w[i] EXCEPT !.age = IF @ < AgeLimit THEN @ + 1 ELSE AgeLimit]
    BY DEF Older
  <2>3. QED
    BY <2>1, <2>2, AgeLimitType DEF CallOutcome
<1>3. Older(w) \in [1..Len(w) -> CallOutcome]
  BY <1>2 DEF Older
<1>4. QED
  BY <1>1, <1>3, LenProperties, IsASeq

\* HalfOpenMetrics never holds more outcomes than permitted calls, and records
\* each outcome until then.
LEMMA AddTrialType ==
  ASSUME NEW ts \in Seq(CallOutcome), NEW o \in CallOutcome,
         Len(ts) <= PermittedCalls
  PROVE  /\ AddTrial(ts, o) \in Seq(CallOutcome)
         /\ Len(AddTrial(ts, o)) <= PermittedCalls
         /\ ~ IsComplete(AddTrial(ts, o)) => Len(AddTrial(ts, o)) = Len(ts) + 1
<1>1. Len(ts) \in Nat
  BY LenProperties
<1>2. Append(ts, o) \in Seq(CallOutcome) /\ Len(Append(ts, o)) = Len(ts) + 1
  BY AppendProperties
<1>3. QED
  BY <1>1, <1>2, WindowConfig DEF AddTrial, IsComplete

-----------------------------------------------------------------------------
(* The order of a time-based window *)

\* Oldest entry first.
InOrder(w) == \A i, j \in 1..Len(w) : i < j => w[i].age >= w[j].age

\* A part of a window is in order if the window is.
LEMMA SubSeqOrder ==
  ASSUME NEW w \in Seq(CallOutcome), InOrder(w), NEW m \in 1..Len(w) + 1
  PROVE  InOrder(SubSeq(w, m, Len(w)))
<1> DEFINE v == SubSeq(w, m, Len(w))
           n == Len(w)
<1>1. n \in Nat /\ m \in Nat \ {0} /\ m <= n + 1
  BY LenProperties
<1>2. \A i \in m..n : w[i] \in CallOutcome
  BY <1>1, ElementOfSeq
<1>3. /\ Len(v) = IF m <= n THEN n - m + 1 ELSE 0
      /\ \A i \in 1..n - m + 1 : v[i] = w[m + i - 1]
  BY <1>1, <1>2, SubSeqProperties
<1> HIDE DEF v
<1>4. Len(v) = n - m + 1
  <2> HIDE DEF n
  <2> QED
    BY <1>1, <1>3
<1>5. ASSUME NEW i \in 1..Len(v), NEW j \in 1..Len(v), i < j PROVE v[i].age >= v[j].age
  <2>1. m + i - 1 \in 1..n /\ m + j - 1 \in 1..n /\ m + i - 1 < m + j - 1
    <3> HIDE DEF n
    <3> QED
      BY <1>1, <1>4, <1>5
  <2>2. w[m + i - 1].age >= w[m + j - 1].age
    BY <2>1 DEF InOrder
  <2> QED
    BY <1>3, <1>4, <1>5, <2>2
<1> QED
  BY <1>5 DEF InOrder, v

\* _cleanup_old_entries stops at the first entry that is young enough.  In a
\* window that is in order it drops the entries older than the window, all of
\* them and no other.
THEOREM ExpireIsExact ==
  ASSUME NEW w \in Seq(CallOutcome), InOrder(w), ~ CountBased
  PROVE  \E k \in 0..Len(w) :
           /\ Expire(w) = SubSeq(w, k + 1, Len(w))
           /\ \A i \in 1..Len(w) : i <= k <=> w[i].age > WindowSize
<1>1. Len(w) \in Nat /\ WindowSize \in Nat
  BY LenProperties, WindowConfig
<1>2. \A i \in 1..Len(w) : w[i].age \in Nat
  <2>1. \A i \in 1..Len(w) : w[i] \in CallOutcome
    BY ElementOfSeq
  <2> QED
    BY <2>1, AgeLimitType DEF CallOutcome
<1>3. PICK k \in 0..Len(w) :
        /\ Expire(w) = SubSeq(w, k + 1, Len(w))
        /\ \A i \in 1..k : w[i].age > WindowSize
        /\ k < Len(w) => w[k + 1].age <= WindowSize
  BY ExpireDrops
<1>4. ASSUME NEW i \in 1..Len(w), i > k PROVE ~ w[i].age > WindowSize
  <2>1. k + 1 \in 1..Len(w) /\ w[k + 1].age <= WindowSize /\ (i = k + 1 \/ k + 1 < i)
    BY <1>1, <1>3, <1>4
  <2>2. w[k + 1].age >= w[i].age
    BY <1>2, <2>1 DEF InOrder
  <2> QED
    BY <1>1, <1>2, <2>1, <2>2
<1>5. \A i \in 1..Len(w) : i <= k <=> w[i].age > WindowSize
  BY <1>1, <1>3, <1>4
<1> QED
  BY <1>3, <1>5

\* Expiry leaves a window in order.
LEMMA ExpireOrder ==
  ASSUME NEW w \in Seq(CallOutcome), InOrder(w)
  PROVE  InOrder(Expire(w))
<1>1. CASE CountBased
  BY <1>1 DEF Expire
<1>2. CASE ~ CountBased
  <2>1. PICK k \in 0..Len(w) : Expire(w) = SubSeq(w, k + 1, Len(w))
    BY <1>2, ExpireIsExact
  <2>2. k + 1 \in 1..Len(w) + 1
    BY LenProperties
  <2> QED
    BY <2>1, <2>2, SubSeqOrder
<1> QED
  BY <1>1, <1>2

\* A new outcome is the youngest.
LEMMA AddCallOrder ==
  ASSUME NEW w \in Seq(CallOutcome), InOrder(w), NEW o \in CallOutcome, o.age = 0
  PROVE  InOrder(AddCall(w, o))
<1> DEFINE v == Expire(w)
           longer == Append(v, o)
<1>1. v \in Seq(CallOutcome) /\ InOrder(v) /\ Len(v) \in Nat
  BY ExpireType, ExpireOrder, LenProperties
<1> HIDE DEF v
<1>2. /\ longer \in Seq(CallOutcome) /\ longer # <<>> /\ Len(longer) = Len(v) + 1
      /\ \A i \in 1..Len(v) : longer[i] = v[i]
      /\ longer[Len(v) + 1] = o
  BY <1>1, AppendProperties
<1> HIDE DEF longer
<1>3. \A i \in 1..Len(longer) : longer[i].age >= 0
  <2>1. \A i \in 1..Len(longer) : longer[i] \in CallOutcome
    BY <1>2, ElementOfSeq
  <2> QED
    BY <2>1, AgeLimitType DEF CallOutcome
<1>4. InOrder(longer)
  <2>1. ASSUME NEW i \in 1..Len(longer), NEW j \in 1..Len(longer), i < j
        PROVE  longer[i].age >= longer[j].age
    <3>1. CASE j = Len(v) + 1
      BY <1>2, <1>3, <3>1
    <3>2. CASE j # Len(v) + 1
      <4>1. i \in 1..Len(v) /\ j \in 1..Len(v)
        BY <1>1, <1>2, <2>1, <3>2
      <4> QED
        BY <1>1, <1>2, <2>1, <4>1 DEF InOrder
    <3> QED
      BY <3>1, <3>2
  <2> QED
    BY <2>1 DEF InOrder
<1>5. InOrder(Tail(longer))
  <2>1. /\ Len(Tail(longer)) = Len(v)
        /\ \A i \in 1..Len(v) : Tail(longer)[i] = longer[i + 1]
    BY <1>1, <1>2, HeadTailProperties
  <2> QED
    BY <1>1, <1>2, <1>4, <2>1 DEF InOrder
<1>6. AddCall(w, o) \in {longer, Tail(longer)}
  BY DEF AddCall, longer, v
<1> QED
  BY <1>4, <1>5, <1>6

\* All entries grow older alike.
LEMMA OlderOrder ==
  ASSUME NEW w \in Seq(CallOutcome), InOrder(w)
  PROVE  InOrder(Older(w))
<1>1. Len(Older(w)) = Len(w) /\ Len(w) \in Nat
  BY OlderType, LenProperties
<1>2. ASSUME NEW i \in 1..Len(w)
      PROVE  /\ w[i].age \in 0..AgeLimit
             /\ Older(w)[i].age = IF w[i].age < AgeLimit THEN w[i].age + 1 ELSE AgeLimit
  <2>1. w[i] \in CallOutcome
    BY ElementOfSeq
  <2>2. Older(w)[i] = [w[i] EXCEPT !.age = IF @ < AgeLimit THEN @ + 1 ELSE AgeLimit]
    BY DEF Older
  <2> QED
    BY <2>1, <2>2 DEF CallOutcome
<1>3. ASSUME NEW i \in 1..Len(w), NEW j \in 1..Len(w), i < j
      PROVE  Older(w)[i].age >= Older(w)[j].age
  <2>1. w[i].age >= w[j].age
    BY <1>3 DEF InOrder
  <2> QED
    BY <1>2, <2>1, AgeLimitType
<1> QED
  BY <1>1, <1>3 DEF InOrder
=============================================================================
