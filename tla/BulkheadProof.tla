---------------------------- MODULE BulkheadProof ----------------------------
(***************************************************************************)
(* Theorems about Bulkhead and BulkheadBridge, for any finite number of    *)
(* calls and any limits.                                                   *)
(***************************************************************************)
EXTENDS BulkheadBridge, DataLemmas, FiniteSetTheorems

\* What validate() says of the two configurations.
LEMMA Config ==
  /\ Permits \in Nat
  /\ Threads \in Nat
  /\ IsFiniteSet(Calls)
  /\ SyncCalls \subseteq Calls
  /\ BridgedCalls \subseteq SyncCalls
  BY BulkheadAssumption
  DEF Permits, Threads, SemaphoreConfigIsValid, ThreadPoolConfigIsValid

Phases == {"idle", "queued", "woken", "granted", "permitting", "running", "finishing",
           "rejecting"}

\* The phases of calls that have a permit, and of those that know it.
Holding == {"woken", "granted", "permitting", "running"}
Known == {"permitting", "running"}

\* The calls that p has in one of the phases of S.
Those(S, p) == {c \in Calls : p[c] \in S}

Count(S, p) == Cardinality(Those(S, p))

\* The queue is that of the semaphore, each waiter once.
QueueIsTold ==
  /\ IsInjective(waiters)
  /\ ToSet(waiters) = In("queued")

\* Nobody waits where no waiting is allowed.
NobodyWaits == ~ Waits => waiters = <<>> /\ In("woken") = {} /\ In("granted") = {}

\* The inductive invariant: the permits, the executor, and the rest.
PermitInv ==
  /\ kind \in Kinds
  /\ free \in Nat
  /\ available \in Int
  /\ waiters \in Seq(Calls)
  /\ phase \in [Calls -> Phases]
  /\ PermitsConserved
  /\ NoPermitForgotten
  /\ QueueIsTold
  /\ NobodyWaits

ExecutorInv ==
  /\ backlog \in Seq(SyncCalls)
  /\ onThread \subseteq SyncCalls
  /\ orphans \in Nat
  /\ ExecutorConsistent

BInv ==
  /\ PermitInv
  /\ ExecutorInv
  /\ open \in BOOLEAN
  /\ reply \in Replies

-----------------------------------------------------------------------------
(* Counting *)

\* The number of calls in some phases is a number, and grows with the phases.
LEMMA CountType ==
  ASSUME NEW S, NEW T, S \subseteq T, NEW p
  PROVE  /\ IsFiniteSet(Those(S, p))
         /\ Count(S, p) \in Nat
         /\ Count(T, p) \in Nat
         /\ Count(S, p) <= Count(T, p)
<1>1. Those(S, p) \subseteq Those(T, p) /\ Those(T, p) \subseteq Calls
  BY DEF Those
<1>2. IsFiniteSet(Those(T, p))
  BY <1>1, Config, FS_Subset
<1>3. IsFiniteSet(Those(S, p)) /\ Cardinality(Those(S, p)) <= Cardinality(Those(T, p))
  BY <1>1, <1>2, FS_Subset
<1> QED
  BY <1>2, <1>3, FS_CardinalityType DEF Count

\* From p to q, c goes to x and everybody else stays.
Moves(p, c, x, q) ==
  /\ p \in [Calls -> Phases] /\ q \in [Calls -> Phases]
  /\ q[c] = x
  /\ \A d \in Calls \ {c} : q[d] = p[d]

\* A call that moves is counted where it goes, and no longer where it was.
LEMMA CountMove ==
  ASSUME NEW p, NEW q, NEW c \in Calls, NEW x, Moves(p, c, x, q), NEW S
  PROVE  Count(S, q) = IF x \in S <=> p[c] \in S THEN Count(S, p)
                       ELSE IF x \in S THEN Count(S, p) + 1 ELSE Count(S, p) - 1
<1>1. x \in S => Those(S, q) = Those(S, p) \cup {c}
  BY DEF Those, Moves
<1>2. x \notin S => Those(S, q) = Those(S, p) \ {c}
  BY DEF Those, Moves
<1>3. IsFiniteSet(Those(S, p)) /\ (c \in Those(S, p) <=> p[c] \in S)
  BY CountType DEF Those
<1>4. x \in S => Count(S, q) = IF p[c] \in S THEN Count(S, p) ELSE Count(S, p) + 1
  BY <1>1, <1>3, FS_AddElement DEF Count
<1>5. x \notin S => Count(S, q) = IF p[c] \in S THEN Count(S, p) - 1 ELSE Count(S, p)
  BY <1>2, <1>3, FS_RemoveElement DEF Count
<1> QED
  BY <1>4, <1>5

\* The two counts that matter, when c goes from one phase to another.
LEMMA PermitMove ==
  ASSUME NEW p, NEW q, NEW c \in Calls, NEW x, Moves(p, c, x, q)
  PROVE  /\ Count(Holding, q) = IF x \in Holding <=> p[c] \in Holding THEN Count(Holding, p)
                               ELSE IF x \in Holding THEN Count(Holding, p) + 1
                                                      ELSE Count(Holding, p) - 1
         /\ Count(Known, q) = IF x \in Known <=> p[c] \in Known THEN Count(Known, p)
                             ELSE IF x \in Known THEN Count(Known, p) + 1
                                                  ELSE Count(Known, p) - 1
  BY CountMove

\* The permits that are held, by calls that know it or not.
LEMMA CountNat ==
  /\ Count(Holding, phase) \in Nat
  /\ Count(Known, phase) \in Nat
  BY CountType

\* What PermitsConserved counts, in these terms.
LEMMA Counted ==
  PermitsConserved <=> /\ free + Count(Holding, phase) = Permits
                       /\ available = Permits - Count(Known, phase)
<1>1. In("woken") \cup In("granted") \cup Inside = Those(Holding, phase) /\ Inside = Those(Known, phase)
  BY DEF In, Inside, Those, Holding, Known
<1> QED
  BY <1>1 DEF PermitsConserved, Count

LEMMA CountedNext ==
  PermitsConserved' <=> /\ free' + Count(Holding, phase') = Permits'
                        /\ available' = Permits' - Count(Known, phase')
<1>1. /\ (In("woken") \cup In("granted") \cup Inside)' = Those(Holding, phase')
      /\ Inside' = Those(Known, phase')
  BY DEF In, Inside, Those, Holding, Known
<1> QED
  BY <1>1 DEF PermitsConserved, Count

\* The invariant bounds what the variables may be.
LEMMA BInvType == BInv => TypeOK
<1> SUFFICES ASSUME BInv PROVE TypeOK
  OBVIOUS
<1>1. PermitInv /\ ExecutorInv /\ open \in BOOLEAN /\ reply \in Replies
  BY DEF BInv
<1>2. free \in 0..Permits /\ available \in 0..Permits
  <2>1. Known \subseteq Holding
    BY DEF Known, Holding
  <2> QED
    BY <1>1, <2>1, Config, CountType, Counted DEF PermitInv
<1>3. orphans \in 0..Threads
  <2>1. onThread \subseteq Calls
    BY <1>1, Config DEF ExecutorInv
  <2>2. Cardinality(onThread) \in Nat
    BY <2>1, Config, FS_Subset, FS_CardinalityType
  <2> QED
    BY <1>1, <2>2, Config DEF ExecutorInv, ExecutorConsistent
<1> QED
  BY <1>1, <1>2, <1>3 DEF TypeOK, PermitInv, ExecutorInv, Phases

\* Nobody has anything at first.
LEMMA BInvInit == Init => BInv
<1> SUFFICES ASSUME Init PROVE BInv
  OBVIOUS
<1>1. \A S : "idle" \notin S => Those(S, phase) = {}
  BY DEF Init, Those
<1>2. Count(Holding, phase) = 0 /\ Count(Known, phase) = 0
  BY <1>1, FS_EmptySet DEF Count, Holding, Known
<1>3. <<>> \in Seq(Calls) /\ <<>> \in Seq(SyncCalls)
  OBVIOUS
<1>4. ToSet(<<>>) = {} /\ IsInjective(<<>>)
  BY DEF ToSet, IsInjective
<1>5. In("queued") = {} /\ In("woken") = {} /\ In("granted") = {}
  BY DEF Init, In
<1>6. Cardinality({}) = 0
  BY FS_EmptySet
<1>7. PermitInv
  <2>1. free = Permits /\ available = Permits /\ waiters = <<>> /\ kind \in Kinds
    BY DEF Init
  <2>2. phase \in [Calls -> Phases]
    BY DEF Init, Phases
  <2>3. PermitsConserved
    BY <1>2, <2>1, Config, Counted
  <2>4. NoPermitForgotten /\ NobodyWaits
    BY <1>5, <2>1 DEF NoPermitForgotten, NobodyWaits
  <2>5. QueueIsTold
    BY <1>4, <1>5, <2>1, Zenon DEF QueueIsTold
  <2>6. free \in Nat /\ available \in Int /\ waiters \in Seq(Calls)
    BY <1>3, <2>1, Config
  <2> QED
    BY <2>1, <2>2, <2>3, <2>4, <2>5, <2>6 DEF PermitInv
<1>8. ExecutorInv
  BY <1>3, <1>4, <1>6, Config DEF Init, ExecutorInv, ExecutorConsistent
<1> QED
  BY <1>7, <1>8 DEF Init, BInv, Replies

-----------------------------------------------------------------------------
(* The steps of the permits *)

\* Who is where once c has gone to x.
LEMMA InMove ==
  ASSUME NEW c \in Calls, NEW x, Moves(phase, c, x, phase'), NEW y
  PROVE  In(y)' = IF x = y THEN In(y) \cup {c} ELSE In(y) \ {c}
  BY DEF In, Moves

\* Where c is neither before nor after, nothing changes.
LEMMA InStays ==
  ASSUME NEW c \in Calls, NEW x, Moves(phase, c, x, phase'), NEW y, x # y, phase[c] # y
  PROVE  In(y)' = In(y)
  BY DEF In, Moves

\* A call that moves, and keeps the permit it has or has not.
LEMMA MoveStep ==
  ASSUME PermitInv, NEW c \in Calls, NEW x \in Phases \ {"queued", "woken", "granted"},
         phase[c] \notin {"queued", "woken", "granted"}, phase[c] \in Known <=> x \in Known,
         phase' = Goes(c, x), UNCHANGED <<kind, free, available, waiters>>
  PROVE  PermitInv'
<1>1. Moves(phase, c, x, phase')
  BY DEF Goes, PermitInv, Moves
<1>2. phase[c] \in Holding <=> x \in Holding
  BY DEF Holding, Known
<1>3. Count(Holding, phase') = Count(Holding, phase) /\ Count(Known, phase') = Count(Known, phase)
  BY <1>1, <1>2, PermitMove
<1>4. /\ In("queued")' = In("queued") /\ In("woken")' = In("woken")
      /\ In("granted")' = In("granted")
  BY <1>1, InMove DEF In
<1>5. Permits' = Permits /\ (Waits <=> Waits')
  BY DEF Permits, Waits
<1>6. PermitsConserved'
  BY <1>3, <1>5, Counted, CountedNext DEF PermitInv
<1> QED
  BY <1>1, <1>4, <1>5, <1>6 DEF Moves, PermitInv, NoPermitForgotten, QueueIsTold, NobodyWaits

\* A call that finds a permit free.
LEMMA EnterStep ==
  ASSUME PermitInv, NEW c \in Calls, Enter(c)
  PROVE  PermitInv'
<1>1. /\ Moves(phase, c, "permitting", phase')
      /\ phase[c] = "idle" /\ ~ Waits /\ available > 0
      /\ free' = free - 1 /\ available' = available - 1 /\ UNCHANGED <<kind, waiters>>
  BY DEF Enter, PermitInv, Moves, Phases
<1>2. /\ Count(Holding, phase') = Count(Holding, phase) + 1
      /\ Count(Known, phase') = Count(Known, phase) + 1
  BY <1>1, PermitMove DEF Holding, Known
<1>3. /\ In("queued")' = In("queued") /\ In("woken")' = In("woken")
      /\ In("granted")' = In("granted")
  BY <1>1, InStays
<1>4. Permits' = Permits /\ (Waits <=> Waits')
  BY <1>1 DEF Permits, Waits
<1>5. Count(Holding, phase) = Count(Known, phase)
  <2>1. In("granted") = {} /\ In("woken") = {}
    BY <1>1 DEF PermitInv, NobodyWaits
  <2>2. Those(Holding, phase) = Those(Known, phase)
    BY <2>1 DEF Those, Holding, Known, In
  <2> QED
    BY <2>2 DEF Count
<1>6. free = available
  BY <1>5, Config, Counted, CountType DEF PermitInv
<1>7. free' \in Nat /\ available' \in Int
  BY <1>1, <1>6 DEF PermitInv
<1>8. PermitsConserved'
  <2>1. /\ free + Count(Holding, phase) = Permits
        /\ available = Permits - Count(Known, phase)
    BY Counted DEF PermitInv
  <2>2. free' + Count(Holding, phase') = Permits'
    BY <1>1, <1>2, <1>4, <1>6, <1>7, <2>1, CountNat
  <2>3. available' = Permits' - Count(Known, phase')
    BY <1>1, <1>2, <1>4, <1>7, <2>1, CountNat, Config
  <2> QED
    BY <2>2, <2>3, CountedNext
<1>9. phase' \in [Calls -> Phases] /\ waiters = <<>>
  BY <1>1 DEF PermitInv, NobodyWaits, Moves
<1> QED
  BY <1>1, <1>3, <1>4, <1>7, <1>8, <1>9
  DEF PermitInv, NoPermitForgotten, QueueIsTold, NobodyWaits

\* A call that may wait and finds a permit free.
LEMMA RequestStep ==
  ASSUME PermitInv, NEW c \in Calls, Request(c)
  PROVE  PermitInv'
<1>1. /\ Moves(phase, c, "granted", phase')
      /\ phase[c] = "idle" /\ Waits /\ free > 0 /\ waiters = <<>>
      /\ free' = free - 1 /\ UNCHANGED <<kind, available, waiters>>
  BY DEF Request, Locked, PermitInv, Moves, Phases
<1>2. /\ Count(Holding, phase') = Count(Holding, phase) + 1
      /\ Count(Known, phase') = Count(Known, phase)
  BY <1>1, PermitMove DEF Holding, Known
<1>3. In("queued")' = In("queued")
  BY <1>1, InStays
<1>4. Permits' = Permits /\ Waits'
  BY <1>1 DEF Permits, Waits
<1>5. free' \in Nat
  BY <1>1 DEF PermitInv
<1>6. PermitsConserved'
  BY <1>1, <1>2, <1>4, Config, Counted, CountedNext, CountNat DEF PermitInv
<1>7. phase' \in [Calls -> Phases]
  BY <1>1 DEF Moves
<1> QED
  BY <1>1, <1>3, <1>4, <1>5, <1>6, <1>7
  DEF PermitInv, NoPermitForgotten, QueueIsTold, NobodyWaits

\* A call that has to wait goes to the end of the queue.
LEMMA QueueStep ==
  ASSUME PermitInv, NEW c \in Calls, Queue(c)
  PROVE  PermitInv'
<1>1. /\ Moves(phase, c, "queued", phase')
      /\ phase[c] = "idle" /\ Waits /\ (free > 0 /\ waiters = <<>> => In("woken") # {})
      /\ waiters' = Append(waiters, c) /\ waiters \in Seq(Calls)
      /\ UNCHANGED <<kind, available, free>>
  BY DEF Queue, Locked, PermitInv, Moves, Phases
<1>2. /\ Count(Holding, phase') = Count(Holding, phase)
      /\ Count(Known, phase') = Count(Known, phase)
  BY <1>1, PermitMove DEF Holding, Known
<1>3. In("queued")' = In("queued") \cup {c} /\ c \notin In("queued") /\ In("woken")' = In("woken")
  <2>0. Moves(phase, c, "queued", phase') /\ phase[c] = "idle"
    BY <1>1
  <2>1. In("woken")' = In("woken")
    BY <2>0, InStays
  <2>2. In("queued")' = In("queued") \cup {c} /\ c \notin In("queued")
    BY <2>0 DEF In, Moves
  <2> QED
    BY <2>1, <2>2
<1>4. Permits' = Permits /\ Waits'
  BY <1>1 DEF Permits, Waits
<1>5. free > 0 => In("woken") # {}
  BY <1>1 DEF PermitInv, NoPermitForgotten
<1>6. PermitsConserved'
  BY <1>1, <1>2, <1>4, Counted, CountedNext DEF PermitInv
<1>7. phase' \in [Calls -> Phases]
  BY <1>1 DEF Moves
<1>8. waiters' \in Seq(Calls) /\ QueueIsTold'
  <2>1. IsInjective(waiters) /\ ToSet(waiters) = In("queued")
    BY DEF PermitInv, QueueIsTold
  <2>2. /\ Append(waiters, c) \in Seq(Calls)
        /\ IsInjective(Append(waiters, c))
        /\ ToSet(Append(waiters, c)) = ToSet(waiters) \cup {c}
    BY <1>1, <1>3, <2>1, AppendMembers
  <2>3. IsInjective(waiters') /\ ToSet(waiters') = In("queued")'
    BY <1>1, <1>3, <2>1, <2>2
  <2> QED
    BY <1>1, <2>2, <2>3 DEF QueueIsTold
<1> QED
  BY <1>1, <1>3, <1>4, <1>5, <1>6, <1>7, <1>8 DEF PermitInv, NoPermitForgotten, NobodyWaits

\* The count follows the semaphore.
LEMMA ResumeStep ==
  ASSUME PermitInv, NEW c \in Calls, Resume(c)
  PROVE  PermitInv'
<1>1. /\ Moves(phase, c, "permitting", phase')
      /\ phase[c] = "granted" /\ available' = available - 1
      /\ UNCHANGED <<kind, free, waiters>>
  BY DEF Resume, PermitInv, Moves, Phases
<1>2. /\ Count(Holding, phase') = Count(Holding, phase)
      /\ Count(Known, phase') = Count(Known, phase) + 1
  BY <1>1, PermitMove DEF Holding, Known
<1>3. /\ In("queued")' = In("queued") /\ In("woken")' = In("woken")
      /\ In("granted")' \subseteq In("granted")
  BY <1>1, InMove DEF In
<1>4. Permits' = Permits /\ (Waits <=> Waits')
  BY <1>1 DEF Permits, Waits
<1>5. available' \in Int
  BY <1>1 DEF PermitInv
<1>6. PermitsConserved'
  BY <1>1, <1>2, <1>4, Config, Counted, CountedNext, CountNat DEF PermitInv
<1>7. phase' \in [Calls -> Phases]
  BY <1>1 DEF Moves
<1> QED
  BY <1>1, <1>3, <1>4, <1>5, <1>6, <1>7
  DEF PermitInv, NoPermitForgotten, QueueIsTold, NobodyWaits

\* What a sequence without repetition is once it has lost x.
LEMMA WithoutMembers ==
  ASSUME NEW S, NEW s \in Seq(S), IsInjective(s), NEW x, NEW t \in Without(s, x)
  PROVE  t \in Seq(S) /\ IsInjective(t) /\ ToSet(t) = ToSet(s) \ {x}
<1>1. CASE x \notin ToSet(s)
  <2>1. t = s
    BY <1>1, Members DEF Without
  <2> QED
    BY <1>1, <2>1
<1>2. CASE x \in ToSet(s)
  <2>1. PICK i \in 1..Len(s) : s[i] = x /\ t = RemoveAt(s, i)
    BY <1>2, Members, LenProperties DEF Without
  <2> QED
    BY <2>1, RemoveAtMembers
<1> QED
  BY <1>1, <1>2

\* A call that stops waiting.
LEMMA LeaveQueueStep ==
  ASSUME PermitInv, NEW c \in Calls, LeaveQueue(c)
  PROVE  PermitInv'
<1>1. PICK x \in {"idle", "rejecting"} : Moves(phase, c, x, phase')
  BY DEF LeaveQueue, Goes, PermitInv, Moves, Phases
<1>2. /\ phase[c] = "queued"
      /\ waiters' \in Without(waiters, c) /\ waiters \in Seq(Calls)
      /\ UNCHANGED <<kind, free, available>>
  BY DEF LeaveQueue, PermitInv
<1>3. /\ Count(Holding, phase') = Count(Holding, phase)
      /\ Count(Known, phase') = Count(Known, phase)
  <2>1. /\ phase[c] \notin Holding /\ x \notin Holding
        /\ phase[c] \notin Known /\ x \notin Known
    BY <1>2 DEF Holding, Known
  <2> QED
    BY <1>1, <2>1, PermitMove
<1>4. In("queued")' = In("queued") \ {c} /\ c \in In("queued") /\ In("woken")' = In("woken")
  <2>1. In("woken")' = In("woken")
    BY <1>1, <1>2, InStays
  <2>2. In("queued")' = In("queued") \ {c} /\ c \in In("queued")
    BY <1>1, <1>2, InMove DEF In
  <2> QED
    BY <2>1, <2>2
<1>5. Permits' = Permits /\ (Waits <=> Waits')
  BY <1>2 DEF Permits, Waits
<1>6. waiters # <<>>
  BY <1>2, <1>4, Members DEF PermitInv, QueueIsTold
<1>7. (free > 0 => In("woken") # {}) /\ Waits
  BY <1>6 DEF PermitInv, NoPermitForgotten, NobodyWaits
<1>8. PermitsConserved'
  BY <1>2, <1>3, <1>5, Counted, CountedNext DEF PermitInv
<1>9. phase' \in [Calls -> Phases]
  BY <1>1 DEF Moves
<1>10. waiters' \in Seq(Calls) /\ QueueIsTold'
  <2>1. IsInjective(waiters) /\ ToSet(waiters) = In("queued")
    BY DEF PermitInv, QueueIsTold
  <2>2. /\ waiters' \in Seq(Calls) /\ IsInjective(waiters')
        /\ ToSet(waiters') = ToSet(waiters) \ {c}
    BY <1>2, <2>1, WithoutMembers
  <2>3. ToSet(waiters') = In("queued")'
    BY <1>4, <2>1, <2>2
  <2> QED
    BY <2>2, <2>3 DEF QueueIsTold
<1> QED
  BY <1>2, <1>4, <1>5, <1>7, <1>8, <1>9, <1>10 DEF PermitInv, NoPermitForgotten, NobodyWaits

\* A permit comes back from a call: it goes to the first who waits, if anybody
\* does.  What the bulkhead's own count becomes depends on whether the call
\* knew that it had the permit.
LEMMA ReleaseStep ==
  ASSUME PermitInv, NEW c \in Calls, NEW x \in {"idle", "rejecting", "finishing"},
         phase[c] \in Holding, Release(Goes(c, x)), UNCHANGED kind,
         available' = IF phase[c] \in Known THEN available + 1 ELSE available
  PROVE  /\ PermitInv'
         /\ In("running")' = In("running") \ {c}
<1> DEFINE p == Goes(c, x)
<1>1. /\ x \notin Holding /\ x \notin Known /\ x \notin {"queued", "woken", "granted", "running"}
      /\ phase[c] # "queued" /\ Moves(phase, c, x, p)
  BY DEF PermitInv, Moves, Phases, Holding, Known, Goes
<1> HIDE DEF p
<1>2. /\ Count(Holding, p) = Count(Holding, phase) - 1
      /\ Count(Known, p) = IF phase[c] \in Known THEN Count(Known, phase) - 1
                                                 ELSE Count(Known, phase)
  BY <1>1, PermitMove
<1>3. /\ Count(Holding, phase) \in Nat /\ Count(Known, phase) \in Nat /\ Permits \in Nat
      /\ free \in Nat /\ available \in Int /\ available' \in Int
      /\ Permits' = Permits /\ (Waits <=> Waits')
      /\ free + Count(Holding, phase) = Permits
      /\ available = Permits - Count(Known, phase)
  BY Config, CountNat, Counted DEF PermitInv, Permits, Waits
<1>4. /\ kind' \in Kinds /\ waiters \in Seq(Calls) /\ IsInjective(waiters)
      /\ ToSet(waiters) = In("queued")
      /\ waiters # <<>> => Waits
      /\ ~ Waits => In("woken") = {} /\ In("granted") = {}
  BY DEF PermitInv, QueueIsTold, NobodyWaits
<1>5. CASE waiters = <<>>
  <2>1. free' = free + 1 /\ waiters' = waiters /\ Moves(phase, c, x, phase')
        /\ phase' = p
    BY <1>1, <1>5 DEF Release, p
  <2>2. PermitsConserved'
    BY <1>2, <1>3, <2>1, CountedNext
  <2>3. /\ In("queued")' = In("queued") \ {c} /\ c \notin In("queued")
        /\ In("woken")' = In("woken") \ {c}
        /\ In("granted")' = In("granted") \ {c}
        /\ In("running")' = In("running") \ {c}
    BY <1>1, <2>1, InMove DEF In
  <2>4. QueueIsTold'
    BY <1>4, <2>1, <2>3 DEF QueueIsTold
  <2>5. NoPermitForgotten' /\ NobodyWaits'
    BY <1>3, <1>4, <1>5, <2>1, <2>3 DEF NoPermitForgotten, NobodyWaits
  <2> QED
    BY <1>3, <1>4, <2>1, <2>2, <2>3, <2>4, <2>5 DEF PermitInv, Moves
<1>6. CASE waiters # <<>>
  <2> DEFINE w == Head(waiters)
             s == Tail(waiters)
  <2>1. w \in Calls /\ s \in Seq(Calls) /\ IsInjective(s)
        /\ ToSet(waiters) = ToSet(s) \cup {w} /\ w \notin ToSet(s)
    BY <1>4, <1>6, TailMembers
  <2>2. p[w] = "queued" /\ w # c
    BY <1>1, <1>4, <2>1 DEF In, Moves
  <2>3. /\ free' = free /\ waiters' = s /\ Moves(p, w, "woken", phase')
    <3>1. free' = free /\ waiters' = s /\ phase' = [p EXCEPT ![w] = "woken"]
      BY <1>6 DEF Release, p
    <3>2. p \in [Calls -> Phases] /\ "woken" \in Phases
      BY <1>1 DEF Moves, Phases
    <3> HIDE DEF w, s
    <3> QED
      BY <2>1, <3>1, <3>2 DEF Moves
  <2> HIDE DEF w, s
  <2>4. /\ Count(Holding, phase') = Count(Holding, p) + 1
        /\ Count(Known, phase') = Count(Known, p)
    <3>1. /\ "woken" \in Holding /\ p[w] \notin Holding
          /\ "woken" \notin Known /\ p[w] \notin Known
      BY <2>2 DEF Holding, Known
    <3> QED
      BY <2>1, <2>3, <3>1, PermitMove
  <2>5. PermitsConserved'
    BY <1>2, <1>3, <2>3, <2>4, CountedNext
  <2>6. In("queued")' = In("queued") \ {w} /\ In("running")' = In("running") \ {c}
    BY <1>1, <2>1, <2>2, <2>3 DEF In, Moves
  <2>7. IsInjective(waiters') /\ ToSet(waiters') = In("queued")'
    <3>1. In("queued") = ToSet(s) \cup {w} /\ w \notin ToSet(s)
      BY <1>4, <2>1
    <3>2. In("queued")' = In("queued") \ {w}
      BY <2>6
    <3>3. ToSet(s) = In("queued")'
      BY <3>1, <3>2
    <3> QED
      BY <2>1, <2>3, <3>3
  <2>8. NoPermitForgotten' /\ NobodyWaits'
    <3>1. w \in In("woken")'
      BY <2>1, <2>3 DEF In, Moves
    <3> QED
      BY <1>3, <1>4, <1>6, <2>3, <3>1 DEF NoPermitForgotten, NobodyWaits
  <2> QED
    BY <1>3, <1>4, <2>1, <2>3, <2>5, <2>6, <2>7, <2>8 DEF PermitInv, QueueIsTold, Moves
<1> QED
  BY <1>5, <1>6

\* A woken waiter goes on, and wakes the next if there is a permit for it.
LEMMA ProceedStep ==
  ASSUME PermitInv, NEW c \in Calls, Proceed(c)
  PROVE  PermitInv' /\ In("running")' = In("running")
<1> DEFINE p == Goes(c, "granted")
<1>1. /\ phase[c] = "woken" /\ Moves(phase, c, "granted", p)
      /\ UNCHANGED <<kind, available>>
  BY DEF Proceed, PermitInv, Moves, Phases, Goes
<1>2. /\ free > 0 /\ waiters # <<>>
           => /\ free' = free - 1 /\ waiters' = Tail(waiters)
              /\ phase' = [p EXCEPT ![Head(waiters)] = "woken"]
      /\ ~ (free > 0 /\ waiters # <<>>) => phase' = p /\ UNCHANGED <<free, waiters>>
  BY DEF Proceed
<1> HIDE DEF p
<1>3. Count(Holding, p) = Count(Holding, phase) /\ Count(Known, p) = Count(Known, phase)
  BY <1>1, PermitMove DEF Holding, Known
<1>4. /\ Count(Holding, phase) \in Nat /\ Count(Known, phase) \in Nat /\ Permits \in Nat
      /\ free \in Nat /\ available \in Int /\ available' \in Int
      /\ Permits' = Permits /\ Waits /\ Waits'
      /\ free + Count(Holding, phase) = Permits
      /\ available = Permits - Count(Known, phase)
  <2>1. c \in In("woken")
    BY <1>1 DEF In
  <2> QED
    BY <1>1, <2>1, Config, CountNat, Counted DEF PermitInv, Permits, Waits, NobodyWaits
<1>5. /\ kind' \in Kinds /\ waiters \in Seq(Calls) /\ IsInjective(waiters)
      /\ ToSet(waiters) = In("queued")
  BY <1>1 DEF PermitInv, QueueIsTold
<1>6. CASE ~ (free > 0 /\ waiters # <<>>)
  <2>1. free' = free /\ waiters' = waiters /\ Moves(phase, c, "granted", phase')
        /\ phase' = p
    BY <1>1, <1>2, <1>6
  <2>2. PermitsConserved'
    BY <1>1, <1>3, <1>4, <2>1, CountedNext
  <2>3. In("queued")' = In("queued") /\ In("running")' = In("running")
    BY <1>1, <2>1, InStays
  <2> QED
    BY <1>4, <1>5, <1>6, <2>1, <2>2, <2>3
    DEF PermitInv, Moves, QueueIsTold, NoPermitForgotten, NobodyWaits
<1>7. CASE free > 0 /\ waiters # <<>>
  <2> DEFINE w == Head(waiters)
             s == Tail(waiters)
  <2>1. w \in Calls /\ s \in Seq(Calls) /\ IsInjective(s)
        /\ ToSet(waiters) = ToSet(s) \cup {w} /\ w \notin ToSet(s)
    BY <1>5, <1>7, TailMembers
  <2>2. phase[w] = "queued" /\ p[w] = "queued" /\ w # c
    BY <1>1, <1>5, <2>1 DEF In, Moves
  <2>3. free' = free - 1 /\ waiters' = s /\ Moves(p, w, "woken", phase')
    BY <1>1, <1>2, <1>7, <2>1 DEF Moves, Phases
  <2> HIDE DEF w, s
  <2>4. /\ Count(Holding, phase') = Count(Holding, p) + 1
        /\ Count(Known, phase') = Count(Known, p)
    <3>1. /\ "woken" \in Holding /\ p[w] \notin Holding
          /\ "woken" \notin Known /\ p[w] \notin Known
      BY <2>2 DEF Holding, Known
    <3> QED
      BY <2>1, <2>3, <3>1, PermitMove
  <2>5. PermitsConserved' /\ free' \in Nat
    <3>1. free' \in Nat /\ free' + Count(Holding, phase') = Permits'
      BY <1>3, <1>4, <1>7, <2>3, <2>4
    <3>2. available' = Permits' - Count(Known, phase')
      BY <1>1, <1>3, <1>4, <2>4
    <3> QED
      BY <3>1, <3>2, CountedNext
  <2>6. /\ In("queued")' = In("queued") \ {w} /\ w \in In("woken")'
        /\ In("running")' = In("running")
    BY <1>1, <2>1, <2>2, <2>3 DEF In, Moves
  <2>7. IsInjective(waiters') /\ ToSet(waiters') = In("queued")'
    <3>1. ToSet(s) = In("queued") \ {w}
      BY <1>5, <2>1
    <3> QED
      BY <2>1, <2>3, <2>6, <3>1
  <2> QED
    BY <1>4, <1>5, <2>1, <2>3, <2>5, <2>6, <2>7
    DEF PermitInv, QueueIsTold, NoPermitForgotten, NobodyWaits, Moves
<1> QED
  BY <1>6, <1>7

\* The finally clause of a call that has the permit.
LEMMA GiveBackStep ==
  ASSUME PermitInv, NEW c \in Calls, BeginClosed(c) \/ Finish(c) \/ Cancel(c)
  PROVE  /\ PermitInv'
         /\ In("running")' = In("running") \ {c}
<1>1. /\ phase[c] \in {"permitting", "running"} /\ UNCHANGED kind
      /\ Release(Goes(c, "finishing")) /\ available' = available + 1
  BY DEF BeginClosed, Finish, Cancel, GiveBack
<1>2. phase[c] \in Holding /\ phase[c] \in Known
  BY <1>1 DEF Holding, Known
<1> QED
  BY <1>1, <1>2, ReleaseStep

\* Every step of a call, of the threads and of the application keeps the permits
\* in order.
LEMMA PermitInvStep == PermitInv /\ [Next]_vars => PermitInv'
<1> SUFFICES ASSUME PermitInv, [Next]_vars PROVE PermitInv'
  OBVIOUS
<1>1. ASSUME NEW c \in Calls, Refuse(c) \/ Reject(c) \/ Return(c) \/ CancelHandler(c)
      PROVE  PermitInv'
  <2>1. PICK x \in {"rejecting", "idle"} : phase' = Goes(c, x)
    BY <1>1 DEF Refuse, Reject, Return, CancelHandler, Goes
  <2>2. /\ phase[c] \in {"idle", "rejecting", "finishing"}
        /\ UNCHANGED <<kind, free, available, waiters>>
    BY <1>1 DEF Refuse, Reject, Return, CancelHandler
  <2>3. x \in Phases \ {"queued", "woken", "granted"} /\ (phase[c] \in Known <=> x \in Known)
    BY <2>2 DEF Phases, Known
  <2> QED
    BY <2>1, <2>2, <2>3, MoveStep
<1>2. ASSUME NEW c \in Calls, Begin(c) PROVE PermitInv'
  <2>1. /\ phase' = Goes(c, "running") /\ phase[c] = "permitting"
        /\ UNCHANGED <<kind, free, available, waiters>>
    BY <1>2 DEF Begin
  <2>2. "running" \in Phases \ {"queued", "woken", "granted"} /\ {"permitting", "running"} = Known
    BY DEF Phases, Known
  <2> QED
    BY <2>1, <2>2, MoveStep
<1>3. ASSUME NEW c \in Calls, Enter(c) \/ Request(c) \/ Queue(c) \/ Proceed(c) \/ Resume(c) \/ LeaveQueue(c)
      PROVE  PermitInv'
  BY <1>3, EnterStep, RequestStep, QueueStep, ProceedStep, ResumeStep, LeaveQueueStep
<1>4. ASSUME NEW c \in Calls, Forgo(c) PROVE PermitInv'
  <2>1. PICK x \in {"idle", "rejecting", "finishing"} : Release(Goes(c, x))
    BY <1>4 DEF Forgo
  <2>2. phase[c] = "woken" /\ UNCHANGED <<kind, available>>
    BY <1>4 DEF Forgo
  <2>3. phase[c] \in Holding /\ phase[c] \notin Known
    BY <2>2 DEF Holding, Known
  <2> QED
    BY <2>1, <2>2, <2>3, ReleaseStep
<1>5. ASSUME NEW c \in Calls, BeginClosed(c) \/ Finish(c) \/ Cancel(c) PROVE PermitInv'
  BY <1>5, GiveBackStep
<1>6. ASSUME UNCHANGED <<kind, free, available, waiters, phase>> PROVE PermitInv'
  BY <1>6 DEF PermitInv, PermitsConserved, NoPermitForgotten, QueueIsTold, NobodyWaits,
              Permits, Waits, In, Inside
<1>7. CASE \/ \E c \in Calls : EndThread(c)
           \/ StartThread \/ EndOrphan \/ Shutdown \/ UNCHANGED vars
  BY <1>6, <1>7 DEF EndThread, StartThread, EndOrphan, Shutdown, vars
<1> QED
  BY <1>1, <1>2, <1>3, <1>4, <1>5, <1>7 DEF Next

-----------------------------------------------------------------------------
(* The steps of the executor *)

\* A step that leaves the executor alone and ends no running function.
LEMMA ExecutorKept ==
  ASSUME ExecutorInv, UNCHANGED <<kind, threadVars>>, In("running") \subseteq In("running")'
  PROVE  ExecutorInv'
<1>1. Threads' = Threads
  BY DEF Threads
<1> QED
  BY <1>1 DEF ExecutorInv, ExecutorConsistent, threadVars

\* A function begins: it goes to the end of the executor's queue, if it needs a
\* thread.
LEMMA BeginStep ==
  ASSUME ExecutorInv, phase \in [Calls -> Phases], NEW c \in Calls, Begin(c)
  PROVE  ExecutorInv'
<1>1. /\ phase[c] = "permitting" /\ UNCHANGED <<kind, onThread, orphans>>
      /\ \/ backlog' = backlog
         \/ c \in SyncCalls /\ backlog' = Append(backlog, c)
  BY DEF Begin, InSharedPool
<1>2. In("running")' = In("running") \cup {c} /\ c \notin In("running")
  BY <1>1 DEF Begin, Goes, In
<1>3. /\ backlog \in Seq(SyncCalls) /\ onThread \subseteq SyncCalls /\ orphans \in Nat
      /\ onThread \subseteq In("running") /\ ToSet(backlog) \subseteq In("running")
      /\ onThread \cap ToSet(backlog) = {}
      /\ IsInjective(backlog)
      /\ Cardinality(onThread) + orphans <= Threads
  BY DEF ExecutorInv, ExecutorConsistent
<1>4. /\ backlog' \in Seq(SyncCalls) /\ IsInjective(backlog')
      /\ ToSet(backlog') \subseteq ToSet(backlog) \cup {c}
  <2>1. CASE backlog' = backlog
    BY <1>3, <2>1
  <2>2. CASE c \in SyncCalls /\ backlog' = Append(backlog, c)
    <3>1. /\ Append(backlog, c) \in Seq(SyncCalls)
          /\ IsInjective(Append(backlog, c))
          /\ ToSet(Append(backlog, c)) = ToSet(backlog) \cup {c}
      BY <1>2, <1>3, <2>2, AppendMembers
    <3> QED
      BY <2>2, <3>1
  <2> QED
    BY <1>1, <2>1, <2>2
<1>5. Threads' = Threads
  BY <1>1 DEF Threads
<1>6. onThread' \cup ToSet(backlog') \subseteq In("running")' /\ onThread' \cap ToSet(backlog') = {}
  BY <1>1, <1>2, <1>3, <1>4
<1> QED
  BY <1>1, <1>3, <1>4, <1>5, <1>6 DEF ExecutorInv, ExecutorConsistent

\* The next function gets a thread.
LEMMA StartThreadStep ==
  ASSUME ExecutorInv, StartThread
  PROVE  ExecutorInv'
<1> DEFINE f == Head(backlog)
           s == Tail(backlog)
<1>1. /\ backlog # <<>> /\ Cardinality(onThread) + orphans < Threads
      /\ backlog' = s /\ onThread' = onThread \cup {f}
      /\ UNCHANGED <<kind, phase, orphans>>
  BY DEF StartThread
<1>2. /\ backlog \in Seq(SyncCalls) /\ onThread \subseteq SyncCalls /\ orphans \in Nat
      /\ onThread \subseteq In("running") /\ ToSet(backlog) \subseteq In("running")
      /\ onThread \cap ToSet(backlog) = {}
      /\ IsInjective(backlog)
  BY DEF ExecutorInv, ExecutorConsistent
<1>3. /\ s \in Seq(SyncCalls) /\ f \in SyncCalls
      /\ ToSet(backlog) = ToSet(s) \cup {f}
      /\ IsInjective(s) /\ f \notin ToSet(s)
  BY <1>1, <1>2, TailMembers
<1> HIDE DEF f, s
<1>4. IsFiniteSet(onThread)
  BY <1>2, Config, FS_Subset
<1>5. Cardinality(onThread) \in Nat
  BY <1>4, FS_CardinalityType
<1>6. Cardinality(onThread \cup {f}) = Cardinality(onThread) + 1
  BY <1>2, <1>3, <1>4, FS_AddElement
<1>7. Threads' = Threads /\ In("running")' = In("running")
  BY <1>1 DEF Threads, In
<1>8. Cardinality(onThread') + orphans' <= Threads'
  <2>1. Cardinality(onThread') = Cardinality(onThread) + 1
    BY <1>1, <1>6
  <2> QED
    BY <1>1, <1>2, <1>5, <1>7, <2>1, Config
<1>9. onThread' \cup ToSet(s) \subseteq In("running")' /\ onThread' \cap ToSet(s) = {}
  BY <1>1, <1>2, <1>3, <1>7
<1>10. backlog' = s /\ onThread' \subseteq SyncCalls /\ orphans' \in Nat
  BY <1>1, <1>2, <1>3
<1> QED
  BY <1>3, <1>8, <1>9, <1>10 DEF ExecutorInv, ExecutorConsistent

\* A thread has done with its function, or a call with its thread, which goes on
\* without it.
LEMMA LeaveThread ==
  ASSUME ExecutorInv, NEW c,
         onThread' = onThread \ {c},
         orphans' = orphans \/ (c \in onThread /\ orphans' = orphans + 1),
         UNCHANGED kind
  PROVE  /\ onThread' \subseteq SyncCalls /\ orphans' \in Nat
         /\ Cardinality(onThread') + orphans' <= Threads'
<1>1. /\ onThread \subseteq SyncCalls /\ orphans \in Nat
      /\ Cardinality(onThread) + orphans <= Threads
  BY DEF ExecutorInv, ExecutorConsistent
<1>2. IsFiniteSet(onThread)
  BY <1>1, Config, FS_Subset
<1>3. /\ Cardinality(onThread) \in Nat
      /\ Cardinality(onThread \ {c}) = IF c \in onThread THEN Cardinality(onThread) - 1
                                                         ELSE Cardinality(onThread)
  BY <1>2, FS_RemoveElement, FS_CardinalityType
<1>4. Threads' = Threads
  BY DEF Threads
<1>5. orphans' \in Nat /\ Cardinality(onThread') + orphans' <= Threads'
  <2>1. CASE orphans' = orphans
    BY <1>1, <1>3, <1>4, <2>1, Config
  <2>2. CASE c \in onThread /\ orphans' = orphans + 1
    BY <1>1, <1>3, <1>4, <2>2, Config
  <2> QED
    BY <2>1, <2>2
<1> QED
  BY <1>1, <1>5

\* A call that is cancelled leaves the executor, but for the thread it had.
LEMMA CancelStep ==
  ASSUME ExecutorInv, NEW c \in Calls, Cancel(c),
         In("running")' = In("running") \ {c}
  PROVE  ExecutorInv'
<1>1. /\ backlog' \in Without(backlog, c) /\ onThread' = onThread \ {c}
      /\ orphans' = orphans \/ (c \in onThread /\ orphans' = orphans + 1)
      /\ UNCHANGED kind
  BY DEF Cancel
<1>2. /\ backlog \in Seq(SyncCalls) /\ IsInjective(backlog)
      /\ onThread \subseteq In("running") /\ ToSet(backlog) \subseteq In("running")
      /\ onThread \cap ToSet(backlog) = {}
  BY DEF ExecutorInv, ExecutorConsistent
<1>3. /\ backlog' \in Seq(SyncCalls) /\ IsInjective(backlog')
      /\ ToSet(backlog') = ToSet(backlog) \ {c}
  BY <1>1, <1>2, WithoutMembers
<1>4. /\ onThread' \subseteq SyncCalls /\ orphans' \in Nat
      /\ Cardinality(onThread') + orphans' <= Threads'
  BY <1>1, LeaveThread
<1>5. onThread' \cup ToSet(backlog') \subseteq In("running")' /\ onThread' \cap ToSet(backlog') = {}
  BY <1>1, <1>2, <1>3
<1> QED
  BY <1>3, <1>4, <1>5 DEF ExecutorInv, ExecutorConsistent

\* Every step of a call, of the threads and of the application keeps the
\* executor in order.
LEMMA ExecutorInvStep == PermitInv /\ ExecutorInv /\ [Next]_vars => ExecutorInv'
<1> SUFFICES ASSUME PermitInv, ExecutorInv, [Next]_vars PROVE ExecutorInv'
  OBVIOUS
<1>0. phase \in [Calls -> Phases]
  BY DEF PermitInv
<1>1. ASSUME NEW c \in Calls, NEW x, Release(Goes(c, x)), phase[c] # "running"
      PROVE  In("running") \subseteq In("running")'
  <2>1. \A d \in Calls : phase[d] = "running" => Goes(c, x)[d] = "running"
    BY <1>0, <1>1 DEF Goes
  <2>2. CASE phase' = Goes(c, x)
    BY <2>1, <2>2 DEF In
  <2>3. CASE waiters # <<>> /\ phase' = [Goes(c, x) EXCEPT ![Head(waiters)] = "woken"]
    <3>1. waiters \in Seq(Calls) /\ ToSet(waiters) = In("queued")
      BY DEF PermitInv, QueueIsTold
    <3>2. phase[Head(waiters)] = "queued"
      BY <2>3, <3>1, TailMembers DEF In
    <3>3. \A d \in Calls : phase[d] = "running" => phase'[d] = Goes(c, x)[d]
      BY <1>0, <2>3, <3>2 DEF Goes
    <3> QED
      BY <2>1, <3>3 DEF In
  <2> QED
    BY <1>1, <2>2, <2>3 DEF Release
<1>2. ASSUME NEW c \in Calls,
             \/ Refuse(c) \/ Enter(c) \/ Request(c) \/ Queue(c) \/ Resume(c)
             \/ LeaveQueue(c) \/ Reject(c) \/ Return(c) \/ CancelHandler(c)
      PROVE  ExecutorInv'
  <2>1. UNCHANGED <<kind, threadVars>> /\ phase[c] # "running"
    BY <1>2 DEF Refuse, Enter, Request, Queue, Resume, LeaveQueue, Reject, Return,
                CancelHandler
  <2>2. \A d \in Calls \ {c} : phase'[d] = phase[d]
    BY <1>0, <1>2 DEF Refuse, Enter, Request, Queue, Resume, LeaveQueue, Reject, Return,
                CancelHandler, Goes
  <2>3. In("running") \subseteq In("running")'
    BY <2>1, <2>2 DEF In
  <2> QED
    BY <2>1, <2>3, ExecutorKept
<1>3. ASSUME NEW c \in Calls, Forgo(c) \/ BeginClosed(c) PROVE ExecutorInv'
  <2>1. UNCHANGED <<kind, threadVars>> /\ phase[c] # "running"
    BY <1>3 DEF Forgo, BeginClosed
  <2>2. PICK x \in {"rejecting", "idle", "finishing"} : Release(Goes(c, x))
    BY <1>3 DEF Forgo, BeginClosed, GiveBack
  <2>3. In("running") \subseteq In("running")'
    BY <1>1, <2>1, <2>2
  <2> QED
    BY <2>1, <2>3, ExecutorKept
<1>11. ASSUME NEW c \in Calls, Proceed(c) PROVE ExecutorInv'
  <2>1. UNCHANGED <<kind, threadVars>> /\ In("running")' = In("running")
    BY <1>11, ProceedStep DEF Proceed
  <2> QED
    BY <2>1, ExecutorKept
<1>4. ASSUME NEW c \in Calls, Begin(c) PROVE ExecutorInv'
  BY <1>0, <1>4, BeginStep
<1>5. ASSUME NEW c \in Calls, EndThread(c) PROVE ExecutorInv'
  <2>1. /\ onThread' = onThread \ {c} /\ orphans' = orphans
        /\ UNCHANGED <<kind, phase, backlog>>
    BY <1>5 DEF EndThread
  <2>2. /\ onThread' \subseteq SyncCalls /\ orphans' \in Nat
        /\ Cardinality(onThread') + orphans' <= Threads'
    BY <2>1, LeaveThread
  <2>3. In("running")' = In("running")
    BY <2>1 DEF In
  <2> QED
    BY <2>1, <2>2, <2>3 DEF ExecutorInv, ExecutorConsistent
<1>6. ASSUME NEW c \in Calls, Finish(c) PROVE ExecutorInv'
  <2>1. In("running")' = In("running") \ {c}
    BY <1>6, GiveBackStep
  <2>2. c \notin onThread /\ c \notin ToSet(backlog) /\ UNCHANGED <<kind, threadVars>>
    BY <1>6, Members DEF Finish, InExecutor, ExecutorInv
  <2>3. Threads' = Threads
    BY <2>2 DEF Threads
  <2> QED
    BY <2>1, <2>2, <2>3 DEF ExecutorInv, ExecutorConsistent, threadVars
<1>7. ASSUME NEW c \in Calls, Cancel(c) PROVE ExecutorInv'
  BY <1>7, GiveBackStep, CancelStep
<1>8. CASE StartThread
  BY <1>8, StartThreadStep
<1>9. CASE EndOrphan
  <2>1. /\ orphans > 0 /\ orphans' = orphans - 1
        /\ UNCHANGED <<kind, phase, backlog, onThread>>
    BY <1>9 DEF EndOrphan
  <2>2. /\ backlog \in Seq(SyncCalls) /\ onThread \subseteq SyncCalls /\ orphans \in Nat
        /\ Cardinality(onThread) + orphans <= Threads
    BY DEF ExecutorInv, ExecutorConsistent
  <2>3. Cardinality(onThread) \in Nat
    BY <2>2, Config, FS_Subset, FS_CardinalityType
  <2>4. Threads' = Threads /\ In("running")' = In("running")
    BY <2>1 DEF Threads, In
  <2>5. orphans' \in Nat /\ Cardinality(onThread') + orphans' <= Threads'
    <3>1. Cardinality(onThread') = Cardinality(onThread)
      BY <2>1
    <3> QED
      BY <2>1, <2>2, <2>3, <2>4, <3>1, Config
  <2> QED
    BY <2>1, <2>2, <2>4, <2>5 DEF ExecutorInv, ExecutorConsistent
<1>10. CASE Shutdown \/ UNCHANGED vars
  <2>1. UNCHANGED <<kind, threadVars, phase>>
    BY <1>10 DEF Shutdown, vars, threadVars
  <2>2. In("running")' = In("running")
    BY <2>1 DEF In
  <2> QED
    BY <2>1, <2>2, ExecutorKept
<1> QED
  BY <1>2, <1>3, <1>4, <1>5, <1>6, <1>7, <1>8, <1>9, <1>10, <1>11 DEF Next

-----------------------------------------------------------------------------
(* The theorems *)

\* The inductive invariant is one.
LEMMA BInvStep == BInv /\ [Next]_vars => BInv'
<1> SUFFICES ASSUME BInv, [Next]_vars PROVE BInv'
  OBVIOUS
<1>1. PermitInv /\ ExecutorInv /\ open \in BOOLEAN /\ reply \in Replies
  BY DEF BInv
<1>2. PermitInv' /\ ExecutorInv'
  BY <1>1, PermitInvStep, ExecutorInvStep
<1>3. open' \in BOOLEAN
  <2>1. open' = open \/ open' = FALSE
    BY DEF Next, Refuse, Enter, Request, Queue, Proceed, Resume, LeaveQueue, Forgo, Reject, Begin,
           BeginClosed, EndThread, Finish, Cancel, Return, CancelHandler, StartThread,
           EndOrphan, Shutdown, vars
  <2> QED
    BY <1>1, <2>1, Zenon
<1>4. reply' \in Replies
  BY <1>1 DEF Next, Refuse, Enter, Request, Queue, Proceed, Resume, LeaveQueue, Forgo, Reject, Begin,
              BeginClosed, EndThread, Finish, Cancel, Return, CancelHandler, StartThread,
              EndOrphan, Shutdown, vars, Replies
<1> QED
  BY <1>2, <1>3, <1>4 DEF BInv

\* What every step of the bulkhead keeps, the steps with decorated plain
\* functions keep too: beside them there is only the RuntimeError, which changes
\* nothing but the reply.
LEMMA BridgeBInvStep == BInv /\ [BridgeNext]_bridgeVars => BInv'
<1> SUFFICES ASSUME BInv, [BridgeNext]_bridgeVars PROVE BInv'
  OBVIOUS
<1>1. ASSUME NEW c \in Calls, Misbound(c) PROVE BInv'
  <2>1. UNCHANGED <<kind, free, available, waiters, phase, backlog, onThread, orphans, open>>
    BY <1>1 DEF Misbound, threadVars
  <2>2. reply' \in Replies
    BY <1>1 DEF Misbound, Replies
  <2>3. PermitInv'
    BY <2>1 DEF BInv, PermitInv, PermitsConserved, NoPermitForgotten, QueueIsTold, NobodyWaits,
                Permits, Waits, In, Inside
  <2>4. ExecutorInv'
    BY <2>1 DEF BInv, ExecutorInv, ExecutorConsistent, Threads, In
  <2>5. open' \in BOOLEAN
    BY <2>1, Zenon DEF BInv
  <2> QED
    BY <2>2, <2>3, <2>4, <2>5 DEF BInv
<1>2. CASE [Next]_vars
  BY <1>2, BInvStep
<1>3. [Next]_vars \/ \E c \in Calls : Misbound(c)
  <2>1. ASSUME NEW c \in Calls, TaskAsks(c) \/ TaskStops(c) \/ TaskGoesOn(c)
        PROVE  Next \/ Misbound(c)
    BY <2>1 DEF TaskAsks, TaskStops, TaskGoesOn, Wait, Next
  <2>2. ASSUME NEW c \in Calls,
               BridgeFails(c) \/ BridgeBegins(c) \/ BridgeGoesOn(c) \/ BridgeEnds(c)
        PROVE  Next \/ Misbound(c)
    BY <2>2 DEF BridgeFails, BridgeBegins, BridgeGoesOn, BridgeEnds, Wait, Next
  <2>3. CASE ThreadStep \/ CallShutdown
    BY <2>3 DEF ThreadStep, CallShutdown, Next
  <2>4. CASE UNCHANGED bridgeVars
    BY <2>4 DEF bridgeVars
  <2> QED
    BY <2>1, <2>2, <2>3, <2>4, Config DEF BridgeNext
<1> QED
  BY <1>1, <1>2, <1>3

\* The bulkhead of tasks and bridged calls keeps the invariant of the bulkhead.
LEMMA AlwaysBInv == BridgeSpec => []BInv
BY BInvInit, BridgeBInvStep, PTL DEF BridgeSpec, BridgeInit

\* The state keeps its types: neither the semaphore nor the bulkhead's own count
\* ever goes below nothing or above the number of permits.
THEOREM TypeCorrect == BridgeSpec => []TypeOK
BY AlwaysBInv, BInvType, PTL

\* However calls end, time out or are cancelled, every permit is free or held by
\* one call, and the bulkhead's own count follows the semaphore.
THEOREM Permitted == BridgeSpec => []PermitsConserved
<1>1. BInv => PermitsConserved
  BY DEF BInv, PermitInv
<1> QED
  BY <1>1, AlwaysBInv, PTL

\* A permit that is free while a call waits for one is not forgotten: a woken
\* waiter has yet to go on, which will see to it.
THEOREM Handed == BridgeSpec => []NoPermitForgotten
<1>1. BInv => NoPermitForgotten
  BY DEF BInv, PermitInv
<1> QED
  BY <1>1, AlwaysBInv, PTL

\* The executor has the functions of running calls, each once, and no more of
\* them on threads than there are threads.
THEOREM Executed == BridgeSpec => []ExecutorConsistent
<1>1. BInv => ExecutorConsistent
  BY DEF BInv, ExecutorInv
<1> QED
  BY <1>1, AlwaysBInv, PTL

-----------------------------------------------------------------------------
(* Decorated plain functions *)

\* Only the call that blocks the tasks' loop is under way among those of
\* decorated plain functions, and a queue has bound the semaphore.
Asking == In("queued") \cup In("woken")

BridgeInv ==
  /\ \A d \in BridgedCalls : phase[d] # "idle" => blocking = d
  /\ bound = "none" => Asking = {}
  /\ NobodyWaitsAfterwards

\* Only one who waits is moved by the others' steps: it is handed a permit.
OthersWait(c) ==
  \A d \in Calls \ {c} :
    \/ phase'[d] = phase[d]
    \/ phase[d] = "queued" /\ phase'[d] = "woken"

LEMMA ReleaseMoves ==
  ASSUME PermitInv, NEW c \in Calls, NEW x, Release(Goes(c, x)), phase[c] # "queued"
  PROVE  OthersWait(c) /\ phase'[c] = x
<1>1. phase \in [Calls -> Phases]
  BY DEF PermitInv
<1>2. CASE phase' = Goes(c, x)
  BY <1>1, <1>2 DEF Goes, OthersWait
<1>3. CASE waiters # <<>> /\ phase' = [Goes(c, x) EXCEPT ![Head(waiters)] = "woken"]
  <2>1. waiters \in Seq(Calls) /\ ToSet(waiters) = In("queued")
    BY DEF PermitInv, QueueIsTold
  <2>2. Head(waiters) \in Calls /\ phase[Head(waiters)] = "queued"
    BY <1>3, <2>1, TailMembers DEF In
  <2> QED
    BY <1>1, <1>3, <2>2 DEF Goes, OthersWait
<1> QED
  BY <1>2, <1>3 DEF Release

LEMMA StepMoves ==
  ASSUME PermitInv, NEW c \in Calls,
         \/ Refuse(c) \/ Enter(c) \/ Request(c) \/ Proceed(c) \/ Resume(c) \/ LeaveQueue(c)
         \/ Forgo(c) \/ Reject(c) \/ Begin(c) \/ BeginClosed(c) \/ Finish(c) \/ Cancel(c) \/ Return(c)
         \/ CancelHandler(c)
  PROVE  OthersWait(c) /\ phase'[c] \notin {"queued", "woken"}
<1>1. phase \in [Calls -> Phases]
  BY DEF PermitInv
<1>2. CASE \/ Refuse(c) \/ Enter(c) \/ Request(c) \/ Resume(c) \/ LeaveQueue(c)
           \/ Reject(c) \/ Begin(c) \/ Return(c) \/ CancelHandler(c)
  BY <1>1, <1>2 DEF Refuse, Enter, Request, Resume, LeaveQueue, Reject, Begin, Return,
                    CancelHandler, Goes, OthersWait
<1>3. CASE Forgo(c) \/ BeginClosed(c) \/ Finish(c) \/ Cancel(c)
  <2>1. PICK x \in {"rejecting", "idle", "finishing"} : Release(Goes(c, x))
    BY <1>3 DEF Forgo, BeginClosed, Finish, Cancel, GiveBack
  <2>2. phase[c] # "queued"
    BY <1>3 DEF Forgo, BeginClosed, Finish, Cancel
  <2> QED
    BY <2>1, <2>2, ReleaseMoves
<1>4. CASE Proceed(c)
  <2>1. CASE phase' = Goes(c, "granted")
    BY <1>1, <2>1 DEF Goes, OthersWait
  <2>2. CASE waiters # <<>> /\ phase' = [Goes(c, "granted") EXCEPT ![Head(waiters)] = "woken"]
    <3>1. waiters \in Seq(Calls) /\ ToSet(waiters) = In("queued")
      BY DEF PermitInv, QueueIsTold
    <3>2. Head(waiters) \in Calls /\ phase[Head(waiters)] = "queued"
      BY <2>2, <3>1, TailMembers DEF In
    <3>3. phase[c] = "woken"
      BY <1>4 DEF Proceed
    <3> QED
      BY <1>1, <2>2, <3>2, <3>3 DEF Goes, OthersWait
  <2> QED
    BY <1>4, <2>1, <2>2 DEF Proceed
<1> QED
  BY <1>2, <1>3, <1>4

\* No step of the loop or of its bridged call breaks the bridge's invariant.
LEMMA BridgeInvStep == BInv /\ BridgeInv /\ [BridgeNext]_bridgeVars => BridgeInv'
<1> SUFFICES ASSUME BInv, BridgeInv, [BridgeNext]_bridgeVars PROVE BridgeInv'
  OBVIOUS
<1>1. PermitInv
  BY DEF BInv
<1>2. Nobody \notin Calls /\ BridgedCalls \subseteq Calls
  BY BridgeAssumption, Config
<1>3. LoopRuns => /\ \A d \in BridgedCalls : phase[d] = "idle"
                  /\ bound # "other" \/ Asking = {}
  BY <1>2 DEF LoopRuns, BridgeInv, NobodyWaitsAfterwards, Asking, In
<1>4. ASSUME NEW c \in Calls, OthersWait(c), phase'[c] \notin {"queued", "woken"}
      PROVE  Asking' \subseteq Asking \ {c}
  BY <1>4 DEF OthersWait, Asking, In
<1>5. ASSUME UNCHANGED <<phase, blocking, bound>> PROVE BridgeInv'
  BY <1>5 DEF BridgeInv, NobodyWaitsAfterwards, Asking, In
<1>6. ASSUME NEW c \in Calls, LoopRuns, Wait(c)
      PROVE  /\ OthersWait(c)
             /\ Asking' = Asking \cup {c}
             /\ phase'[c] = "queued"
             /\ bound' = LoopOf(c)
             /\ bound \in (IF c \in BridgedCalls THEN {"none"} ELSE {"none", "tasks"})
  <2>1. phase' = [phase EXCEPT ![c] = "queued"] /\ phase \in [Calls -> Phases]
    BY <1>1, <1>6 DEF Wait, Queue, PermitInv
  <2>2. OthersWait(c) /\ phase'[c] = "queued"
    BY <2>1 DEF OthersWait
  <2>3. \A d \in Calls \ {c} : phase'[d] = phase[d]
    BY <2>1
  <2>4. Asking' = Asking \cup {c}
    BY <2>2, <2>3 DEF Asking, In
  <2> QED
    BY <1>6, <2>2, <2>4 DEF Wait
<1>7. ASSUME NEW c \in Calls \ BridgedCalls, TaskAsks(c) \/ TaskStops(c) \/ TaskGoesOn(c)
      PROVE  BridgeInv'
  <2>1. LoopRuns /\ UNCHANGED blocking
    BY <1>7 DEF TaskAsks, TaskStops, TaskGoesOn
  <2>2. CASE Wait(c) /\ TaskAsks(c)
    <3>1. OthersWait(c) /\ bound' = "tasks"
      BY <1>6, <2>1, <2>2 DEF LoopOf
    <3> QED
      BY <1>2, <1>3, <2>1, <3>1 DEF BridgeInv, NobodyWaitsAfterwards, Asking, OthersWait
  <2>3. CASE Misbound(c) /\ UNCHANGED bound
    BY <1>5, <2>1, <2>3 DEF Misbound
  <2>4. CASE ~ Misbound(c) /\ ~ Wait(c)
    <3>1. OthersWait(c) /\ phase'[c] \notin {"queued", "woken"} /\ UNCHANGED bound
      BY <1>1, <1>7, <2>4, StepMoves DEF TaskAsks, TaskStops, TaskGoesOn
    <3>2. Asking' \subseteq Asking
      BY <1>4, <3>1
    <3> QED
      BY <1>2, <1>3, <2>1, <3>1, <3>2 DEF BridgeInv, NobodyWaitsAfterwards, Asking, OthersWait
  <2>5. CASE ~ Misbound(c) /\ Wait(c) /\ ~ TaskAsks(c)
    <3>1. phase[c] = "idle"
      BY <2>5 DEF Wait, Queue
    <3> QED
      BY <1>7, <2>5, <3>1 DEF TaskStops, TaskGoesOn, LeaveQueue, Forgo, Cancel, CancelHandler,
         Proceed, Resume, Begin, BeginClosed, Finish, Reject, Return
  <2>6. Misbound(c) => (UNCHANGED bound \/ (Wait(c) /\ TaskAsks(c)))
    BY <1>7 DEF TaskAsks, TaskStops, TaskGoesOn
  <2> QED
    BY <2>2, <2>3, <2>4, <2>5, <2>6
<1>8. ASSUME NEW c \in BridgedCalls, BridgeBegins(c) PROVE BridgeInv'
  <2>1. c \in Calls /\ LoopRuns /\ blocking' = c
    BY <1>2, <1>8 DEF BridgeBegins
  <2>2. CASE Wait(c)
    <3>1. /\ OthersWait(c) /\ bound' = "other" /\ bound = "none"
          /\ Asking' = Asking \cup {c}
      BY <1>6, <2>1, <2>2 DEF LoopOf
    <3>2. Asking' = {c}
      BY <3>1 DEF BridgeInv
    <3>3. \A d \in BridgedCalls : phase'[d] # "idle" => blocking' = d
      BY <1>2, <1>3, <2>1, <3>1 DEF OthersWait
    <3>4. Asking' \subseteq {blocking'}
      BY <2>1, <3>2
    <3> QED
      BY <3>1, <3>3, <3>4 DEF BridgeInv, NobodyWaitsAfterwards, Asking
  <2>3. CASE (Refuse(c) \/ Enter(c) \/ Request(c)) /\ UNCHANGED bound
    <3>1. OthersWait(c) /\ phase'[c] \notin {"queued", "woken"}
      BY <1>1, <2>1, <2>3, StepMoves
    <3>2. Asking' \subseteq Asking
      BY <1>4, <2>1, <3>1
    <3>3. \A d \in BridgedCalls : phase'[d] # "idle" => blocking' = d
      BY <1>2, <1>3, <2>1, <3>1 DEF OthersWait
    <3>4. /\ bound = "none" => Asking' = {}
          /\ bound = "other" => Asking' = {}
      BY <1>3, <2>1, <3>2 DEF BridgeInv
    <3> QED
      BY <2>3, <3>3, <3>4 DEF BridgeInv, NobodyWaitsAfterwards, Asking
  <2> QED
    BY <1>8, <2>2, <2>3 DEF BridgeBegins
<1>9. ASSUME NEW c \in BridgedCalls, BridgeGoesOn(c) \/ BridgeEnds(c) PROVE BridgeInv'
  <2>1. c \in Calls /\ UNCHANGED bound
    BY <1>2, <1>9 DEF BridgeGoesOn, BridgeEnds
  <2>2. OthersWait(c) /\ phase'[c] \notin {"queued", "woken"}
    BY <1>1, <1>9, <2>1, StepMoves DEF BridgeGoesOn, BridgeEnds
  <2>3. Asking' \subseteq Asking \ {c}
    BY <1>4, <2>1, <2>2
  <2>4. phase[c] # "idle"
    BY <1>9 DEF BridgeGoesOn, BridgeEnds, Proceed, Resume, Begin, BeginClosed, Finish, LeaveQueue,
                Forgo, Reject, Return
  <2>5. blocking = c /\ \A d \in BridgedCalls \ {c} : phase[d] = "idle"
    BY <2>4 DEF BridgeInv
  <2>6. blocking' = c \/ phase'[c] = "idle"
    BY <1>1, <1>9, <2>1, <2>5
    DEF BridgeGoesOn, BridgeEnds, Reject, Return, Goes, PermitInv
  <2>7. \A d \in BridgedCalls : phase'[d] # "idle" => blocking' = d
    BY <1>2, <2>2, <2>5, <2>6 DEF OthersWait
  <2>8. bound = "other" => Asking' = {}
    BY <2>3, <2>5 DEF BridgeInv, NobodyWaitsAfterwards, Asking
  <2> QED
    BY <2>1, <2>3, <2>7, <2>8 DEF BridgeInv, NobodyWaitsAfterwards, Asking
<1>10. CASE \/ \E c \in BridgedCalls : BridgeFails(c)
            \/ ThreadStep \/ CallShutdown \/ UNCHANGED bridgeVars
  BY <1>5, <1>10 DEF BridgeFails, Misbound, ThreadStep, StartThread, EndOrphan, EndThread,
                     CallShutdown, Shutdown, bridgeVars, vars
<1> QED
  BY <1>7, <1>8, <1>9, <1>10 DEF BridgeNext

LEMMA AlwaysBridgeInv == BridgeSpec => [](BInv /\ BridgeInv)
<1>1. BridgeInit => BridgeInv
  <2> SUFFICES ASSUME BridgeInit PROVE BridgeInv
    OBVIOUS
  <2>1. \A c \in Calls : phase[c] = "idle"
    BY DEF BridgeInit, Init
  <2>2. Asking = {} /\ bound = "none"
    BY <2>1 DEF BridgeInit, Asking, In
  <2> QED
    BY <2>1, <2>2, Config DEF BridgeInv, NobodyWaitsAfterwards, Asking
<1> QED
  BY <1>1, BridgeInvStep, AlwaysBInv, PTL DEF BridgeSpec

\* Once a call of a decorated plain function has waited for a permit, no task
\* can wait for one.
THEOREM Misused == BridgeSpec => []NobodyWaitsAfterwards
<1>1. BridgeInv => NobodyWaitsAfterwards
  BY DEF BridgeInv
<1> QED
  BY <1>1, AlwaysBridgeInv, PTL

\* A call of a decorated plain function that waits for a permit never gets one.
THEOREM Vain == BridgeSpec => BridgedWaitIsVain
<1> DEFINE A == \A c \in BridgedCalls : phase[c] = "queued" =>
                  phase'[c] \in {"queued", "rejecting"}
<1>1. BInv /\ BridgeInv /\ [BridgeNext]_bridgeVars => [A]_bridgeVars
  <2> SUFFICES ASSUME BInv, BridgeInv, BridgeNext, NEW c \in BridgedCalls,
                      phase[c] = "queued"
               PROVE  phase'[c] \in {"queued", "rejecting"}
    BY DEF bridgeVars
  <2>1. phase \in [Calls -> Phases] /\ c \in Calls
    BY Config DEF BInv, PermitInv
  <2>2. blocking = c /\ ~ LoopRuns
    BY <2>1, BridgeAssumption DEF BridgeInv, LoopRuns
  <2>3. CASE ThreadStep
    BY <2>3 DEF ThreadStep, StartThread, EndOrphan, EndThread
  <2>4. ASSUME NEW d \in BridgedCalls, BridgeGoesOn(d) PROVE phase'[c] \in {"queued", "rejecting"}
    <3>1. phase[d] # "idle"
      BY <2>4 DEF BridgeGoesOn, Proceed, Resume, Begin, BeginClosed, Finish, LeaveQueue, Forgo
    <3>2. d = c
      BY <2>2, <3>1 DEF BridgeInv
    <3>3. LeaveQueue(c) /\ reply' # "cancelled"
      BY <2>4, <3>2 DEF BridgeGoesOn, Proceed, Resume, Begin, BeginClosed, Finish, Forgo
    <3> QED
      BY <2>1, <3>3 DEF LeaveQueue, Goes
  <2>5. ASSUME NEW d \in BridgedCalls, BridgeEnds(d) PROVE FALSE
    <3>1. phase[d] \in {"rejecting", "finishing"}
      BY <2>5 DEF BridgeEnds, Reject, Return
    <3> QED
      BY <2>2, <3>1 DEF BridgeInv
  <2> QED
    BY <2>2, <2>3, <2>4, <2>5
    DEF BridgeNext, TaskAsks, TaskStops, TaskGoesOn, BridgeFails, BridgeBegins, CallShutdown
<1> QED
  BY <1>1, AlwaysBridgeInv, PTL DEF BridgeSpec, BridgedWaitIsVain
=============================================================================
