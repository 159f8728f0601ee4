----------------------------- MODULE DataLemmas -----------------------------
(***************************************************************************)
(* What the queues of the models are built with: sequences, without        *)
(* repetition for the most part, and the sets of their elements.  Then     *)
(* induction and recursion over numbers, in a form that provers can use.   *)
(***************************************************************************)
EXTENDS SequencesExt, SequenceTheorems, WellFoundedInduction, Integers, TLAPS

\* A sequence contains an element that is in its set, and the other way round.
LEMMA Members ==
  ASSUME NEW S, NEW s \in Seq(S)
  PROVE  /\ \A x : x \in ToSet(s) <=> \E i \in 1..Len(s) : s[i] = x
         /\ \A x : Contains(s, x) <=> x \in ToSet(s)
         /\ ToSet(s) \subseteq S
         /\ s = <<>> <=> ToSet(s) = {}
<1>1. Len(s) \in Nat /\ DOMAIN s = 1..Len(s) /\ s \in [1..Len(s) -> S]
  BY LenProperties
<1>2. \A x : x \in ToSet(s) <=> \E i \in 1..Len(s) : s[i] = x
  BY <1>1 DEF ToSet
<1>3. s = <<>> => ToSet(s) = {}
  <2>1. s = <<>> => Len(s) = 0
    OBVIOUS
  <2> QED
    BY <1>2, <2>1
<1>4. s # <<>> => s[1] \in ToSet(s)
  <2>1. s # <<>> => Len(s) \in Nat \ {0}
    BY EmptySeq
  <2> QED
    BY <1>2, <2>1
<1> QED
  BY <1>1, <1>2, <1>3, <1>4 DEF Contains

\* A sequence without repetition has no element in two places.
LEMMA Places ==
  ASSUME NEW S, NEW s \in Seq(S)
  PROVE  IsInjective(s) <=> \A i, j \in 1..Len(s) : s[i] = s[j] => i = j
  BY LenProperties DEF IsInjective

\* Append puts one more element into a sequence.
LEMMA AppendMembers ==
  ASSUME NEW S, NEW s \in Seq(S), NEW x \in S
  PROVE  /\ Append(s, x) \in Seq(S)
         /\ Append(s, x) # <<>>
         /\ ToSet(Append(s, x)) = ToSet(s) \cup {x}
         /\ IsInjective(s) /\ x \notin ToSet(s) => IsInjective(Append(s, x))
<1> DEFINE t == Append(s, x)
           n == Len(s)
<1>1. n \in Nat /\ DOMAIN s = 1..n
  BY LenProperties
<1>2. /\ t \in Seq(S) /\ t # <<>> /\ Len(t) = n + 1
      /\ \A i \in 1..n : t[i] = s[i]
      /\ t[n + 1] = x
  BY AppendProperties
<1>3. DOMAIN t = 1..n + 1
  BY <1>2, LenProperties
<1> HIDE DEF t, n
<1>4. ToSet(t) = ToSet(s) \cup {x}
  BY <1>1, <1>2, <1>3 DEF ToSet
<1>5. IsInjective(s) /\ x \notin ToSet(s) => IsInjective(t)
  BY <1>1, <1>2, <1>3 DEF IsInjective, ToSet
<1> QED
  BY <1>2, <1>4, <1>5 DEF t

\* Tail takes the first element out of a sequence.
LEMMA TailMembers ==
  ASSUME NEW S, NEW s \in Seq(S), s # <<>>
  PROVE  /\ Tail(s) \in Seq(S)
         /\ Head(s) \in S
         /\ ToSet(s) = ToSet(Tail(s)) \cup {Head(s)}
         /\ IsInjective(s) => IsInjective(Tail(s)) /\ Head(s) \notin ToSet(Tail(s))
<1> DEFINE t == Tail(s)
           n == Len(s)
<1>1. n \in Nat \ {0} /\ DOMAIN s = 1..n
  BY LenProperties, EmptySeq
<1>2. /\ t \in Seq(S) /\ Len(t) = n - 1
      /\ \A i \in 1..n - 1 : t[i] = s[i + 1]
      /\ Head(s) \in S
  BY HeadTailProperties
<1>3. DOMAIN t = 1..n - 1
  BY <1>2, LenProperties
<1>4. Head(s) = s[1]
  OBVIOUS
<1> HIDE DEF t, n
<1>5. ToSet(s) = ToSet(t) \cup {s[1]}
  <2>1. \A i \in 1..n : i = 1 \/ (i - 1 \in 1..n - 1 /\ t[i - 1] = s[i])
    BY <1>1, <1>2
  <2>2. \A i \in 1..n - 1 : i + 1 \in 1..n
    BY <1>1
  <2>3. \A x : x \in ToSet(s) <=> \E i \in 1..n : s[i] = x
    BY Members DEF n
  <2>4. \A x : x \in ToSet(t) <=> \E i \in 1..n - 1 : t[i] = x
    BY <1>2, Members
  <2>5. ASSUME NEW x, x \in ToSet(s) PROVE x \in ToSet(t) \cup {s[1]}
    BY <2>1, <2>3, <2>4, <2>5
  <2>6. s[1] \in ToSet(s)
    BY <1>1, <2>3
  <2>7. ASSUME NEW x, x \in ToSet(t) PROVE x \in ToSet(s)
    <3>1. PICK i \in 1..n - 1 : t[i] = x
      BY <2>4, <2>7
    <3>2. s[i + 1] = x /\ i + 1 \in 1..n
      BY <1>2, <2>2, <3>1
    <3> QED
      BY <2>3, <3>2
  <2> QED
    BY <2>5, <2>6, <2>7
<1>6. ASSUME IsInjective(s) PROVE IsInjective(t) /\ s[1] \notin ToSet(t)
  <2>1. \A i, j \in 1..n : s[i] = s[j] => i = j
    BY <1>6, Places DEF n
  <2>2. \A i, j \in 1..n - 1 : t[i] = t[j] => i = j
    BY <1>1, <1>2, <2>1
  <2>3. \A i \in 1..n - 1 : t[i] # s[1]
    BY <1>1, <1>2, <2>1
  <2> QED
    BY <1>2, <2>2, <2>3, Places, Members
<1> QED
  BY <1>2, <1>4, <1>5, <1>6 DEF t

\* RemoveAt takes that element out of a sequence, and nothing else if there is
\* no repetition.
LEMMA RemoveAtMembers ==
  ASSUME NEW S, NEW s \in Seq(S), NEW i \in 1..Len(s)
  PROVE  /\ RemoveAt(s, i) \in Seq(S)
         /\ Len(RemoveAt(s, i)) = Len(s) - 1
         /\ ToSet(s) = ToSet(RemoveAt(s, i)) \cup {s[i]}
         /\ IsInjective(s) => /\ IsInjective(RemoveAt(s, i))
                              /\ s[i] \notin ToSet(RemoveAt(s, i))
<1> DEFINE t == RemoveAt(s, i)
           n == Len(s)
           a == SubSeq(s, 1, i - 1)
           b == SubSeq(s, i + 1, n)
<1>1. n \in Nat \ {0} /\ DOMAIN s = 1..n /\ \A j \in 1..n : s[j] \in S
  BY LenProperties, ElementOfSeq
<1>2. /\ a \in Seq(S) /\ Len(a) = i - 1
      /\ \A j \in 1..i - 1 : a[j] = s[j]
  <2>1. \A j \in 1..i - 1 : s[j] \in S
    BY <1>1
  <2> QED
    BY <1>1, <2>1, SubSeqProperties
<1>3. /\ b \in Seq(S) /\ Len(b) = n - i
      /\ \A j \in 1..n - i : b[j] = s[i + j]
  <2>1. \A j \in i + 1..n : s[j] \in S
    BY <1>1
  <2>2. /\ b \in Seq(S)
        /\ Len(b) = IF i + 1 <= n THEN n - (i + 1) + 1 ELSE 0
        /\ \A j \in 1..n - (i + 1) + 1 : b[j] = s[i + 1 + j - 1]
    BY <1>1, <2>1, SubSeqProperties
  <2>3. i \in 1..n
    OBVIOUS
  <2> HIDE DEF b, n
  <2>4. n - (i + 1) + 1 = n - i /\ (i + 1 > n => n - i = 0)
    BY <1>1, <2>3
  <2>5. \A j \in 1..n - i : i + 1 + j - 1 = i + j
    BY <1>1, <2>3
  <2> QED
    BY <1>1, <2>2, <2>3, <2>4, <2>5
<1> HIDE DEF a, b
<1>4. t = a \o b
  BY DEF RemoveAt, a, b
<1> HIDE DEF t, n
<1>5. /\ t \in Seq(S) /\ Len(t) = n - 1
      /\ \A j \in 1..n - 1 : t[j] = IF j < i THEN s[j] ELSE s[j + 1]
  <2>1. /\ t \in Seq(S) /\ Len(t) = Len(a) + Len(b)
        /\ \A j \in 1..Len(a) + Len(b) : t[j] = IF j <= Len(a) THEN a[j] ELSE b[j - Len(a)]
    BY <1>2, <1>3, <1>4, ConcatProperties
  <2>2. Len(t) = n - 1
    BY <1>1, <1>2, <1>3, <2>1
  <2>3. ASSUME NEW j \in 1..n - 1 PROVE t[j] = IF j < i THEN s[j] ELSE s[j + 1]
    <3>1. i \in 1..n
      BY DEF n
    <3>2. t[j] = IF j <= i - 1 THEN a[j] ELSE b[j - (i - 1)]
      BY <1>1, <1>2, <1>3, <2>1, <3>1
    <3>3. CASE j < i
      BY <1>2, <3>1, <3>2, <3>3
    <3>4. CASE ~ j < i
      BY <1>1, <1>3, <3>1, <3>2, <3>4
    <3> QED
      BY <3>3, <3>4
  <2> QED
    BY <2>1, <2>2, <2>3
<1>6. DOMAIN t = 1..n - 1
  BY <1>5, LenProperties
<1>7. i \in 1..n
  BY DEF n
<1>8. ToSet(s) = ToSet(t) \cup {s[i]}
  <2>1. ASSUME NEW j \in 1..n, j # i PROVE \E k \in 1..n - 1 : t[k] = s[j]
    <3>1. CASE j < i
      BY <1>1, <1>5, <1>7, <3>1
    <3>2. CASE j > i
      <4>1. j - 1 \in 1..n - 1 /\ t[j - 1] = s[j]
        BY <1>1, <1>5, <1>7, <3>2
      <4> QED
        BY <4>1
    <3> QED
      BY <1>7, <2>1, <3>1, <3>2
  <2>2. ASSUME NEW k \in 1..n - 1 PROVE \E j \in 1..n : t[k] = s[j]
    BY <1>1, <1>5, <1>7
  <2>3. \A x : x \in ToSet(s) <=> \E j \in 1..n : s[j] = x
    BY Members DEF n
  <2>4. \A x : x \in ToSet(t) <=> \E k \in 1..n - 1 : t[k] = x
    BY <1>5, Members
  <2>5. \A x : x \in ToSet(s) <=> x \in ToSet(t) \cup {s[i]}
    BY <1>7, <2>1, <2>2, <2>3, <2>4
  <2> QED
    BY <2>5
<1>9. ASSUME IsInjective(s) PROVE IsInjective(t) /\ s[i] \notin ToSet(t)
  <2>1. \A j, k \in 1..n : s[j] = s[k] => j = k
    BY <1>9, Places DEF n
  <2>2. \A j, k \in 1..n - 1 : t[j] = t[k] => j = k
    BY <1>1, <1>5, <1>7, <2>1
  <2>3. \A j \in 1..n - 1 : t[j] # s[i]
    BY <1>1, <1>5, <1>7, <2>1
  <2> QED
    BY <1>5, <2>2, <2>3, Places, Members
<1> QED
  BY <1>5, <1>8, <1>9 DEF t, n

\* A set of numbers that is not empty has a least one.
LEMMA Least ==
  ASSUME NEW T, T \subseteq Nat, T # {}
  PROVE  \E n \in T : \A m \in T : n <= m
<1> DEFINE R == OpToRel(<, Nat)
<1>1. IsWellFoundedOn(R, Nat)
  BY NatLessThanWellFounded
<1>2. \A x, y \in Nat : x < y => <<x, y>> \in R
  BY DEF OpToRel
<1> HIDE DEF R
<1>3. PICK n \in T : \A y \in T : ~ (<<y, n>> \in R)
  BY <1>1, WFMin
<1>4. ASSUME NEW m \in T PROVE n <= m
  <2>1. m \in Nat /\ n \in Nat
    OBVIOUS
  <2>2. ~ (m < n)
    BY <1>2, <1>3, <2>1
  <2> QED
    BY <2>1, <2>2
<1> QED
  BY <1>4

\* RemoveFirst takes out one element of that value, if there is one.
LEMMA FirstRemoved ==
  ASSUME NEW S, NEW s \in Seq(S), NEW x
  PROVE  /\ \/ RemoveFirst(s, x) = s /\ x \notin ToSet(s)
            \/ \E i \in 1..Len(s) : s[i] = x /\ RemoveFirst(s, x) = RemoveAt(s, i)
         /\ RemoveFirst(s, x) \in Seq(S)
<1> DEFINE I == {i \in 1..Len(s) : s[i] = x}
<1>1. Len(s) \in Nat
  BY LenProperties
<1>2. CASE I = {}
  <2>1. ~ \E i \in 1..Len(s) : s[i] = x
    BY <1>2
  <2>2. RemoveFirst(s, x) = s
    BY <2>1 DEF RemoveFirst
  <2> QED
    BY <2>1, <2>2, Members
<1>3. CASE I # {}
  <2>1. I \subseteq Nat
    BY <1>1
  <2>2. PICK i \in I : \A j \in I : i <= j
    BY <1>3, <2>1, Least
  <2>3. Min(I) = i
    <3>1. \A k \in I : (\A j \in I : k <= j) => k = i
      BY <2>1, <2>2
    <3> HIDE DEF I
    <3> QED
      BY <2>2, <3>1 DEF Min
  <2>4. \E j \in 1..Len(s) : s[j] = x
    BY <1>3
  <2>5. RemoveFirst(s, x) = RemoveAt(s, Min(I))
    BY <1>3, <2>4 DEF RemoveFirst, SelectInSeq
  <2>6. i \in 1..Len(s) /\ s[i] = x
    BY <2>2
  <2> HIDE DEF I
  <2> QED
    BY <2>3, <2>5, <2>6, RemoveAtMembers
<1> QED
  BY <1>2, <1>3

\* The beginnings of a sequence: the empty one, from one to the next, the whole.
LEMMA Beginnings ==
  ASSUME NEW S, NEW s \in Seq(S)
  PROVE  /\ SubSeq(s, 1, 0) = <<>>
         /\ SubSeq(s, 1, Len(s)) = s
         /\ \A k \in 0..Len(s) - 1 : SubSeq(s, 1, k + 1) = Append(SubSeq(s, 1, k), s[k + 1])
<1> DEFINE n == Len(s)
           b(k) == SubSeq(s, 1, k)
<1>1. n \in Nat /\ \A i \in 1..n : s[i] \in S
  BY LenProperties, ElementOfSeq
<1>2. ASSUME NEW k \in 0..n
      PROVE  b(k) \in Seq(S) /\ Len(b(k)) = k /\ \A i \in 1..k : b(k)[i] = s[i]
  <2>1. \A i \in 1..k : s[i] \in S
    BY <1>1
  <2>2. k \in Int /\ 1 \in Int /\ (1 <= k \/ k = 0)
    BY <1>1
  <2>3. /\ SubSeq(s, 1, k) \in Seq(S)
        /\ Len(SubSeq(s, 1, k)) = IF 1 <= k THEN k - 1 + 1 ELSE 0
        /\ \A i \in 1..k - 1 + 1 : SubSeq(s, 1, k)[i] = s[1 + i - 1]
    BY <2>1, <2>2, SubSeqProperties
  <2> QED
    BY <1>1, <2>2, <2>3
<1> HIDE DEF n, b
<1>3. b(0) = <<>>
  BY <1>1, <1>2, EmptySeq
<1>4. b(n) = s
  <2>1. s \in Seq(S) /\ Len(s) = n
    BY DEF n
  <2> QED
    BY <1>1, <1>2, <2>1, SeqEqual
<1>5. ASSUME NEW k \in 0..n - 1 PROVE b(k + 1) = Append(b(k), s[k + 1])
  <2>1. k \in 0..n /\ k + 1 \in 0..n /\ s[k + 1] \in S
    BY <1>1
  <2> DEFINE t == Append(b(k), s[k + 1])
  <2>2. /\ t \in Seq(S) /\ Len(t) = k + 1 /\ t[k + 1] = s[k + 1]
        /\ \A i \in 1..k : t[i] = s[i]
    BY <1>2, <2>1, AppendProperties
  <2> HIDE DEF t
  <2>3. /\ b(k + 1) \in Seq(S) /\ Len(b(k + 1)) = k + 1
        /\ \A i \in 1..k + 1 : b(k + 1)[i] = s[i]
    BY <1>2, <2>1
  <2>4. \A i \in 1..k + 1 : b(k + 1)[i] = t[i]
    BY <1>1, <2>2, <2>3
  <2>5. b(k + 1) = t
    BY <2>2, <2>3, <2>4, SeqEqual
  <2> QED
    BY <2>5 DEF t
<1> QED
  BY <1>3, <1>4, <1>5 DEF b, n

-----------------------------------------------------------------------------
(* Induction and recursion over numbers, for sets and functions *)

\* Induction, for the numbers of a set.
LEMMA Inductive ==
  ASSUME NEW S, 0 \in S, \A n \in Nat : n \in S => n + 1 \in S
  PROVE  Nat \subseteq S
<1> SUFFICES ASSUME Nat \ S # {} PROVE FALSE
  OBVIOUS
<1>1. PICK n \in Nat \ S : \A m \in Nat \ S : n <= m
  BY Least
<1>2. n - 1 \in Nat /\ n - 1 \in S
  BY <1>1
<1> QED
  BY <1>1, <1>2

\* The values of f up to n start with a, and G leads from each to the next.
Unfolds(f, n, a, G) == \A k \in 0..n : f[k] = IF k = 0 THEN a ELSE G[k][f[k - 1]]

\* A function that a recursion over the numbers up to n defines exists.
LEMMA Recursion ==
  ASSUME NEW a \in Nat, NEW G \in [Nat -> [Nat -> Nat]], NEW n \in Nat
  PROVE  \E f \in [0..n -> Nat] : Unfolds(f, n, a, G)
<1> USE DEF Unfolds
<1> DEFINE Solves(f, m) == Unfolds(f, m, a, G)
           S == {m \in Nat : \E f \in [0..m -> Nat] : Solves(f, m)}
<1>1. 0 \in S
  <2> DEFINE f == [k \in 0..0 |-> a]
  <2>1. f \in [0..0 -> Nat] /\ Solves(f, 0)
    OBVIOUS
  <2> QED
    BY <2>1
<1>2. ASSUME NEW m \in Nat, m \in S PROVE m + 1 \in S
  <2>1. PICK f \in [0..m -> Nat] : Solves(f, m)
    BY <1>2
  <2> HIDE DEF S
  <2> DEFINE v == G[m + 1][f[m]]
             g == [k \in 0..(m + 1) |-> IF k <= m THEN f[k] ELSE v]
  <2>2. v \in Nat
    <3>1. f[m] \in Nat
      OBVIOUS
    <3>2. m + 1 \in Nat
      OBVIOUS
    <3>3. G[m + 1] \in [Nat -> Nat]
      BY <3>2
    <3> QED
      BY <3>1, <3>3
  <2>3. g \in [0..(m + 1) -> Nat]
    <3> HIDE DEF v
    <3>1. ASSUME NEW k \in 0..(m + 1), k <= m PROVE f[k] \in Nat
      <4>1. k \in 0..m
        BY <3>1
      <4> QED
        BY <4>1
    <3> QED
      BY <2>2, <3>1
  <2>4. ASSUME NEW k \in 0..(m + 1)
        PROVE  g[k] = IF k = 0 THEN a ELSE G[k][g[k - 1]]
    <3>1. CASE k <= m
      <4>1. g[k] = f[k] /\ (k # 0 => g[k - 1] = f[k - 1])
        BY <3>1
      <4>2. k \in 0..m
        BY <3>1
      <4>3. f[k] = IF k = 0 THEN a ELSE G[k][f[k - 1]]
        BY <2>1, <4>2
      <4> QED
        BY <4>1, <4>3
    <3>2. CASE k = m + 1
      <4>1. g[k] = v /\ g[k - 1] = f[m] /\ k # 0
        BY <3>2
      <4> QED
        BY <3>2, <4>1
    <3> QED
      BY <3>1, <3>2
  <2> HIDE DEF g
  <2>5. m + 1 \in Nat
    OBVIOUS
  <2> QED
    BY <2>3, <2>4, <2>5 DEF S
<1>3. n \in S
  <2> HIDE DEF S
  <2> QED
    BY <1>1, <1>2, Inductive
<1> QED
  BY <1>3
=============================================================================
