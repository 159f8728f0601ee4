--------------------------- MODULE RetryIntervals ---------------------------
(***************************************************************************)
(* The interval functions of retry/interval_functions.py, in ticks.  One   *)
(* record stands for one instance: what its constructor stores, whatever   *)
(* the class calls it.  A random interval is the set of the waits it may   *)
(* give.  Multipliers are whole numbers here; the code takes any float.    *)
(***************************************************************************)
EXTENDS Integers

Uncapped == -1   \* max_interval = None

Kinds == {"fixed", "exponential", "linear", "random", "exponential_random",
          "fibonacci"}

\* What the constructors accept.  "step" is the multiplier or the increment;
\* for a RandomInterval "initial" is min_interval.
IsInterval(i) ==
  /\ i.kind \in Kinds
  /\ i.initial \in Nat /\ i.step \in Int /\ i.cap \in Nat \cup {Uncapped}
  /\ i.kind \in {"exponential", "exponential_random"} => i.step > 0
  /\ i.kind = "exponential" /\ i.cap # Uncapped => i.cap >= i.initial
  /\ i.kind = "random" => i.cap >= i.initial
  /\ i.kind = "exponential_random" => i.initial > 0 /\ i.step > 1 /\ i.cap > 0
  /\ i.kind = "fibonacci" => i.initial > 0 /\ i.cap # 0

-----------------------------------------------------------------------------
(* FibonacciBackoff keeps the numbers it computed in a cache *)

FirstFibonacci == [n \in 1..2 |-> 1]

\* Fault: adds the previous number to itself.
RememberDoubling(cache, n) ==
  LET fib[k \in 1..n] ==
        IF k \in DOMAIN cache THEN cache[k] ELSE fib[k - 1] + fib[k - 1]
  IN  IF n \in DOMAIN cache THEN cache ELSE fib

\* The cache once _fibonacci(n) has returned.
Remember(cache, n) ==
  LET fib[k \in 1..n] ==
        IF k \in DOMAIN cache THEN cache[k] ELSE fib[k - 1] + fib[k - 2]
  IN  IF n \in DOMAIN cache THEN cache ELSE fib

\* Reference: the n-th Fibonacci number counts the sets of numbers below n - 1
\* that hold no two neighbours.
SparseSets(n) ==
  {S \in SUBSET (1..(n - 2)) : \A k \in S : k + 1 \notin S}

-----------------------------------------------------------------------------
(* The wait after an attempt *)

Capped(wait, cap) == IF cap = Uncapped \/ wait <= cap THEN wait ELSE cap

NonNegative(wait) == IF wait < 0 THEN 0 ELSE wait

Fixed(i) == {i.initial}

\* multiplier ** n; a recursive function, which proofs can use where ^ cannot.
Power(x, n) ==
  LET power[k \in 0..n] == IF k = 0 THEN 1 ELSE x * power[k - 1]
  IN  power[n]

Exponential(i, attempt) == Capped(i.initial * Power(i.step, attempt - 1), i.cap)

Linear(i, attempt) ==
  Capped(NonNegative(i.initial + i.step * (attempt - 1)), i.cap)

Random(i) == i.initial .. i.cap

Jitter(i, attempt) == 0 .. Exponential(i, attempt)

Fibonacci(i, attempt, fib) == Capped(i.initial * fib[attempt], i.cap)

\* get_wait_duration: interval_function(attempt), with the Fibonacci numbers
\* known by then.  Without an interval_function the wait is a fixed one.
Waits(i, attempt, fib) ==
  CASE i.kind = "fixed"              -> Fixed(i)
    [] i.kind = "exponential"        -> {Exponential(i, attempt)}
    [] i.kind = "linear"             -> {Linear(i, attempt)}
    [] i.kind = "random"             -> Random(i)
    [] i.kind = "exponential_random" -> Jitter(i, attempt)
    [] i.kind = "fibonacci"          -> {Fibonacci(i, attempt, fib)}

\* What the least waits after the attempts before the n-th add up to.
LeastOf(waits) == CHOOSE w \in waits : \A v \in waits : w <= v

Patience(i, fib, n) ==
  LET total[k \in 0..(n - 1)] ==
        IF k = 0 THEN 0 ELSE total[k - 1] + LeastOf(Waits(i, k, Remember(fib, k)))
  IN  total[n - 1]
=============================================================================
