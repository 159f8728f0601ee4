------------------------------ MODULE MCRetry ------------------------------
(***************************************************************************)
(* Retry on a small instance: two callers and three kinds of backoff.      *)
(***************************************************************************)
EXTENDS Retry

\* Backoff that runs down to no wait, with jitter, and along the Fibonacci
\* numbers.
const_Configs ==
  {[interval |-> [kind |-> "linear", initial |-> 1, step |-> -1, cap |-> Uncapped],
    failAfterMax |-> TRUE],
   [interval |-> [kind |-> "exponential_random", initial |-> 1, step |-> 2, cap |-> 1],
    failAfterMax |-> FALSE],
   [interval |-> [kind |-> "fibonacci", initial |-> 1, step |-> 1, cap |-> Uncapped],
    failAfterMax |-> TRUE]}
============================================================================
