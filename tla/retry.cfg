\* Two callers on one loop, four attempts, three kinds of backoff.
SPECIFICATION FairSpec
CONSTANTS
  Calls = {c1, c2}
  MaxAttempts = 4
  Configs <- const_Configs
  Good = good
  Poor = poor
  Exceptions = {broken, fatal}
  RuntimeErrors = {broken}
  AbortExceptions = {fatal}
  RetryExceptions = {broken, fatal}
  AcceptedByPredicate = {broken, fatal}
  NoOutcome = none
INVARIANTS
  TypeOK
  AttemptsJustified
  EventsTellTheCall
  BackoffRespected
  FibonacciExact
PROPERTY EveryCallAnswered
