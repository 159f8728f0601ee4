\* Count-based window, calls that always end and are made again, no operation
\* of the application: the breaker must find its way by itself.
SPECIFICATION FairSpec
CONSTANTS
  Calls = {c1, c2, c3}
  WindowSize = 3
  WindowType = "COUNT_BASED"
  PermittedCalls = 2
  FailureRateThreshold = 50
  SlowCallRateThreshold = 100
  SlowCallDuration = 1
  MinimumCalls = 2
  WaitDuration = 2
  MaxWaitHalfOpen = 0
  AutomaticHalfOpen = TRUE
  RuntimeErrorRecorded = TRUE
  Verdicts = {"returns", "fails", "fails_ignored"}
  Cancellable = FALSE
  ManualTargets = {}
  MaxEntries = 3
  MayReset = FALSE
INVARIANTS
  NoPermitLost
PROPERTIES
  OpenIsLeft
  HalfOpenResolves
  Recovers
