\* Three calls and no operation of the application: calls let in while the
\* breaker was closed end while it is half-open.
SPECIFICATION Spec
CONSTANTS
  Calls = {c1, c2, c3}
  WindowSize = 2
  WindowType = "COUNT_BASED"
  PermittedCalls = 2
  FailureRateThreshold = 50
  SlowCallRateThreshold = 100
  SlowCallDuration = 2
  MinimumCalls = 1
  WaitDuration = 1
  MaxWaitHalfOpen = 0
  AutomaticHalfOpen = TRUE
  RuntimeErrorRecorded = TRUE
  Verdicts = {"returns", "fails"}
  Cancellable = FALSE
  ManualTargets = {}
  MayReset = FALSE
  MaxEntries = 2
SYMMETRY Symmetry
PROPERTY ClosesAfterTrials
