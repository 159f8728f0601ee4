\* One call opens the breaker and the application resets it.
SPECIFICATION Spec
CONSTANTS
  Calls = {c1}
  WindowSize = 1
  WindowType = "COUNT_BASED"
  PermittedCalls = 1
  FailureRateThreshold = 50
  SlowCallRateThreshold = 100
  SlowCallDuration = 2
  MinimumCalls = 1
  WaitDuration = 1
  MaxWaitHalfOpen = 0
  AutomaticHalfOpen = TRUE
  RuntimeErrorRecorded = TRUE
  Verdicts = {"returns", "fails"}
  Cancellable = FALSE
  ManualTargets = {}
  MayReset = TRUE
  MaxEntries = 1
PROPERTY EveryChangeAnnounced
