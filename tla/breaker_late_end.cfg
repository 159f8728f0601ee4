\* Two calls and no operation of the application: a call ends after the breaker
\* it was let in by has opened.
SPECIFICATION Spec
CONSTANTS
  Calls = {c1, c2}
  WindowSize = 2
  WindowType = "COUNT_BASED"
  PermittedCalls = 1
  FailureRateThreshold = 50
  SlowCallRateThreshold = 100
  SlowCallDuration = 2
  MinimumCalls = 1
  WaitDuration = 1
  MaxWaitHalfOpen = 0
  AutomaticHalfOpen = TRUE
  RuntimeErrorRecorded = TRUE
  Verdicts = {"returns", "fails"}
  Cancellable = FALSE
  ManualTargets = {}
  MayReset = FALSE
  MaxEntries = 2
SYMMETRY Symmetry
INVARIANT EndIsExpected
