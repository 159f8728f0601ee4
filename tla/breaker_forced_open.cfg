\* An operator forces the breaker open while a listener is still awaited.
SPECIFICATION Spec
CONSTANTS
  Calls = {c1, c2, c3}
  Operators = {op}
  Commands = {"CLOSED", "FORCED_OPEN", "RESET"}
  Verdicts = {"returns", "fails"}
  NoTask = NoTask
  WindowSize = 1
  WindowType = "COUNT_BASED"
  PermittedCalls = 2
  FailureRateThreshold = 50
  SlowCallRateThreshold = 100
  MinimumCalls = 1
  WaitDuration = 1
  MaxWaitHalfOpen = 1
  AutomaticHalfOpen = TRUE
PROPERTY ForcedOpenHolds
