\* Time-based window, every operation of the application, cancellations and the
\* half-open time limit.
SPECIFICATION Spec
CONSTANTS
  Calls = {c1, c2, c3}
  WindowSize = 2
  WindowType = "TIME_BASED"
  PermittedCalls = 2
  FailureRateThreshold = 50
  SlowCallRateThreshold = 100
  SlowCallDuration = 1
  MinimumCalls = 2
  WaitDuration = 2
  MaxWaitHalfOpen = 2
  AutomaticHalfOpen = TRUE
  RuntimeErrorRecorded = FALSE
  Verdicts = {"returns", "fails", "fails_ignored"}
  Cancellable = TRUE
  ManualTargets = {"CLOSED", "DISABLED", "FORCED_OPEN", "METRICS_ONLY"}
  MaxEntries = 3
  MayReset = TRUE
SYMMETRY Symmetry
INVARIANTS
  TypeOK
  AdmissionBounded
  WindowInOrder
PROPERTIES
  ChangesAnnounced
  KeepsContract
