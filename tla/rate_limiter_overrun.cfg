\* Calls that slept go on beside those that the new cycle grants.
SPECIFICATION Spec
CONSTANTS
  Calls = {c1, c2, c3}
  LimitForPeriod = 1
  CycleLength = 2
  TimeoutDuration = 2
SYMMETRY Symmetry
INVARIANT StartsBounded
