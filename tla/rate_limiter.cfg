\* Three tasks, or two threads, and a front that is dropped and made anew; two
\* permissions per cycle.  A call refused at the first tick of the cycle is
\* denied, at the last one it sleeps.  The second limiter of the name comes after
\* a remove(), or when nobody uses the first any more.  A listener of the front
\* comes and goes meanwhile.
SPECIFICATION FrontSpec
CONSTANTS
  Calls = {c1, c2, c3}
  Threads = {c1, c2}
  Fronts = {f}
  Listeners = {l}
  Heard = {f}
  Revocable = {f}
  MaxListeners = 1
  None = None
  MaxLimiters = 2
  LimitForPeriod = 2
  CycleLength = 2
  TimeoutDuration = 1
SYMMETRY Symmetry
INVARIANTS
  TypeOK
  GrantsBounded
  SleepsToNextCycle
  OneLimiterPerName
  ListenersKept
PROPERTIES
  KeepsWindow
  LostForEver
