\* Both classes: a semaphore with two permits and waiting calls, a pool of one
\* thread with room for one more.  Two functions are coroutines, two are plain
\* ones in executors, and one more is called through the decorator.
SPECIFICATION FairBridgeSpec
CONSTANTS
  Calls = {c1, c2, c3, c4, c5}
  SyncCalls = {c3, c4, c5}
  BridgedCalls = {c5}
  Nobody = Nobody
  Kinds = {"semaphore", "thread_pool"}
  MaxConcurrentCalls = 2
  WaitAllowed = TRUE
  DefaultThreads = 1
  MaxThreads = 1
  QueueCapacity = 1
INVARIANTS
  TypeOK
  PermitsConserved
  NoPermitForgotten
  ExecutorConsistent
  NobodyWaitsAfterwards
PROPERTIES
  WaitersServed
  BridgedWaitIsVain
