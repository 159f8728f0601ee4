\* Starts, stops, cancellations and publications in any order.
SPECIFICATION FairSpec
CONSTANTS
  Events = {e1, e2}
  NoEvent = NoEvent
  Controllers = {k1, k2}
  Consumers = {a, b}
  QueueSize = 1
  MaxStarts = 2
  MaxConsumers = 2
INVARIANTS
  TypeOK
  EventsAccounted
PROPERTIES
  QueuedIsTaken
  StopReturns
  WorkersEnd
  OffCostsOne
