SPECIFICATION Spec
CONSTANTS
  b1 = b1
  b2 = b2
  w1 = w1
  w2 = w2
  h1 = h1
  None = None
  Batches = {b1, b2}
  Handlers = {h1}
  Workers = {w1, w2}
  Restarted = {w1}
  Unstorable = {b2}
  MaxLen = 2
  BatchSize = 2
  TicksPerHour = 2
  MaxDelay = 1
  IdemTTL = 3
  MaxMessages = 2
  MaxClock = 3
  ConsumerOf <- SharedConsumer
INVARIANTS NoAcceptedBatchLost PendingInStream MarkerDescribesObject
PROPERTIES ObjectsImmutable
