SPECIFICATION FairSpec
CONSTANTS
  b1 = b1
  b2 = b2
  w1 = w1
  w2 = w2
  h1 = h1
  None = None
  Batches = {b1, b2}
  Handlers = {h1}
  Workers = {w1}
  Restarted = {w1}
  Unstorable = {b1}
  MaxLen = 2
  BatchSize = 2
  TicksPerHour = 1
  MaxDelay = 0
  IdemTTL = 1
  MaxMessages = 2
  MaxClock = 0
  ConsumerOf <- OwnConsumer
PROPERTIES StorableEventuallyStored
