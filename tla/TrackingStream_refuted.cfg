SPECIFICATION FairSpec
CONSTANTS
  b1 = b1
  b2 = b2
  w1 = w1
  w2 = w2
  h1 = h1
  None = None
  Batches = {b1}
  Handlers = {h1}
  Workers = {w1, w2}
  Restarted = {w1}
  Unstorable = {}
  MaxLen = 2
  BatchSize = 1
  TicksPerHour = 1
  MaxDelay = 0
  IdemTTL = 1
  MaxMessages = 2
  MaxClock = 0
  ConsumerOf <- OwnConsumer
PROPERTY StoredWhoeverDies
\* Refuted as well, in its place: INVARIANT ProcessedEntriesDeleted
