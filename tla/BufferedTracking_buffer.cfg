SPECIFICATION FairSpec
CONSTANTS
  b1 = b1
  b2 = b2
  b3 = b3
  h1 = h1
  h2 = h2
  None = None
  Batches = {b1, b2, b3}
  Handlers = {h1, h2}
  QueueSize = 1
  FlushBatch = 2
  S3MayFail = TRUE
INVARIANTS FifoConserved
PROPERTIES EventuallyFlushed StopEndsWorker
