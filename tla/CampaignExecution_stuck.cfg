SPECIFICATION FairSpec
CONSTANTS
  j1 = j1
  j2 = j2
  r1 = r1
  r2 = r2
  None = None
  Jobs = {j1}
  Runs = {r1}
  NProfiles = 1
  NNodes = 1
  MaxRetries <- Retries
CHECK_DEADLOCK FALSE
PROPERTIES RunningEnds
