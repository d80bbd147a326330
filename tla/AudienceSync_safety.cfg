SPECIFICATION FairSpec
CONSTANTS
  j1 = j1
  j2 = j2
  c1 = c1
  c2 = c2
  m1 = m1
  m2 = m2
  None = None
  Jobs <- MCJobs
  Campaigns <- MCCampaigns
  Profiles <- MCProfiles
  Targets <- MCTargets
  Synced <- MCSynced
  DryRuns = {TRUE, FALSE}
  BatchSize = 1
  MaxRetries = 1
  MaxStarts = 2
  MaxChanges = 1
  MaxFaults = 1
  MaxAudiences = 3
CHECK_DEADLOCK FALSE
INVARIANTS KeysMatchMembership CompletedIsHandedOver
PROPERTIES ImplementsServedAudiences EveryJobEnds
