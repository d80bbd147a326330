CONSTANTS
  Drains = {d}
  Triggers = {t}
  p1 = p1
  p2 = p2
  Raws = {p1, p2}
  Email <- MCEmail
  Device <- MCDevice
  Domain <- MCDomain
  MaxMasters = 3
  BatchSize = 2
  MaxBatches = 2
  MaxTriggers = 1
  MaxFaults = 1
  None = None
SPECIFICATION Spec
INVARIANT
  NoObservationLost
