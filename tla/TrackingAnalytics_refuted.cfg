CONSTANTS
  Runs = {r1, r2}
  NObjects = 3
  HourOf <- MCHourOf
  EventOf <- MCEventOf
  MaxHour = 2
  MaxLate = 1
  MarkTTL = 2
  ObjectBatch = 2
  MaxFigure = 2
  MaxFaults = 0
  None = None
SPECIFICATION FairSpec
INVARIANT PerformanceOnce
\* Refuted as well, in its place: PROPERTY EveryObjectCounted
