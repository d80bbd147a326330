CONSTANTS
  Runs = {r1, r2}
  NObjects = 3
  HourOf <- MCHourOf
  EventOf <- MCEventOf
  MaxHour = 2
  MaxLate = 1
  MarkTTL = 2
  ObjectBatch = 2
  MaxFigure = 1
  MaxFaults = 2
  None = None
SYMMETRY RunSymmetry
SPECIFICATION Spec
INVARIANTS OncePerTTL CheckpointedIsStaged StaleRunStops TotalsAgree
