CONSTANTS
  Profiles = {p1}
  s1 = s1
  s2 = s2
  Segments = {s1, s2}
  Unsafe = {}
  AudienceTags = {"news", "vip"}
  First <- MCFirst
  Edits <- MCLess
  Overwrites = {}
  Sensor = Sensor
  Demand = Demand
  Inline = Inline
  Scopes <- MCScopes
  MaxChanges = 2
  MaxRequests = 1
  MaxRetries = 1
  MaxFaults = 1
  None = None
SPECIFICATION FairSpec
PROPERTY AudienceSynced
\* Refuted as well, in its place: PROPERTY SensorRests
