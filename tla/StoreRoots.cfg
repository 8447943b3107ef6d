SPECIFICATION FairSpec
CONSTANTS
  Ids = {o1, o2}
  ChanCap = 1
  BatchSize = 2
  MaxCalls = 3
  MaxStops = 2
CHECK_DEADLOCK FALSE
INVARIANTS
  RootStored
  RootMissesOnly
PROPERTIES
  Converges
