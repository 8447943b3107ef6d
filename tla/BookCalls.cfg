SPECIFICATION FairSpec
CONSTANTS
  Ids = {a, b, c}
  Traders = {2}
  MaxPrice = 2
  Sizes = {1, 3}
  VipBelow = 2
  SmallBelow = 2
  RetailSlots = 2
  Calls = {"limit", "market", "cancel", "sweep", "resize", "move"}
  MaxCalls = 4
CHECK_DEADLOCK FALSE
INVARIANTS
  RestInPlace
  LiveIndexed
  IndexedRest
  VolumesCover
PROPERTIES
  CallsReturn
