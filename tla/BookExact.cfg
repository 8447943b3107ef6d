SPECIFICATION Spec
CONSTANTS
  Ids = {a, b, c}
  Traders = {1, 2}
  MaxPrice = 2
  Sizes = {1, 2}
  VipBelow = 2
  SmallBelow = 2
  RetailSlots = 2
  Calls = {"limit", "batch", "market", "cancel", "sweep", "resize"}
  MaxCalls = 5
SYMMETRY Symmetry
CHECK_DEADLOCK FALSE
INVARIANTS
  VolumesExact
