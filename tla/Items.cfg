SPECIFICATION MCSpec
CONSTANTS
    Ids = {1, 2, 3}
    Versions = {1, 2}
    Users = {u1, u2}
    Flusher = fl
    Shards = 1
    CacheSizes = {1, 2}
    TopN = 2
    BufferSize = 2
    Budgets <- ItemsBudgets
    Allocators = {g1, g2, g3}
    BlockSize = 2
    Allocations <- MCAllocations
    Free = Free
    MaxOrders = 4
    MaxDeals = 6
    TopPrice = 2
    TraderIds = {2}
    OrderSizes = {1, 2}
    VipBelow = 2
    SmallBelow = 2
    RetailSlots = 1
    None = None
INVARIANTS CachesInStep BufferLossless NodesDistinct TreeBookSound
PROPERTY BufferDrains
CHECK_DEADLOCK FALSE
