SPECIFICATION MCSpec
CONSTANTS
    Base = 2
    KeyLen = 3
    MaxDepth = 2
    Ids = {0, 1}
    Versions = {v1, v2}
    Updaters = {u1, u2}
    Computers = {c1, c2}
    MaxAttempts = 1
    WideRange = 0
    Budgets <- MCBudgets
    None = None
    Deleted = Deleted
    m1 = m1
    m2 = m2
    Markets = {m1, m2}
    mirrorDepth <- MCDepth
    ordersPerLevel = 2
    SplitFrom = 20
    Messages <- MCMessages
    MaxMessages = 2
    MaxNoops = 1
INVARIANTS RootCurrent NodesFollowItems 
CHECK_DEADLOCK FALSE
SYMMETRY TreeSymmetry
