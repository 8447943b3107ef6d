SPECIFICATION SnapshotsSpec
CONSTANTS
    Names = {1, 2, 3}
    Items = {x}
    Callers = {c1, c2}
    Budgets <- AllBudgets
    None = None
INVARIANTS GlobalCurrent ProofsVerify SnapshotTrue
PROPERTIES CallsReturn
CHECK_DEADLOCK FALSE
