SPECIFICATION MCSpec
CONSTANTS
  Users = {1, 2, 3}
  Groups = {1, 2}
  GroupOf <- MCGroupOf
  Batches <- MCBatches
  Callers = {c1, c2}
  Workers = {w1}
  QueueCap = 1
  MaxCalls = 3
  Width = 3
  Levels = 2
  MaxLevels = 3
  Members = {"a", "b", "c", "d"}
  PathOf <- MCPathOf
  Contents = {1, 2}
  Updates <- MCUpdates
  Clients = {k1, k2}
  Committers = {x1}
  TaskLimit = 1
  MinNodesForParallel = 2
  c1 = c1
  k1 = k1
  Orders <- MCOrders
INVARIANTS  TreeHolds
PROPERTIES CommitsSettle
CHECK_DEADLOCK FALSE
