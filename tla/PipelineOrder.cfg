SPECIFICATION Spec
CONSTANTS
  NumUsers = 4
  KeylessUsers = {4}
  Txs <- OrderTxs
  NoTx = NoTx
  NumTxs = 3
  NonceModulus = 8
  Decoders = {d1, d2}
  Verifiers = {v1, v2}
  NumPreparers = 3
  SystemMaxUID = 1
  ManualRoutes <- NoRoutes
  DedicatedCount = 1
  GeneralWorkers = 2
  JobsCap = 1
  ShardCap = 1
  MaxPending = 1
  SigCacheKeySize = 32
SYMMETRY Symmetry
CHECK_DEADLOCK FALSE
INVARIANTS
  TypeOK
  NonceOrder
  MarketOrder
  NewestNeverLost
PROPERTIES
  ImplementsLog
