SPECIFICATION FairSpec
CONSTANTS
  NumUsers = 4
  KeylessUsers = {4}
  Txs <- HostileTxs
  NoTx = NoTx
  NumTxs = 2
  NonceModulus = 8
  Decoders = {d1, d2}
  Verifiers = {v1, v2}
  NumPreparers = 3
  SystemMaxUID = 1
  ManualRoutes <- NoRoutes
  DedicatedCount = 1
  GeneralWorkers = 1
  JobsCap = 1
  ShardCap = 1
  MaxPending = 1
  SigCacheKeySize = 32
CHECK_DEADLOCK FALSE
PROPERTIES
  WaitReturnsAnyway
