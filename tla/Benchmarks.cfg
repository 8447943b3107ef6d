SPECIFICATION MCSpec
CONSTANTS
    Kinds <- AllKinds
    TxInputs <- MCTxInputs
    BlockInputs <- MCBlockInputs
    NumUsers = 2
    Decoders = {d1, d2}
    Verifiers = {v1, v2}
    RawCap = 1
    QueueCap = 1
    BatchSize = 2
    OrderIds = {1, 2, 3}
    HashOf <- MCHashOf
    TableSize = 2
    MaxProbes = 1
    MaxTimeDeviation = 1
    MaxTicks = 1
    NoOrder = 0
    BlobMakers = {g1, g2}
    BufferSize = 1
    MaxTxs = 3
INVARIANTS CountRight
PROPERTIES Finishes HandedOver
CHECK_DEADLOCK FALSE
