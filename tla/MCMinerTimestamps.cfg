SPECIFICATION Spec
CONSTANTS
    GenesisStore <- MCGenesisStore
    MaxVersion = 9
    BaseCost = 1
    MaxTxs = 2
    Drift = 2
    MaxMempool = 2
    SnapshotDepth = 1
    BatchSize = 1
    Tx <- ReorgTx
    PeerBatch <- ReorgBatch
    Luck = {0, 1}
    MaxTime = 2
    MaxSkew = 0
    MaxHeight = 3
    MaxPeerBlocks = 2
INVARIANT
    TimestampsAdvance
CHECK_DEADLOCK FALSE
