SPECIFICATION FairSpec
CONSTANTS
    GenesisStore <- MCGenesisStore
    MaxVersion = 9
    BaseCost = 1
    MaxTxs = 2
    Drift = 2
    MaxMempool = 3
    SnapshotDepth = 1
    BatchSize = 2
    Tx <- ExecTx
    PeerBatch <- ExecBatch
    Luck = {0, 1}
    MaxTime = 1
    MaxSkew = 0
    MaxHeight = 2
    MaxPeerBlocks = 1
INVARIANTS
    MinedBlocksVerify
    SupplyAccounted
    StoreAssertionsHold
    VersionsIdentifyObjects
    OnlyOwnersWrite
PROPERTY
    PoolDrains
CHECK_DEADLOCK FALSE
