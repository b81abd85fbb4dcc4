SPECIFICATION Spec
CONSTANTS
    SnapshotDepth = 2
    MaxTime = 1
    GenesisStore <- MCGenesisStore
    GenesisBlock <- MCGenesis
    Digest <- MCDigest
    Block <- MCBlock
    Store <- MCStore
    ValidStructure <- MCValidStructure
    ReplayOk <- MCReplayOk
    ReplayStore <- MCReplayStore
    StateRoot <- MCStateRoot
INVARIANTS
    ChainInv
    NoGaps
    PruningIsFinality
PROPERTIES
    HeadOnlyAdvances
    SnapshotsAreFinal
    ImplementsArchive
CHECK_DEADLOCK FALSE
