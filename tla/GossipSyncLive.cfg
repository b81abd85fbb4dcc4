SPECIFICATION FairSpec
CONSTANTS
    Node = {"a", "b", "c"}
    Listeners = {"a"}
    SnapshotDepth = 3
    MaxBuffered = 3
    MaxHeight = 3
    UrlsKnown = TRUE
    MayFail = FALSE
    MayDuplicate = FALSE
PROPERTIES
    SyncCompletes
    HandledBlocksReached
CHECK_DEADLOCK FALSE
