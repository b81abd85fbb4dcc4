SPECIFICATION FairSpec
CONSTANTS
    Node = {"a", "b"}
    Listeners = {"a"}
    SnapshotDepth = 3
    MaxBuffered = 3
    MaxHeight = 3
    UrlsKnown = FALSE
    MayFail = FALSE
    MayDuplicate = FALSE
PROPERTIES
    SyncCompletes
CHECK_DEADLOCK FALSE
