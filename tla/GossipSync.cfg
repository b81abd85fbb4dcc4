SPECIFICATION Spec
CONSTANTS
    Node = {"a", "b"}
    Listeners = {"a"}
    SnapshotDepth = 2
    MaxBuffered = 3
    MaxHeight = 4
    UrlsKnown = FALSE
    MayFail = TRUE
    MayDuplicate = TRUE
INVARIANTS
    TypeOK
    SyncFutureHasState
PROPERTIES
    HeadsOnlyAdvance
    SyncReachesPulledTip
CHECK_DEADLOCK FALSE
