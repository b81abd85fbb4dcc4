SPECIFICATION FairSpec
CONSTANT
    Request = {"r1", "r2"}
INVARIANTS
    LockIsConsistent
PROPERTIES
    RequestsAreServed
    QuietShutdown
CHECK_DEADLOCK FALSE
