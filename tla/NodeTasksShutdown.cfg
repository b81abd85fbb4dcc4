SPECIFICATION FairSpec
CONSTANT
    Request = {"r1", "r2"}
PROPERTY
    ShutdownCompletes
CHECK_DEADLOCK FALSE
