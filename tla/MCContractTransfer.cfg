SPECIFICATION BuildSpec
CONSTANTS
    Units <- MCUnits
    SourceShapes <- PlainSourceShapes
    Structs <- MCStructs
    Funs <- MCFuns
    Imports <- MCImports
    Shapes <- NoShapes
    Main <- MCMain
    MaxU64 = 3
    MaxTuple = 2
    MaxCallDepth = 3
    U64Samples = {0, 3}
    Sender = 50
    MaxStack = 3
    MaxStructs = 3
    MaxFunctions = 10
    MaxFields = 2
    MaxParams = 3
    MaxLocals = 4
    MaxTupleElems = 2
    MaxCode = 30
    GasLimits = {40, 1000}
    Unlimited = 1000
INVARIANT
    TransfersAreObjects
CHECK_DEADLOCK FALSE
