SPECIFICATION Spec
CONSTANTS
    Modules = {"m1", "m2", "m3", "m4"}
    GasCoin = "gas"
    Arg = "arg"
    Names <- MCNames
    Graphs <- MCGraphs
    UseLists <- MCUseLists
    MaxImports = 2
    MaxDepModules = 3
    MaxReorgs = 2
INVARIANTS
    ChainIsClosed
    AcceptsExactly
    BuildsLoadTheClosure
    BuiltModulesRun
    LocalInputsAreTheNodes
    DependenciesFirst
PROPERTIES
    ClientFinishes
