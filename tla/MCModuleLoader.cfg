CONSTANTS
    Dir <- MCDir
    Root <- MCRoot
    Name <- MCName
    Spelling <- MCSpelling
    Override <- MCOverride
    Configs <- MCConfigs
    Join <- MCJoin
    NilVal = NilVal
    Nothing = Nothing
SPECIFICATION Spec
CHECK_DEADLOCK FALSE
INVARIANTS
    TypeOK
    NoNestedExpansion
    CacheIsExact
    InstancesAreReal
    EveryCallAnswered
    DepthFirstOrder
    ModulesInOrder
    CyclesAreReal
PROPERTIES
    Terminates
