CONSTANTS
    Local <- MCLocal
    Var <- MCVar
    Modules <- MCModules
SPECIFICATION Spec
CHECK_DEADLOCK FALSE
INVARIANTS
    TypeOK
    LeastResolution
    CyclesExact
    UnresolvedHasCause
PROPERTIES
    Terminates
