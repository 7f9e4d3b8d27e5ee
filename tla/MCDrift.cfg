SPECIFICATION DriftSpec
CONSTANTS
    References <- MCReferences
    Constraints <- MCConstraints
    None = None
    NoVerdict = NoVerdict
    Base = 2
    Width = 3
INVARIANTS
    DriftIsReal
    DriftIsFound
CHECK_DEADLOCK FALSE
