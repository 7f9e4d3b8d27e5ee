CONSTANTS
    Commands <- MCCommands
    None = None
SPECIFICATION CliSpec
CHECK_DEADLOCK FALSE
INVARIANTS
    ExitCodeTells
    NoHoles
    DeleteAsAsked
