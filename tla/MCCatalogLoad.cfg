CONSTANTS
    Name <- MCName
    Type <- MCType
    Identifier <- MCIdentifier
    Directories <- MCDirectories
    oldestVerifiedLimit = 2
    Todo = Todo
    Blank = Blank
    Malformed = Malformed
    Unreadable = Unreadable
    Nothing = Nothing
SPECIFICATION StatsSpec
CHECK_DEADLOCK FALSE
INVARIANTS
    TypeOK
    AllOrNothing
    FirstErrorIsStable
    TablesExact
    PlaceholdersNoticed
