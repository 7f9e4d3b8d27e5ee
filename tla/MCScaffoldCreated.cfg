CONSTANTS
    Type <- MCType
    Section <- MCSection
    Stray = "resource"
    Absent = Absent
    Blank = Blank
    Garbled = Garbled
    NoType = NoType
    Nothing = Nothing
    Texts <- MCTexts
    Requests <- MCRequests
    Job = {j1, j2, j3}
    MaxFaults = 1
SPECIFICATION Spec
CHECK_DEADLOCK FALSE
PROPERTIES
    CreatedMeansNew
