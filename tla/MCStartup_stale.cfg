SPECIFICATION Spec
CONSTANTS
    a = a
    b = b
    Hosts <- MCHosts
    Failed = Failed
    NotFound = NotFound
    Options <- MCOptions
    MaxMoves = 1
    MaxRuns = 1
PROPERTIES
    DeletedOnlyWhenPassive
CHECK_DEADLOCK FALSE
