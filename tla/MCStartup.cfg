SPECIFICATION FairSpec
CONSTANTS
    a = a
    b = b
    Hosts <- MCHosts
    Failed = Failed
    NotFound = NotFound
    Options <- MCOptions
    MaxMoves = 1
    MaxRuns = 2
INVARIANTS
    TypeOK
    ListensWithoutTower
PROPERTIES
    LatchesOn
\* The programs end and the bounds are reached: a behaviour may stop.
CHECK_DEADLOCK FALSE
