SPECIFICATION Spec
CONSTANTS
    Configs <- MCSkipConfigs
    Faults = {}
    MaxSessions = 1
    MaxVotes = 2
INVARIANTS
    OneActive
\* The programs end and the bounds are reached: a behaviour may stop.
CHECK_DEADLOCK FALSE
