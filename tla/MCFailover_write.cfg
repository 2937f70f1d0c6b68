SPECIFICATION Spec
CONSTANTS
    Configs <- MCRollbackConfigs
    Faults = {"write"}
    MaxSessions = 1
    MaxVotes = 2
INVARIANTS
    NobodyLeftPassive
\* The programs end and the bounds are reached: a behaviour may stop.
CHECK_DEADLOCK FALSE
