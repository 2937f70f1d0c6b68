SPECIFICATION Spec
CONSTANTS
    MaxRuns = 2
    Faults = {}
PROPERTY SyncedWhenActive
CHECK_DEADLOCK FALSE
