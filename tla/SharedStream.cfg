SPECIFICATION Spec
CONSTANTS
    MaxRuns = 3
    Faults = {"command", "dirty"}
INVARIANTS
    TypeOK
    
    CompletionAgrees
\* no client runs and the server waits for the next, or is gone
CHECK_DEADLOCK FALSE
