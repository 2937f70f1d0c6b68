SPECIFICATION Spec
CONSTANTS
    EpochLength = 12
    Epochs = 3
    MinSlots = 3
    MaxRetries = 1
    MaxGap = 1
    Schedules <- MCSchedules
INVARIANTS
    TypeOK
    NotLeaderInEpoch
    WaitEnds
\* the client is done, or the last slot considered is reached
CHECK_DEADLOCK FALSE
