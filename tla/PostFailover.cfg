SPECIFICATION PostSpec
CONSTANTS
    Failed = Failed
    NotFound = NotFound
    FailingRpcs = {"local"}
    StartSlot = 2
    MaxPassed = 1
    Word = 8
    Earned = {1}
    Counts = {1, 3}
    Interval = 1
INVARIANTS
    PostTypeOK
    ConfirmedIsReflected
    StaleNeverPreferred
    DurationInRange
    NoFalseWarning
    RankFollowsCredits
PROPERTIES
    SettledIsConfirmed
    TailEnds
\* The server ends.
CHECK_DEADLOCK FALSE
