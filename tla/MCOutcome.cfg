SPECIFICATION HistorySpec
CONSTANTS
    Configs <- MCSyncConfigs
    Faults = {"rpc", "hook", "decline", "cmdOld", "cmdNew", "cmdRevert", "read", "write", "link", "crash"}
    MaxSessions = 3
    MaxVotes = 4
INVARIANTS
    TypeOK
    IInv
    OneActive
    ActiveKnowsLastVote
    AgreedBeforeMoving
    CompletionAgrees
    DryRunMovesNothing
    HookRolesTrue
    StrandedOnlyByMishap
PROPERTIES
    RevertOnlyOnSignal
    ImplementsHandover
    ClientEnds
    HandlerReturns
    SomebodyActiveAgain
\* The programs end and the bounds are reached: a behaviour may stop.
CHECK_DEADLOCK FALSE
