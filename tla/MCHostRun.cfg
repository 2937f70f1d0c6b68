SPECIFICATION Spec
CONSTANTS
    Settings <- MCSettings
    PipeCapacity = 2
    MaxToken = 2
INVARIANTS
    TypeOK
    RunsAsConfigured
    NoReaderLeft
    LostAtMostAPipe
    StandardEnvironmentKept
    CommandsAsMeant
    PreHooksGuard
    RollbackRestores
PROPERTY
    StageEnds
\* a run ends, or waits for ever on a line that is too long
CHECK_DEADLOCK FALSE
