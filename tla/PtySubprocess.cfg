SPECIFICATION Spec
CONSTANTS
    High = 2
    Low = 1
    Hard = 3
    OutHwm = 2
    MaxBatch = 2
    FrameSizes <- MCFrameSizes
    PipeSize = 2
    MaxInput = 4
    MaxOutput = 2
    MaxFails = 1
INVARIANTS
    TypeOK
    QueueAccounting
    PausedForBacklog
    OutputAccounting
    ExitAfterOutput
    PausedForDrain
    NoOrphanShell
PROPERTIES
    Terminates
CHECK_DEADLOCK FALSE
