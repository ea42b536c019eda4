SPECIFICATION Spec
CONSTANTS
    Sockets <- MCSockets
    MaxOutput = 3
INVARIANTS
    TypeOK
    EmulatorAccounting
    WaitersReachable
    SnapshotCoversBoundary
    PausedForClient
PROPERTIES
    PauseEnds
CHECK_DEADLOCK FALSE
