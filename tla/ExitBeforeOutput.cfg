SPECIFICATION Spec
CONSTANTS
    Sockets <- MCSockets
    MaxOutput = 3
INVARIANTS
    ExitAfterAllOutput
CHECK_DEADLOCK FALSE
