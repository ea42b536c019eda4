SPECIFICATION MCSpec
CONSTANTS
    SessionIds <- MCSessionIds
    Calls <- MCCalls
    Sockets <- MCSockets
    MaxSpawns = 1
    NoSession = NoSession
    ExclusiveCreate = TRUE
INVARIANTS
    TypeOK
    SpawnSlots
    MapSound
    DeadSessionsHaveCleanup
    NoOrphan
    KillFailSafeUnlessStaleExit
PROPERTIES
    LiveSessionsKept
    CallsReturn
CHECK_DEADLOCK FALSE
