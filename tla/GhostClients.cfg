SPECIFICATION MCSafety
CONSTANTS
    SessionIds <- MCSessionIds
    Calls <- MCCalls
    Sockets <- MCSockets
    MaxSpawns = 1
    NoSession = NoSession
    ExclusiveCreate = TRUE
INVARIANT NoGhostClients
CHECK_DEADLOCK FALSE
