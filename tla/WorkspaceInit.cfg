SPECIFICATION MCSpec
CONSTANTS
    Workspaces <- MCWorkspaces
    Agents <- MCAgents
    MaxRuns = 3
    MaxDeletes = 2
INVARIANTS
    TypeOK
    NoStrayWorktree
    CancelledNeverReady
    InitReported
PROPERTIES
    DeletesEnd
CHECK_DEADLOCK FALSE
