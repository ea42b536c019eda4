SPECIFICATION MCSafety
CONSTANTS
    Workspaces <- MCWorkspaces
    Agents <- MCAgents
    MaxRuns = 3
    MaxDeletes = 2
INVARIANTS
    CancellationPersists
CHECK_DEADLOCK FALSE
