SPECIFICATION Spec
CONSTANTS
    MaxOps = 3
    MaxPeers = 2
    MaxCrashes = 1
    MaxAttempts = 2
    Unconditional = Unconditional
    None = None
PROPERTIES
    VisibleStateSurvives
CHECK_DEADLOCK FALSE
