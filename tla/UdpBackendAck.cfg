SPECIFICATION Spec
CONSTANTS
    HeartbeatInterval = 4
    AckTimeout = 2
    PruneInterval = 2
    StaleThreshold = 6
    Lookups = 5
    MaxDelay = 1
    MaxRuns = 2
    MaxLosses = 2
INVARIANT AckedBackendIsRegistered
