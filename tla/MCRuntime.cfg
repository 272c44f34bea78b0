SPECIFICATION MCFairSpec

CONSTANTS
    Versions = {1, 2}
    Loaded = {1}
    Images = {0, 1, 2}
    Legacy = {0}
    First = 0
    MaxGroupVersion = 4
    MaxDirs = 1
    Services = {"deployments", "admission", "rollout"}

INVARIANTS
    RowsWellFormed
    StoppedIsQuiet
    RolloutKeepsService

PROPERTIES
    CreatesAfterStops
    StopsEventually
    EveryAttemptIsServed

CHECK_DEADLOCK FALSE
