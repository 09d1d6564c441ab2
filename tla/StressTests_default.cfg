\* The default order of steps, no fault.
SPECIFICATION FairSpec
CONSTANTS
    Indexes = {"1", "2"}
    Snapshots = {"1"}
    Configs <- Default
    MaxAttempts = 2
    MaxFaults = 0
    MaxRuns = 1
INVARIANT HealthyRunPasses

CHECK_DEADLOCK FALSE
