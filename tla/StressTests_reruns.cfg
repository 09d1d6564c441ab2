\* Two runs in every pair of modes, one after the other in one namespace, one fault.
SPECIFICATION FairSpec
CONSTANTS
    Indexes = {"1", "2"}
    Snapshots = {"1"}
    Configs <- All
    MaxAttempts = 2
    MaxFaults = 1
    MaxRuns = 2
INVARIANTS PassMeansChecked CleanRunLeavesNothing SoundModesPass
PROPERTIES RunReturns
CHECK_DEADLOCK FALSE
