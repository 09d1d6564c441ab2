\* Two runs from Connect to Close whose requests beat the expiry of a lease.
SPECIFICATION FairSpec
CONSTANTS
    r1 = r1
    r2 = r2
    Nobody = Nobody
    Runs = {r1, r2}
    Closers = {"suite", "deferred"}
    Setups <- MCSetups
    Duration = 2
    Skew <- MCSkew
    MaxSkew = 1
    LeftoverTimes <- MCLeftover
    MaxRetries = 1
    MaxFaults = 1
    MaxClock = 2
    LateRequests = FALSE
    Timely = TRUE
INVARIANTS OneRunUsesTheCluster LockInsideConnection
 
CHECK_DEADLOCK FALSE
