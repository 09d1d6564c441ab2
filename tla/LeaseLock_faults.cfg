\* Two runs, any call may fail, be late or lose its answer.
SPECIFICATION Spec
CONSTANTS
    r1 = r1
    r2 = r2
    Nobody = Nobody
    Runs = {r1, r2}
    Duration = 2
    Skew <- MCSkew
    MaxSkew = 1
    LeftoverTimes <- MCLeftover
    MaxRetries = 1
    MaxFaults = 1
    MaxClock = 3
    LateRequests = TRUE
    Timely = FALSE
INVARIANTS LeaseGuarantee StaleLockExpires
CHECK_DEADLOCK FALSE
