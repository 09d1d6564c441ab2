\* A caller and a tunnel handler share a client whose connection is lost; two more faults.
SPECIFICATION LegacyFairSpec
CONSTANTS
    c1 = c1
    c2 = c2
    Users = {c1, c2}
    Handlers = {c2}
    RetryCount = 2
    MaxFaults = 2
    MaxCalls = 2
INVARIANTS NoOrphan 
 
CHECK_DEADLOCK FALSE
