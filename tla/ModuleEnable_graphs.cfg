\* All graphs of three modules, one of whose dependencies may be unknown.
SPECIFICATION FairSpec
CONSTANTS
    m1 = m1
    m2 = m2
    m3 = m3
    unknown = unknown
    Modules = {m1, m2, m3}
    Names = {m1, m2, m3, unknown}
    DevRegistry = TRUE
    MaxRetries = 1
    MaxFaults = 1
PROPERTIES EnableReturns 
