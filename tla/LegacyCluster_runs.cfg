SPECIFICATION Spec
CONSTANTS
    p1 = p1
    p2 = p2
    Procs <- TwoProcs
    Masters <- OneMaster
    Workers <- OneWorker
    Setup = "setup"
    ImageOf <- OneImage
    Envs <- All
    MaxRuns = 2
    MaxFaults = 1
SYMMETRY Symmetry
CHECK_DEADLOCK FALSE
INVARIANTS
    OneUserAtATime
    LockIsReleased
    
    CleanupRemovesAll
    
PROPERTIES
    DeliveredIsComplete
