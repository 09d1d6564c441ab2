\* Two clients, two calls in any order, two keys, two faults.
SPECIFICATION FairSpec
CONSTANTS
    c1 = c1
    c2 = c2
    k1 = k1
    k2 = k2
    Clients = {c1, c2}
    Keys = {k1, k2}
    Values = {0, 1}
    Default = 0
    Wishes <- MCWishes
    RevisionRetries = 2
    FailurePolls = 2
    MaxCalls = 2
    MaxFaults = 2
INVARIANTS NoLostUpdate
PROPERTIES ConvergedMeansApplied GivesUpOnlyWhenStuck BootstrapDelivers 
