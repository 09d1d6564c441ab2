\* Two joining nodes, four runs of Bootstrap, one Remove, two failures.
SPECIFICATION BootFairSpec
CONSTANTS
    w1 = w1
    w2 = w2
    Joiners = {w1, w2}
    MaxAttempts = 2
    MaxMishaps = 2
    MaxBootstraps = 4
    MaxRemoves = 1
INVARIANTS NothingLeaks BootstrapDelivers DhctlRunsUndisturbed
PROPERTIES JoinsFreshNodes RerunsConverge
