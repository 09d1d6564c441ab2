\* Two nodes and a foreign machine, three commands, two failures.
SPECIFICATION FairSpec
CONSTANTS
    n1 = n1
    n2 = n2
    f1 = f1
    i1 = i1
    Nodes = {n1, n2}
    SetupNode = n2
    Foreign = {f1}
    Images = {i1}
    Limit = 2
    MaxFaults = 2
    MaxCommands = 3
INVARIANTS RunningVmKeepsDisk  TeardownExact
 
