\* Two callers, two disks and two nodes with colliding names, four operations.
SPECIFICATION DiskSpec
CONSTANTS
    c1 = c1
    c2 = c2
    Callers = {c1, c2}
    Disks <- DashDisks
    NodeNames <- DashNodes
    Sizes = {1, 2, 3}
    MaxOps = 4
SYMMETRY CallerSymmetry
INVARIANTS MountsStay
PROPERTY SizesGrow
