SPECIFICATION Spec
CONSTANTS
    c1 = c1
    c2 = c2
    c3 = c3
    Client = {c1, c2, c3}
    Size = {2}
    Chosen = {2, 11}
    NumPartitions = 2
    MaxFaults = 0
INVARIANT NoDuplicatePartition
SYMMETRY Symmetry
CHECK_DEADLOCK FALSE
