SPECIFICATION Spec
CONSTANTS
    c1 = c1
    c2 = c2
    c3 = c3
    Client = {c1, c2, c3}
    Size = {1, 2, 3}
    Chosen = {11, 12}
    NumPartitions = 3
    MaxFaults = 3
INVARIANT TypeOK
INVARIANT AssignmentHonoured
SYMMETRY Symmetry
CHECK_DEADLOCK FALSE
