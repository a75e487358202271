SPECIFICATION Spec
CONSTANTS
    g1 = g1
    c1 = c1
    c2 = c2
    Group = {g1}
    Instance = {c1}
    MaxRecords = 3
    MaxFaults = 0
    AnyCommit = FALSE
PROPERTY ClampHolds
