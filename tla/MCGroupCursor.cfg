SPECIFICATION Spec
CONSTANTS
    g1 = g1
    c1 = c1
    c2 = c2
    Group = {g1}
    Instance = {c1, c2}
    MaxRecords = 3
    MaxFaults = 2
    AnyCommit = FALSE
SYMMETRY Interchangeable
INVARIANT TypeOK
INVARIANT AtLeastOnce
INVARIANT NegativeLagMeansLoss
INVARIANT CursorProtected
