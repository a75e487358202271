SPECIFICATION Spec
CONSTANTS
    p1 = p1
    p2 = p2
    a = a
    Producer = {p1, p2}
    Key = {a}
    NoKey = NoKey
    N = 3
    SignBit = 2
    Hash <- SomeHash
    Requests <- SomeRequests
    MaxSeq = 2
    MaxRetries = 1
    MaxCrashes = 1
CHECK_DEADLOCK FALSE
INVARIANT TypeOK
INVARIANT AckNamesRecord
INVARIANT KeyOrder
INVARIANT CleanRejection
INVARIANT PanicsLate
INVARIANT CountsThisProcess
