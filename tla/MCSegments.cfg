CONSTANTS
    Prefix = 2
    FrameSizes = {3, 5}
    MaxSegmentBytes = 9
    IndexInterval = 4
    RetentionMS = {0, 1}
    RetentionBytes = {0, 10}
    Millisecond = 1
    SignBit = 8
    MaxTime = 2
    MaxRecords = 4
    MaxCrashes = 1
SPECIFICATION Spec
INVARIANT TypeOK
INVARIANT ReadsAgree
INVARIANT SeeksAreShort
INVARIANT RebuildAgrees
INVARIANT OpenAccepts
PROPERTY DeletedByPolicy
PROPERTY PassSettles
