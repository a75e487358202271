CONSTANTS
    Prefix = 2
    FrameSizes = {3, 5}
    MaxSegmentBytes = 9
    IndexInterval = 4
    RetentionMS = {7}
    RetentionBytes = {0}
    Millisecond = 2
    SignBit = 8
    MaxTime = 2
    MaxRecords = 4
    MaxCrashes = 0
SPECIFICATION Spec
PROPERTY DeletedByPolicy
