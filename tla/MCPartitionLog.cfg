CONSTANTS
    MaxOffset = 3
    MaxRecords = 4
    SteppedClock = TRUE
SPECIFICATION Spec
INVARIANT TypeOK
INVARIANT AckedDurable
INVARIANT AckCoversPrefix
INVARIANT PublishedReadable
INVARIANT NeverRefused
INVARIANT RollNameFree
PROPERTY Implements
