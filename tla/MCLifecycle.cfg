SPECIFICATION FairSpec
CONSTANTS
    Partitions <- TwoPartitions
    Request = {"r1"}
    Setter = {"s1", "s2"}
    Closer = {"c1","s2"}
INVARIANT TypeOK
INVARIANT NothingAfterClose
INVARIANT JanitorGoneFirst
PROPERTY IntervalApplied
PROPERTY EveryCallReturns
