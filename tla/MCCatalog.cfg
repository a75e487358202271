SPECIFICATION Spec
CONSTANTS
    t1 = t1
    t2 = t2
    t3 = t3
    NoTopic = NoTopic
    Topic = {t1, t2, t3}
    MaxFaults = 3
INVARIANT TypeOK
INVARIANT CreatedSurvives
INVARIANT NeverRefused
INVARIANT ServesPublished
SYMMETRY Symmetry
CHECK_DEADLOCK FALSE
