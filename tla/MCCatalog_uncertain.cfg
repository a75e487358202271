SPECIFICATION Spec
CONSTANTS
    t1 = t1
    t2 = t2
    t3 = t3
    NoTopic = NoTopic
    Topic = {t1, t2}
    MaxFaults = 3
INVARIANT WrittenSurvives
CHECK_DEADLOCK FALSE
