SPECIFICATION FairSpec

CONSTANTS
    Callers = {a, b}
    Interval = 1
    MaxTime = 3

PROPERTIES
    RealmsReturns

CHECK_DEADLOCK FALSE
