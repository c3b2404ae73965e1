SPECIFICATION Spec
CONSTANTS
    Workers = {w1, w2, w3, w4}
    TaskCount = 3
    Overlong = {1}
    Malformed = {2}
    ShortTime = 1
    LongTime = 7
    CommandLimit = 5
    LeaseTTL = 2
    MaxJitter = 1
    MaxFaults = 1
INVARIANTS TypeOK RunsBounded LateReportsIgnored
PROPERTY ShortTasksEnd
