SPECIFICATION Spec
CONSTANTS
    Workers = {w1, w2}
    Owner = owner
    Nobody = nobody
    MaxAttempts = 2
    MaxFaults = 1
    MaxRounds = 1
PROPERTY CustodyConferred
CHECK_DEADLOCK FALSE
