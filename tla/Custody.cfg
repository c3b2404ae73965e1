SPECIFICATION Spec
CONSTANTS
    Workers = {w1, w2}
    Owner = owner
    Nobody = nobody
    MaxAttempts = 2
    MaxFaults = 3
    MaxRounds = 1
INVARIANTS TypeOK   OutcomesAgree
PROPERTY TaskEnds
CHECK_DEADLOCK FALSE
