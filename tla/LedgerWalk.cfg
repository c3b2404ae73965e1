SPECIFICATION Spec
CONSTANTS
    MaxRows = 4
    MaxStamp = 3
    Limit = 1
    CandidateFactor = 2
    CandidateCap = 1000
INVARIANTS TypeOK OnlyTiesAreSkipped
PROPERTY WalkEnds
CHECK_DEADLOCK FALSE
