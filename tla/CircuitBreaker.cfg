CONSTANTS
    Callers = {c1, c2, c3}
    FailureThreshold = 2
    HalfOpenMax = 3
    SuccessThreshold = 2
SPECIFICATION Spec
INVARIANTS
    TypeOK
    ProbesBounded
PROPERTIES
    StaysDecidable
    Recovery
