CONSTANTS
    Sessions = {s1, s2, s3}
    Operations = {"complete", "fail", "claim", "renew"}
    MaxAttempts = 2
    MaxGrants = 3
    NoLease = NoLease
    Keep = Keep
SYMMETRY MCSymmetry
SPECIFICATION Spec
INVARIANTS
    TypeOK
    LeaseMatchesStatus
    ReceiptsMatchStatus
    RetryBudget
    
PROPERTIES
    WorkerWritesUnderItsLease
    TerminalImmutable
