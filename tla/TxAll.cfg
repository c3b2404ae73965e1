CONSTANTS
    Sessions = {s1, s2}
    Operations = {"complete", "fail", "cancel", "claim", "progress", "renew", "sweep"}
    MaxAttempts = 2
    MaxGrants = 2
    NoLease = NoLease
    Keep = Keep
SPECIFICATION Spec
INVARIANTS
    LockedLeaseStands
PROPERTIES
    TxEnds
