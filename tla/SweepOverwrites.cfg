CONSTANTS
    Sessions = {s1, s2}
    Operations = {"complete", "claim", "sweep"}
    MaxAttempts = 2
    MaxGrants = 1
    NoLease = NoLease
    Keep = Keep
SYMMETRY MCSymmetry
SPECIFICATION Spec
PROPERTIES
    TerminalImmutable
