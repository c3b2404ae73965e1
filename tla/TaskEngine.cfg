CONSTANTS
    t1 = t1
    t2 = t2
    w1 = w1
    w2 = w2
    Tasks = {t1, t2}
    Workers = {w1}
    Owners = {alice, bob}
    NoOwner = NoOwner
    Keyed = {t1}
    Priority <- MCPriority
    Capable <- MCAllCapable
    MaxBatch = 2
    MaxAttempts = 2
    BackoffBase = 1
    MaxBackoff = 1
    MaxJitter = 0
    MaxDelay = 0
    MaxTTL = 1
    MaxRenewals = 1
    MaxLifetime = 2
    MaxGrants = 2
    MaxOffers = 2
SPECIFICATION Spec
INVARIANTS
    TypeOK
    LeaseMatchesStatus
    LedgerProvesStatus
    ClosedAtMostOnce
    StrayObligationsExplained
PROPERTIES
    TerminalImmutable
    ImplementsLifecycle
