CONSTANTS
    t1 = t1
    t2 = t2
    w1 = w1
    w2 = w2
    Tasks = {t1}
    Workers = {w1, w2}
    Owners = {alice}
    NoOwner = NoOwner
    Keyed = {}
    Priority <- MCPriority
    Capable <- MCAllCapable
    MaxBatch = 1
    MaxAttempts = 4
    BackoffBase = 1
    MaxBackoff = 3
    MaxJitter = 1
    MaxDelay = 1
    MaxTTL = 2
    MaxRenewals = 2
    MaxLifetime = 2
    MaxGrants = 4
    MaxOffers = 1
SPECIFICATION Spec
INVARIANTS
    AttemptsAccounted
    HoardingBounded
PROPERTIES
    LeaseEnds
