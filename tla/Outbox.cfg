CONSTANTS
    Receipts = {a, r1, r2, r3}
    Acceptances = {a}
    Objectionable = {r1}
    BufferSize = 2
    MaxRetries = 1
    BatchLimit = 2
    MaxFaults = 1
    MaxRestarts = 1
CHECK_DEADLOCK FALSE
SPECIFICATION Spec
INVARIANTS
    TypeOK
    BufferedIsKept
PROPERTIES
    NoNeedlessRepeat
    Drains
    ImplementsDelivery
