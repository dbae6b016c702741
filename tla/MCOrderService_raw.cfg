CONSTANTS
    r1 = r1
    Request <- MCRequest
    Commands <- MCCommands
    Headers <- MCHeaders
    SKU <- MCSKU
    BadSKU <- MCBadSKU
    MaxInt64 = 7
    MaxRequestID = 4
    UUIDSize = 3
    RawBytes = {0, 1}
SPECIFICATION Spec
CHECK_DEADLOCK FALSE
INVARIANTS
    EventPublishable
