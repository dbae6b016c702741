\* One order from the first transaction to the announcement.
CONSTANTS
    o1 = o1
    p1 = p1
    p2 = p2
    w1 = w1
    created = created
    retry = retry
    NoOwner = NoOwner
    Nobody = Nobody
    Order <- MCOrder
    Verdict <- MCVerdict
    Unpublishable = {}
    CreatedAt <- MCCreatedAt
    Kind <- MCKind
    Partition <- MCPartition
    CreatedOf <- MCCreatedOf
    RetryOf <- MCRetryOf
    Owners <- MCOwners
    Mortal <- MCMortal
    Worker <- MCWorker
    OutboxBatch = 1
    OutboxPool = 1
    MaxLate = 0
    LeaseCovers = FALSE
    MaxRetries = 1
    BatchSize = 1
    PoolSize = 1
    MaxLog = 3
    MaxFaults = 2
    MixedFetch = FALSE
    ClockSkew = TRUE
SPECIFICATION Spec
CHECK_DEADLOCK FALSE
INVARIANTS
    NoOrderLost
    NoDecisionLost
PROPERTY ImplementsLife
