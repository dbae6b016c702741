\* One event of each refused kind; polls may drop records.
CONSTANTS
    e1 = e1
    e2 = e2
    e3 = e3
    o1 = o1
    o2 = o2
    o3 = o3
    created = created
    retry = retry
    w1 = w1
    w2 = w2
    Nobody = Nobody
    Partition <- Partitions
    CreatedOf <- AllCreated
    RetryOf <- AllRetry
    Worker <- Workers
    Verdict <- Verdicts
    Event <- Mixed
    Kind <- MixedKinds
    Order <- MixedOrders
    OrderOf <- OwnOrder
    MaxRetries = 1
    BatchSize = 2
    PoolSize = 1
    MaxLog = 4
    MaxFaults = 2
    MixedFetch = TRUE
    ClockSkew = TRUE
SPECIFICATION Spec
SYMMETRY WorkerSymmetry
CHECK_DEADLOCK FALSE
INVARIANT PoisonIsolated
