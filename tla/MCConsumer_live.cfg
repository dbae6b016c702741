\* A valid event and one whose order is missing; clocks may disagree.
CONSTANTS
    e1 = e1
    e2 = e2
    e3 = e3
    o1 = o1
    o2 = o2
    o3 = o3
    created = created
    retry = retry
    w1 = w1
    w2 = w2
    Nobody = Nobody
    Partition <- Partitions
    CreatedOf <- AllCreated
    RetryOf <- AllRetry
    Worker <- Workers
    Verdict <- Verdicts
    Event <- Pair
    Kind <- PairKinds
    Order <- PairOrders
    OrderOf <- PairOrder
    MaxRetries = 1
    BatchSize = 2
    PoolSize = 1
    MaxLog = 3
    MaxFaults = 1
    MixedFetch = FALSE
    ClockSkew = TRUE
SPECIFICATION FairSpec
CHECK_DEADLOCK FALSE
PROPERTY EventuallyHandled
