\* Two events of one order, three faults, clocks within tolerance.
CONSTANTS
    e1 = e1
    e2 = e2
    e3 = e3
    o1 = o1
    o2 = o2
    o3 = o3
    created = created
    retry = retry
    w1 = w1
    w2 = w2
    Nobody = Nobody
    Partition <- Partitions
    CreatedOf <- AllCreated
    RetryOf <- AllRetry
    Worker <- Workers
    Verdict <- Verdicts
    Event <- Twins
    Kind <- AllValid
    Order <- TwinOrder
    OrderOf <- SameOrder
    MaxRetries = 1
    BatchSize = 2
    PoolSize = 2
    MaxLog = 3
    MaxFaults = 3
    MixedFetch = FALSE
    ClockSkew = FALSE
SPECIFICATION Spec
SYMMETRY WorkerSymmetry
CHECK_DEADLOCK FALSE
INVARIANT TypeOK
INVARIANT NoEventLost
INVARIANT InFlightUncommitted
INVARIANT OneStatusEvent
INVARIANT DeadLetterEarned
PROPERTY SettledOnce
PROPERTY CommitPassesDone
