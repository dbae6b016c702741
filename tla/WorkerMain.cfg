\* Batches of up to three records for a pool of two, two polls.
CONSTANTS
    MaxItems = 3
    Workers = 2
    MaxPolls = 2
SPECIFICATION FairSpec
CHECK_DEADLOCK FALSE
INVARIANT TypeOK
INVARIANT NilMeansHandled
INVARIANT ExitZeroMeansSignal
INVARIANT ClosedAfterUse
PROPERTY ImplementsContract
PROPERTY FailureEndsProcess
