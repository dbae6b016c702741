\* Every operation may fail or refuse; time-out and shutdown at any time.
CONSTANTS
    Operation <- AllOperations
    Required <- RequiredOperations
    Flaky <- AllOperations
    Refusing <- AllOperations
SPECIFICATION FairSpec
CHECK_DEADLOCK FALSE
INVARIANT TypeOK
INVARIANT VerdictFromPayload
INVARIANT ErrorHasCause
INVARIANT RetryOrStop
PROPERTY AlwaysDecides
