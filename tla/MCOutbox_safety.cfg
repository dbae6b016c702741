\* Leases may expire at any time; both publishers may die.
CONSTANTS
    good = good
    poison = poison
    p1 = p1
    p2 = p2
    NoOwner = NoOwner
    Events <- AllEvents
    Invalid <- PoisonEvents
    CreatedAt <- GoodFirst
    Owners <- TwoOwners
    Mortal <- TwoOwners
    BatchSize = 2
    Workers = 2
    MaxLate = 2
    LeaseCovers = FALSE
SPECIFICATION Spec
SYMMETRY OwnerSymmetry
CHECK_DEADLOCK FALSE
INVARIANT TypeOK
INVARIANT PublishedIsOnTopic
INVARIANT PoisonContained
PROPERTY TerminalIsFinal
PROPERTY ForeignLeaseIntact
