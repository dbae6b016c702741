\* Leases cover the work of their holders; one publisher may die.
CONSTANTS
    good = good
    poison = poison
    p1 = p1
    p2 = p2
    NoOwner = NoOwner
    Events <- AllEvents
    Invalid <- PoisonEvents
    CreatedAt <- GoodFirst
    Owners <- TwoOwners
    Mortal <- OneMortal
    BatchSize = 2
    Workers = 2
    MaxLate = 1
    LeaseCovers = TRUE
SPECIFICATION FairSpec
CHECK_DEADLOCK FALSE
INVARIANT SingleHandler
PROPERTY EventuallySettled
