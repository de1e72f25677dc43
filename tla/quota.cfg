SPECIFICATION FairSpec
CONSTANTS
    r1 = r1
    r2 = r2
    r3 = r3
    r4 = r4
    Reqs <- FourReqs
    Limit = 2
    QLimit = 2
    MaxExternal = 1
INVARIANTS
    QuotaConserved
    QueueExact
PROPERTIES
    ImplementsFifoSemaphore
    NotStarved
    WaitBounded
