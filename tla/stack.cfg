SPECIFICATION FairStackSpec
CONSTANTS
    u1 = u1
    u2 = u2
    b1 = b1
    b2 = b2
    NoBrowser = NoBrowser
    Users <- TwoUsers
    Browsers <- TwoBrowsers
    MaxIdle = 1
    MaxFired = 2
    Limit = 1
    QueueSize = 1
INVARIANTS
    Custody
    PaidWithinLimit
PROPERTIES
    EveryBrowserCloses
    LineMoves
