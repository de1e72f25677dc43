SPECIFICATION FairBackendSpec
CONSTANTS
    r1 = r1
    r2 = r2
    i1 = i1
    i2 = i2
    p1 = p1
    p2 = p2
    NoPod = NoPod
    Reqs <- TwoReqs
    Images <- TwoImages
    ImageOf <- OneImage
    Pods <- TwoPods
    Steps = 0
    MaxStream = 1
    MaxRewatch = 0
INVARIANTS
    ContainersAccounted
PROPERTIES
    EveryAllocateReturns
    PullerEnds
CHECK_DEADLOCK FALSE
