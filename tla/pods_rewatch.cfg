SPECIFICATION FairSpec
CONSTANTS
    r1 = r1
    r2 = r2
    p1 = p1
    p2 = p2
    NoPod = NoPod
    Reqs <- OneReq
    Pods <- TwoPods
    Steps = 0
    MaxStream = 3
    MaxRewatch = 1
PROPERTIES
    AllocateReturns
CHECK_DEADLOCK FALSE
