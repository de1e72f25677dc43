SPECIFICATION Spec
CONSTANTS
    r1 = r1
    r2 = r2
    p1 = p1
    p2 = p2
    NoPod = NoPod
    Reqs <- TwoReqs
    Pods <- TwoPods
    Steps = 1
    MaxStream = 2
    MaxRewatch = 1
SYMMETRY Symmetry
INVARIANTS
    ChannelsSound
    OnlyReadyHandedOut
    PodsAccounted
CHECK_DEADLOCK FALSE
