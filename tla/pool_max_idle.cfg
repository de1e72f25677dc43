SPECIFICATION Spec
CONSTANTS
    u1 = u1
    u2 = u2
    b1 = b1
    b2 = b2
    NoBrowser = NoBrowser
    Users <- TwoUsers
    Browsers <- TwoBrowsers
    MaxIdle = 1
    MaxFired = 1
INVARIANTS
    MaxIdleRespected
