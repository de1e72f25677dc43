SPECIFICATION Spec
CONSTANTS
    c1 = c1
    c2 = c2
    r1 = r1
    h1 = h1
    h2 = h2
    NoHandle = NoHandle
    Clients <- OneClient
    Resetters <- OneResetter
    Handles <- TwoHandles
INVARIANTS
    GracefulExit
CHECK_DEADLOCK FALSE
