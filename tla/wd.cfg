SPECIFICATION FairSpec
CONSTANTS
    c1 = c1
    d1 = d1
    h1 = h1
    h2 = h2
    Cleaner = Cleaner
    NoHandle = NoHandle
    Creators <- OneCreator
    Handlers <- OneHandler
    Handles <- TwoHandles
    ProxyDelete = TRUE
INVARIANTS
    Custody
    NoneLost
    GracefulExit
PROPERTIES
    ImplementsSessionStore
    IdleReaped
CHECK_DEADLOCK FALSE
