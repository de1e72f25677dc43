SPECIFICATION FairSpec
CONSTANTS
    c1 = c1
    c2 = c2
    r1 = r1
    h1 = h1
    h2 = h2
    NoHandle = NoHandle
    Clients <- TwoClients
    Resetters <- OneResetter
    Handles <- TwoHandles
INVARIANTS
    BrowserAccounted
    StoredHasHandler
PROPERTIES
    ImplementsSessionStore
    ConnectionEnds
CHECK_DEADLOCK FALSE
