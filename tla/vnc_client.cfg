SPECIFICATION Spec
CONSTANTS
    Cells = {1, 2}
    Versions = {0, 99, 33, 37, 38}
    TypeLists <- MCTypeLists
    SubAuths <- MCSubAuths
    Repertoires <- MCRepertoires
    MaxRects = 2
    Credentials <- MCCredentials
    MaxParts = 2
    MaxTurns = 20
    Cuts = {1, 8, 12, 13, 16, 17, 19, 24}
INVARIANTS
    
    
    NeverStalled
    NobodyWaitsInVain
    HandshakeMoves
PROPERTIES
    ConnectionKept
