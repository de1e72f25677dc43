SPECIFICATION ManagerSpec
CONSTANTS
    u1 = u1
    u2 = u2
    u3 = u3
    n1 = n1
    n2 = n2
    p1 = p1
    p2 = p2
    p3 = p3
    NoPool = NoPool
    Users <- ThreeUsers
    Names <- TwoNames
    Pools <- ThreePools
SYMMETRY Symmetry
INVARIANTS
    OnePoolPerName

    
