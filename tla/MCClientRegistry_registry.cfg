SPECIFICATION Spec
CONSTANTS
    i1 = i1
    i2 = i2
    p1 = p1
    n1 = n1
    n2 = n2
    c1 = c1
    c2 = c2
    c3 = c3
    None = None
    Clients <- MCClients
    Platforms <- MCPlatforms
    Names <- MCNames
    Calls <- MCCalls
SYMMETRY CallSymmetry
INVARIANTS TypeOK NamesakesOverlapped StatusIsLastDecision DeletedOnce
PROPERTIES DeletedStaysDeleted
CHECK_DEADLOCK FALSE
