CONSTANTS
    a = a
    b = b
    k1 = k1
    k2 = k2
    Node = {a, b}
    Key = {k1, k2}
    Caller = {c1, c2}
    NoNode = NoNode
    Local8001 = a
    Local8002 = NoNode
    Rings <- MCRings
    MaxWrites = 2
    MaxRuns = 2
SPECIFICATION FairSpec
INVARIANTS
    TypeOK
    OneAtATime
    ReportIsHonest
    UndisturbedKeysArrive
PROPERTIES
    OthersStayInPlace
    RebalanceEnds
