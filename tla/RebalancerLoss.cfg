CONSTANTS
    a = a
    b = b
    k1 = k1
    k2 = k2
    Node = {a, b}
    Key = {k1}
    Caller = {c1}
    NoNode = NoNode
    Local8001 = NoNode
    Local8002 = NoNode
    Rings <- MCRingsOfOneKey
    MaxWrites = 2
    MaxRuns = 1
SPECIFICATION FairSpec
PROPERTY NoDataLost
