CONSTANTS
    Node = {n1, n2}
    Key = {k1}
    Value = {v1}
    TTLKey = {k1}
    Call = {c1, c2}
    NoNode = NoNode
    NoValue = NoValue
    Expired = Expired
    rank <- Walk
    replication_factor = 3
    READ_YOUR_WRITES_PIN = 1
SYMMETRY Symmetry
SPECIFICATION Spec
INVARIANTS TypeOK AckedWritesStay PinFollowsWrite
PROPERTY AnswersAreTrue
