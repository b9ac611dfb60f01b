CONSTANTS
    Node = {1, 2}
    Key = {k1}
    Value = {v1, v2}
    TTLKey = {}
    Call = {c1, c2}
    NoNode = 0
    NoValue = NoValue
    Expired = Expired
    rank <- Walk
    replication_factor = 3
    READ_YOUR_WRITES_PIN = 1
SPECIFICATION Spec
PROPERTY ReadYourWrites
