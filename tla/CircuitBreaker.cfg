CONSTANTS
    Node = {n1, n2}
    Request = {r1, r2}
    NoNode = NoNode
    failure_threshold = 2
    timeout_s = 2
SPECIFICATION FairSpec
INVARIANTS TypeOK OpenIffThreshold
PROPERTY OpenCircuitIsProbed
CHECK_DEADLOCK TRUE
