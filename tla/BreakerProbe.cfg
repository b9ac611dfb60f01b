CONSTANTS
    Node = {n1}
    Request = {r1, r2}
    NoNode = NoNode
    failure_threshold = 2
    timeout_s = 2
SPECIFICATION Spec
INVARIANT OneProbeAtATime
