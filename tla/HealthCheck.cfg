CONSTANTS
    Node = {n1, n2}
    EventLoop = loop
    Worker = {w1}
    Founder = n1
    heartbeat_timeout_s = 0
    DEAD_THRESHOLD = 2
    SilenceCap = 1
SPECIFICATION ThreadsSpec
INVARIANTS ThreadsTypeOK OnlyCrossingVisitsMiscount OnlyOverlapMisroutes
PROPERTY SilentNodeDies
