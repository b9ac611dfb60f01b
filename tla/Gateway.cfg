CONSTANTS
    Node = {n1, n2}
    Request = {r1}
    NoNode = NoNode
    heartbeat_timeout_s = 2
    DEAD_THRESHOLD = 2
    SilenceCap = 5
    failure_threshold = 2
    timeout_s = 1
    replication_factor = 2
    STARTUP_DELAY_S = 1
    SCAN_INTERVAL_S = 1
    HEARTBEAT_INTERVAL_S = 2
SPECIFICATION FairSpec
INVARIANTS
    TypeOK RoutesOnlyToLiveNodes AliveNodesAreRouted MissesMatchStatus
    HealthIsHonest MissesTakeTime
PROPERTIES
    DeadOnlyAfterMisses DeathCutsOff CallsOnlyServingNodes SilentNodeIsDrained
