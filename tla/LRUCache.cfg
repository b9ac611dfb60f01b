CONSTANTS
    a = a
    b = b
    c = c
    u = u
    v = v
    Key <- MCKey
    Value <- MCValue
    Batches <- MCBatches
    Nothing = Nothing
    capacity = 2
    default_ttl_s = 0
    TTL = {0, 1}
    TicksPerSecond = 2
    MaxPuts = 3
SPECIFICATION FairSpec
INVARIANTS TypeOK MapMatchesList ListInOrderOfUse Accounting
PROPERTIES ImplementsStore ExpiredEntriesAreCollected
