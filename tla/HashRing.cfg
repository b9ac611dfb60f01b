CONSTANTS
    Node = {n1, n2, n3}
    RingSize = 7
    virtual_nodes = 2
SPECIFICATION Spec
INVARIANTS TypeOK RingIsItsNodes OwnerIsClosest ReplicasAreClosest
PROPERTY OnlyAffectedKeysMove
