CONSTANTS
    Nodes = {n1, n2}
    Owners = {a1, a2, b1}
    NodeOf <- OneApart
    Ttl = 1
    Timeout = 1
    MaxSkew = 1
    MaxTime = 3
    MaxEpoch = 2
    NoLock = NoLock
SPECIFICATION Spec
INVARIANTS
    ExclusiveWithinTtl
    HolderOwnsObject
PROPERTIES
    AcquireTerminates
CHECK_DEADLOCK FALSE
