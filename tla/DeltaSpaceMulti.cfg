CONSTANTS
    n1 = n1
    n2 = n2
    r1 = r1
    r2 = r2
    r3 = r3
    r4 = r4
    r5 = r5
    Nodes = {n1, n2}
    Reqs = {r1, r2, r3}
    NodeOf <- TwoNodes
    Keys = {k1}
    Contents = {v1, v2}
    Ops = {"put", "stream", "pass", "get"}
    Faults = {"error", "cancel", "crash"}
    MaxFaults = 1
    None = None
SPECIFICATION Spec

INVARIANTS
    CacheCoherent
    NoUnusedReference
    NoDeadlock
CHECK_DEADLOCK FALSE
