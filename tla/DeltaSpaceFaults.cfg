CONSTANTS
    n1 = n1
    n2 = n2
    r1 = r1
    r2 = r2
    r3 = r3
    r4 = r4
    r5 = r5
    Nodes = {n1}
    Reqs = {r1, r2, r3}
    NodeOf <- OneNode
    Keys = {k1, k2}
    Contents = {v1, v2}
    Ops = {"put", "stream", "pass", "delete", "sweep"}
    Faults = {"cleanup", "error", "crash"}
    MaxFaults = 1
    None = None
SPECIFICATION Spec
SYMMETRY Symmetric
INVARIANTS
    DeltaDecodable
    ReadsLastWrite
CHECK_DEADLOCK FALSE
