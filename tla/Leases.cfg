CONSTANTS
    n1 = n1
    n2 = n2
    s1 = s1
    s2 = s2
    Nodes = {n1, n2}
    Scheds = {s1, s2}
    Clicks = {}
    NodeOf <- Placement
    Shared = TRUE
    Ttl = 1
    MaxTime = 3
    MaxPuts = 3
    MaxFaults = 1
    Deletable = FALSE
    None = None
SPECIFICATION SchedulersSpec
INVARIANTS
    LeaseSound
PROPERTIES
    LeaseFailover
CHECK_DEADLOCK FALSE
