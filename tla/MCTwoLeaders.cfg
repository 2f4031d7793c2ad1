SPECIFICATION Spec
CONSTANTS
    c1 = c1
    c2 = c2
    current = current
    older = older
    legacy = legacy
    l1 = l1
    l2 = l2
    l3 = l3
    None = None
    Clients = {c1, c2}
    Leaders = {l1, l2, l3}
    Prior = {}
    Lockless = {}
    Older = {}
    Legacy = {}
    Inodes = {1, 2, 3}
    Guarded = TRUE
    MaxSelfSpawn = 2
    MaxEvict = 1
    MaxLeaders = 3
    MaxFaults = 1
INVARIANT SingleLeader
CHECK_DEADLOCK FALSE
