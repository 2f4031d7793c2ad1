SPECIFICATION FairSpec
CONSTANTS
    c1 = c1
    c2 = c2
    current = current
    older = older
    legacy = legacy
    l1 = l1
    l2 = l2
    l3 = l3
    None = None
    Clients = {c1, c2}
    Leaders = {current, older, legacy, l1, l2}
    Prior = {current, older, legacy}
    Lockless = {current, legacy}
    Older = {older, legacy}
    Legacy = {legacy}
    Inodes = {1, 2, 3}
    Guarded = TRUE
    MaxSelfSpawn = 1
    MaxEvict = 1
    MaxLeaders = 2
    MaxFaults = 1
INVARIANTS TypeOK OneLeader
PROPERTIES ClientsReturn
CHECK_DEADLOCK FALSE
