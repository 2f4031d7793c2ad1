SPECIFICATION FairSpec
CONSTANTS
    t1 = t1
    t2 = t2
    Threads = {t1, t2}
    OpenDuration = 1
    WindowDuration = 0
    MinSamples = 1
    RateNum = 1
    RateDen = 2
    MaxProbes = 1
    MaxWindow = 1
    UsizeMax = 2
    Stall = 1
    Horizon = 3
INVARIANTS TypeOK WindowCounts
PROPERTIES Recovers
CHECK_DEADLOCK FALSE
