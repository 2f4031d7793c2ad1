SPECIFICATION Spec
CONSTANTS
    t1 = t1
    t2 = t2
    Threads = {t1, t2}
    OpenDuration = 1
    WindowDuration = 1
    MinSamples = 1
    RateNum = 1
    RateDen = 2
    MaxProbes = 1
    MaxWindow = 2
    UsizeMax = 3
    Stall = 1
    Horizon = 3
SYMMETRY Symmetry
INVARIANTS ProbeBudget
CHECK_DEADLOCK FALSE
