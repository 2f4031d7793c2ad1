SPECIFICATION FairSpec
CONSTANTS
    m1 = m1
    m2 = m2
    m3 = m3
    m4 = m4
    f1 = f1
    f2 = f2
    Msgs = {m1, m2, m3, m4}
    Foreign = {m4}
    Finalizers = {f1}
    MaxInFlight = 2
INVARIANTS TypeOK AnswersAreTrue InFlightMatches CleanMeansAccounted
PROPERTIES DeliveryPromise NothingWaitsForever
CHECK_DEADLOCK FALSE
