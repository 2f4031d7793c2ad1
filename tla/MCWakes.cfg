SPECIFICATION Spec
CONSTANTS
    i1 = i1
    i2 = i2
    i3 = i3
    s1 = s1
    p1 = p1
    w1 = w1
    None = None
    Ids = {i1, i2}
    Sessions = {s1}
    Prompts = {p1}
    Runs = {}
    MaxConcurrent = 1
    Behavior = "Queue"
    MaxCompleted = 1
    MaxInFlight = 2
    Requests <- OneTask
    Commands = {"message", "publish", "stop", "cancel", "teardown"}
    MaxAge = 2
    MaxTicket = 2
SYMMETRY IdSymmetry
CHECK_DEADLOCK FALSE
INVARIANTS
    TypeOK
    ClosedMeansQuiet
    OneHome
    ParkedHasStart
    WithheldHasAdmission
PROPERTIES
    DisplacedIsKept
    ClosedMeansNoStart
