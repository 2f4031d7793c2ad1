SPECIFICATION Spec
CONSTANTS
    i1 = i1
    i2 = i2
    i3 = i3
    s1 = s1
    p1 = p1
    w1 = w1
    None = None
    Ids = {i1, i2}
    Sessions = {s1}
    Prompts = {p1}
    Runs = {w1}
    MaxConcurrent = 1
    Behavior = "Queue"
    MaxCompleted = 1
    MaxInFlight = 1
    Requests <- Mixed
    Commands = {"workflow", "drain", "teardown", "message", "publish"}
    MaxAge = 1
    MaxTicket = 1
CHECK_DEADLOCK FALSE
INVARIANTS NoIdleDrain
PROPERTIES
    DeleteResolved
    DeleteEnds
    QueueMoves
    DrainsEnd
