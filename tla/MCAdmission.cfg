SPECIFICATION Spec
CONSTANTS
    i1 = i1
    i2 = i2
    i3 = i3
    s1 = s1
    p1 = p1
    w1 = w1
    None = None
    Ids = {i1, i2, i3}
    Sessions = {s1}
    Prompts = {p1}
    Runs = {}
    MaxConcurrent = 0
    Behavior = "Queue"
    MaxCompleted = 1
    MaxInFlight = 1
    Requests <- Nested
    Commands = {"cancel", "token", "completions"}
    MaxAge = 2
    MaxTicket = 2
CHECK_DEADLOCK FALSE
INVARIANTS
    WithinLimit
    QueuedAtCapacity
    OwnershipAgrees
PROPERTIES
    NoOvertaking
