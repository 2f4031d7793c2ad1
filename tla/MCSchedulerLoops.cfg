SPECIFICATION Spec
CONSTANTS
    l1 = l1
    o1 = o1
    c1 = c1
    c2 = c2
    c3 = c3
    p1 = p1
    p2 = p2
    None = None
    Loops = {l1}
    OneShots = {o1}
    Children = {c1, c2, c3}
    Prompts = {p1, p2}
    Events = {"nest"}
    MaxTasks = 1
    FreshEvery = 2
    MaxRevision = 2
    MaxGeneration = 1
    MaxQueue = 2
SYMMETRY Symmetry
INVARIANTS OneShotOnce OneIteration TranscriptKeepsPrompt
CHECK_DEADLOCK FALSE
