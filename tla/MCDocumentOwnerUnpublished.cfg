SPECIFICATION Spec
CONSTANTS
    p = p  q = q  o1 = o1  o2 = o2  o3 = o3
    Clients = {p, q}
    OperationIDs = {o1, o2}
    Tiles = {t}
    None = None
    QueueSize = 2
    Threshold = 2
    Ticks = FALSE
    Faults = {"append", "resolve"}
    MaxFaults = 2
    MaxLives = 1
INVARIANT PublishesEveryRevision
CHECK_DEADLOCK FALSE
