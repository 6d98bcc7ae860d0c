SPECIFICATION FairSpec
CONSTANTS
    p = p  q = q  o1 = o1  o2 = o2  o3 = o3
    Clients = {p, q}
    OperationIDs = {o1, o2}
    Tiles = {t}
    None = None
    QueueSize = 1
    Threshold = 1
    Ticks = FALSE
    Faults = {"append"}
    MaxFaults = 1
    MaxLives = 2
INVARIANTS PublishesEveryRevision
PROPERTIES RefusedIsNotDurable EveryRequestAnswered BacklogIsCompacted
CHECK_DEADLOCK FALSE
