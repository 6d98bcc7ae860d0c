SPECIFICATION Spec
CONSTANTS
    p = p  q = q  o1 = o1  o2 = o2  o3 = o3
    Clients = {p, q}
    OperationIDs = {o1, o2, o3}
    Tiles = {t}
    None = None
    QueueSize = 2
    Threshold = 2
    Ticks = TRUE
    Faults = {"lookup", "append", "resolve", "reconcile", "save"}
    MaxFaults = 1
    MaxLives = 2
SYMMETRY McSymmetry
INVARIANTS MemoryIsDurable AnswersAreDurable PublishedInOrder SnapshotsBehind
PROPERTIES ImplementsAcceptedLog
CHECK_DEADLOCK FALSE
