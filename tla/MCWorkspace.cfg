SPECIFICATION Spec
CONSTANTS
    P = P
    Q = Q
    Paths = {P, Q}
    Home = P
    None = None
    MaxCommands = 3
    MaxDisturbances = 1
INVARIANTS HistoryMatchesDocument CleanLabelIsTrue NothingIsForgotten
PROPERTIES ClosedMeansSaved OutsideEditsSurvive
CHECK_DEADLOCK FALSE
