SPECIFICATION FairSpec
CONSTANTS
    c1 = c1
    c2 = c2
    p = p
    q = q
    Coords = {c1, c2}
    StableIDs = {p, q}
    Actors = {}
    OperationIDs = {}
    None = None
    TileStates <- States
    InitialTiles <- Tiles
    MaxEdits = 2
    MaxRemote = 1
    MaxSuspends = 1
INVARIANTS OverlayAgrees DrainShowsProjection CaptureIsCurrent
PROPERTIES EditStaysOnScreen ViewConverges
CHECK_DEADLOCK FALSE
