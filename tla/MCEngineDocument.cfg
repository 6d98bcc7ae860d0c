SPECIFICATION Spec
CONSTANTS
    c1 = c1  c2 = c2  cOut = cOut  s1 = s1  s2 = s2
    a1 = a1  a2 = a2  o1 = o1  o2 = o2  o3 = o3
    Coords = {c1, c2}
    StableIDs = {s1, s2}
    Actors = {a1, a2}
    OperationIDs = {o1, o2, o3}
    None = None
    Shapes <- McShapes
    FirstTiles <- McFirstTiles
    MaxRevision = 3
    MaxLag = 1
SYMMETRY McSymmetry
INVARIANTS IdentityIndexExact HistoryReplays InverseRestores RestoreAgrees
PROPERTIES BuiltInverseLands
CHECK_DEADLOCK FALSE
