SPECIFICATION Spec
CONSTANTS
    a = a
    b = b
    r = r
    q = q
    Edits = {a, b}
    Rebuilds = {}
    SyncEdits = {}
    CancelEdits = {}
    BulkEdits = {a}
    None = None
    MaxAdmission = 2
    MaxBreaks = 1
    MaxResumes = 1
INVARIANT DiscardedStaysDiscarded

CHECK_DEADLOCK FALSE
