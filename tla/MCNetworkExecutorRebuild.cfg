SPECIFICATION Spec
CONSTANTS
    a = a
    b = b
    r = r
    q = q
    Edits = {a}
    Rebuilds = {r, q}
    SyncEdits = {a}
    CancelEdits = {r}
    BulkEdits = {}
    None = None
    MaxAdmission = 1
    MaxBreaks = 1
    MaxResumes = 1
INVARIANTS OneRebuildPerDraft

CHECK_DEADLOCK FALSE
