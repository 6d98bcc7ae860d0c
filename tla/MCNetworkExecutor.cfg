SPECIFICATION FairSpec
CONSTANTS
    a = a
    b = b
    r = r
    q = q
    Edits = {a, b}
    Rebuilds = {}
    SyncEdits = {}
    CancelEdits = {}
    BulkEdits = {a}
    None = None
    MaxAdmission = 2
    MaxBreaks = 2
    MaxResumes = 1
INVARIANTS IntentKept SentOnItsConnection DraftsAreOpen BudgetExact CallbacksInOrder
PROPERTIES EveryEditReported
CHECK_DEADLOCK FALSE
