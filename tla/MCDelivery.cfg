SPECIFICATION FairSpec
CONSTANTS
    p = p
    Clients = {p}
    None = None
    QueueDepth = 1
    PageLimit = 1
    MaxRevision = 3
    MaxBreaks = 2
    MaxUnpublished = 1
INVARIANTS NoIntegrityFault WireInOrder SubscriptionCovers GapOnlyIfUnpublished
PROPERTIES EveryoneCatchesUp SubmissionsAnswered
CHECK_DEADLOCK FALSE
