SPECIFICATION Spec
CONSTANTS
    MaxSessions = 1
    MaxSockets = 4
    MaxFaults = 2
    MaxAttempts = 2
INVARIANT LostSessionIsRetried
CHECK_DEADLOCK FALSE
