SPECIFICATION FairSpec
CONSTANTS
    MaxSessions = 2
    MaxSockets = 4
    MaxFaults = 2
    MaxAttempts = 2
INVARIANTS SessionsNeverMix
PROPERTIES RateLimitStaysVisible SessionSettles
CHECK_DEADLOCK FALSE
