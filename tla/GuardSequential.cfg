SPECIFICATION Spec
CONSTANTS
    Threads = {t1}
    Keys = {k1, k2}
    MaxRequests = 2
    Window = 2
    TokenConfigured = FALSE
    MaxTime = 4
    MaxCalls = 6
    MaxRestarts = 1
INVARIANTS BurstBound
PROPERTIES ImplementsQuota
CHECK_DEADLOCK FALSE
