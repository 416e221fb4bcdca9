SPECIFICATION Spec
CONSTANTS
    Threads = {t1, t2}
    Keys = {k1}
    MaxRequests = 2
    Window = 2
    TokenConfigured = FALSE
    MaxTime = 1
    MaxCalls = 2
    MaxRestarts = 0
INVARIANTS QuotaPerWindow
CHECK_DEADLOCK FALSE
