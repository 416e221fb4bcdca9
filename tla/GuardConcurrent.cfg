SPECIFICATION Spec
CONSTANTS
    Threads = {t1, t2}
    Keys = {k1, k2}
    MaxRequests = 2
    Window = 2
    TokenConfigured = TRUE
    MaxTime = 3
    MaxCalls = 3
    MaxRestarts = 1
SYMMETRY Symmetry
INVARIANTS TypeOK DenialJustified UnauthorisedNeverCharged
CHECK_DEADLOCK FALSE
