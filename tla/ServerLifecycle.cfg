SPECIFICATION Spec
CONSTANTS
    Requests = {1, 2, 3}
    Workloads <- MCWorkloads
    PoolSize = 2
    MaxChanges = 1
    MaxStops = 1
INVARIANTS TypeOK DrainedBeforeTeardown ReadyIsLive
PROPERTIES EveryRequestReplied ShutdownCompletes
CHECK_DEADLOCK FALSE
