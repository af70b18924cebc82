SPECIFICATION SessionFairSpec
CONSTANTS
    Sessions = {}
    NetCap = 3
    Conns = {1, 2, 3, 4}
    Main = 1
    Pids = {1, 2}
    MaxAttempts = 3
    Workloads <- MCWorkloads
CHECK_DEADLOCK FALSE
INVARIANTS
    Truthful
    Settled
    CancelsOwn
    Admission
PROPERTIES
    SessionsEnd
