SPECIFICATION FairSpec
CONSTANTS
    a = a
    k1 = k1
    k2 = k2
    None = None
    Ids = {a}
    Addrs = {1}
    Protocols = {"redis", "gopher"}
    Options = {"o1", "o2"}
    Factories = {"redis"}
    Calls = {k1, k2}
    Requests <- MCRequests
    MaxClients = 1
    Serialized = FALSE
CHECK_DEADLOCK FALSE
INVARIANTS
    NoOrphan
    StatusOfCurrent
    LiveStatusHasProcess
    NoPortLeak
PROPERTIES
    ApplySettles
    CancelledFreesPort
