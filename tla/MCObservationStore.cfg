SPECIFICATION Spec
CONSTANTS
    s1 = s1
    Max = 8
    QueueCap = 2
    Subscribers = {s1}
    Long = {}
    Appends = {"ok", "failed", "torn", "unended", "close"}
    MaxRecords = 12
    MaxFaults = 2
CHECK_DEADLOCK FALSE
INVARIANTS
    ReplayShowsItems
    JournalBounded
    HealthyIsDurable
PROPERTIES
    ImplementsLog
