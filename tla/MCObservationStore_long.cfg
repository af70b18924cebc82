SPECIFICATION Spec
CONSTANTS
    s1 = s1
    Max = 4
    QueueCap = 2
    Subscribers = {}
    Long = {2}
    Appends = {"ok"}
    MaxRecords = 4
    MaxFaults = 0
CHECK_DEADLOCK FALSE
INVARIANTS
    JournalReadable
