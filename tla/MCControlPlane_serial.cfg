SPECIFICATION CPSpec
CONSTANTS
    a = a
    b = b
    boot = boot
    r1 = r1
    r2 = r2
    None = None
    Boot = boot
    Ids = {a, b}
    Addrs = {1, 2}
    Protocols = {"redis"}
    Names = {"x"}
    Values = {"", "s1", "s2", "$x"}
    NoSecret = ""
    Resolvable = {"", "s1", "s2"}
    HTTPOptions = {"http", "grpc"}
    Required <- MCRequired
    Options <- MCOptions
    Factories = {"redis"}
    Calls = {boot, r1, r2}
    Requests <- MCRequestsTwo
    Files <- MCFilesTwo
    Bodies <- MCBodiesTwo
    MaxClients = 0
    Serialized = TRUE
CHECK_DEADLOCK FALSE
SYMMETRY RequestSymmetry
INVARIANTS
    RunsTheFile
    ConflictNeedsTimeout
PROPERTIES
    OnlyAffectedStops
