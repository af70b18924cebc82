SPECIFICATION CPSpec
CONSTANTS
    a = a
    b = b
    boot = boot
    r1 = r1
    r2 = r2
    None = None
    Boot = boot
    Ids = {a, b}
    Addrs = {1, 2}
    Protocols = {"http", "grpc", "mysql", "redis"}
    Names = {"x", "y"}
    Values = {"", "s1", "s2", "$x"}
    NoSecret = ""
    Resolvable = {"", "s1", "s2"}
    HTTPOptions = {"http", "grpc"}
    Required <- MCRequired
    Options <- MCOptions
    Factories = {"http", "grpc", "mysql", "redis"}
    Calls = {boot, r1, r2}
    Requests <- MCRequestsRules
    Files <- MCFilesRules
    Bodies <- MCBodiesRules
    MaxClients = 0
    Serialized = FALSE
CHECK_DEADLOCK FALSE
SYMMETRY RequestSymmetry
INVARIANTS
    NothingSurvivesClose
PROPERTIES
    ImplementsManager
    SecretsKept
