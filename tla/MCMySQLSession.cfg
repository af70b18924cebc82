SPECIFICATION FairSpec
CONSTANTS
    Scripts <- MCScripts
    Ids = {1, 2}
    Modes = {TRUE, FALSE}
    Listeners = {TRUE, FALSE}
    Upstreams = {"plain", "skip", "verify"}
    Plugins = {"native", "caching", "sha256", "other"}
    MaxAuth = 7
    LongOK = FALSE
    Dumps = FALSE
    SequenceMod = 4
    Failures = TRUE
CHECK_DEADLOCK FALSE
INVARIANTS
    InStep
    Truthful
    CredentialsSafe
PROPERTIES
    SessionEnds
