SPECIFICATION FairSpec
CONSTANTS
    Scripts <- MCScripts
    Listeners = {TRUE, FALSE}
    Upstreams = {TRUE, FALSE}
    MaxBatches = 2
    Failures = TRUE
CHECK_DEADLOCK FALSE
INVARIANTS
    LegsApart
    RecordedOnce
PROPERTIES
    SessionEnds
