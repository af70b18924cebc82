SPECIFICATION FairSpec
CONSTANTS
    Scripts <- MCScripts
    Passwords = {TRUE, FALSE}
    MaxPending = 2
    ResponseCap = 1
    NetCap = 2
    MaxPushes = 1
    PushTypes = {"push"}
    Failures = TRUE
CHECK_DEADLOCK FALSE
INVARIANTS
    AnswersInOrder
    Correlated
    NothingBeforeAuth
PROPERTIES
    AllAnswered
    SessionEnds
