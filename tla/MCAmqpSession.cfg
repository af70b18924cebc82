SPECIFICATION FairSpec
CONSTANTS
    Scripts <- MCScripts
    Channels = {1, 2}
    ServerTunes <- MCServerTunes
    ClientTunes <- MCClientTunes
    FrameMin = 2
    HardFrameMax = 4
    MaxDeliveries = 1
    Failures = TRUE
CHECK_DEADLOCK FALSE
INVARIANTS
    Paired
    Accounted
    IdentityKept
PROPERTIES
    SessionEnds
