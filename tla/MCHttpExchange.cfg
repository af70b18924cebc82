SPECIFICATION FairSpec
CONSTANTS
    HeaderLen = 3
    Chunks = {1, 2, 4}
    CaptureLimit = 3
    MaxSnapshots = 2
    MaxObservations = 2
    Exchanges <- MCExchanges
CHECK_DEADLOCK FALSE
INVARIANTS
    FramesExact
    RecordTruthful
PROPERTIES
    ExchangeEnds
