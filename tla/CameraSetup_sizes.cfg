CONSTANTS
    Devices <- SmallDevices
    Asked <- SmallAsked
    MaxEvents = 3
SPECIFICATION SetupSpec
INVARIANTS
    OfferedSizesAreExact
    SyncIsShallow
    RefusalIsForgotten
    ReadyMeansStreaming
CHECK_DEADLOCK FALSE
