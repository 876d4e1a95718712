CONSTANTS
    Timeout = 1
    MaxDuration = 1
    MaxFileSize = 4
    MaxTime = 2
    MaxFrames = 5
    MaxStreams = 2
    MaxRaces = 1
SPECIFICATION Spec
INVARIANTS
    PacketsAreWhole
    StreamsBeginRight
PROPERTY AutostopIsDeserved
CHECK_DEADLOCK FALSE
