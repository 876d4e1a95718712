SPECIFICATION Spec
CONSTANTS
    Count = 3
    MaxStarts = 1
    MaxFaults = 0
    MaxOverlaps = 0
INVARIANT FramesAreIntact
CHECK_DEADLOCK FALSE
