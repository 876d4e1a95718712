SPECIFICATION FairSpec
CONSTANTS
    Count = 2
    MaxStarts = 2
    MaxFaults = 2
    MaxOverlaps = 1
INVARIANTS OnlyDisputedAreFilledTwice OnlyDisputedAreSpoiled
PROPERTIES ClientsAreServed ControlEnds
CHECK_DEADLOCK FALSE
