CONSTANTS
    Nothing = Nothing
    u1 = u1
    u2 = u2
    small = small
    large = large
    Native = small
    Urls <- TwoUrls
    Sizes <- TwoSizes
    MaxEvents = 2
SPECIFICATION FairConnectionSpec
INVARIANTS
    ConnectedToCurrentUrl
    InitializationIsTransient
PROPERTY NewUrlIsTried
CHECK_DEADLOCK FALSE
