CONSTANTS
    Nothing = Nothing
    u1 = u1
    u2 = u2
    small = small
    large = large
    Native = small
    Urls <- OneUrl
    Sizes <- TwoSizes
    MaxEvents = 1
SPECIFICATION FairConnectionSpec
PROPERTY ConnectionIsRetried
CHECK_DEADLOCK FALSE
