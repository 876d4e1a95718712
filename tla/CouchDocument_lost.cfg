CONSTANTS
    d1 = d1
    d2 = d2
    p1 = p1
    p2 = p2
    v1 = v1
    v2 = v2
    Nothing = Nothing
    Objects = {d1}
    Properties = {p1, p2}
    Values = {v1, v2}
    OthersWrite = FALSE
    MaxWrites = 4
SPECIFICATION DocumentSpec
PROPERTY LocalChangeIsSaved
CHECK_DEADLOCK FALSE
