CONSTANTS
    d1 = d1
    d2 = d2
    p1 = p1
    p2 = p2
    v1 = v1
    v2 = v2
    Nothing = Nothing
    Objects = {d1, d2}
    Properties = {p1, p2}
    Values = {v1}
    OthersWrite = TRUE
    MaxWrites = 6
SPECIFICATION FairDocumentSpec
INVARIANT ChangesArePending
PROPERTIES SavesKeepOthersChanges CopyConverges
CHECK_DEADLOCK FALSE
