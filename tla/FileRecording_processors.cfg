CONSTANTS
    s1 = s1
    s2 = s2
    s3 = s3
    s4 = s4
    c1 = c1
    c2 = c2
    p1 = p1
    p2 = p2
    f1 = f1
    f2 = f2
    None = None
    Streams <- ThreeStreams
    Processors = {c1, c2}
    Params = {p1, p2}
    Formats = {f1, f2}
    Format <- OwnFormats
    ArchiveMayFail = TRUE
    CreationMayFail = TRUE
    MaxDisturbances = 2
SPECIFICATION Spec
INVARIANTS OnlyForsakenStarve FlagIsBacked
SYMMETRY Addresses
CHECK_DEADLOCK FALSE
