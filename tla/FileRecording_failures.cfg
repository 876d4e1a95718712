CONSTANTS
    s1 = s1
    s2 = s2
    s3 = s3
    s4 = s4
    c1 = c1
    c2 = c2
    p1 = p1
    p2 = p2
    f1 = f1
    f2 = f2
    None = None
    Streams <- ThreeStreams
    Processors = {c1}
    Params = {p1}
    Formats = {f1}
    Format <- SharedFormat
    ArchiveMayFail = TRUE
    CreationMayFail = TRUE
    MaxDisturbances = 3
SPECIFICATION FairSpec
INVARIANTS SlotDiscipline RecordingIsUnderway
PROPERTIES SlotsSpec RecordingResumes
CHECK_DEADLOCK FALSE
