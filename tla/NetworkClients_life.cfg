SPECIFICATION FairSpec
CONSTANTS
    None = None
    c1 = c1
    c2 = c2
    s1 = s1
    s2 = s2
    p1 = p1
    p2 = p2
    flv = flv
    low = low
    mjpeg = mjpeg
    Clients = {c1, c2}
    Streams = {s1, s2}
    Processors = {p1, p2}
    Formats = {flv, low, mjpeg}
    MjpegFormats = {mjpeg}
    Requests = {{}, {low}, {flv, low}, {mjpeg}}
    Disturbances = {}
    MaxFaults = 2
INVARIANTS
    TypeOK
    CameraRests
PROPERTIES RemovalsAreMeant GoneClientsLeave IdleProcessorsEnd
CHECK_DEADLOCK FALSE
