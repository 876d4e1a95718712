SPECIFICATION FairSpec
CONSTANTS
    PortOrder <- OnePort
    Devices = {v0}
    Cameras = {c1}
    UniqueIds = {i1}
    IdOf <- OneId
    RpiCamera = None
    LocalDocs = {d1}
    NetworkDocs = {n1}
    Clients = {k1}
    BufferReads = 1
    Disturbances = {}
    MaxEvents = 1
    None = None
PROPERTY NetworkCameraIsStarted
CHECK_DEADLOCK FALSE
