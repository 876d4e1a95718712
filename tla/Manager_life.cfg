SPECIFICATION FairSpec
CONSTANTS
    Devices = {v0, v1}
    Cameras = {c1}
    UniqueIds = {i1}
    IdOf <- OneId
    RpiCamera = r1
    LocalDocs = {d1, d2, d3}
    NetworkDocs = {n1}
    PortOrder <- OnePort
    Clients = {k1}
    BufferReads = 2
    Disturbances = {"error", "accept error"}
    MaxEvents = 2
    None = None
INVARIANT OneDocumentPerCamera
PROPERTIES SettingsAreKept PluggedCameraIsStarted ShutdownEnds
CHECK_DEADLOCK FALSE
