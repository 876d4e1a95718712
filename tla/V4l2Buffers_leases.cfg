SPECIFICATION FairSpec
CONSTANTS
    None = None
    b1 = b1
    b2 = b2
    b3 = b3
    c1 = c1
    c2 = c2
    service = service
    container = container
    Buffers = {b1, b2, b3}
    Clients = {c1, c2}
    Control = {service, container}
    Finalizers = {service}
    Exclusive = {container}
    DeviceMayFail = TRUE
    MaxOperations = 5
INVARIANT GetterFindsBuffer
PROPERTIES LeasesSpec SetupEnds
CHECK_DEADLOCK FALSE
