SPECIFICATION Spec
CONSTANTS
    None = None
    b1 = b1
    b2 = b2
    c1 = c1
    container = container
    service = service
    Buffers = {b1, b2}
    Clients = {c1}
    Control = {service, container}
    Finalizers = {}
    Exclusive = {container}
    DeviceMayFail = FALSE
    MaxOperations = 4
SYMMETRY Symmetry
INVARIANT LeasesAreMapped
CHECK_DEADLOCK FALSE
