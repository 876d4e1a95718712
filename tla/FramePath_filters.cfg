CONSTANTS
    p1 = p1
    p2 = p2
    None = None
    Processors = {p1, p2}
    CameraFormats = {"yuyv422"}
    CodecIds = {"h264"}
    Sizes = {1, 2}
    Documents <- DocumentsValue
    MaxChanges = 2
    MaxCameras = 1
SYMMETRY Symmetry
SPECIFICATION Spec
INVARIANTS
    FilteredAlike
    SettingsArrive
