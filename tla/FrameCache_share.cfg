SPECIFICATION Spec
CONSTANTS
    Processors = {p1, p2}
    Sizes = {1, 2}
    Titles = {connecting, failed}
    Wanted = {1, 2}
    Reformatting = {}
    MaxExceptions = 2
    Disturbances = {"filter error", "delay"}
    MaxTime = 2
    MaxChanges = 2
    Container = Container
    None = None
INVARIANTS CachedIsCurrent SharedBeforeTaken
PROPERTIES TimesAdvance
SYMMETRY Symmetric
CHECK_DEADLOCK FALSE
