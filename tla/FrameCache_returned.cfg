SPECIFICATION Spec
CONSTANTS
    Processors = {p1, p2}
    Sizes = {1, 2}
    Titles = {failed}
    Wanted = {2}
    Reformatting = {p2}
    MaxExceptions = 2
    Disturbances = {"filter error"}
    MaxTime = 3
    MaxChanges = 0
    Container = Container
    None = None
INVARIANT ReturnedWhenUnused
CHECK_DEADLOCK FALSE
