SPECIFICATION Spec
CHECK_DEADLOCK FALSE
CONSTANTS
    c1 = c1
    x = x
    y = y
    a1 = a1
    a2 = a2
    Ids = {c1}
    Names = {x, y}
    Actors = {a1, a2}
    AutoRemoved = {}
    RestartPolicy = {}
    MaxCrashes = 0
    MaxFaults = 0
    None = None
    NoDir = NoDir
    EmptyDir = EmptyDir
INVARIANT NameReleased
