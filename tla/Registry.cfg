SPECIFICATION Spec
CHECK_DEADLOCK FALSE
CONSTANTS
    c1 = c1
    c2 = c2
    x = x
    y = y
    a1 = a1
    a2 = a2
    Ids = {c1, c2}
    Names = {x, y}
    Actors = {a1, a2}
    AutoRemoved = {c1}
    RestartPolicy = {c2}
    MaxCrashes = 1
    MaxFaults = 1
    None = None
    NoDir = NoDir
    EmptyDir = EmptyDir
SYMMETRY Symmetry
INVARIANT RegistryInv
INVARIANT OwnsItsName
INVARIANT NobodyLeftOut
INVARIANT DeadOnDisk
INVARIANT RunningHasProcess
INVARIANT NothingLeftBehind
