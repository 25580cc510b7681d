SPECIFICATION Spec
CHECK_DEADLOCK FALSE
CONSTANTS
    c1 = c1
    c2 = c2
    u = u
    anon = anon
    p1 = p1
    Volumes = {u, anon}
    Containers = {c1, c2}
    Clients = {p1}
    Mounts <- MCMounts
    From <- MCFrom
    Anonymous = {anon}
    MaxFaults = 2
    MaxCrashes = 1
    None = None
INVARIANT VolumesInv
INVARIANT VolumeInUse
INVARIANT RefsHaveOwner
