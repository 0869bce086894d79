SPECIFICATION Spec
CONSTANTS
    Hosts = {first, second}
    None = None
    ReadyTimeout = 1
    MaxTime = 5
    MaxFaults = 2
SYMMETRY HostSymmetry
INVARIANT TypeOK
PROPERTIES
    ReapsOwn
    SparesWorkload
    PathAgrees
    NoIdleSurgeLeft
CHECK_DEADLOCK FALSE
