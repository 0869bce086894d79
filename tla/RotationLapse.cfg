\* Policies come and go under a rotation; one stop, so the sweep meets what the reap left.
SPECIFICATION Spec
CONSTANTS
    None = None
    c1 = c1
    Claims = {c1}
    MaxFaults = 1
    FallbackEnabled = FALSE
    GovernanceMayLapse = TRUE
    NodeLag = TRUE
    SlowGates = TRUE
    PauseWithinBackoff = TRUE
INVARIANTS
    TypeOK
    NothingLeftBehind
