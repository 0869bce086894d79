\* One candidate, two API errors or stops anywhere, surge-less starts.
SPECIFICATION Spec
CONSTANTS
    None = None
    c1 = c1
    Claims = {c1}
    MaxFaults = 2
    FallbackEnabled = TRUE
    GovernanceMayLapse = FALSE
    NodeLag = FALSE
    SlowGates = TRUE
    PauseWithinBackoff = TRUE
INVARIANTS
    InFlightIsAnchored
    LiveDrainProtected
    RotationInv
PROPERTIES
    DeleteIsRecorded
    Forward
