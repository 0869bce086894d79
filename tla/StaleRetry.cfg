\* The start gates may open before the pool cache has seen the release.
SPECIFICATION Spec
CONSTANTS
    None = None
    c1 = c1
    Claims = {c1}
    MaxFaults = 0
    FallbackEnabled = FALSE
    GovernanceMayLapse = FALSE
    NodeLag = FALSE
    SlowGates = FALSE
    PauseWithinBackoff = TRUE
INVARIANT
    InFlightIsAnchored
