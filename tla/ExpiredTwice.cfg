\* A force-expiry announced from pending, its anchor clear lost.
SPECIFICATION Spec
CONSTANTS
    None = None
    c1 = c1
    Claims = {c1}
    MaxFaults = 0
    FallbackEnabled = FALSE
    GovernanceMayLapse = FALSE
    NodeLag = FALSE
    SlowGates = TRUE
    PauseWithinBackoff = TRUE
INVARIANT
    OneOutcome
