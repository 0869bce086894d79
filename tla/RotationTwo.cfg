\* Two candidates, every interleaving, no API error or stop.
SPECIFICATION Spec
CONSTANTS
    None = None
    c1 = c1
    c2 = c2
    Claims = {c1, c2}
    MaxFaults = 0
    FallbackEnabled = FALSE
    GovernanceMayLapse = FALSE
    NodeLag = FALSE
    SlowGates = TRUE
    PauseWithinBackoff = TRUE
INVARIANTS
    NothingLeftBehind
PROPERTIES
    FailurePauseKept
    ImplementsSerial
SYMMETRY Symmetry
