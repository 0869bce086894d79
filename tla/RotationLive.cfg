\* No quiet gates: the anchor is released under fairness.
SPECIFICATION FairSpec
CONSTANTS
    None = None
    c1 = c1
    Claims = {c1}
    MaxFaults = 0
    FallbackEnabled = FALSE
    GovernanceMayLapse = FALSE
    NodeLag = TRUE
    SlowGates = FALSE
    PauseWithinBackoff = TRUE
PROPERTY
    AnchorReleased
