SPECIFICATION Spec
CONSTANTS
    Policies = {p1, p2}
    Pools = {q1}
    Keys = {k1}
    NoPolicy = NoPolicy
    MaxEvents = 2
INVARIANTS
    VerdictMatchesGeneration
PROPERTIES
    Converges
    TieIsReported
CHECK_DEADLOCK FALSE
