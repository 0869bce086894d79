SPECIFICATION Spec
CONSTANTS
    n1 = n1
    n2 = n2
    c1 = c1
    c2 = c2
    None = None
    Nodes <- MCNodes
    Claims <- MCClaims
    Home <- MCHome
    MaxEdits = 3
    MaxRotations = 2
INVARIANTS
    TypeOK
    OperatorMarksKept
    Attributable
PROPERTY
    LiveMarksStand
