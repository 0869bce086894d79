SPECIFICATION Spec
CONSTANTS
    Step = 2
    DayMinutes = 2
    Days = 2
    Buffer = 1
    HardCap = 22
    DrainFallback = 2
    DrainEstimateDefault = 1
    ProvisioningEstimateDefault = 1
    Scenarios <- MCScenarios
INVARIANTS
    WeekFigures
    BoundsExact
    ChancesKept
    ThroughputExact
    AnnouncedRetryHolds
    BackoffServed
    PickIsEarliest
CHECK_DEADLOCK FALSE
