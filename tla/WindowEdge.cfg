SPECIFICATION Spec
CONSTANTS
    MaxTime = 6
    OpenTimes = {2, 3, 5}
    FreezeUntil = {4}
    MaxFreezes = 1
    MayCorrupt = TRUE
INVARIANTS
    ReportedOnce
    NoSilentLoss
PROPERTIES
    MissIsReal
    SuccessSettlesWindow
    EveryStampJudged
CHECK_DEADLOCK FALSE
