SPECIFICATION MCSpec
CONSTANTS
    Measured <- MCMeasured
    Thresholds <- MCThresholds
    Unknown = Unknown
    MaxPolls = 0
    MaxBeats = 3
    AliveTicks = 4
    FreshTicks = 2
    OldAge = 4
INVARIANTS
    LiveWorkerLooksAlive
PROPERTIES
    PausedReadingIsStill
    SilentWorkerIsNoticed
