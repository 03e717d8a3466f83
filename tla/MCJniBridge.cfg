\* Four messages; a crossing has room for two small answers before it drains.
SPECIFICATION Spec
CONSTANTS
    Bridges = {"exchange_core", "coralme", "jiang"}
    STAGE_CAP <- MCStageCap
    OUT_CAP = 7
    FixedReserve = 4
    Follow <- MCFollow
    MaxMessages = 4
    MaxSweep = 3
CHECK_DEADLOCK FALSE
INVARIANT NothingLost
