\* A motion block that persists while the robot drives.
SPECIFICATION ChecksSpec
CONSTANTS
    UseMapYawSpin = TRUE
    UseFinalApproach = FALSE
    UseHandoff = FALSE
    AutomaticReverse = FALSE
    MicroReverse = FALSE
    NdtStops = FALSE
    RetryCount = 1
    RecheckCount = 1
    Cycles = 1
    HeadingSteps = 1
    Confirmations = 1
    MaxGoals = 1
    Silent = {"lease", "armed", "cancel"}
PROPERTY
    WatchdogCancelsChild
CHECK_DEADLOCK FALSE
