\* Two goals in a row, turns by /spin, the lease timer; no measured stop of a drive.
SPECIFICATION FairChecksSpec
CONSTANTS
    UseMapYawSpin = FALSE
    UseFinalApproach = TRUE
    UseHandoff = TRUE
    AutomaticReverse = TRUE
    MicroReverse = FALSE
    NdtStops = FALSE
    RetryCount = 1
    RecheckCount = 1
    Cycles = 1
    HeadingSteps = 2
    Confirmations = 1
    MaxGoals = 2
    Silent = {"status"}
INVARIANT
    ExclusiveGoal
PROPERTIES
    
    LeaseConverges
CHECK_DEADLOCK FALSE
