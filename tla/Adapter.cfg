\* All routes and corrections, one goal, without the lease timer.
SPECIFICATION ChecksSpec
CONSTANTS
    UseMapYawSpin = TRUE
    UseFinalApproach = TRUE
    UseHandoff = TRUE
    AutomaticReverse = TRUE
    MicroReverse = TRUE
    NdtStops = TRUE
    RetryCount = 1
    RecheckCount = 1
    Cycles = 1
    HeadingSteps = 2
    Confirmations = 2
    MaxGoals = 1
    Silent = {"lease"}
INVARIANTS
    TypeOK
    SuccessIsConfirmed
    CancelStartsAtMostOneMore
CHECK_DEADLOCK FALSE
