SPECIFICATION RecoverySpec
INVARIANTS TypeOK 
PROPERTIES UnblockNeedsRun DegradedSpeedKept
CONSTANTS
    MaxLinear = 3
    StartMaxLinear = 2
    ApproachMinLinear = 1
    MinLinearForTurn = 1
    StartDistance = 1
    ApproachDistance = 2
    DegradedMaxLinear = 1
    DegradedMaxAngular = 1
    MaxAngular = 3
    MaxInPlaceAngular = 2
    MaxMotionCurvature = 1
    CurvatureSlack = 1
    StopDistance = 3
    ClearDistance = 6
    TurnAllowDistance = 4
    SelfEchoMin = 1
    SelfEchoMax = 2
    MaxReverseAngular = 1
    Confirmations = 2
    MaxFitness = 1
    FitnessClear = 1
    FitnessBlock = 2
    TerminalClear = 3
    TerminalBlock = 4
    TerminalDistance = 1
    OdomJump = 1
    FitnessSamples = 2
    DegradedSamples = 2
    DegradedMaxTravel = 1
    DegradedMaxRotation = 1
    MaxInPlaceRotation = 1
    SpinResetDistance = 1
    FiniteSamples = 1
    NoEchoSamples = 1
    Peers = {}
    Sides = {}
    FitnessInputs <- Scores
    RangeInputs = {}
    CommandInputs <- Drive
    OdomInputs <- Moves
    PlanLengths = {1}
    HealthInputs = {TRUE}
    StraightInputs = {}
    CollisionInputs = {}
    Silent = {}
    ArmBound = 1
