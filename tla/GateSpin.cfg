SPECIFICATION SpinSpec
 
PROPERTY SpinLimitHolds
CONSTANTS
    MaxLinear = 3
    StartMaxLinear = 2
    ApproachMinLinear = 1
    MinLinearForTurn = 1
    StartDistance = 1
    ApproachDistance = 2
    DegradedMaxLinear = 1
    DegradedMaxAngular = 1
    MaxAngular = 3
    MaxInPlaceAngular = 2
    MaxMotionCurvature = 1
    CurvatureSlack = 1
    StopDistance = 3
    ClearDistance = 6
    TurnAllowDistance = 4
    SelfEchoMin = 1
    SelfEchoMax = 2
    MaxReverseAngular = 1
    Confirmations = 2
    MaxFitness = 1
    FitnessClear = 1
    FitnessBlock = 2
    TerminalClear = 3
    TerminalBlock = 4
    TerminalDistance = 1
    OdomJump = 1
    FitnessSamples = 1
    DegradedSamples = 1
    DegradedMaxTravel = 1
    DegradedMaxRotation = 1
    MaxInPlaceRotation = 3
    SpinResetDistance = 2
    FiniteSamples = 1
    NoEchoSamples = 1
    Peers = {"chassis"}
    Sides = {1}
    FitnessInputs = {1}
    RangeInputs = {6}
    CommandInputs <- RotateOnly
    OdomInputs <- Moves
    PlanLengths = {}
    HealthInputs = {TRUE, FALSE}
    StraightInputs = {FALSE}
    CollisionInputs = {TRUE, FALSE}
    Silent = {"command", "odom", "sonar_health", "plan"}
    LargestTurn = 2
