SPECIFICATION ChecksSpec
CONSTANTS
    None = None
    Mount <- MCMount
    Steps <- MCSteps
    MaxTime = 3
    RejectOccupied = TRUE
    MapPoints <- MCMapPoints
    MinZ = 0
    MaxZ = 1
    Padding = 1
    MinPointsPerCell = 2
    MinZSpan = 1
    InflateCells = 0
    CheckRadius = 1
    RejectMinOccupied = 2
    RejectOutside = TRUE
    RequireInitialPose = TRUE
    InitialSearch = TRUE
    SearchFitness = 1
    MaxFitness = 2
    ConfirmFrames = 3
    ConfirmTranslation = 2
    Scores <- MCScores
    RobustScores = {1}
    Depth = 1
    Clicks <- MCClicks
INVARIANTS
    TypeOK
    
    LocalizedPoseIsFree
    GuessFollowsOdometry
PROPERTIES
    LocalizedNeedsConfirmation
