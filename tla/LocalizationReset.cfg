SPECIFICATION LocSpec
CONSTANTS
    None = None
    Mount <- MCMount
    Steps <- MCSteps
    MaxTime = 1
    RejectOccupied = TRUE
    MapPoints <- MCMapPoints
    MinZ = 0
    MaxZ = 1
    Padding = 1
    MinPointsPerCell = 2
    MinZSpan = 1
    InflateCells = 0
    CheckRadius = 0
    RejectMinOccupied = 1
    RejectOutside = TRUE
    RequireInitialPose = TRUE
    InitialSearch = TRUE
    SearchFitness = 1
    MaxFitness = 2
    ConfirmFrames = 2
    ConfirmTranslation = 0
    Scores <- MCScores
    RobustScores = {1}
    Depth = 1
    Clicks <- MCClicks
    MaxClicks = 2
    StationaryTranslation = 0
    InPlaceTranslation = 0
    IncrementTranslation = 0
    MaxCorrection = 1
    HistoryLength = 1
INVARIANT OldAnchorForgotten
