SPECIFICATION ChecksSpec
CONSTANTS
    None = None
    Mount <- MCMount
    Steps <- MCSteps
    MaxTime = 3
    StationaryTranslation = 0
    InPlaceTranslation = 0
    IncrementTranslation = 0
    MaxCorrection = 1
    HistoryLength = 1
    Outliers <- MCOutliers
    MaxEstimates = 3
INVARIANTS
    TypeOK
    
PROPERTIES
    
    LockHolds
