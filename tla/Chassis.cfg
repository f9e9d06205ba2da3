SPECIFICATION ChecksSpec
CONSTANTS
    RobotType = "ranger_mini_v2"
    Rate = 2
    CounterSize = 5
    MinTurnRadius = 1
    Twists <- MCTwists
    MaxTakeovers = 2
INVARIANTS
    TypeOK
    
PROPERTIES
    OdometryErrsOnlyInTransitions
    CommandModeRegained
