\* Three clicks on two poses, relayed copies, refusals and an outage.
SPECIFICATION FairChecksSpec
CONSTANTS
    Signatures = {"pose1", "pose2"}
    BadPose = "bad"
    MaxClicks = 3
    MaxStamp = 3
    RetryLimit = 1
    MaxOutages = 1
INVARIANTS
    TypeOK
    OneGoalInFlight
    NoDoubleBooking
    RetriesBounded
PROPERTY
    ComesToRest
CHECK_DEADLOCK FALSE
