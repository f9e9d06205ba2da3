---------------------------- MODULE LocalizerChecks ----------------------------
(***************************************************************************)
(* What the localizer promises, whatever the registrations find, the       *)
(* operator clicks and the odometry skips.  The observer remembers what    *)
(* the node does not: the poses of the last scans, and whether the pose of *)
(* the node was right and in step with its odometry when it was set.       *)
(***************************************************************************)
EXTENDS NdtLocalizer

CONSTANT Clicks     \* initial poses the operator gives

ASSUME ClicksAssumption == Clicks \subseteq Poses

VARIABLES
    outcomes,   \* poses of the last ConfirmFrames scans since the initial
                \* pose, None for a rejected one
    in_step     \* map_t_body was true at the instant of last_odom when set

checkVars == <<track, ndtVars, outcomes, in_step>>

ChecksInit == TrackInit /\ NdtInit /\ outcomes = <<>> /\ in_step = FALSE

Rejected(best, r) == ~Matched(best, r) \/ InRejectedCell(r.pose)

Recent(seq) == IF Len(seq) > ConfirmFrames THEN Tail(seq) ELSE seq

ClickSeen(click) ==
    /\ InitialPoseCallback(click)
    /\ outcomes' = <<>>
    /\ in_step' = (click = track[now] /\ current_odom = BodyAt(now))
    /\ UNCHANGED track

ScanSeen(t, best, r) ==
    /\ CloudCallback(t, best, r)
    /\ outcomes' = Recent(Append(outcomes, IF Rejected(best, r) THEN None ELSE r.pose))
    /\ in_step' = IF Rejected(best, r) THEN initialized /\ in_step
                  ELSE r.pose = BodyAt(t) /\ current_odom = BodyAt(t)
    /\ UNCHANGED track

ChecksNext ==
    \/ \E click \in Clicks : ClickSeen(click)
    \/ \E t \in ScanStamps, best \in SearchScores :
         \E r \in Registrations(t, Guess) : ScanSeen(t, best, r)
    \/ (OdomCallback \/ PublishMap) /\ UNCHANGED <<track, outcomes, in_step>>
    \/ \E step \in Steps : Move(step) /\ UNCHANGED <<ndtVars, outcomes, in_step>>

ChecksSpec == ChecksInit /\ [][ChecksNext]_checkVars
-----------------------------------------------------------------------------
TypeOK == TrackType /\ NdtTypeOK

Near(a, b) == Translation(Motion(a, b)) <= ConfirmTranslation /\ ~Turned(Motion(a, b))

(* A scan makes the localizer LOCALIZED only as the last of ConfirmFrames   *)
(* scans in a row that matched, each close to the one before; a rejected    *)
(* scan or a new initial pose starts the count again.                       *)
LocalizedNeedsConfirmation ==
    [][~have_ndt_pose /\ have_ndt_pose' =>
         /\ Len(outcomes') = ConfirmFrames
         /\ \A i \in 1 .. ConfirmFrames : outcomes'[i] # None
         /\ \A i \in 2 .. ConfirmFrames : Near(outcomes'[i - 1], outcomes'[i])]_checkVars

(* No estimate carries an acceptable score unless a scan earned it since    *)
(* the last initial pose: neither a clicked pose nor a candidate that is    *)
(* still being verified or lies in a wall, whether its own callback         *)
(* publishes it or, later, the map timer.                                   *)
GoodScoreIsEarned ==
    AtMost(report.fitness, MaxFitness) => report.status \in {"LOCALIZED", "NDT_REJECTED"}

(* A column with enough map points in the obstacle band, two of them far     *)
(* enough apart in height: what the grid marks as occupied.                 *)
Wall(c) ==
    LET points == {pt \in MapPoints : pt.x = c /\ pt.z \in MinZ .. MaxZ}
    IN  /\ Cardinality(points) >= MinPointsPerCell
        /\ \E a, b \in points : b.z - a.z >= MinZSpan

WallsAround(c) == {d \in c - CheckRadius .. c + CheckRadius : Wall(d)}

OnMap(c) == \E a, b \in MapPoints : a.x - Padding <= c /\ c < b.x + Padding

(* A localized chassis (its centre, not the LiDAR) stands on the map, with  *)
(* fewer cells around it that the map points make a wall than the limit.    *)
LocalizedPoseIsFree ==
    have_ndt_pose => LET c == Mul(map_t_body, Mount).p
                     IN  OnMap(c) /\ Cardinality(WallsAround(c)) < RejectMinOccupied

(* Dead reckoning loses no motion and counts none twice: a pose that was    *)
(* right when it was set gives the right guess for the newest odometry,     *)
(* through any number of rejected scans in between.                         *)
GuessFollowsOdometry == in_step => Guess = current_odom
=============================================================================
