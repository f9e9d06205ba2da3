---------------------------- MODULE TfBridgeChecks ----------------------------
(***************************************************************************)
(* What the transform bridge promises for any estimates: right or wrong    *)
(* ones, late, and with the stamp of another instant (the localizer        *)
(* publishes a pose again with a newer stamp).  The observer remembers     *)
(* whether all the bridge used since its reset was true.                   *)
(***************************************************************************)
EXTENDS TfBridge

CONSTANTS
    Outliers,       \* wrong poses of the LiDAR body the localizer may report
    MaxEstimates    \* bound on the estimates received

ASSUME OutliersAssumption == Outliers \subseteq Poses /\ MaxEstimates \in Nat

VARIABLES
    taken,          \* estimates received
    honest          \* see above

checkVars == <<track, tfVars, taken, honest>>

Estimates == [pose : {BodyAt(t) : t \in 1 .. now} \cup Outliers, stamp : 1 .. now]

ChecksInit == TrackInit /\ TfInit /\ taken = 0 /\ honest = TRUE

(* The estimate is true for the odometry sample it is paired with, and the  *)
(* chassis did not travel under the lock of its centre.                     *)
Honest ==
    /\ PoseChanged => latest_pose.pose = BodyAt(Closest(latest_pose.stamp))
    /\ in_place_anchor # None /\ RotatingNow(track[latest_odom.stamp])
         => publish_odom.p = track[latest_odom.stamp].p

Estimate(e) ==
    /\ taken < MaxEstimates /\ taken' = taken + 1
    /\ PoseCallback(e)
    /\ UNCHANGED <<track, honest>>

ChecksNext ==
    \/ PublishTransform /\ honest' = (honest /\ Honest) /\ UNCHANGED <<track, taken>>
    \/ ResetCallback /\ honest' = TRUE /\ UNCHANGED <<track, taken>>
    \/ \E e \in Estimates : Estimate(e)
    \/ \E step \in Steps : Move(step) /\ UNCHANGED <<tfVars, taken, honest>>
    \/ /\ (\E turning \in BOOLEAN : TfOdomCallback(turning)) \/ PoseExpires \/ OdomExpires
       /\ UNCHANGED <<track, taken, honest>>

ChecksSpec == ChecksInit /\ [][ChecksNext]_checkVars
-----------------------------------------------------------------------------
TypeOK == TrackType /\ TfTypeOK

(* Told the truth about where each scan was taken, the bridge publishes the *)
(* true pose of the chassis, however late the estimates come and however    *)
(* the chassis moved meanwhile.                                             *)
TrueEstimatesGiveTrueFrame == honest /\ held # None => tf.map_odom = Identity

(* "a single optimizer sample cannot teleport the navigation frame":        *)
(* measured at the odometry sample of the estimate, the chassis moves by at *)
(* most MaxCorrection in one publication, and not at all when it is at rest *)
(* or turning in place.                                                     *)
SampleCannotTeleport ==
    [][held # None /\ held' # None /\ in_place_anchor' = None =>
         LET sample == held'.odom_base
             shift  == Mul(held'.map_odom, sample).p - Mul(held.map_odom, sample).p
         IN  Magnitude(shift) <= IF held.odom_base.p = sample.p THEN 0 ELSE MaxCorrection]_checkVars

(* While the centre is locked the published chassis turns on the spot,      *)
(* whatever the estimates say.                                              *)
LockHolds ==
    [][in_place_anchor # None /\ in_place_anchor' # None => tf'.base.p = tf.base.p]_checkVars
=============================================================================
