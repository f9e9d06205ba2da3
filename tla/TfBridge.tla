------------------------------- MODULE TfBridge -------------------------------
(***************************************************************************)
(* The node map_odom_tf_bridge_cpp (map_odom_tf_bridge.cpp): it turns the  *)
(* localizer's poses and the wheel odometry into the transforms map->odom  *)
(* and map->base_link that Nav2 drives by.  One executor thread, so every  *)
(* callback is one action.  Thresholds of rotation ask whether the heading *)
(* changed; receive times matter only through the two timeouts.            *)
(***************************************************************************)
EXTENDS RobotTrack

CONSTANTS
    StationaryTranslation,  \* stationary_max_translation
    InPlaceTranslation,     \* in_place_max_translation
    IncrementTranslation,   \* 0.005 m between two publications
    MaxCorrection,          \* moving_max_translation_correction
    HistoryLength           \* odom_history_sec

Corrections == [map_odom : Poses, odom_base : Poses, localization : Poses]
OdomSamples == [stamp : Nat \ {0}, turning : BOOLEAN]
Transforms == [map_odom : Poses, base : Poses]

ASSUME BridgeAssumption ==
    /\ StationaryTranslation \in Nat /\ InPlaceTranslation \in Nat
    /\ IncrementTranslation \in Nat /\ MaxCorrection \in Nat
    /\ HistoryLength \in Nat
    /\ None \notin Corrections \cup OdomSamples \cup Transforms

VARIABLES
    latest_pose,        \* last estimate received, or None
    pose_fresh,         \* it is no older than input_timeout
    latest_odom,        \* last /odom received, or None
    odom_fresh,         \* it is no older than odom_timeout
    odom_history,       \* instants of the odometry samples kept
    held,               \* cached_map_odom_ with the odometry and localization
                        \* pose it was computed from, or None
    publish_odom,       \* odometry of the last publication, or None
    in_place_anchor,    \* locked chassis centre, or None
    tf                  \* transforms published last, or None

tfVars == <<latest_pose, pose_fresh, latest_odom, odom_fresh, odom_history,
            held, publish_odom, in_place_anchor, tf>>

TfTypeOK ==
    /\ latest_pose # None => latest_pose.pose \in Poses /\ latest_pose.stamp \in Nat
    /\ pose_fresh \in BOOLEAN /\ odom_fresh \in BOOLEAN
    /\ latest_odom \in OdomSamples \cup {None}
    /\ odom_history \in SUBSET (1 .. now)
    /\ \A t \in odom_history : latest_odom.stamp - t <= HistoryLength
    /\ held \in Corrections \cup {None}
    /\ publish_odom \in Poses \cup {None} /\ in_place_anchor \in Poses \cup {None}
    /\ tf \in Transforms \cup {None}

TfInit ==
    /\ latest_pose = None /\ pose_fresh = FALSE
    /\ latest_odom = None /\ odom_fresh = FALSE /\ odom_history = {}
    /\ held = None /\ publish_odom = None /\ in_place_anchor = None /\ tf = None

-----------------------------------------------------------------------------
(* pose_subscription_ *)
PoseCallback(estimate) ==
    /\ latest_pose' = estimate
    /\ pose_fresh' = TRUE
    /\ UNCHANGED <<latest_odom, odom_fresh, odom_history, held, publish_odom,
                   in_place_anchor, tf>>

(* initialpose_subscription_ *)
ResetCallback ==
    /\ latest_pose' = None /\ held' = None
    /\ publish_odom' = None /\ in_place_anchor' = None
    /\ UNCHANGED <<pose_fresh, latest_odom, odom_fresh, odom_history, tf>>

(* The wheels turn the chassis about its centre. *)
Spinning(t) == t > 1 /\ Turned(Motion(track[t - 1], track[t]))
                     /\ Translation(Motion(track[t - 1], track[t])) = 0

(* Mutant: old samples are never dropped. *)
TfOdomKeepAll(turning) ==
    /\ turning => Spinning(now)
    /\ latest_odom' = [stamp |-> now, turning |-> turning]
    /\ odom_fresh' = TRUE
    /\ odom_history' = odom_history \cup {now}
    /\ UNCHANGED <<latest_pose, pose_fresh, held, publish_odom, in_place_anchor, tf>>

(* odom_subscription_: the newest sample; its twist may already be zero. *)
TfOdomCallback(turning) ==
    /\ turning => Spinning(now)
    /\ latest_odom' = [stamp |-> now, turning |-> turning]
    /\ odom_fresh' = TRUE
    /\ odom_history' = {t \in odom_history \cup {now} : now - t <= HistoryLength}
    /\ UNCHANGED <<latest_pose, pose_fresh, held, publish_odom, in_place_anchor, tf>>

PoseExpires ==
    /\ pose_fresh /\ pose_fresh' = FALSE
    /\ UNCHANGED <<latest_pose, latest_odom, odom_fresh, odom_history, held,
                   publish_odom, in_place_anchor, tf>>

OdomExpires ==
    /\ odom_fresh /\ odom_fresh' = FALSE
    /\ UNCHANGED <<latest_pose, pose_fresh, latest_odom, odom_history, held,
                   publish_odom, in_place_anchor, tf>>

-----------------------------------------------------------------------------
(* The sample closest to an instant, the older of two as close. *)
Closest(t) ==
    CHOOSE u \in odom_history : \A v \in odom_history :
        \/ Magnitude(u - t) < Magnitude(v - t)
        \/ Magnitude(u - t) = Magnitude(v - t) /\ u <= v

PoseChanged ==
    pose_fresh /\ (held # None => held.localization # latest_pose.pose)

Limit(n, bound) == IF n > bound THEN bound ELSE IF n < -bound THEN -bound ELSE n

(* Mutant: the correction of a moving chassis is not limited. *)
FilterUnlimited(measured, odom_base) ==
    IF held = None THEN measured
    ELSE LET delta     == Motion(held.odom_base, odom_base)
             predicted == Mul(held.map_odom, odom_base)
         IN  IF Translation(delta) <= StationaryTranslation /\ ~Turned(delta)
             THEN predicted
             ELSE measured

(* The chassis pose taken from a measured one: at rest the predicted one,   *)
(* turning in place the predicted position, moving a limited correction.    *)
Filter(measured, odom_base) ==
    IF held = None THEN measured
    ELSE LET delta     == Motion(held.odom_base, odom_base)
             predicted == Mul(held.map_odom, odom_base)
         IN  IF Translation(delta) <= StationaryTranslation /\ ~Turned(delta)
             THEN predicted
             ELSE IF Translation(delta) <= InPlaceTranslation /\ Turned(delta)
             THEN [p |-> predicted.p, s |-> measured.s]
             ELSE [p |-> predicted.p + Limit(measured.p - predicted.p, MaxCorrection),
                   s |-> measured.s]

(* Mutant: the estimate is paired with the newest odometry. *)
CorrectedLatest ==
    IF ~PoseChanged THEN held
    ELSE LET odom_base == track[latest_odom.stamp]
             map_base  == Filter(Mul(latest_pose.pose, Mount), odom_base)
         IN  [map_odom |-> Mul(map_base, Inv(odom_base)), odom_base |-> odom_base,
              localization |-> latest_pose.pose]

(* The correction after the newest estimate. *)
Corrected ==
    IF ~PoseChanged THEN held
    ELSE LET odom_base == track[Closest(latest_pose.stamp)]
             map_base  == Filter(Mul(latest_pose.pose, Mount), odom_base)
         IN  [map_odom |-> Mul(map_base, Inv(odom_base)), odom_base |-> odom_base,
              localization |-> latest_pose.pose]

(* rotating_in_place_now, by the twist or by the increment since the last   *)
(* publication.                                                             *)
RotatingNow(current) ==
    \/ latest_odom.turning
    \/ /\ publish_odom # None
       /\ Translation(Motion(publish_odom, current)) <= IncrementTranslation
       /\ Turned(Motion(publish_odom, current))

(* Mutant: the centre is taken anew at every publication. *)
AnchorEveryTime(current, map_base) ==
    IF RotatingNow(current) THEN [map_base EXCEPT !.s = 1] ELSE None

(* The locked centre after this publication. *)
Anchor(current, map_base) ==
    IF ~RotatingNow(current) THEN None
    ELSE IF in_place_anchor = None THEN [map_base EXCEPT !.s = 1] ELSE in_place_anchor

(* publish_transform; without estimate, odometry or correction it returns. *)
PublishTransform ==
    /\ latest_pose # None /\ latest_odom # None /\ odom_fresh
    /\ held = None => PoseChanged
    /\ LET current  == track[latest_odom.stamp]
           map_base == Mul(Corrected.map_odom, current)
           anchor   == Anchor(current, map_base)
           map_odom == IF anchor = None THEN Corrected.map_odom
                       ELSE Mul([p |-> anchor.p, s |-> map_base.s], Inv(current))
       IN  /\ held' = [Corrected EXCEPT !.map_odom = map_odom]
           /\ in_place_anchor' = anchor
           /\ publish_odom' = current
           /\ tf' = [map_odom |-> map_odom, base |-> Mul(map_odom, current)]
    /\ UNCHANGED <<latest_pose, pose_fresh, latest_odom, odom_fresh, odom_history>>
=============================================================================
