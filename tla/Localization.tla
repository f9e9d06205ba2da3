----------------------------- MODULE Localization -----------------------------
(***************************************************************************)
(* The localization chain: robot, localizer and transform bridge.  An      *)
(* operator's initial pose reaches both nodes on /initialpose_relay, each  *)
(* in its own time; estimates reach the bridge in order, or are lost.      *)
(***************************************************************************)
EXTENDS NdtLocalizer, TfBridge

CONSTANTS
    Clicks,         \* initial poses the operator gives
    MaxClicks       \* bound on their number

VARIABLES
    clicked,        \* initial poses given so far
    ndt_clicks,     \* how many the localizer has handled
    tf_clicks       \* how many the bridge has handled

linkVars == <<clicked, ndt_clicks, tf_clicks>>
locVars == <<track, ndtVars, tfVars, linkVars>>

LocInit ==
    /\ TrackInit /\ NdtInit /\ TfInit
    /\ clicked = <<>> /\ ndt_clicks = 0 /\ tf_clicks = 0

(* The operator sets a pose in RViz. *)
Click(pose) ==
    /\ Len(clicked) < MaxClicks
    /\ clicked' = Append(clicked, pose)
    /\ UNCHANGED <<track, ndtVars, tfVars, ndt_clicks, tf_clicks>>

NdtTakesClick ==
    /\ ndt_clicks < Len(clicked)
    /\ ndt_clicks' = ndt_clicks + 1
    /\ InitialPoseCallback(clicked[ndt_clicks'])
    /\ UNCHANGED <<track, tfVars, clicked, tf_clicks>>

TfTakesClick ==
    /\ tf_clicks < Len(clicked)
    /\ tf_clicks' = tf_clicks + 1
    /\ ResetCallback
    /\ UNCHANGED <<track, ndtVars, clicked, ndt_clicks>>

Travel(step) == Move(step) /\ UNCHANGED <<ndtVars, tfVars, linkVars>>

(* A scan is matched some time after it was taken. *)
Scan(t, best, r) == CloudCallback(t, best, r) /\ UNCHANGED <<track, tfVars, linkVars>>

NdtOdom == OdomCallback /\ UNCHANGED <<track, tfVars, linkVars>>

MapTimer == PublishMap /\ UNCHANGED <<track, tfVars, linkVars>>

TakeEstimate == poses # <<>> /\ poses' = Tail(poses)

NdtStateKept == UNCHANGED <<map_t_body, current_odom, last_odom, initialized,
                            have_ndt_pose, search_pending, search_passed,
                            confirm_count, pending_pose, last_fitness, last_status,
                            report>>

DeliverEstimate ==
    /\ TakeEstimate /\ PoseCallback(Head(poses))
    /\ NdtStateKept /\ UNCHANGED <<track, linkVars>>

LoseEstimate == TakeEstimate /\ NdtStateKept /\ UNCHANGED <<track, tfVars, linkVars>>

TfOdom(turning) == TfOdomCallback(turning) /\ UNCHANGED <<track, ndtVars, linkVars>>

TfTimer == PublishTransform /\ UNCHANGED <<track, ndtVars, linkVars>>

Expire == (PoseExpires \/ OdomExpires) /\ UNCHANGED <<track, ndtVars, linkVars>>

LocNext ==
    \/ \E pose \in Clicks : Click(pose)
    \/ NdtTakesClick \/ TfTakesClick
    \/ \E step \in Steps : Travel(step)
    \/ \E t \in ScanStamps, best \in SearchScores :
         \E r \in Registrations(t, Guess) : Scan(t, best, r)
    \/ NdtOdom \/ MapTimer
    \/ DeliverEstimate \/ LoseEstimate
    \/ \E turning \in BOOLEAN : TfOdom(turning)
    \/ TfTimer \/ Expire

LocSpec == LocInit /\ [][LocNext]_locVars
-----------------------------------------------------------------------------
(* "The stationary-noise filter below must not preserve the previous        *)
(* map->odom transform across that event, or a cold-started RViz can show   *)
(* the last shutdown pose even though NDT has already converged at the      *)
(* newly selected pose": once the localizer has converged where the newest  *)
(* initial pose was set, and the bridge has used that estimate, a robot     *)
(* that stood still all the time is shown there.                            *)
OldAnchorForgotten ==
    /\ clicked # <<>> /\ ndt_clicks = Len(clicked) /\ tf_clicks = Len(clicked)
    /\ have_ndt_pose /\ Mul(map_t_body, Mount) = clicked[Len(clicked)]
    /\ held # None /\ now = 1
    /\ held.localization = map_t_body
    => tf.base = clicked[Len(clicked)]
=============================================================================
