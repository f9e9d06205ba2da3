------------------------------ MODULE GateStop ------------------------------
(***************************************************************************)
(* How fast the motion gate stops.  An observer of MotionGate: late counts *)
(* the moving Twists published since the vehicle-side conditions of        *)
(* reason() (MotionPermitted) were lost.  reason() is evaluated at the     *)
(* start of tick() and other callback groups run before the Twist goes     *)
(* out, so one such Twist cannot be avoided.                               *)
(***************************************************************************)
EXTENDS MotionGate

VARIABLE late

Publishes == tick.pc = "publish" /\ tick'.pc = "idle"

ObserveLate ==
    late' = IF MotionPermitted THEN 0
            ELSE IF Publishes /\ out' # Rest THEN Saturate(late + 1, 2)
            ELSE late

StopInit == Init /\ late = 0
StopNext == Next /\ ObserveLate
stopVars == <<vars, late>>

(* The 20 ms timer of tick() keeps firing. *)
TickFairness == WF_stopVars((TickReason \/ TickProfile \/ TickPublish)
                            /\ ObserveLate)

StopSpec     == StopInit /\ [][StopNext]_stopVars
FairStopSpec == StopSpec /\ TickFairness

(* Once the gate is disarmed, loses its goal lease, a health stream, the   *)
(* localization or its recovery budget, tick() publishes at most one more  *)
(* moving Twist, whatever callbacks ran in between.                         *)
StopsWithinOneTick == late <= 1

(* A disarmed gate comes to rest: tick() publishes a zero Twist unless the *)
(* operator arms again first.                                               *)
DisarmedStops == ~armed ~> (out = Rest \/ armed)

(* The abstract promise: motion is published only under a licence granted  *)
(* while motion was permitted, and a licence is good for one Twist.         *)
Licence == INSTANCE MotionLicence WITH
    permitted <- MotionPermitted,
    licence   <- tick.ready,
    moving    <- out # Rest

(* tick() implements the licence scheme: reason() grants, publish uses up. *)
LicenceSpec == Licence!Spec
=============================================================================
