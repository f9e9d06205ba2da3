---------------------------- MODULE SpeedProfile ----------------------------
(***************************************************************************)
(* The arithmetic of the speed the motion gate lets through                *)
(* (scripts/nav_motion_safety_gate.py): the start/approach/cruise profile, *)
(* the reverse taper and the final shaping of a Twist in tick().           *)
(*                                                                         *)
(* Speeds, angular speeds and distances are natural numbers.  The two      *)
(* ratios of the code (remaining path over approach distance, rear range   *)
(* over taper span) are kept exact: a cap is counted in 1/ApproachDistance *)
(* of a speed unit and a published Twist in 1/Unit of a speed unit.        *)
(* A command component is 0 exactly when the code's test "> 0.001" fails.  *)
(***************************************************************************)
EXTENDS Integers, FiniteSetsExt

CONSTANTS
    MaxLinear,           \* max_linear (cruise)
    StartMaxLinear,      \* start_max_linear
    ApproachMinLinear,   \* approach_min_linear
    MinLinearForTurn,    \* minimum_linear_for_turn
    StartDistance,       \* start_slow_distance
    ApproachDistance,    \* approach_slow_distance
    DegradedMaxLinear,   \* degraded_fitness_max_linear
    DegradedMaxAngular,  \* degraded_fitness_max_angular
    MaxAngular,          \* max_angular
    MaxInPlaceAngular,   \* max_in_place_angular
    MaxMotionCurvature,  \* max_motion_curvature
    CurvatureSlack,      \* curvature_slack
    StopDistance,        \* ultrasonic_stop_distance
    ClearDistance        \* ultrasonic_clear_distance

(* The constructor refuses any other parameters (ValueError). *)
ASSUME SpeedAssumption ==
    /\ {MaxLinear, StartMaxLinear, ApproachMinLinear, MinLinearForTurn,
        StartDistance, ApproachDistance, DegradedMaxLinear,
        DegradedMaxAngular, MaxAngular, MaxInPlaceAngular,
        MaxMotionCurvature, CurvatureSlack,
        StopDistance, ClearDistance} \subseteq Nat
    /\ 0 < ApproachMinLinear /\ ApproachMinLinear <= StartMaxLinear
    /\ StartMaxLinear < MaxLinear
    /\ 0 < StartDistance /\ StartDistance < ApproachDistance
    /\ 0 < DegradedMaxLinear /\ DegradedMaxLinear <= StartMaxLinear
    /\ 0 < DegradedMaxAngular /\ DegradedMaxAngular <= MaxInPlaceAngular
    /\ StopDistance < ClearDistance
    /\ 0 < MinLinearForTurn   \* not validated; 0.012 m/s as deployed

(* speed_plan_remaining before any plan of the goal: math.inf *)
Unplanned == -1

TaperSpan == ClearDistance - StopDistance
Unit == ApproachDistance * TaperSpan

Abs(x) == IF x < 0 THEN -x ELSE x

(* max(-limit, min(limit, x)) *)
Clamp(x, limit) == IF x > limit THEN limit ELSE IF x < -limit THEN -limit ELSE x

(* compute_speed_profile: the lowest cap that applies, cruise if none does *)
ComputeSpeedProfile(traveled, remaining) ==
    LET limits ==
          (IF traveled < StartDistance
           THEN {StartMaxLinear * ApproachDistance} ELSE {})
          \cup
          (IF remaining # Unplanned /\ remaining <= ApproachDistance
           THEN {ApproachMinLinear * ApproachDistance
                 + (MaxLinear - ApproachMinLinear) * remaining} ELSE {})
    IN  IF limits = {} THEN MaxLinear * ApproachDistance ELSE Min(limits)

(* Mutant: a degraded recovery does not lower the cap. *)
SpeedProfileUndegraded(goal_active, degraded, traveled, remaining) ==
    IF ~goal_active THEN StartMaxLinear * ApproachDistance
    ELSE ComputeSpeedProfile(traveled, remaining)

(* current_speed_profile *)
CurrentSpeedProfile(goal_active, degraded, traveled, remaining) ==
    LET cap == ComputeSpeedProfile(traveled, remaining)
        low == DegradedMaxLinear * ApproachDistance
    IN  IF ~goal_active THEN StartMaxLinear * ApproachDistance
        ELSE IF degraded /\ cap > low THEN low ELSE cap

(* The linear speed tick() publishes, before the in-place decision: clamp,  *)
(* reverse taper (scale out of TaperSpan), profile cap.                     *)
ShapedLinear(command, scale, cap) ==
    LET x == Clamp(command.lin, MaxLinear)
    IN  Clamp(x * ApproachDistance * (IF x < 0 THEN scale ELSE TaperSpan),
              cap * TaperSpan)

ShapedAngular(command, degraded) ==
    LET z == Clamp(command.ang, MaxAngular)
    IN  IF degraded THEN Clamp(z, DegradedMaxAngular) ELSE z

(* Too slow to translate: the shaped command is a rotation in place or rest *)
InPlace(lin) == Abs(lin) < MinLinearForTurn * Unit

(* The Twist that tick() publishes for a command it found ready. *)
ShapedTwist(command, degraded, scale, cap) ==
    LET lin   == ShapedLinear(command, scale, cap)
        ang   == ShapedAngular(command, degraded)
        limit == Min({MaxAngular * Unit,
                      Abs(lin) * MaxMotionCurvature + CurvatureSlack * Unit})
    IN  IF InPlace(lin)
        THEN [lin |-> 0, ang |-> Clamp(ang, MaxInPlaceAngular) * Unit]
        ELSE [lin |-> lin, ang |-> Clamp(ang * Unit, limit)]

Rest == [lin |-> 0, ang |-> 0]
=============================================================================
