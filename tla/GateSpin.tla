------------------------------ MODULE GateSpin ------------------------------
(***************************************************************************)
(* The in-place rotation budget of the motion gate.  An observer of        *)
(* MotionGate: turned is the yaw the robot really turned under published   *)
(* in-place Twists since the budget was last renewed, counting one         *)
(* odometry increment per published Twist (turning marks the Twist).       *)
(***************************************************************************)
EXTENDS MotionGate

CONSTANT LargestTurn   \* bounds the yaw between two odometry messages
ASSUME TurnAssumption ==
    LargestTurn \in Nat /\ \A m \in OdomInputs : m.turn <= LargestTurn

VARIABLES turned, turning

TurnBound == MaxInPlaceRotation + 2 * LargestTurn   \* turned saturates there

SpinInit == Init /\ turned = 0 /\ turning = FALSE

(* The budget is as new: a goal started, arming changed, or the robot       *)
(* moved.  A Twist published before that belongs to the old budget.         *)
Renewed == spin # NoSpin /\ spin' = NoSpin

OtherThanOdom ==
    \/ \E v \in FitnessInputs : OnLocalization(v)
    \/ \E s \in Sides, r \in RangeInputs : OnUltrasonicRange(s, r)
    \/ GoalStarts
    \/ Arm
    \/ StepWithoutOdom

SpinNext ==
    \/ \E m \in OdomInputs :
         /\ OnOdom(m)
         /\ turned' = IF Renewed THEN 0
                      ELSE IF turning THEN Saturate(turned + m.turn, TurnBound)
                      ELSE turned
         /\ turning' = FALSE
    \/ /\ OtherThanOdom
       /\ turned' = IF Renewed THEN 0 ELSE turned
       /\ turning' = IF tick.pc = "publish" /\ tick'.pc = "idle"
                     THEN out'.lin = 0 /\ out'.ang # 0
                     ELSE turning /\ ~Renewed

spinVars == <<vars, turned, turning>>

SpinSpec == SpinInit /\ [][SpinNext]_spinVars

(* Each goal gets one "still-bounded in-place rotation budget"             *)
(* (on_goal_active): the yaw turned in place, one odometry increment per   *)
(* Twist, exceeds max_in_place_rotation by less than two increments: the   *)
(* one that reached the limit, and that of one more Twist, which tick() had *)
(* already found ready or had just published when the limit was reached.    *)
RotationStaysBounded == turned < MaxInPlaceRotation + 2 * LargestTurn

(* Once reached, the rotation limit is lifted only by a new goal, by a     *)
(* change of arming or by travelling small_spin_reset_distance; no other   *)
(* callback and no pass of tick() renews the budget.                        *)
SpinLimitHolds ==
    [][spin.limit /\ ~spin'.limit
         => \/ goal_active' # goal_active
            \/ armed' # armed \/ ~armed'
            \/ spin.moved >= SpinResetDistance
            \/ odom' = "fresh" /\ \E m \in OdomInputs : MayBeFar(m)]_spinVars
=============================================================================
