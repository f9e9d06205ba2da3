----------------------------- MODULE RangerDriver -----------------------------
(***************************************************************************)
(* The chassis driver ranger_base_node (ranger_messenger.cpp): its loop    *)
(* publishes the state of the chassis and then handles the commands that   *)
(* have come, all in one thread.  The CAN bus, the chassis controller and  *)
(* the SDK that caches its last frames are external: requests are lost,    *)
(* the remote control may take the chassis over, frames of mode, motion    *)
(* and control mode arrive one by one.                                     *)
(*                                                                         *)
(* Speeds, angles and distances are kept as small integers with the sign   *)
(* of the real ones; an increment of the odometry is a vector in the       *)
(* frame of the chassis.                                                   *)
(***************************************************************************)
EXTENDS Integers

CONSTANTS
    RobotType,      \* robot_model
    Rate,           \* update_rate
    CounterSize,    \* 2^32, the range of command_mode_retry_count
    MinTurnRadius,  \* min_turn_radius
    Twists,         \* commands on /cmd_vel
    MaxTakeovers    \* bound on the times the remote control takes over

ASSUME DriverAssumption ==
    /\ RobotType \in {"ranger", "ranger_mini_v1", "ranger_mini_v2", "ranger_mini_v3"}
    /\ Rate \in Int /\ CounterSize \in Nat \ {0} /\ MinTurnRadius \in Nat
    /\ Twists \subseteq [x : Int, y : Int, w : Int]
    /\ MaxTakeovers \in Nat

VARIABLES
    phase,          \* "created", "connected" or "unconnected" before the first
                    \* pass, "running", "broken" (running unconnected), "dead"
    motion_mode,
    retry_count,    \* command_mode_retry_count
    last_nonzero_x,
    command,        \* last motion command sent, with its mode
    step,           \* last increment of the odometry
    request,        \* a request of command mode is on the bus
    chassis,        \* control mode, motion mode and motion of the chassis
    seen,           \* the same as the SDK last received it
    takeovers

driverVars == <<phase, motion_mode, retry_count, last_nonzero_x, command, step>>
busVars == <<request, chassis, seen, takeovers>>
vars == <<driverVars, busVars>>

Modes == {"dual_ackerman", "parallel", "spinning", "side_slip"}
Motions == [linear : -1 .. 1, angular : -1 .. 1, steer : -1 .. 1]
Vectors == [x : -1 .. 1, y : -1 .. 1, w : -1 .. 1]
Commands == [mode : Modes, linear : -1 .. 1, steer : -1 .. 1, angular : -1 .. 1]
States == [control : {"RC", "CAN"}, mode : Modes, motion : Motions]

Rest == [linear |-> 0, angular |-> 0, steer |-> 0]
NoStep == [x |-> 0, y |-> 0, w |-> 0]
NoCommand == [mode |-> "dual_ackerman", linear |-> 0, steer |-> 0, angular |-> 0]
Parked == [control |-> "RC", mode |-> "dual_ackerman", motion |-> Rest]

TypeOK ==
    /\ phase \in {"created", "connected", "unconnected", "running", "broken", "dead"}
    /\ motion_mode \in Modes /\ last_nonzero_x \in {-1, 1}
    /\ retry_count \in 0 .. CounterSize - 1
    /\ command \in Commands /\ step \in Vectors
    /\ request \in BOOLEAN /\ chassis \in States /\ seen \in States
    /\ takeovers \in 0 .. MaxTakeovers

Init ==
    /\ phase = "created" /\ motion_mode = "dual_ackerman" /\ retry_count = 0
    /\ last_nonzero_x = 1 /\ command = NoCommand /\ step = NoStep
    /\ request = FALSE /\ takeovers = 0
    /\ chassis = Parked /\ seen = Parked

Sign(n) == IF n > 0 THEN 1 ELSE IF n < 0 THEN -1 ELSE 0
Abs(n) == IF n < 0 THEN -n ELSE n

-----------------------------------------------------------------------------
(* RangerROSMessenger: connect and ask for command mode.  When that fails   *)
(* the constructor returns before the publishers exist, and Run() follows.  *)
Start(connects) ==
    /\ phase = "created"
    /\ phase' = IF connects THEN "connected" ELSE "unconnected"
    /\ request' = connects
    /\ UNCHANGED <<motion_mode, retry_count, last_nonzero_x, command, step,
                   chassis, seen, takeovers>>

(* PublishStateToROS, first pass: only the time is taken. *)
FirstPass ==
    /\ phase \in {"connected", "unconnected"}
    /\ phase' = IF phase = "connected" THEN "running" ELSE "broken"
    /\ UNCHANGED <<motion_mode, retry_count, last_nonzero_x, command, step, busVars>>

(* PublishStateToROS without publishers: the null pointer ends the process. *)
BrokenPass ==
    /\ phase = "broken"
    /\ phase' = "dead"
    /\ UNCHANGED <<motion_mode, retry_count, last_nonzero_x, command, step, busVars>>

(* UpdateOdometry: what a mode makes of the measured motion. *)
Increment(mode, m) ==
    CASE mode = "dual_ackerman" -> [x |-> m.linear, y |-> 0, w |-> m.linear * m.steer]
      [] mode = "parallel"      -> [x |-> IF m.steer = 0 THEN m.linear ELSE 0,
                                    y |-> m.linear * m.steer, w |-> 0]
      [] mode = "side_slip"     -> [x |-> 0, y |-> m.linear, w |-> 0]
      [] mode = "spinning"      -> [x |-> 0, y |-> 0, w |-> m.angular]

(* Mutant: the request of the start is the only one. *)
NeverDue == FALSE

RetryDue == seen.control # "CAN" /\ retry_count % (IF Rate < 1 THEN 1 ELSE Rate) = 0

(* Mutant: the count goes on over a time in command mode. *)
CountOn == IF seen.control # "CAN" THEN (retry_count + 1) % CounterSize ELSE retry_count

(* Mutant: the count does not wrap. *)
CountNoWrap == IF seen.control # "CAN" THEN retry_count + 1 ELSE 0

(* The retry count after a pass. *)
NextCount == IF seen.control # "CAN" THEN (retry_count + 1) % CounterSize ELSE 0

(* Mutant: the mode is left as the last command set it. *)
PublishKeepMode ==
    /\ phase = "running"
    /\ request' = (request \/ RetryDue)
    /\ retry_count' = NextCount
    /\ step' = Increment(motion_mode, seen.motion)
    /\ UNCHANGED <<phase, motion_mode, last_nonzero_x, command, chassis, seen, takeovers>>

(* PublishStateToROS: the odometry is integrated with the mode of the last  *)
(* command or, if none came, of the previous pass; then the reported mode   *)
(* is taken over.                                                           *)
PublishStateToROS ==
    /\ phase = "running"
    /\ request' = (request \/ RetryDue)
    /\ retry_count' = NextCount
    /\ step' = Increment(motion_mode, seen.motion)
    /\ motion_mode' = seen.mode
    /\ UNCHANGED <<phase, last_nonzero_x, command, chassis, seen, takeovers>>

-----------------------------------------------------------------------------
(* The mode a Twist selects; parking_mode_ is never set. *)
ModeOf(t) ==
    IF t.y # 0
    THEN IF t.x = 0 /\ RobotType = "ranger_mini_v1" THEN "side_slip" ELSE "parallel"
    ELSE IF t.w # 0 /\ Abs(t.x) < MinTurnRadius * Abs(t.w) THEN "spinning"
         ELSE "dual_ackerman"

(* CalculateSteeringAngle *)
SteeringAngle(t) == IF t.w = 0 THEN 0 ELSE IF t.w * t.x >= 0 THEN 1 ELSE -1

(* The command sent for a Twist; straight to the side the sign of the last  *)
(* forward speed decides on which side the wheels turn.                     *)
CommandOf(t) ==
    LET cmd(l, s, a) == [mode |-> ModeOf(t), linear |-> l, steer |-> s, angular |-> a]
    IN  CASE ModeOf(t) = "dual_ackerman" -> cmd(Sign(t.x), SteeringAngle(t), 0)
          [] ModeOf(t) = "parallel" /\ t.x # 0 -> cmd(Sign(t.x), Sign(t.y), 0)
          [] ModeOf(t) = "parallel" /\ t.x = 0 -> cmd(Sign(t.y), last_nonzero_x, 0)
          [] ModeOf(t) = "spinning" -> cmd(0, 0, Sign(t.w))
          [] ModeOf(t) = "side_slip" -> cmd(0, 0, Sign(t.y))

(* TwistCmdCallback, which exists only on a connected driver. *)
TwistCmdCallback(t) ==
    /\ phase = "running"
    /\ motion_mode' = ModeOf(t)
    /\ command' = CommandOf(t)
    /\ last_nonzero_x' = IF ModeOf(t) = "parallel" /\ t.x # 0 THEN Sign(t.x)
                         ELSE last_nonzero_x
    /\ UNCHANGED <<phase, retry_count, step, busVars>>

-----------------------------------------------------------------------------
(* The controller takes a request, or the bus loses it. *)
DeliverRequest ==
    /\ request /\ request' = FALSE
    /\ chassis' = [chassis EXCEPT !.control = "CAN"]
    /\ UNCHANGED <<driverVars, seen, takeovers>>

LoseRequest ==
    /\ request /\ request' = FALSE
    /\ UNCHANGED <<driverVars, chassis, seen, takeovers>>

TakeOver ==
    /\ chassis.control = "CAN" /\ takeovers < MaxTakeovers
    /\ takeovers' = takeovers + 1
    /\ chassis' = [chassis EXCEPT !.control = "RC"]
    /\ UNCHANGED <<driverVars, request, seen>>

(* Motions of the chassis in a mode. *)
MotionsIn(mode) ==
    {m \in Motions : IF mode = "spinning" THEN m.linear = 0 /\ m.steer = 0 ELSE m.angular = 0}

(* In command mode the chassis obeys the last command in its own time; it   *)
(* changes its mode at rest.                                                *)
ChassisActs ==
    /\ chassis.control = "CAN"
    /\ \/ \E m \in {Rest, [linear |-> command.linear, steer |-> command.steer,
                           angular |-> command.angular]} :
            /\ chassis.mode = command.mode /\ m \in MotionsIn(chassis.mode)
            /\ chassis' = [chassis EXCEPT !.motion = m]
       \/ chassis' = [chassis EXCEPT !.motion = Rest]
       \/ /\ chassis.motion = Rest
          /\ chassis' = [chassis EXCEPT !.mode = command.mode]
    /\ UNCHANGED <<driverVars, request, seen, takeovers>>

(* A frame of one kind reaches the SDK. *)
Frame(kind) ==
    /\ seen' = [seen EXCEPT ![kind] = chassis[kind]]
    /\ UNCHANGED <<driverVars, request, chassis, takeovers>>

Next ==
    \/ \E connects \in BOOLEAN : Start(connects)
    \/ FirstPass \/ BrokenPass \/ PublishStateToROS
    \/ \E t \in Twists : TwistCmdCallback(t)
    \/ DeliverRequest \/ LoseRequest \/ TakeOver \/ ChassisActs
    \/ \E kind \in {"control", "mode", "motion"} : Frame(kind)

(* The loop runs, status frames keep coming, and of requests sent again and *)
(* again one arrives.                                                       *)
Fairness ==
    /\ WF_vars(FirstPass) /\ WF_vars(PublishStateToROS)
    /\ WF_vars(Frame("control")) /\ SF_vars(DeliverRequest)

Spec == Init /\ [][Next]_vars /\ Fairness
=============================================================================
