----------------------------- MODULE MotionGate -----------------------------
(***************************************************************************)
(* The final motion safety gate, class NavMotionSafetyGate of              *)
(* scripts/nav_motion_safety_gate.py: the only publisher of /cmd_vel.      *)
(*                                                                         *)
(* Every subscription callback and the arm service is one action.  The     *)
(* node runs them on six threads, and callbacks of different groups        *)
(* interleave: tick() re-reads shared fields after reason() has passed     *)
(* them, and on_localization() updates the hysteresis with thresholds it   *)
(* selected earlier.  Both are therefore split at those points; a callback *)
(* of another group may run in between.                                    *)
(*                                                                         *)
(* Time is abstracted to what the code compares it with: a stream is fresh *)
(* until its timeout passes (Expire...), a hold runs until it is over.     *)
(* Distances and angles saturate at the bound the code compares them with. *)
(***************************************************************************)
EXTENDS SpeedProfile, FitnessHysteresis, UltrasonicLatch

CONSTANTS
    MaxFitness,          \* max_fitness, the startup baseline
    FitnessClear,        \* fitness_clear_threshold
    FitnessBlock,        \* fitness_block_threshold
    TerminalClear,       \* terminal_fitness_clear_threshold
    TerminalBlock,       \* terminal_fitness_block_threshold
    FitnessSamples,      \* fitness_clear_samples_required
    DegradedSamples,     \* degraded_fitness_clear_samples_required
    TerminalDistance,    \* terminal_fitness_distance
    DegradedMaxTravel,   \* degraded_fitness_max_travel
    DegradedMaxRotation, \* degraded_fitness_max_rotation
    OdomJump,            \* the 0.25 m beyond which an odometry step is a jump
    MaxInPlaceRotation,  \* max_in_place_rotation
    SpinResetDistance,   \* small_spin_reset_distance
    MaxReverseAngular,   \* max_reverse_angular
    Confirmations,       \* straight_path_confirmations_required
    TurnAllowDistance,   \* ultrasonic_turn_allow_distance
    SelfEchoMin,         \* ultrasonic_self_echo_min_distance
    SelfEchoMax,         \* ultrasonic_self_echo_max_distance
    FiniteSamples,       \* ultrasonic_clear_samples_required
    NoEchoSamples        \* ultrasonic_no_echo_clear_samples_required

(* The inputs of a model: what the other nodes may send, and which of the   *)
(* streams may fall silent.                                                 *)
CONSTANTS
    Peers,         \* the health streams that exist, of PeerNames
    Sides,         \* the rear ultrasonic sensors
    FitnessInputs, \* NDT fitness scores
    RangeInputs,   \* ultrasonic ranges
    CommandInputs, \* velocity commands [lin, ang]
    OdomInputs,    \* odometry increments [step, turn]
    PlanLengths,   \* lengths of global plans
    HealthInputs,  \* verdicts of the health streams, of BOOLEAN
    StraightInputs,  \* whether a direct-reverse plan is straight, of BOOLEAN
    CollisionInputs, \* whether a pre-collision command asks for motion
    Silent         \* the streams that may time out

PeerNames == {"operator", "chassis", "obstacle"}

StreamNames == {"lease", "localization", "odom", "command", "plan",
                "sonar", "sonar_health"} \cup PeerNames

ASSUME FitnessAssumption ==
    /\ {MaxFitness, FitnessClear, FitnessBlock, TerminalClear, TerminalBlock,
        TerminalDistance, DegradedMaxTravel, DegradedMaxRotation,
        OdomJump} \subseteq Nat
    /\ 0 < MaxFitness /\ MaxFitness <= FitnessClear
    /\ FitnessClear < FitnessBlock /\ FitnessBlock <= TerminalClear
    /\ TerminalClear < TerminalBlock
    /\ FitnessSamples \in Nat \ {0} /\ DegradedSamples \in Nat \ {0}
    /\ 0 < TerminalDistance /\ 0 < DegradedMaxTravel
    /\ 0 < DegradedMaxRotation /\ DegradedMaxRotation <= MaxInPlaceRotation

ASSUME RearAssumption ==
    /\ {TurnAllowDistance, SelfEchoMin, SelfEchoMax, MaxReverseAngular,
        MaxInPlaceRotation, SpinResetDistance} \subseteq Nat
    /\ StopDistance < TurnAllowDistance
    /\ SelfEchoMin < SelfEchoMax /\ SelfEchoMax <= StopDistance
    /\ FiniteSamples \in Nat \ {0} /\ NoEchoSamples \in Nat
    /\ FiniteSamples <= NoEchoSamples
    /\ Confirmations \in Nat \ {0}

ASSUME InputAssumption ==
    /\ Peers \subseteq PeerNames /\ Silent \subseteq StreamNames
    /\ FitnessInputs \subseteq Nat \cup {NonFinite}
    /\ RangeInputs \subseteq Nat \cup {NoEcho, Invalid}
    /\ CommandInputs \subseteq [lin : Int, ang : Int]
    /\ OdomInputs \subseteq [step : Nat, turn : Nat]
    /\ PlanLengths \subseteq Nat
    /\ HealthInputs \subseteq BOOLEAN /\ StraightInputs \subseteq BOOLEAN
    /\ CollisionInputs \subseteq BOOLEAN

VARIABLES
    armed,
    peer,                 \* health stream -> "stale", "bad" or "ok"
    system_state_count,   \* counted up to the 3 the gate waits for
    lease_fresh, goal_active, goal_traveled,
    speed_plan_remaining,
    plan_wire,            \* length of a /plan message under way, or Unplanned
    localization_fresh, last_fitness, fitness_hysteresis,
    degraded,             \* the degraded_recovery_* fields
    loc_job,              \* on_localization between selecting and updating
    odom,                 \* "never", "stale" or "fresh"
    spin,                 \* the spin_* fields
    command, command_fresh, pre_collision,
    reverse_plan,         \* last_plan_time, plan_is_straight, confirmations
    sonar, sonar_health,
    tick,                 \* the pass of tick() under way
    out                   \* the Twist last published

peerVars  == <<peer, system_state_count>>
goalVars  == <<lease_fresh, goal_active, goal_traveled,
               speed_plan_remaining, plan_wire>>
locVars   == <<localization_fresh, last_fitness, fitness_hysteresis,
               degraded, loc_job>>
odomVars  == <<odom, spin>>
cmdVars   == <<command, command_fresh, pre_collision, reverse_plan>>
sonarVars == <<sonar, sonar_health>>
tickVars  == <<tick, out>>
vars == <<armed, peerVars, goalVars, locVars, odomVars, cmdVars, sonarVars,
          tickVars>>

NoRecovery == [mode |-> FALSE, attempted |-> FALSE, traveled |-> 0,
               rotated |-> 0, healthy |-> 0]
NoSpin     == [active |-> FALSE, accumulated |-> 0, limit |-> FALSE,
               moved |-> 0]
NoCommand  == [lin |-> 0, ang |-> 0]
IdleJob    == [busy |-> FALSE, block |-> 0, clear |-> 0, samples |-> 1]
IdleTick   == [pc |-> "idle", ready |-> FALSE, cap |-> 0]

Init ==
    /\ armed = FALSE
    /\ peer = [p \in Peers |-> "stale"]
    /\ system_state_count = 0
    /\ lease_fresh = FALSE /\ goal_active = FALSE /\ goal_traveled = 0
    /\ speed_plan_remaining = Unplanned /\ plan_wire = Unplanned
    /\ localization_fresh = FALSE /\ last_fitness = NonFinite
    /\ fitness_hysteresis = InitHysteresis
    /\ degraded = NoRecovery /\ loc_job = IdleJob
    /\ odom = "never" /\ spin = NoSpin
    /\ command = NoCommand /\ command_fresh = FALSE /\ pre_collision = FALSE
    /\ reverse_plan = [fresh |-> FALSE, straight |-> FALSE, confirmed |-> 0]
    /\ sonar = [s \in Sides |-> [fresh |-> FALSE, range |-> Invalid,
                                 reverse |-> InitLatch, turn |-> InitLatch]]
    /\ sonar_health = "stale"
    /\ tick = IdleTick /\ out = Rest

Saturate(x, bound) == IF x > bound THEN bound ELSE x
-----------------------------------------------------------------------------
(* Localization quality and the bounded degraded recovery.                  *)

Within(value, threshold) == IsFinite(value) /\ value <= threshold

TerminalWindow ==
    /\ goal_active
    /\ speed_plan_remaining # Unplanned
    /\ speed_plan_remaining <= TerminalDistance

(* select_runtime_fitness_thresholds, with the sample count of its mode *)
RuntimeThresholds(deg) ==
    LET job(b, c, n) == [busy |-> TRUE, block |-> b, clear |-> c, samples |-> n]
    IN  IF TerminalWindow
        THEN job(TerminalBlock, TerminalClear, FitnessSamples)
        ELSE IF deg.mode /\ goal_active
        THEN job(TerminalBlock, TerminalClear, DegradedSamples)
        ELSE job(FitnessBlock, FitnessClear, FitnessSamples)

(* start_degraded_recovery.  The assignment to fitness_hysteresis.bad_since *)
(* creates a new attribute: the hold timer bad_since_sec keeps its value.   *)
RecoveryStarted == [NoRecovery EXCEPT !.mode = TRUE, !.attempted = TRUE]
HysteresisRestarted(h) == [h EXCEPT !.clear_count = 0]

RecoverableFitness(value) ==
    /\ fitness_hysteresis.blocked
    /\ Within(value, TerminalClear)

(* Mutant: a used-up attempt is forgotten. *)
EligibleAgain(value) ==
    /\ armed /\ goal_active
    /\ ~degraded.mode
    /\ RecoverableFitness(value)

DegradedRecoveryIsEligible(value) ==
    /\ armed /\ goal_active
    /\ ~degraded.mode /\ ~degraded.attempted
    /\ RecoverableFitness(value)

(* on_localization up to the choice of thresholds *)
OnLocalization(value) ==
    /\ ~loc_job.busy
    /\ localization_fresh' = TRUE
    /\ last_fitness' = value
    /\ IF DegradedRecoveryIsEligible(value)
       THEN /\ degraded' = RecoveryStarted
            /\ fitness_hysteresis' = HysteresisRestarted(fitness_hysteresis)
       ELSE UNCHANGED <<degraded, fitness_hysteresis>>
    /\ loc_job' = RuntimeThresholds(degraded')
    /\ UNCHANGED <<armed, peerVars, goalVars, odomVars, cmdVars, sonarVars,
                   tickVars>>

(* Mutant: one strict sample too many is asked for. *)
RecoveryAfterSampleLate(deg) ==
    IF ~deg.mode THEN deg
    ELSE IF ~Within(last_fitness, FitnessClear) THEN [deg EXCEPT !.healthy = 0]
    ELSE IF deg.healthy + 1 > FitnessSamples
         THEN [NoRecovery EXCEPT !.attempted = deg.attempted]
         ELSE [deg EXCEPT !.healthy = @ + 1]

(* Strict samples end the recovery; it stays attempted for this goal. *)
RecoveryAfterSample(deg) ==
    IF ~deg.mode THEN deg
    ELSE IF ~Within(last_fitness, FitnessClear) THEN [deg EXCEPT !.healthy = 0]
    ELSE IF deg.healthy + 1 >= FitnessSamples
         THEN [NoRecovery EXCEPT !.attempted = deg.attempted]
         ELSE [deg EXCEPT !.healthy = @ + 1]

(* on_localization from the hysteresis update to its end *)
LocalizationUpdate ==
    /\ loc_job.busy
    /\ fitness_hysteresis' =
         UpdateFitness(fitness_hysteresis, last_fitness,
                       loc_job.block, loc_job.clear, loc_job.samples)
    /\ degraded' = RecoveryAfterSample(degraded)
    /\ loc_job' = IdleJob
    /\ UNCHANGED <<armed, peerVars, goalVars, localization_fresh, last_fitness,
                   odomVars, cmdVars, sonarVars, tickVars>>

(* on_localization_pose: a heartbeat that carries no score.  It shares the  *)
(* callback group of on_localization and cannot run inside it.              *)
OnLocalizationPose ==
    /\ ~loc_job.busy
    /\ localization_fresh' = TRUE
    /\ UNCHANGED <<armed, peerVars, goalVars, last_fitness, fitness_hysteresis,
                   degraded, loc_job, odomVars, cmdVars, sonarVars, tickVars>>

(* fitness_bad_hold_sec passes on the hold timer *)
FitnessHoldPasses ==
    /\ fitness_hysteresis.bad_since = "recent"
    /\ fitness_hysteresis' = HoldOver(fitness_hysteresis)
    /\ UNCHANGED <<armed, peerVars, goalVars, localization_fresh, last_fitness,
                   degraded, loc_job, odomVars, cmdVars, sonarVars, tickVars>>
-----------------------------------------------------------------------------
(* Goals and plans.                                                         *)

(* The planner publishes a plan of the goal it works on. *)
PlannerPublishes(length) ==
    /\ goal_active /\ plan_wire = Unplanned
    /\ plan_wire' = length
    /\ UNCHANGED <<armed, peerVars, lease_fresh, goal_active, goal_traveled,
                   speed_plan_remaining, locVars, odomVars, cmdVars,
                   sonarVars, tickVars>>

(* on_speed_profile_plan: /plan names no goal, any plan is taken *)
OnSpeedProfilePlan ==
    /\ plan_wire # Unplanned
    /\ speed_plan_remaining' = plan_wire
    /\ plan_wire' = Unplanned
    /\ UNCHANGED <<armed, peerVars, lease_fresh, goal_active, goal_traveled,
                   locVars, odomVars, cmdVars, sonarVars, tickVars>>

(* on_goal_active(True) while a goal is active renews the lease *)
GoalLeaseRenewed ==
    /\ goal_active
    /\ lease_fresh' = TRUE
    /\ UNCHANGED <<armed, peerVars, goal_active, goal_traveled,
                   speed_plan_remaining, plan_wire, locVars, odomVars,
                   cmdVars, sonarVars, tickVars>>

(* on_goal_active(True), rising edge: fresh budgets for the new goal, and a *)
(* recovery at once if the last score is recoverable                        *)
GoalStarts ==
    LET renewed == [degraded EXCEPT !.attempted = degraded.mode,
                                    !.traveled = 0, !.rotated = 0]
        recover == /\ ~degraded.mode /\ armed /\ localization_fresh
                   /\ RecoverableFitness(last_fitness)
    IN  /\ ~goal_active
        /\ lease_fresh' = TRUE /\ goal_active' = TRUE
        /\ goal_traveled' = 0 /\ speed_plan_remaining' = Unplanned
        /\ spin' = NoSpin
        /\ IF recover
           THEN /\ degraded' = RecoveryStarted
                /\ fitness_hysteresis' = HysteresisRestarted(fitness_hysteresis)
           ELSE degraded' = renewed /\ UNCHANGED fitness_hysteresis
        /\ UNCHANGED <<armed, peerVars, localization_fresh, last_fitness,
                       loc_job, odom, plan_wire, cmdVars, sonarVars, tickVars>>

(* on_goal_active(False) *)
GoalEnds ==
    /\ lease_fresh' = TRUE /\ goal_active' = FALSE
    /\ degraded' = NoRecovery
    /\ UNCHANGED <<armed, peerVars, goal_traveled, speed_plan_remaining,
                   plan_wire, localization_fresh, last_fitness,
                   fitness_hysteresis, loc_job, odomVars, cmdVars, sonarVars,
                   tickVars>>
-----------------------------------------------------------------------------
(* Odometry: travel, recovery and in-place budgets.                         *)

SmallSpinRequested ==
    /\ command.ang # 0
    /\ Abs(command.lin) < MinLinearForTurn

(* Mutant: the increment replaces the accumulated rotation. *)
SpinAfterLastIncrement(move, far) ==
    LET charged == spin.active /\ odom # "never" /\ SmallSpinRequested
        total == IF charged THEN move.turn ELSE spin.accumulated
    IN  IF far THEN NoSpin
        ELSE [spin EXCEPT
                !.accumulated = total,
                !.limit = @ \/ (charged /\ total >= MaxInPlaceRotation),
                !.moved = IF spin.active
                          THEN Saturate(@ + move.step, SpinResetDistance)
                          ELSE @]

(* The spin_* fields after an increment.  far: the robot is now at least    *)
(* small_spin_reset_distance away from where the spin began.                *)
SpinAfter(move, far) ==
    LET charged == spin.active /\ odom # "never" /\ SmallSpinRequested
        total == IF charged
                 THEN Saturate(spin.accumulated + move.turn, MaxInPlaceRotation)
                 ELSE spin.accumulated
    IN  IF far THEN NoSpin
        ELSE [spin EXCEPT
                !.accumulated = total,
                !.limit = @ \/ (charged /\ total >= MaxInPlaceRotation),
                !.moved = IF spin.active
                          THEN Saturate(@ + move.step, SpinResetDistance)
                          ELSE @]

MayBeFar(move) ==
    spin.active /\ spin.moved + move.step >= SpinResetDistance

(* on_odom *)
OnOdom(move) ==
    LET counted == goal_active /\ odom # "never" /\ move.step <= OdomJump
    IN  /\ odom' = "fresh"
        /\ degraded' =
             IF ~degraded.mode THEN degraded
             ELSE [degraded EXCEPT
                     !.rotated = IF odom = "never" THEN @
                                 ELSE Saturate(@ + move.turn,
                                               DegradedMaxRotation),
                     !.traveled = IF counted
                                  THEN Saturate(@ + move.step,
                                                DegradedMaxTravel)
                                  ELSE @]
        /\ goal_traveled' = IF counted
                            THEN Saturate(goal_traveled + move.step,
                                          StartDistance)
                            ELSE goal_traveled
        /\ \E far \in {FALSE, MayBeFar(move)} : spin' = SpinAfter(move, far)
        /\ UNCHANGED <<armed, peerVars, lease_fresh, goal_active,
                       speed_plan_remaining, plan_wire, localization_fresh,
                       last_fitness, fitness_hysteresis, loc_job, cmdVars,
                       sonarVars, tickVars>>
-----------------------------------------------------------------------------
(* The other inputs.                                                        *)

(* on_operator_heartbeat, on_system_state, on_obstacle_status *)
OnPeer(p, good) ==
    /\ peer' = [peer EXCEPT ![p] = IF good THEN "ok" ELSE "bad"]
    /\ system_state_count' = IF p = "chassis"
                             THEN Saturate(system_state_count + 1, 3)
                             ELSE system_state_count
    /\ UNCHANGED <<armed, goalVars, locVars, odomVars, cmdVars, sonarVars,
                   tickVars>>

(* on_command *)
OnCommand(c) ==
    /\ command' = c /\ command_fresh' = TRUE
    /\ UNCHANGED <<armed, peerVars, goalVars, locVars, odomVars,
                   pre_collision, reverse_plan, sonarVars, tickVars>>

(* on_pre_collision_command; FALSE also stands for a stale or null request *)
OnPreCollisionCommand(asking) ==
    /\ pre_collision' = asking
    /\ UNCHANGED <<armed, peerVars, goalVars, locVars, odomVars, command,
                   command_fresh, reverse_plan, sonarVars, tickVars>>

(* on_plan: the direct-reverse plan, classified straight or not *)
OnPlan(straight) ==
    /\ reverse_plan' =
         [fresh |-> TRUE, straight |-> straight,
          confirmed |-> IF straight
                        THEN Saturate(reverse_plan.confirmed + 1, Confirmations)
                        ELSE 0]
    /\ UNCHANGED <<armed, peerVars, goalVars, locVars, odomVars, command,
                   command_fresh, pre_collision, sonarVars, tickVars>>

IsSelfEcho(value) == value >= 0 /\ SelfEchoMin <= value /\ value <= SelfEchoMax

(* on_ultrasonic_range: a self echo refreshes the stream, not the latches *)
OnUltrasonicRange(s, value) ==
    /\ sonar' =
         [sonar EXCEPT ![s] =
            [fresh |-> TRUE, range |-> value,
             reverse |-> IF IsSelfEcho(value) THEN @.reverse
                         ELSE UpdateLatch(@.reverse, value, StopDistance,
                                ClearDistance, FiniteSamples, NoEchoSamples),
             turn    |-> IF IsSelfEcho(value) THEN @.turn
                         ELSE UpdateLatch(@.turn, value, TurnAllowDistance,
                                TurnAllowDistance, FiniteSamples,
                                NoEchoSamples)]]
    /\ UNCHANGED <<armed, peerVars, goalVars, locVars, odomVars, cmdVars,
                   sonar_health, tickVars>>

(* on_ultrasonic_health *)
OnUltrasonicHealth(good) ==
    /\ sonar_health' = IF good THEN "ok" ELSE "bad"
    /\ UNCHANGED <<armed, peerVars, goalVars, locVars, odomVars, cmdVars,
                   sonar, tickVars>>

(* block_hold_sec passes on one latch of sensor s *)
SonarHoldPasses(s) ==
    /\ \/ /\ sonar[s].reverse.holding
          /\ sonar' = [sonar EXCEPT ![s].reverse = LatchHoldOver(@)]
       \/ /\ sonar[s].turn.holding
          /\ sonar' = [sonar EXCEPT ![s].turn = LatchHoldOver(@)]
    /\ UNCHANGED <<armed, peerVars, goalVars, locVars, odomVars, cmdVars,
                   sonar_health, tickVars>>
-----------------------------------------------------------------------------
(* A stream falls silent for longer than its timeout (elapsed).             *)

ExpirePeer(p) ==
    /\ peer[p] # "stale" /\ peer' = [peer EXCEPT ![p] = "stale"]
    /\ UNCHANGED <<armed, system_state_count, goalVars, locVars, odomVars,
                   cmdVars, sonarVars, tickVars>>

ExpireLease ==
    /\ lease_fresh /\ lease_fresh' = FALSE
    /\ UNCHANGED <<armed, peerVars, goal_active, goal_traveled,
                   speed_plan_remaining, plan_wire, locVars, odomVars,
                   cmdVars, sonarVars, tickVars>>

ExpireLocalization ==
    /\ localization_fresh /\ localization_fresh' = FALSE
    /\ UNCHANGED <<armed, peerVars, goalVars, last_fitness, fitness_hysteresis,
                   degraded, loc_job, odomVars, cmdVars, sonarVars, tickVars>>

ExpireOdom ==
    /\ odom = "fresh" /\ odom' = "stale"
    /\ UNCHANGED <<armed, peerVars, goalVars, locVars, spin, cmdVars,
                   sonarVars, tickVars>>

ExpireCommand ==
    /\ command_fresh /\ command_fresh' = FALSE
    /\ UNCHANGED <<armed, peerVars, goalVars, locVars, odomVars, command,
                   pre_collision, reverse_plan, sonarVars, tickVars>>

ExpireReversePlan ==
    /\ reverse_plan.fresh
    /\ reverse_plan' = [reverse_plan EXCEPT !.fresh = FALSE]
    /\ UNCHANGED <<armed, peerVars, goalVars, locVars, odomVars, command,
                   command_fresh, pre_collision, sonarVars, tickVars>>

ExpireSonar(s) ==
    /\ sonar[s].fresh /\ sonar' = [sonar EXCEPT ![s].fresh = FALSE]
    /\ UNCHANGED <<armed, peerVars, goalVars, locVars, odomVars, cmdVars,
                   sonar_health, tickVars>>

ExpireSonarHealth ==
    /\ sonar_health # "stale" /\ sonar_health' = "stale"
    /\ UNCHANGED <<armed, peerVars, goalVars, locVars, odomVars, cmdVars,
                   sonar, tickVars>>

Expire ==
    \/ \E p \in Peers \cap Silent : ExpirePeer(p)
    \/ "lease" \in Silent /\ ExpireLease
    \/ "localization" \in Silent /\ ExpireLocalization
    \/ "odom" \in Silent /\ ExpireOdom
    \/ "command" \in Silent /\ ExpireCommand
    \/ "plan" \in Silent /\ ExpireReversePlan
    \/ "sonar" \in Silent /\ \E s \in Sides : ExpireSonar(s)
    \/ "sonar_health" \in Silent /\ ExpireSonarHealth
-----------------------------------------------------------------------------
(* reason(): what must hold for a command to pass.                          *)

PeersHealthy ==
    /\ \A p \in Peers : peer[p] = "ok"
    /\ "chassis" \in Peers => system_state_count >= 3

RecoveryExhausted ==
    /\ degraded.mode
    /\ \/ degraded.traveled >= DegradedMaxTravel
       \/ degraded.rotated >= DegradedMaxRotation

(* The part of reason() that looks at the vehicle, not at the command *)
MotionPermitted ==
    /\ armed
    /\ PeersHealthy
    /\ lease_fresh /\ goal_active
    /\ localization_fresh /\ odom = "fresh"
    /\ IsFinite(last_fitness) /\ ~fitness_hysteresis.blocked
    /\ ~RecoveryExhausted

(* collision_monitor_block_reason *)
CollisionMonitorBlocks ==
    pre_collision /\ ~(command_fresh /\ command # NoCommand)

(* reverse_path_reason *)
ReversePathPermitted ==
    command.lin < 0 =>
        /\ Abs(command.ang) <= MaxReverseAngular
        /\ reverse_plan.fresh /\ reverse_plan.straight
        /\ reverse_plan.confirmed >= Confirmations

(* ultrasonic_sensor_allowed, for one of the two latches of sensor s *)
SensorAllowed(s, latch) ==
    sonar_health = "ok" /\ sonar[s].fresh /\ ~latch.blocked

RearReverseAllowed == \A s \in Sides : SensorAllowed(s, sonar[s].reverse)
RearTurnAllowed    == \A s \in Sides : SensorAllowed(s, sonar[s].turn)

(* The guarded-sensor part of reason(): a turning command is judged by the  *)
(* turn latches alone, even when it also reverses.                          *)
RearGuardPermits ==
    /\ command.ang # 0 => RearTurnAllowed
    /\ command.ang = 0 /\ command.lin < 0 => RearReverseAllowed

CommandPermitted ==
    /\ ~CollisionMonitorBlocks
    /\ command_fresh
    /\ SmallSpinRequested => ~spin.limit
    /\ ReversePathPermitted
    /\ RearGuardPermits

Ready == MotionPermitted /\ CommandPermitted

(* Mutant: the taper looks at the last range and not at the latches. *)
UnlatchedSpeedScale ==
    LET sideScale(s) ==
          IF sonar[s].range < StopDistance THEN 0
          ELSE Saturate(sonar[s].range - StopDistance, TaperSpan)
    IN  Min({TaperSpan} \cup {sideScale(s) : s \in Sides})

(* rear_reverse_speed_scale, out of TaperSpan *)
RearReverseSpeedScale ==
    LET sideScale(s) ==
          CASE IsSelfEcho(sonar[s].range) -> TaperSpan
            [] sonar[s].range = NoEcho    -> TaperSpan
            [] sonar[s].range = Invalid   -> 0
            [] OTHER -> Saturate(IF sonar[s].range < StopDistance THEN 0
                                 ELSE sonar[s].range - StopDistance, TaperSpan)
    IN  IF RearReverseAllowed
        THEN Min({TaperSpan} \cup {sideScale(s) : s \in Sides})
        ELSE 0
-----------------------------------------------------------------------------
(* tick(): 50 times a second, reason() first, then the speed profile, then  *)
(* the Twist, each from the fields as they are at that moment.              *)

(* Mutant: a moving vehicle is not judged again. *)
TickReasonOnce ==
    /\ tick.pc = "idle"
    /\ tick' = [pc |-> "profile",
                ready |-> Ready \/ (out # Rest /\ CommandPermitted), cap |-> 0]
    /\ UNCHANGED <<armed, peerVars, goalVars, locVars, odomVars, cmdVars,
                   sonarVars, out>>

TickReason ==
    /\ tick.pc = "idle"
    /\ tick' = [pc |-> "profile", ready |-> Ready, cap |-> 0]
    /\ UNCHANGED <<armed, peerVars, goalVars, locVars, odomVars, cmdVars,
                   sonarVars, out>>

TickProfile ==
    /\ tick.pc = "profile"
    /\ tick' = [tick EXCEPT !.pc = "publish",
                            !.cap = CurrentSpeedProfile(goal_active,
                                      degraded.mode, goal_traveled,
                                      speed_plan_remaining)]
    /\ UNCHANGED <<armed, peerVars, goalVars, locVars, odomVars, cmdVars,
                   sonarVars, out>>

(* Mutant: the verdict of reason() is not looked at. *)
PublishedTwistUnchecked ==
    ShapedTwist(command, degraded.mode, RearReverseSpeedScale, tick.cap)

PublishedTwist ==
    IF tick.ready
    THEN ShapedTwist(command, degraded.mode, RearReverseSpeedScale, tick.cap)
    ELSE Rest

(* Mutant: tick() returns without a zero Twist when it is not ready. *)
TickPublishReadyOnly ==
    /\ tick.pc = "publish"
    /\ out' = IF tick.ready THEN PublishedTwist ELSE out
    /\ tick' = IdleTick
    /\ UNCHANGED <<armed, peerVars, goalVars, locVars, odomVars, cmdVars,
                   sonarVars>>

(* Mutant: every in-place Twist starts a new rotation budget. *)
TickPublishNewBudget ==
    /\ tick.pc = "publish"
    /\ out' = PublishedTwist
    /\ spin' = IF out'.lin = 0 /\ out'.ang # 0
               THEN [NoSpin EXCEPT !.active = TRUE]
               ELSE spin
    /\ tick' = IdleTick
    /\ UNCHANGED <<armed, peerVars, goalVars, locVars, odom, cmdVars,
                   sonarVars>>

TickPublish ==
    /\ tick.pc = "publish"
    /\ out' = PublishedTwist
    /\ spin' = IF out'.lin = 0 /\ out'.ang # 0 /\ ~spin.active
               THEN [NoSpin EXCEPT !.active = TRUE]
               ELSE spin
    /\ tick' = IdleTick
    /\ UNCHANGED <<armed, peerVars, goalVars, locVars, odom, cmdVars,
                   sonarVars>>
-----------------------------------------------------------------------------
(* The arm service on_set_arm.                                              *)

(* arm_prerequisite_reason returns None *)
ArmPrerequisites ==
    /\ PeersHealthy
    /\ localization_fresh /\ IsFinite(last_fitness)
    /\ fitness_hysteresis.blocked => Within(last_fitness, TerminalClear)
    /\ odom = "fresh"
    /\ sonar_health = "ok"
    /\ \A s \in Sides : sonar[s].fresh

ArmRefused ==
    /\ ~ArmPrerequisites
    /\ armed' = FALSE /\ spin' = NoSpin
    /\ UNCHANGED <<peerVars, goalVars, locVars, odom, cmdVars, sonarVars,
                   tickVars>>

Arm ==
    /\ ArmPrerequisites
    /\ armed' = TRUE
    /\ IF fitness_hysteresis.blocked /\ last_fitness > MaxFitness
       THEN /\ degraded' = RecoveryStarted
            /\ fitness_hysteresis' = HysteresisRestarted(fitness_hysteresis)
       ELSE UNCHANGED <<degraded, fitness_hysteresis>>
    /\ spin' = IF armed THEN spin ELSE NoSpin
    /\ UNCHANGED <<peerVars, goalVars, localization_fresh, last_fitness,
                   loc_job, odom, cmdVars, sonarVars, tickVars>>

Disarm ==
    /\ armed' = FALSE
    /\ degraded' = NoRecovery
    /\ spin' = IF armed THEN NoSpin ELSE spin
    /\ UNCHANGED <<peerVars, goalVars, localization_fresh, last_fitness,
                   fitness_hysteresis, loc_job, odom, cmdVars, sonarVars,
                   tickVars>>
-----------------------------------------------------------------------------
(* The steps that the observer modules (GateStop, GateRear, GateRecovery,   *)
(* GateSpin) need not tell apart; GateSpin tells on_odom from the rest.     *)
StepWithoutOdom ==
    \/ LocalizationUpdate
    \/ OnLocalizationPose
    \/ FitnessHoldPasses
    \/ \E n \in PlanLengths : PlannerPublishes(n)
    \/ OnSpeedProfilePlan
    \/ GoalLeaseRenewed
    \/ GoalEnds
    \/ \E p \in Peers, good \in HealthInputs : OnPeer(p, good)
    \/ \E c \in CommandInputs : OnCommand(c)
    \/ \E asking \in CollisionInputs : OnPreCollisionCommand(asking)
    \/ \E straight \in StraightInputs : OnPlan(straight)
    \/ \E good \in HealthInputs : OnUltrasonicHealth(good)
    \/ \E s \in Sides : SonarHoldPasses(s)
    \/ Expire
    \/ TickReason
    \/ TickProfile
    \/ TickPublish
    \/ ArmRefused
    \/ Disarm

OtherStep == StepWithoutOdom \/ \E m \in OdomInputs : OnOdom(m)

Next ==
    \/ \E v \in FitnessInputs : OnLocalization(v)
    \/ \E s \in Sides, r \in RangeInputs : OnUltrasonicRange(s, r)
    \/ GoalStarts
    \/ Arm
    \/ OtherStep

Spec == Init /\ [][Next]_vars
-----------------------------------------------------------------------------
(* Every field has the range the handlers give it; in particular no budget *)
(* or counter passes the bound it is compared with.                         *)
PeerTypeOK ==
    /\ peer \in [Peers -> {"stale", "bad", "ok"}]
    /\ system_state_count \in 0 .. 3

GoalTypeOK ==
    /\ lease_fresh \in BOOLEAN /\ goal_active \in BOOLEAN
    /\ goal_traveled \in 0 .. StartDistance
    /\ speed_plan_remaining \in Nat \cup {Unplanned}
    /\ plan_wire \in Nat \cup {Unplanned}

Recovery == [mode : BOOLEAN, attempted : BOOLEAN,
             traveled : 0 .. DegradedMaxTravel,
             rotated : 0 .. DegradedMaxRotation,
             healthy : 0 .. FitnessSamples - 1]

SpinBudget == [active : BOOLEAN, accumulated : 0 .. MaxInPlaceRotation,
               limit : BOOLEAN, moved : 0 .. SpinResetDistance]

LocTypeOK ==
    /\ localization_fresh \in BOOLEAN
    /\ last_fitness \in Nat \cup {NonFinite}
    /\ fitness_hysteresis \in Hysteresis(FitnessSamples + DegradedSamples)
    /\ degraded \in Recovery
    /\ loc_job \in [busy : BOOLEAN, block : Nat, clear : Nat,
                    samples : {1, FitnessSamples, DegradedSamples}]

OdomTypeOK ==
    /\ odom \in {"never", "stale", "fresh"}
    /\ spin \in SpinBudget

CmdTypeOK ==
    /\ command \in [lin : Int, ang : Int]
    /\ command_fresh \in BOOLEAN /\ pre_collision \in BOOLEAN
    /\ reverse_plan \in [fresh : BOOLEAN, straight : BOOLEAN,
                         confirmed : 0 .. Confirmations]

SonarTypeOK ==
    /\ sonar \in [Sides -> [fresh : BOOLEAN,
                            range : Nat \cup {NoEcho, Invalid},
                            reverse : Latch(NoEchoSamples),
                            turn : Latch(NoEchoSamples)]]
    /\ sonar_health \in {"stale", "bad", "ok"}

TickTypeOK ==
    /\ tick \in [pc : {"idle", "profile", "publish"}, ready : BOOLEAN,
                 cap : Nat]
    /\ out \in [lin : Int, ang : Int]

TypeOK ==
    /\ armed \in BOOLEAN
    /\ PeerTypeOK /\ GoalTypeOK /\ LocTypeOK /\ OdomTypeOK
    /\ CmdTypeOK /\ SonarTypeOK /\ TickTypeOK
=============================================================================
