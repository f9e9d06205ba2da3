---------------------------- MODULE GateRecovery ----------------------------
(***************************************************************************)
(* The localization side of the motion gate.  An observer of MotionGate:   *)
(*   good_run   consecutive samples within the loosest clear threshold,    *)
(*   recoveries degraded recoveries started since the goal started,        *)
(*   arms       successful calls of the arm service since then,            *)
(*   slow_pass  the pass of tick() under way was in recovery throughout.   *)
(***************************************************************************)
EXTENDS MotionGate

CONSTANT ArmBound   \* bounds the arm calls per goal that a model explores
ASSUME ArmBoundAssumption == ArmBound \in Nat

VARIABLES good_run, recoveries, arms, slow_pass

FewestSamples == IF DegradedSamples < FitnessSamples THEN DegradedSamples
                                                     ELSE FitnessSamples

RecoveryInit == Init /\ good_run = 0 /\ recoveries = 0 /\ arms = 0
                /\ slow_pass = FALSE

(* The step starts (or restarts) a degraded recovery. *)
OneMoreIf(starts, n) == IF starts THEN n + 1 ELSE n

ObservePass ==
    slow_pass' = IF tick.pc = "idle" THEN tick'.pc = "profile" /\ degraded.mode
                 ELSE slow_pass /\ degraded'.mode

RecoveryStep ==
    \/ \E v \in FitnessInputs :
         /\ OnLocalization(v)
         /\ good_run' = IF Within(v, TerminalClear)
                        THEN Saturate(good_run + 1, FewestSamples) ELSE 0
         /\ recoveries' = OneMoreIf(DegradedRecoveryIsEligible(v), recoveries)
         /\ UNCHANGED arms
    \/ /\ GoalStarts
       /\ recoveries' = IF degraded'.mode /\ ~degraded.mode THEN 1 ELSE 0
       /\ arms' = 0
       /\ UNCHANGED good_run
    \/ /\ arms < ArmBound
       /\ Arm
       /\ recoveries' = OneMoreIf(fitness_hysteresis.blocked
                                  /\ last_fitness > MaxFitness, recoveries)
       /\ arms' = arms + 1
       /\ UNCHANGED good_run
    \/ /\ \/ \E s \in Sides, r \in RangeInputs : OnUltrasonicRange(s, r)
          \/ OtherStep
       /\ UNCHANGED <<good_run, recoveries, arms>>

RecoveryNext == RecoveryStep /\ ObservePass

recoveryVars == <<vars, good_run, recoveries, arms, slow_pass>>

RecoverySpec == RecoveryInit /\ [][RecoveryNext]_recoveryVars

(* A goal gets one degraded recovery, plus at most one for each time the   *)
(* operator arms the gate again while the goal is active.                   *)
RecoveriesBoundedByArms == goal_active => recoveries <= 1 + arms

(* on_localization lifts the fitness block only at the end of a run of     *)
(* samples none of which was beyond the loosest clear threshold, even when *)
(* goal, plan and mode changed the thresholds during the run.               *)
UnblockNeedsRun ==
    [][fitness_hysteresis.blocked /\ ~fitness_hysteresis'.blocked
         => good_run >= FewestSamples]_recoveryVars

(* A Twist published by a pass of tick() that was in degraded recovery     *)
(* from its first step to its last keeps to the degraded speed limits,     *)
(* whatever the profile, the taper and the callbacks in between did.        *)
DegradedSpeedKept ==
    [][tick.pc = "publish" /\ tick'.pc = "idle" /\ slow_pass
         => /\ Abs(out'.lin) <= DegradedMaxLinear * Unit
            /\ Abs(out'.ang) <= DegradedMaxAngular * Unit]_recoveryVars
=============================================================================
