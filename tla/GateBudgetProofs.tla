-------------------------- MODULE GateBudgetProofs --------------------------
(***************************************************************************)
(* Theorems about what the motion gate rations, for every value of the     *)
(* constants: degraded recoveries per goal, the samples that lift the      *)
(* fitness block, the speed in recovery and the yaw turned in place.       *)
(***************************************************************************)
EXTENDS GateRecovery, GateSpin, MotionGateProofs

(* Who writes the fields that the budgets depend on, among the steps the   *)
(* observers do not tell apart.                                             *)
LEMMA OtherStepWriters ==
    ASSUME OtherStep \/ \E s \in Sides, r \in RangeInputs : OnUltrasonicRange(s, r)
    PROVE  /\ \/ UNCHANGED <<armed, goal_active, degraded>>
              \/ GoalEnds \/ ArmRefused \/ Disarm
              \/ LocalizationUpdate \/ \E m \in OdomInputs : OnOdom(m)
           /\ \/ UNCHANGED <<last_fitness, fitness_hysteresis, loc_job>>
              \/ LocalizationUpdate \/ FitnessHoldPasses
<1>1. CASE \E s \in Sides, r \in RangeInputs : OnUltrasonicRange(s, r)
  BY <1>1 DEF OnUltrasonicRange, goalVars, locVars
<1>2. CASE LocalizationUpdate
  BY <1>2
<1>3. CASE OnLocalizationPose \/ FitnessHoldPasses
  BY <1>3 DEF OnLocalizationPose, FitnessHoldPasses, goalVars, locVars
<1>4. CASE \/ \E n \in PlanLengths : PlannerPublishes(n)
           \/ OnSpeedProfilePlan \/ GoalLeaseRenewed
  BY <1>4 DEF PlannerPublishes, OnSpeedProfilePlan, GoalLeaseRenewed,
              goalVars, locVars
<1>5. CASE GoalEnds
  BY <1>5 DEF GoalEnds
<1>6. CASE \E m \in OdomInputs : OnOdom(m)
  BY <1>6 DEF OnOdom
<1>7. CASE \E p \in Peers, good \in HealthInputs : OnPeer(p, good)
  BY <1>7 DEF OnPeer, goalVars, locVars
<1>8. CASE \/ \E c \in CommandInputs : OnCommand(c)
           \/ \E asking \in CollisionInputs : OnPreCollisionCommand(asking)
           \/ \E straight \in StraightInputs : OnPlan(straight)
  BY <1>8 DEF OnCommand, OnPreCollisionCommand, OnPlan, goalVars, locVars
<1>9. CASE \/ \E good \in HealthInputs : OnUltrasonicHealth(good)
           \/ \E s \in Sides : SonarHoldPasses(s)
  BY <1>9 DEF OnUltrasonicHealth, SonarHoldPasses, goalVars, locVars
<1>10. CASE Expire
  BY <1>10 DEF Expire, ExpirePeer, ExpireLease, ExpireLocalization, ExpireOdom,
               ExpireCommand, ExpireReversePlan, ExpireSonar,
               ExpireSonarHealth, goalVars, locVars
<1>11. CASE TickReason \/ TickProfile \/ TickPublish
  BY <1>11 DEF TickReason, TickProfile, TickPublish, goalVars, locVars
<1>12. CASE ArmRefused \/ Disarm
  BY <1>12 DEF ArmRefused, Disarm, goalVars, locVars
<1> QED
  BY <1>1, <1>2, <1>3, <1>4, <1>5, <1>6, <1>7, <1>8, <1>9, <1>10, <1>11, <1>12
  DEF OtherStep, StepWithoutOdom

LEMMA RecoveryStepIsGateStep == [RecoveryNext]_recoveryVars => [Next]_vars
BY DEF RecoveryNext, RecoveryStep, Next, recoveryVars

LEMMA SpinStepIsGateStep == [SpinNext]_spinVars => [Next]_vars
<1>1. (\E m \in OdomInputs : OnOdom(m)) => Next
  BY DEF Next, OtherStep, StepWithoutOdom
<1>2. OtherThanOdom => Next
  BY DEF OtherThanOdom, Next, OtherStep
<1> QED BY <1>1, <1>2 DEF SpinNext, spinVars

(* The observed gate is type-correct like the gate itself.                  *)
THEOREM RecoveryTypeCorrect == RecoverySpec => []TypeOK
<1>1. RecoveryInit => TypeOK
  BY TypeInit DEF RecoveryInit
<1>2. TypeOK /\ [RecoveryNext]_recoveryVars => TypeOK'
  BY TypeStep, RecoveryStepIsGateStep
<1> QED BY <1>1, <1>2, PTL DEF RecoverySpec
-----------------------------------------------------------------------------
(* Degraded recoveries per goal.                                            *)

(* The inductive invariant: a gate that is armed and whose attempt is not  *)
(* used up has one recovery less behind it than the goal may have.          *)
AttemptInv ==
    /\ TypeOK
    /\ recoveries \in Nat /\ arms \in Nat
    /\ goal_active => recoveries <= 1 + arms
    /\ goal_active /\ armed /\ ~degraded.attempted => recoveries <= arms

LEMMA AttemptInvInit == RecoveryInit => AttemptInv
<1> SUFFICES ASSUME RecoveryInit PROVE AttemptInv
  OBVIOUS
<1>1. TypeOK
  BY TypeInit DEF RecoveryInit
<1>2. ~goal_active
  BY Zenon DEF RecoveryInit, Init
<1>3. recoveries = 0 /\ arms = 0
  BY DEF RecoveryInit
<1> QED BY <1>1, <1>2, <1>3 DEF AttemptInv

(* A step that starts no recovery neither arms the gate nor forgets the    *)
(* attempt of an armed gate with an active goal.                            *)
LEMMA OtherStepKeepsAttempt ==
    ASSUME TypeOK,
           OtherStep \/ \E s \in Sides, r \in RangeInputs : OnUltrasonicRange(s, r)
    PROVE  /\ goal_active' => goal_active
           /\ goal_active' /\ armed' /\ ~degraded'.attempted
                => armed /\ ~degraded.attempted
<1>1. degraded \in Recovery
  BY DEF TypeOK, LocTypeOK
<1>2. CASE UNCHANGED <<armed, goal_active, degraded>>
  BY <1>2
<1>3. CASE GoalEnds
  BY <1>3 DEF GoalEnds
<1>4. CASE ArmRefused \/ Disarm
  BY <1>4 DEF ArmRefused, Disarm, goalVars
<1>5. CASE LocalizationUpdate
  <2>1. UNCHANGED <<armed, goal_active>> /\ degraded' = RecoveryAfterSample(degraded)
    BY <1>5 DEF LocalizationUpdate, goalVars
  <2>2. RecoveryAfterSample(degraded).attempted = degraded.attempted
    BY <1>1 DEF RecoveryAfterSample, Recovery, NoRecovery
  <2> QED BY <2>1, <2>2
<1>6. CASE \E m \in OdomInputs : OnOdom(m)
  <2>1. UNCHANGED <<armed, goal_active>>
    BY <1>6 DEF OnOdom
  <2>2. degraded'.attempted = degraded.attempted
    BY <1>1, <1>6 DEF OnOdom, Recovery
  <2> QED BY <2>1, <2>2
<1> QED BY <1>2, <1>3, <1>4, <1>5, <1>6, OtherStepWriters

LEMMA AttemptInvStep == AttemptInv /\ [RecoveryNext]_recoveryVars => AttemptInv'
<1> SUFFICES ASSUME AttemptInv, [RecoveryNext]_recoveryVars PROVE AttemptInv'
  OBVIOUS
<1>1. TypeOK'
  BY TypeStep, RecoveryStepIsGateStep DEF AttemptInv
<1>2. recoveries \in Nat /\ arms \in Nat
  BY DEF AttemptInv
<1>3. CASE UNCHANGED recoveryVars
  BY <1>1, <1>3 DEF AttemptInv, recoveryVars, vars, goalVars, locVars
<1>4. ASSUME NEW v \in FitnessInputs, OnLocalization(v),
             recoveries' = OneMoreIf(DegradedRecoveryIsEligible(v), recoveries),
             UNCHANGED arms
      PROVE  AttemptInv'
  <2>1. UNCHANGED <<armed, goal_active>>
    BY <1>4 DEF OnLocalization, goalVars
  <2>2. CASE DegradedRecoveryIsEligible(v)
    <3>1. recoveries <= arms /\ recoveries' = recoveries + 1
      BY <1>4, <2>2 DEF AttemptInv, DegradedRecoveryIsEligible, OneMoreIf
    <3>2. degraded'.attempted
      BY <1>4, <2>2 DEF OnLocalization, RecoveryStarted, NoRecovery
    <3> QED BY <1>1, <1>2, <1>4, <3>1, <3>2 DEF AttemptInv
  <2>3. CASE ~DegradedRecoveryIsEligible(v)
    <3>1. UNCHANGED <<degraded, recoveries>>
      BY <1>4, <2>3 DEF OnLocalization, OneMoreIf
    <3> QED BY <1>1, <1>4, <2>1, <3>1 DEF AttemptInv
  <2> QED BY <2>2, <2>3
<1>5. ASSUME GoalStarts, arms' = 0,
             recoveries' = IF degraded'.mode /\ ~degraded.mode THEN 1 ELSE 0
      PROVE  AttemptInv'
  <2>1. CASE degraded'.mode /\ ~degraded.mode
    <3>1. degraded' = RecoveryStarted
            \/ degraded' = [degraded EXCEPT !.attempted = degraded.mode,
                                            !.traveled = 0, !.rotated = 0]
      BY <1>5 DEF GoalStarts
    <3>2. degraded \in Recovery
      BY DEF AttemptInv, TypeOK, LocTypeOK
    <3>3. degraded'.attempted
      BY <2>1, <3>1, <3>2 DEF Recovery, RecoveryStarted, NoRecovery
    <3> QED BY <1>1, <1>5, <2>1, <3>3 DEF AttemptInv
  <2>2. CASE ~(degraded'.mode /\ ~degraded.mode)
    BY <1>1, <1>5, <2>2 DEF AttemptInv
  <2> QED BY <2>1, <2>2
<1>6. ASSUME Arm, arms' = arms + 1,
             recoveries' = OneMoreIf(fitness_hysteresis.blocked
                                     /\ last_fitness > MaxFitness, recoveries)
      PROVE  AttemptInv'
  <2>1. UNCHANGED goal_active
    BY <1>6 DEF Arm, goalVars
  <2>2. CASE fitness_hysteresis.blocked /\ last_fitness > MaxFitness
    <3>1. recoveries' = recoveries + 1
      BY <1>6, <2>2 DEF OneMoreIf
    <3>2. degraded'.attempted
      BY <1>6, <2>2 DEF Arm, RecoveryStarted, NoRecovery
    <3> QED BY <1>1, <1>2, <1>6, <2>1, <3>1, <3>2 DEF AttemptInv
  <2>3. CASE ~(fitness_hysteresis.blocked /\ last_fitness > MaxFitness)
    <3>1. recoveries' = recoveries
      BY <1>6, <2>3 DEF OneMoreIf
    <3> QED BY <1>1, <1>2, <1>6, <2>1, <3>1 DEF AttemptInv
  <2> QED BY <2>2, <2>3
<1>7. ASSUME OtherStep \/ \E s \in Sides, r \in RangeInputs : OnUltrasonicRange(s, r),
             UNCHANGED <<recoveries, arms>>
      PROVE  AttemptInv'
  BY <1>1, <1>7, OtherStepKeepsAttempt DEF AttemptInv
<1> QED
  BY <1>3, <1>4, <1>5, <1>6, <1>7 DEF RecoveryNext, RecoveryStep

(* However localization callbacks, goals and the arm service interleave, a *)
(* goal gets one degraded recovery of on_localization and on_goal_active,  *)
(* plus at most one for each call that arms the gate during the goal.       *)
THEOREM RecoveriesBoundedByArmsHolds == RecoverySpec => []RecoveriesBoundedByArms
<1>1. AttemptInv => RecoveriesBoundedByArms
  BY DEF AttemptInv, RecoveriesBoundedByArms
<1> QED BY <1>1, AttemptInvInit, AttemptInvStep, PTL DEF RecoverySpec
-----------------------------------------------------------------------------
(* The samples that lift the fitness block.                                 *)

(* What one sample does to the count of the hysteresis, and when it lifts  *)
(* the block.                                                               *)
LEMMA UpdateFitnessCount ==
    ASSUME NEW n \in Nat, NEW h \in Hysteresis(n),
           NEW value \in Nat \cup {NonFinite}, NEW block \in Nat,
           NEW clear \in Nat, NEW samples \in Nat
    PROVE  LET u == UpdateFitness(h, value, block, clear, samples)
           IN  /\ u.clear_count = 0 \/ (Within(value, clear)
                                        /\ u.clear_count = h.clear_count + 1)
               /\ h.blocked /\ ~u.blocked
                    => Within(value, clear) /\ h.clear_count + 1 >= samples
<1> DEFINE u == UpdateFitness(h, value, block, clear, samples)
<1>1. CASE value = NonFinite
  <2>1. u.blocked /\ u.clear_count = 0
    BY <1>1 DEF UpdateFitness, IsFinite
  <2> QED BY <2>1
<1>2. CASE value # NonFinite /\ h.blocked
  <2>1. u = UpdateBlocked(h, value, clear, samples)
    BY <1>2 DEF UpdateFitness, IsFinite
  <2>2. value <= clear <=> Within(value, clear)
    BY <1>2 DEF Within, IsFinite
  <2> DEFINE freed == value <= clear /\ h.clear_count + 1 >= samples
  <2>3. u.blocked = ~freed
    <3> HIDE DEF freed
    <3>1. UpdateBlocked(h, value, clear, samples).blocked = ~freed
      BY DEF UpdateBlocked, freed
    <3> HIDE DEF u
    <3> QED BY <2>1, <3>1
  <2>4. u.clear_count = IF freed THEN 0
                        ELSE IF value <= clear THEN h.clear_count + 1 ELSE 0
    BY <2>1 DEF UpdateBlocked
  <2> QED BY <2>2, <2>3, <2>4
<1>3. CASE value # NonFinite /\ ~h.blocked
  <2>1. u = UpdateAllowed(h, value, block)
    BY <1>3 DEF UpdateFitness, IsFinite
  <2>2. u.clear_count = 0
    BY <2>1 DEF UpdateAllowed
  <2> QED BY <1>3, <2>2
<1> QED BY <1>1, <1>2, <1>3

(* The inductive invariant: the count of the hysteresis never runs ahead   *)
(* of the run of good samples, also between the two halves of              *)
(* on_localization, when goal, plan or mode may have moved the thresholds.  *)
RunInv ==
    /\ TypeOK
    /\ good_run \in 0 .. FewestSamples
    /\ ~loc_job.busy => \/ good_run = FewestSamples
                        \/ fitness_hysteresis.clear_count <= good_run
    /\ loc_job.busy =>
         /\ loc_job.clear <= TerminalClear
         /\ loc_job.samples >= FewestSamples
         /\ Within(last_fitness, TerminalClear)
              => \/ good_run = FewestSamples
                 \/ fitness_hysteresis.clear_count + 1 <= good_run

LEMMA FewestSamplesWithin ==
    /\ FewestSamples \in Nat \ {0}
    /\ FewestSamples <= FitnessSamples /\ FewestSamples <= DegradedSamples
BY FitnessAssumption DEF FewestSamples

LEMMA RunInvInit == RecoveryInit => RunInv
<1> SUFFICES ASSUME RecoveryInit PROVE RunInv
  OBVIOUS
<1>1. TypeOK
  BY TypeInit DEF RecoveryInit
<1>2. good_run = 0 /\ loc_job = IdleJob /\ fitness_hysteresis = InitHysteresis
  BY DEF RecoveryInit, Init
<1>3. fitness_hysteresis.clear_count = 0
  BY <1>2 DEF InitHysteresis
<1>4. ~loc_job.busy
  BY <1>2 DEF IdleJob
<1> QED BY <1>1, <1>2, <1>3, <1>4, FewestSamplesWithin DEF RunInv

(* Restarting the hysteresis only lowers its count and keeps the block. *)
LEMMA RestartLowersCount ==
    ASSUME TypeOK,
           fitness_hysteresis' = HysteresisRestarted(fitness_hysteresis)
             \/ fitness_hysteresis' = HoldOver(fitness_hysteresis)
             \/ UNCHANGED fitness_hysteresis
    PROVE  /\ fitness_hysteresis'.clear_count \in Nat
           /\ fitness_hysteresis.clear_count \in Nat
           /\ fitness_hysteresis'.clear_count <= fitness_hysteresis.clear_count
           /\ fitness_hysteresis'.blocked = fitness_hysteresis.blocked
<1>1. fitness_hysteresis \in Hysteresis(FitnessSamples + DegradedSamples)
      /\ FitnessSamples + DegradedSamples \in Nat
  BY FitnessAssumption DEF TypeOK, LocTypeOK
<1>2. fitness_hysteresis.clear_count \in Nat
  BY <1>1 DEF Hysteresis
<1> QED BY <1>1, <1>2 DEF HysteresisRestarted, HoldOver, Hysteresis

(* The thresholds that on_localization selects are within the loosest      *)
(* clear threshold, and ask for at least the fewest samples.                *)
LEMMA ThresholdsWithin ==
    ASSUME NEW deg
    PROVE  LET job == RuntimeThresholds(deg)
           IN  /\ job.busy /\ job.clear <= TerminalClear
               /\ job.samples >= FewestSamples
<1>1. FitnessClear <= TerminalClear /\ TerminalClear \in Nat
  BY FitnessAssumption
<1> QED BY <1>1, FitnessAssumption, FewestSamplesWithin DEF RuntimeThresholds

(* The second half of on_localization: the block is lifted only at the end *)
(* of a run.                                                                *)
LEMMA UpdateEndsRun ==
    ASSUME RunInv, LocalizationUpdate
    PROVE  /\ \/ good_run = FewestSamples
              \/ fitness_hysteresis'.clear_count <= good_run
           /\ fitness_hysteresis.blocked /\ ~fitness_hysteresis'.blocked
                => good_run >= FewestSamples
<1> DEFINE n == FitnessSamples + DegradedSamples
<1>1. /\ n \in Nat /\ fitness_hysteresis \in Hysteresis(n)
      /\ last_fitness \in Nat \cup {NonFinite}
      /\ loc_job.block \in Nat /\ loc_job.clear \in Nat
      /\ loc_job.samples \in Nat
  BY FitnessAssumption DEF RunInv, TypeOK, LocTypeOK
<1>2. fitness_hysteresis' = UpdateFitness(fitness_hysteresis, last_fitness,
                              loc_job.block, loc_job.clear, loc_job.samples)
  BY DEF LocalizationUpdate
<1> DEFINE good == Within(last_fitness, loc_job.clear)
<1> HIDE DEF n
<1>3. /\ fitness_hysteresis'.clear_count = 0
           \/ (good /\ fitness_hysteresis'.clear_count
                        = fitness_hysteresis.clear_count + 1)
      /\ fitness_hysteresis.blocked /\ ~fitness_hysteresis'.blocked
           => good /\ fitness_hysteresis.clear_count + 1 >= loc_job.samples
  BY <1>1, <1>2, UpdateFitnessCount
<1>4. /\ loc_job.clear <= TerminalClear /\ loc_job.samples >= FewestSamples
      /\ Within(last_fitness, TerminalClear)
           => \/ good_run = FewestSamples
              \/ fitness_hysteresis.clear_count + 1 <= good_run
  BY DEF RunInv, LocalizationUpdate
<1>5. good => Within(last_fitness, TerminalClear)
  BY <1>1, <1>4, FitnessAssumption DEF Within, IsFinite
<1>6. good_run \in 0 .. FewestSamples
  BY DEF RunInv
<1>7. fitness_hysteresis.clear_count \in Nat
  BY <1>1 DEF Hysteresis
<1> HIDE DEF good
<1> QED BY <1>1, <1>3, <1>4, <1>5, <1>6, <1>7, FewestSamplesWithin

LEMMA RunInvStep ==
    ASSUME RunInv, [RecoveryNext]_recoveryVars
    PROVE  /\ RunInv'
           /\ fitness_hysteresis.blocked /\ ~fitness_hysteresis'.blocked
                => good_run >= FewestSamples
<1>1. TypeOK' /\ TypeOK
  BY TypeStep, RecoveryStepIsGateStep DEF RunInv
<1>2. good_run \in 0 .. FewestSamples
  BY DEF RunInv
<1>3. ASSUME UNCHANGED <<last_fitness, loc_job, good_run>>,
             fitness_hysteresis' = HysteresisRestarted(fitness_hysteresis)
               \/ fitness_hysteresis' = HoldOver(fitness_hysteresis)
               \/ UNCHANGED fitness_hysteresis
      PROVE  RunInv' /\ fitness_hysteresis'.blocked = fitness_hysteresis.blocked
  <2>1. /\ fitness_hysteresis'.clear_count \in Nat
        /\ fitness_hysteresis.clear_count \in Nat
        /\ fitness_hysteresis'.clear_count <= fitness_hysteresis.clear_count
        /\ fitness_hysteresis'.blocked = fitness_hysteresis.blocked
    BY <1>1, <1>3, RestartLowersCount
  <2>2. UNCHANGED FewestSamples /\ UNCHANGED Within(last_fitness, TerminalClear)
    BY <1>3 DEF FewestSamples, Within
  <2> QED BY <1>1, <1>2, <1>3, <2>1, <2>2, FewestSamplesWithin DEF RunInv
<1>4. CASE UNCHANGED recoveryVars
  BY <1>3, <1>4 DEF recoveryVars, vars, locVars
<1>5. ASSUME NEW v \in FitnessInputs, OnLocalization(v),
             good_run' = IF Within(v, TerminalClear)
                         THEN Saturate(good_run + 1, FewestSamples) ELSE 0
      PROVE  RunInv' /\ fitness_hysteresis'.blocked = fitness_hysteresis.blocked
  <2>1. /\ fitness_hysteresis'.clear_count \in Nat
        /\ fitness_hysteresis.clear_count \in Nat
        /\ fitness_hysteresis'.clear_count <= fitness_hysteresis.clear_count
        /\ fitness_hysteresis'.blocked = fitness_hysteresis.blocked
    BY <1>1, <1>5, RestartLowersCount DEF OnLocalization
  <2>2. /\ loc_job'.busy /\ loc_job'.clear <= TerminalClear
        /\ loc_job'.samples >= FewestSamples
    BY <1>5, ThresholdsWithin DEF OnLocalization
  <2>3. /\ ~loc_job.busy /\ last_fitness' = v
        /\ \/ good_run = FewestSamples
           \/ fitness_hysteresis.clear_count <= good_run
    BY <1>5 DEF OnLocalization, RunInv
  <2>4. /\ good_run' \in 0 .. FewestSamples
        /\ Within(v, TerminalClear)
             => good_run' = FewestSamples \/ good_run' = good_run + 1
    BY <1>2, <1>5, FewestSamplesWithin DEF Saturate
  <2>5. good_run = FewestSamples /\ Within(v, TerminalClear)
          => good_run' = FewestSamples
    BY <1>5, FewestSamplesWithin DEF Saturate
  <2>6. Within(last_fitness, TerminalClear)'
          => \/ good_run' = FewestSamples
             \/ fitness_hysteresis'.clear_count + 1 <= good_run'
    <3>1. Within(last_fitness, TerminalClear)' => Within(v, TerminalClear)
      BY <2>3 DEF Within
    <3> QED BY <1>2, <2>1, <2>3, <2>4, <2>5, <3>1
  <2>7. UNCHANGED FewestSamples
    BY DEF FewestSamples
  <2> QED BY <1>1, <2>1, <2>2, <2>4, <2>6, <2>7 DEF RunInv
<1>6. CASE GoalStarts /\ UNCHANGED good_run
  BY <1>3, <1>6 DEF GoalStarts
<1>7. CASE Arm /\ UNCHANGED good_run
  BY <1>3, <1>7 DEF Arm
<1>8. CASE LocalizationUpdate /\ UNCHANGED good_run
  <2>1. ~loc_job'.busy
    BY <1>8 DEF LocalizationUpdate, IdleJob
  <2>2. UNCHANGED FewestSamples
    BY DEF FewestSamples
  <2> QED BY <1>1, <1>2, <1>8, <2>1, <2>2, UpdateEndsRun DEF RunInv
<1>9. ASSUME OtherStep \/ \E s \in Sides, r \in RangeInputs : OnUltrasonicRange(s, r),
             UNCHANGED good_run, ~LocalizationUpdate
      PROVE  RunInv' /\ fitness_hysteresis'.blocked = fitness_hysteresis.blocked
  <2>1. CASE UNCHANGED <<last_fitness, fitness_hysteresis, loc_job>>
    BY <1>3, <1>9, <2>1
  <2>2. CASE FitnessHoldPasses
    BY <1>3, <1>9, <2>2 DEF FitnessHoldPasses
  <2> QED BY <1>9, <2>1, <2>2, OtherStepWriters
<1>10. CASE LocalizationUpdate
  <2>1. UNCHANGED good_run \/ \E v \in FitnessInputs : OnLocalization(v)
    BY <1>10 DEF RecoveryNext, RecoveryStep, recoveryVars
  <2>2. ~(\E v \in FitnessInputs : OnLocalization(v))
    BY <1>10 DEF OnLocalization, LocalizationUpdate
  <2> QED BY <1>8, <1>10, <2>1, <2>2, UpdateEndsRun
<1>11. CASE ~LocalizationUpdate
  <2>1. RunInv' /\ fitness_hysteresis'.blocked = fitness_hysteresis.blocked
    BY <1>3, <1>4, <1>5, <1>6, <1>7, <1>9, <1>11
    DEF RecoveryNext, RecoveryStep, recoveryVars, vars, locVars, GoalStarts, Arm
  <2> QED BY <2>1
<1> QED BY <1>10, <1>11

(* The fitness block is lifted only at the end of a run of                 *)
(* min(FitnessSamples, DegradedSamples) samples within the loosest clear    *)
(* threshold, whatever happens between the two halves of on_localization.   *)
THEOREM UnblockNeedsRunHolds == RecoverySpec => UnblockNeedsRun
<1>1. RunInv /\ [RecoveryNext]_recoveryVars => RunInv'
  BY RunInvStep
<1>2. RunInv /\ [RecoveryNext]_recoveryVars
        => [fitness_hysteresis.blocked /\ ~fitness_hysteresis'.blocked
              => good_run >= FewestSamples]_recoveryVars
  BY RunInvStep
<1> QED BY <1>1, <1>2, RunInvInit, PTL DEF RecoverySpec, UnblockNeedsRun
-----------------------------------------------------------------------------
(* The speed of a recovery.                                                 *)

(* Clamping never enlarges. *)
LEMMA ClampShrinks ==
    ASSUME NEW x \in Int, NEW limit \in Nat
    PROVE  Abs(Clamp(x, limit)) <= Abs(x)
BY DEF Clamp, Abs

(* Counting in units preserves a bound. *)
LEMMA ScaledWithin ==
    ASSUME NEW x \in Int, NEW bound \in Nat, Abs(x) <= bound
    PROVE  x * Unit \in Int /\ Abs(x * Unit) <= bound * Unit
<1>1. Unit \in Nat
  BY UnitPositive
<1>2. \A a, b \in Nat : a <= b => a * Unit <= b * Unit
  BY <1>1
<1>3. x * Unit \in Int /\ bound * Unit \in Int
  BY <1>1
<1>4. CASE x \in Nat
  <2>1. x * Unit \in Nat
    <3>1. \A a, b \in Nat : a * b \in Nat
      OBVIOUS
    <3> QED BY <1>1, <1>4, <3>1
  <2> QED BY <1>2, <1>3, <1>4, <2>1 DEF Abs
<1>5. CASE x \notin Nat
  <2>1. PICK y \in Nat : x = -y
    <3>1. -x \in Nat /\ x = -(-x)
      BY <1>5
    <3> QED BY <3>1
  <2>2. x * Unit = -(y * Unit)
    BY <1>1, <2>1
  <2>3. y * Unit \in Nat
    <3>1. \A a, b \in Nat : a * b \in Nat
      OBVIOUS
    <3> QED BY <1>1, <2>1, <3>1
  <2>4. y <= bound
    BY <1>5, <2>1 DEF Abs
  <2>5. y * Unit <= bound * Unit
    BY <1>2, <2>1, <2>4
  <2> DEFINE w == y * Unit
             z == bound * Unit
             q == x * Unit
  <2>6. q = -w /\ w \in Nat /\ w <= z /\ z \in Int /\ q \in Int
    BY <1>3, <2>2, <2>3, <2>5
  <2> HIDE DEF w, z, q
  <2>7. q \in Int /\ Abs(q) <= z
    BY <2>6 DEF Abs
  <2> QED BY <2>7 DEF q, z
<1> QED BY <1>4, <1>5

(* In recovery no Twist turns faster than the degraded limit. *)
LEMMA DegradedTurnWithin ==
    ASSUME NEW c \in [lin : Int, ang : Int], NEW scale \in Nat, NEW cap \in Nat
    PROVE  Abs(ShapedTwist(c, TRUE, scale, cap).ang) <= DegradedMaxAngular * Unit
<1> DEFINE lin == ShapedLinear(c, scale, cap)
           ang == ShapedAngular(c, TRUE)
           limit == Min({MaxAngular * Unit,
                         Abs(lin) * MaxMotionCurvature + CurvatureSlack * Unit})
<1>1. MaxAngular \in Nat /\ DegradedMaxAngular \in Nat
      /\ MaxInPlaceAngular \in Nat /\ MaxLinear \in Nat /\ c.ang \in Int
      /\ c.lin \in Int
  BY SpeedAssumption
<1>2. ang \in Int /\ Abs(ang) <= DegradedMaxAngular
  <2>1. Clamp(c.ang, MaxAngular) \in Int
    BY <1>1, ClampWithin
  <2>2. ang = Clamp(Clamp(c.ang, MaxAngular), DegradedMaxAngular)
    BY DEF ShapedAngular
  <2> QED BY <1>1, <2>1, <2>2, ClampWithin
<1>3. lin \in Int
  <2> DEFINE x == Clamp(c.lin, MaxLinear)
             k == IF x < 0 THEN scale ELSE TaperSpan
  <2>1. x \in Int /\ k \in Nat
    BY <1>1, ClampWithin, UnitPositive
  <2>2. x * ApproachDistance \in Int /\ cap * TaperSpan \in Nat
    BY <2>1, UnitPositive
  <2>3. x * ApproachDistance * k \in Int
    BY <2>1, <2>2
  <2>4. lin = Clamp(x * ApproachDistance * k, cap * TaperSpan)
    BY DEF ShapedLinear
  <2> HIDE DEF x, k, lin
  <2> QED BY <2>2, <2>3, <2>4, ClampWithin
<1>4. limit \in Nat
  <2> HIDE DEF lin
  <2> QED BY <1>3, CurveLimitIsNatural
<1>5. ShapedTwist(c, TRUE, scale, cap).ang
        = IF InPlace(lin) THEN Clamp(ang, MaxInPlaceAngular) * Unit
          ELSE Clamp(ang * Unit, limit)
  BY DEF ShapedTwist
<1> HIDE DEF lin, ang, limit
<1>6. Abs(Clamp(ang, MaxInPlaceAngular) * Unit) <= DegradedMaxAngular * Unit
  <2> DEFINE y == Clamp(ang, MaxInPlaceAngular)
  <2>1. y \in Int /\ Abs(y) <= Abs(ang)
    BY <1>1, <1>2, ClampWithin, ClampShrinks
  <2>2. Abs(ang) \in Int /\ Abs(y) \in Int
    BY <1>2, <2>1 DEF Abs
  <2> HIDE DEF y
  <2>3. Abs(y) <= DegradedMaxAngular
    BY <1>1, <1>2, <2>1, <2>2
  <2>4. Abs(y * Unit) <= DegradedMaxAngular * Unit
    BY <1>1, <2>1, <2>3, ScaledWithin
  <2> QED BY <2>4 DEF y
<1>7. Abs(Clamp(ang * Unit, limit)) <= DegradedMaxAngular * Unit
  <2> DEFINE y == ang * Unit
             z == DegradedMaxAngular * Unit
  <2>1. y \in Int /\ Abs(y) <= z /\ z \in Int
    BY <1>1, <1>2, ScaledWithin, UnitPositive
  <2> HIDE DEF y, z
  <2>2. Clamp(y, limit) \in Int /\ Abs(Clamp(y, limit)) <= Abs(y)
    BY <1>4, <2>1, ClampWithin, ClampShrinks
  <2>3. Abs(y) \in Int /\ Abs(Clamp(y, limit)) \in Int
    BY <2>1, <2>2 DEF Abs
  <2>4. Abs(Clamp(y, limit)) <= z
    BY <2>1, <2>2, <2>3
  <2> QED BY <2>4 DEF y, z
<1> QED BY <1>5, <1>6, <1>7

(* The inductive invariant: a pass that was in recovery from its start is  *)
(* still in recovery, with an active goal if its verdict is to move, and    *)
(* once it has taken its cap that cap is the degraded one.                  *)
SlowInv ==
    /\ TypeOK
    /\ tick.pc # "idle" /\ slow_pass =>
         /\ degraded.mode
         /\ tick.ready => goal_active
         /\ tick.ready /\ tick.pc = "publish"
              => tick.cap <= DegradedMaxLinear * ApproachDistance

LEMMA SlowInvInit == RecoveryInit => SlowInv
<1> SUFFICES ASSUME RecoveryInit PROVE SlowInv
  OBVIOUS
<1>1. TypeOK
  BY TypeInit DEF RecoveryInit
<1>2. tick.pc = "idle"
  BY DEF RecoveryInit, Init, IdleTick
<1> QED BY <1>1, <1>2 DEF SlowInv

(* Nothing but the end of the goal lowers goal_active, and that also ends  *)
(* the recovery.                                                            *)
LEMMA RecoveryNeedsGoal ==
    ASSUME [RecoveryNext]_recoveryVars, goal_active, ~goal_active'
    PROVE  ~degraded'.mode
<1>1. CASE GoalEnds
  BY <1>1 DEF GoalEnds, NoRecovery
<1>2. CASE \E v \in FitnessInputs : OnLocalization(v)
  BY <1>2 DEF OnLocalization, goalVars
<1>3. CASE GoalStarts
  BY <1>3 DEF GoalStarts
<1>4. CASE Arm \/ ArmRefused \/ Disarm
  BY <1>4 DEF Arm, ArmRefused, Disarm, goalVars
<1>5. CASE LocalizationUpdate \/ \E m \in OdomInputs : OnOdom(m)
  BY <1>5 DEF LocalizationUpdate, OnOdom, goalVars
<1>6. CASE UNCHANGED recoveryVars
  BY <1>6 DEF recoveryVars, vars, goalVars
<1> QED
  BY <1>1, <1>2, <1>3, <1>4, <1>5, <1>6, OtherStepWriters
  DEF RecoveryNext, RecoveryStep

LEMMA SlowInvStep == SlowInv /\ [RecoveryNext]_recoveryVars => SlowInv'
<1> SUFFICES ASSUME SlowInv, [RecoveryNext]_recoveryVars PROVE SlowInv'
  OBVIOUS
<1> SUFFICES ASSUME (tick.pc # "idle" /\ slow_pass)'
             PROVE  /\ degraded'.mode
                    /\ tick'.ready => goal_active'
                    /\ tick'.ready /\ tick'.pc = "publish"
                         => tick'.cap <= DegradedMaxLinear * ApproachDistance
  <2>1. TypeOK'
    BY TypeStep, RecoveryStepIsGateStep DEF SlowInv
  <2> QED BY <2>1 DEF SlowInv
<1>1. CASE UNCHANGED recoveryVars
  BY <1>1 DEF SlowInv, recoveryVars, vars, goalVars, locVars, tickVars
<1>2. CASE RecoveryNext /\ UNCHANGED tickVars
  <2>1. tick' = tick /\ tick.pc # "idle"
    BY <1>2 DEF tickVars
  <2>2. slow_pass /\ degraded'.mode
    BY <1>2, <2>1 DEF RecoveryNext, ObservePass
  <2>3. tick.ready => goal_active'
    BY <2>1, <2>2, RecoveryNeedsGoal DEF SlowInv
  <2> QED BY <2>1, <2>2, <2>3 DEF SlowInv
<1>3. CASE RecoveryNext /\ TickReason
  <2>1. tick.pc = "idle" /\ tick'.pc = "profile" /\ tick'.ready = Ready
        /\ UNCHANGED <<goal_active, degraded>>
    BY <1>3 DEF TickReason, goalVars, locVars
  <2>2. degraded'.mode
    BY <1>3, <2>1 DEF RecoveryNext, ObservePass
  <2>3. Ready => goal_active
    BY DEF Ready, MotionPermitted
  <2> QED BY <2>1, <2>2, <2>3
<1>4. CASE RecoveryNext /\ TickProfile
  <2> DEFINE profile == CurrentSpeedProfile(goal_active, degraded.mode,
                          goal_traveled, speed_plan_remaining)
  <2>1. /\ tick.pc = "profile" /\ UNCHANGED <<goal_active, degraded>>
        /\ tick' = [tick EXCEPT !.pc = "publish", !.cap = profile]
    BY <1>4 DEF TickProfile, goalVars, locVars
  <2>2. slow_pass /\ degraded'.mode
    BY <1>4, <2>1 DEF RecoveryNext, ObservePass
  <2>3. /\ goal_active \in BOOLEAN /\ degraded.mode \in BOOLEAN
        /\ goal_traveled \in Nat /\ speed_plan_remaining \in Nat \cup {Unplanned}
    BY DEF SlowInv, TypeOK, GoalTypeOK, LocTypeOK, Recovery
  <2>4. goal_active /\ degraded.mode
          => profile <= DegradedMaxLinear * ApproachDistance
    BY <2>3, ProfileWithin
  <2> HIDE DEF profile
  <2>5. tick'.cap = profile /\ tick'.ready = tick.ready
    <3>1. tick \in [pc : {"idle", "profile", "publish"}, ready : BOOLEAN, cap : Nat]
      BY DEF SlowInv, TypeOK, TickTypeOK
    <3> QED BY <2>1, <3>1
  <2>6. tick.ready => goal_active
    BY <2>1, <2>2 DEF SlowInv
  <2> QED BY <2>1, <2>2, <2>4, <2>5, <2>6
<1>5. CASE RecoveryNext /\ TickPublish
  BY <1>5 DEF TickPublish, IdleTick
<1> QED
  BY <1>1, <1>2, <1>3, <1>4, <1>5, OnlyTickPublishes, RecoveryStepIsGateStep

LEMMA SlowPassPublishes ==
    ASSUME SlowInv, [RecoveryNext]_recoveryVars,
           tick.pc = "publish", tick'.pc = "idle", slow_pass
    PROVE  /\ Abs(out'.lin) <= DegradedMaxLinear * Unit
           /\ Abs(out'.ang) <= DegradedMaxAngular * Unit
<1>1. out' = PublishedTwist
  <2>1. ~UNCHANGED tickVars /\ ~TickReason /\ ~TickProfile
    BY DEF tickVars, TickReason, TickProfile
  <2>2. TickPublish
    BY <2>1, OnlyTickPublishes, RecoveryStepIsGateStep
  <2> QED BY <2>2 DEF TickPublish
<1>2. /\ degraded.mode
      /\ tick.ready => tick.cap <= DegradedMaxLinear * ApproachDistance
  BY DEF SlowInv
<1>3. /\ command \in [lin : Int, ang : Int] /\ degraded.mode = TRUE
      /\ tick.cap \in Nat
  BY <1>2 DEF SlowInv, TypeOK, CmdTypeOK, LocTypeOK, TickTypeOK, Recovery
<1>4. /\ DegradedMaxLinear \in Nat /\ DegradedMaxAngular \in Nat
      /\ ApproachDistance \in Nat /\ TaperSpan \in Nat /\ Unit \in Nat
  BY SpeedAssumption, UnitPositive
<1>5. DegradedMaxLinear * ApproachDistance * TaperSpan = DegradedMaxLinear * Unit
  BY <1>4 DEF Unit
<1>6. CASE tick.ready
  <2> DEFINE twist == ShapedTwist(command, TRUE, RearReverseSpeedScale, tick.cap)
  <2>1. out' = twist
    BY <1>1, <1>3, <1>6 DEF PublishedTwist
  <2>2. RearReverseSpeedScale \in Nat
    BY SpeedScaleWithin DEF SlowInv
  <2>3. /\ twist \in [lin : Int, ang : Int]
        /\ Abs(twist.lin) <= tick.cap * TaperSpan
    BY <1>3, <2>2, ShapedTwistWithin
  <2>4. Abs(twist.ang) <= DegradedMaxAngular * Unit
    BY <1>3, <2>2, DegradedTurnWithin
  <2> HIDE DEF twist
  <2>5. Abs(twist.lin) <= DegradedMaxLinear * Unit
    <3> DEFINE low == DegradedMaxLinear * ApproachDistance
    <3>1. tick.cap <= low /\ low \in Nat
      <4>1. \A a, b \in Nat : a * b \in Nat
        OBVIOUS
      <4> QED BY <1>2, <1>4, <1>6, <4>1
    <3>2. low * TaperSpan = DegradedMaxLinear * Unit
      BY <1>5
    <3> HIDE DEF low
    <3>3. tick.cap * TaperSpan <= low * TaperSpan
      BY <1>3, <1>4, <3>1
    <3>4. tick.cap * TaperSpan \in Int /\ low * TaperSpan \in Int
          /\ Abs(twist.lin) \in Int
      BY <1>3, <1>4, <2>3, <3>1 DEF Abs
    <3> QED BY <2>3, <3>2, <3>3, <3>4
  <2> QED BY <2>1, <2>4, <2>5
<1>7. CASE ~tick.ready
  <2>1. out'.lin = 0 /\ out'.ang = 0
    BY <1>1, <1>7 DEF PublishedTwist, Rest
  <2>2. \A a, b \in Nat : 0 <= a * b
    OBVIOUS
  <2> QED BY <1>4, <2>1, <2>2 DEF Abs
<1> QED BY <1>6, <1>7

(* A pass of tick() that was in degraded recovery throughout publishes     *)
(* within the degraded speed limits, for every profile, taper and command   *)
(* and whatever the callbacks change between its steps.                     *)
THEOREM DegradedSpeedKeptHolds == RecoverySpec => DegradedSpeedKept
<1>1. SlowInv /\ [RecoveryNext]_recoveryVars
        => [tick.pc = "publish" /\ tick'.pc = "idle" /\ slow_pass
              => /\ Abs(out'.lin) <= DegradedMaxLinear * Unit
                 /\ Abs(out'.ang) <= DegradedMaxAngular * Unit]_recoveryVars
  BY SlowPassPublishes
<1> QED BY <1>1, SlowInvInit, SlowInvStep, PTL DEF RecoverySpec, DegradedSpeedKept
-----------------------------------------------------------------------------
(* The yaw turned in place.                                                 *)

LEMMA SpinTypeInvariant == [SpinNext]_spinVars /\ TypeOK => TypeOK'
BY TypeStep, SpinStepIsGateStep

(* What the callbacks other than on_odom and tick() do to the fields the   *)
(* rotation budget depends on.                                              *)
QuietForSpin ==
    /\ UNCHANGED tickVars
    /\ spin' = spin \/ (spin' = NoSpin /\ (armed' # armed \/ ~armed'
                                           \/ goal_active' # goal_active))
    /\ odom # "never" => odom' # "never"
    /\ \/ UNCHANGED command /\ (command_fresh' => command_fresh)
       \/ \E c \in CommandInputs : command' = c

LEMMA SpinWriters ==
    ASSUME OtherThanOdom
    PROVE  QuietForSpin \/ TickReason \/ TickProfile \/ TickPublish
<1> USE DEF QuietForSpin
<1>1. CASE \E v \in FitnessInputs : OnLocalization(v)
  BY <1>1 DEF OnLocalization, odomVars, cmdVars
<1>2. CASE \E s \in Sides, r \in RangeInputs : OnUltrasonicRange(s, r)
  BY <1>2 DEF OnUltrasonicRange, odomVars, cmdVars
<1>3. CASE GoalStarts
  BY <1>3 DEF GoalStarts, cmdVars
<1>4. CASE Arm
  BY <1>4 DEF Arm, cmdVars
<1>5. CASE ArmRefused \/ Disarm
  BY <1>5 DEF ArmRefused, Disarm, cmdVars
<1>6. CASE LocalizationUpdate \/ OnLocalizationPose \/ FitnessHoldPasses
  BY <1>6 DEF LocalizationUpdate, OnLocalizationPose, FitnessHoldPasses,
              odomVars, cmdVars
<1>7. CASE \/ \E n \in PlanLengths : PlannerPublishes(n)
           \/ OnSpeedProfilePlan \/ GoalLeaseRenewed \/ GoalEnds
  BY <1>7 DEF PlannerPublishes, OnSpeedProfilePlan, GoalLeaseRenewed, GoalEnds,
              odomVars, cmdVars
<1>8. CASE \E p \in Peers, good \in HealthInputs : OnPeer(p, good)
  BY <1>8 DEF OnPeer, odomVars, cmdVars
<1>9. CASE \E c \in CommandInputs : OnCommand(c)
  BY <1>9 DEF OnCommand, odomVars
<1>10. CASE \/ \E asking \in CollisionInputs : OnPreCollisionCommand(asking)
            \/ \E straight \in StraightInputs : OnPlan(straight)
  BY <1>10 DEF OnPreCollisionCommand, OnPlan, odomVars
<1>11. CASE \/ \E good \in HealthInputs : OnUltrasonicHealth(good)
            \/ \E s \in Sides : SonarHoldPasses(s)
  BY <1>11 DEF OnUltrasonicHealth, SonarHoldPasses, odomVars, cmdVars
<1>12. CASE Expire
  <2>1. CASE ExpireOdom
    BY <2>1 DEF ExpireOdom, cmdVars
  <2>2. CASE ExpireCommand
    BY <2>2 DEF ExpireCommand, odomVars
  <2>3. CASE ExpireReversePlan
    BY <2>3 DEF ExpireReversePlan, odomVars
  <2>4. CASE \/ \E p \in Peers : ExpirePeer(p)
             \/ ExpireLease \/ ExpireLocalization \/ ExpireSonarHealth
             \/ \E s \in Sides : ExpireSonar(s)
    BY <2>4 DEF ExpirePeer, ExpireLease, ExpireLocalization, ExpireSonar,
                ExpireSonarHealth, odomVars, cmdVars
  <2> QED BY <1>12, <2>1, <2>2, <2>3, <2>4 DEF Expire
<1> QED
  BY <1>1, <1>2, <1>3, <1>4, <1>5, <1>6, <1>7, <1>8, <1>9, <1>10, <1>11, <1>12
  DEF OtherThanOdom, StepWithoutOdom

(* The controller only asks for rotations in place, as during one turn of  *)
(* the goal adapter.                                                        *)
RotationOnly ==
    \A c \in CommandInputs : c.ang # 0 /\ Abs(c.lin) < MinLinearForTurn

(* The inductive invariant.  Until the limit is reached the accumulated    *)
(* rotation covers what was really turned; from then on tick() finds no new *)
(* verdict to turn, and what is still on its way -- a Twist just published, *)
(* or a verdict not yet turned into a Twist, never both -- leaves room for  *)
(* one increment.                                                           *)
BudgetInv ==
    /\ TypeOK /\ turned \in Nat
    /\ ~spin.active => spin = NoSpin /\ turned = 0
    /\ turning => spin.active
    /\ turning \/ tick.ready => odom # "never"
    /\ turning \/ tick.ready \/ command_fresh => SmallSpinRequested
    /\ spin.active /\ ~spin.limit
         => turned <= spin.accumulated /\ spin.accumulated < MaxInPlaceRotation
    /\ spin.limit =>
         /\ turned < MaxInPlaceRotation + 2 * LargestTurn
         /\ turning => ~tick.ready
         /\ turning \/ tick.ready => turned < MaxInPlaceRotation + LargestTurn

LEMMA BudgetInvInit == SpinInit => BudgetInv
<1> SUFFICES ASSUME SpinInit PROVE BudgetInv
  OBVIOUS
<1>1. TypeOK
  BY TypeInit DEF SpinInit
<1>2. spin = NoSpin /\ turned = 0 /\ tick = IdleTick
  BY DEF SpinInit, Init
<1>3. ~turning /\ ~command_fresh
  BY Zenon DEF SpinInit, Init
<1>4. ~spin.active /\ ~spin.limit /\ ~tick.ready
  BY <1>2 DEF NoSpin, IdleTick
<1> QED BY <1>1, <1>2, <1>3, <1>4 DEF BudgetInv

(* A command of the rotation-only controller is a small spin. *)
LEMMA RotationIsSmallSpin ==
    ASSUME RotationOnly, NEW c \in CommandInputs, command' = c
    PROVE  SmallSpinRequested'
BY DEF RotationOnly, SmallSpinRequested

LEMMA BudgetNumbers ==
    /\ MaxInPlaceRotation \in Nat \ {0} /\ LargestTurn \in Nat
    /\ 2 * LargestTurn \in Nat /\ TurnBound \in Nat
    /\ 2 * LargestTurn = LargestTurn + LargestTurn
BY FitnessAssumption, RearAssumption, TurnAssumption DEF TurnBound

LEMMA BudgetInvQuiet ==
    ASSUME BudgetInv, RotationOnly, TypeOK', QuietForSpin,
           turned' = IF Renewed THEN 0 ELSE turned,
           turning' = (turning /\ ~Renewed)
    PROVE  BudgetInv'
<1>1. tick' = tick
  BY DEF QuietForSpin, tickVars
<1>2. tick'.ready => odom' # "never"
  BY <1>1 DEF BudgetInv, QuietForSpin
<1>3. SmallSpinRequested' \/ (UNCHANGED SmallSpinRequested
                              /\ (command_fresh' => command_fresh))
  BY RotationIsSmallSpin DEF QuietForSpin, SmallSpinRequested
<1>4. CASE spin' = spin
  <2>1. ~Renewed
    BY <1>4 DEF Renewed
  <2>2. turned' = turned /\ (turning' <=> turning)
    BY <2>1 DEF BudgetInv
  <2>3. turning' => odom' # "never"
    BY <2>2 DEF BudgetInv, QuietForSpin
  <2> QED BY <1>1, <1>2, <1>3, <1>4, <2>2, <2>3 DEF BudgetInv
<1>5. CASE spin # NoSpin /\ spin' = NoSpin
  <2>1. Renewed
    BY <1>5 DEF Renewed
  <2>2. turned' = 0 /\ ~turning'
    BY <2>1
  <2>3. ~spin'.active /\ ~spin'.limit
    BY <1>5 DEF NoSpin
  <2> QED BY <1>1, <1>2, <1>3, <1>5, <2>2, <2>3 DEF BudgetInv
<1> QED BY <1>4, <1>5 DEF QuietForSpin

LEMMA BudgetInvTick ==
    ASSUME BudgetInv, TypeOK', TickReason \/ TickProfile \/ TickPublish,
           turned' = IF Renewed THEN 0 ELSE turned,
           turning' = IF tick.pc = "publish" /\ tick'.pc = "idle"
                      THEN out'.lin = 0 /\ out'.ang # 0
                      ELSE turning /\ ~Renewed
    PROVE  BudgetInv'
<1>1. UNCHANGED <<odom, command, command_fresh>>
      /\ UNCHANGED SmallSpinRequested
  BY DEF TickReason, TickProfile, TickPublish, odomVars, cmdVars,
         SmallSpinRequested
<1>2. CASE TickReason
  <2>1. /\ UNCHANGED spin /\ tick.pc = "idle" /\ tick'.ready = Ready
    BY <1>2 DEF TickReason, odomVars
  <2>2. ~Renewed
    BY <2>1 DEF Renewed
  <2>3. turned' = turned /\ (turning' <=> turning)
    BY <2>1, <2>2
  <2>4. Ready => odom # "never" /\ command_fresh
    BY DEF Ready, MotionPermitted, CommandPermitted
  <2>5. Ready => SmallSpinRequested /\ ~spin.limit
    BY <2>4 DEF BudgetInv, Ready, CommandPermitted
  <2> QED BY <1>1, <2>1, <2>3, <2>4, <2>5 DEF BudgetInv
<1>3. CASE TickProfile
  <2>1. tick'.ready = tick.ready
    <3>1. tick \in [pc : {"idle", "profile", "publish"}, ready : BOOLEAN, cap : Nat]
      BY DEF BudgetInv, TypeOK, TickTypeOK
    <3>2. tick' = [tick EXCEPT !.pc = "publish",
                               !.cap = CurrentSpeedProfile(goal_active,
                                         degraded.mode, goal_traveled,
                                         speed_plan_remaining)]
      BY <1>3 DEF TickProfile
    <3> QED BY <3>1, <3>2
  <2>2. UNCHANGED spin /\ tick.pc = "profile" /\ ~Renewed
    BY <1>3 DEF TickProfile, odomVars, Renewed
  <2>3. turned' = turned /\ (turning' <=> turning)
    BY <2>2
  <2> QED BY <1>1, <2>1, <2>2, <2>3 DEF BudgetInv
<1>4. CASE TickPublish
  <2>1. /\ tick.pc = "publish" /\ tick'.pc = "idle" /\ ~tick'.ready
        /\ out' = PublishedTwist
        /\ spin' = IF out'.lin = 0 /\ out'.ang # 0 /\ ~spin.active
                   THEN [NoSpin EXCEPT !.active = TRUE] ELSE spin
    BY <1>4 DEF TickPublish, IdleTick
  <2>2. turning' = (out'.lin = 0 /\ out'.ang # 0)
    BY <2>1
  <2>3. out'.ang # 0 => tick.ready
    BY <2>1 DEF PublishedTwist, Rest
  <2>4. CASE turning' /\ ~spin.active
    <3>1. spin' = [NoSpin EXCEPT !.active = TRUE]
      BY <2>1, <2>2, <2>4
    <3>2. spin'.active /\ ~spin'.limit /\ spin'.accumulated = 0
      BY <3>1 DEF NoSpin
    <3>3. turned' = 0
      BY <2>4 DEF BudgetInv
    <3> QED BY <1>1, <2>1, <2>2, <2>3, <2>4, <3>2, <3>3, BudgetNumbers DEF BudgetInv
  <2>5. CASE ~(turning' /\ ~spin.active)
    <3>1. spin' = spin
      BY <2>1, <2>2, <2>5
    <3>2. turned' = turned
      BY <3>1 DEF Renewed
    <3> QED BY <1>1, <2>1, <2>2, <2>3, <2>5, <3>1, <3>2 DEF BudgetInv
  <2> QED BY <2>4, <2>5
<1> QED BY <1>2, <1>3, <1>4

(* on_odom charges the increment of every in-place Twist, and sets the      *)
(* limit in time.                                                           *)
LEMMA BudgetInvOdom ==
    ASSUME BudgetInv, TypeOK', NEW m \in OdomInputs, OnOdom(m),
           turned' = IF Renewed THEN 0
                     ELSE IF turning THEN Saturate(turned + m.turn, TurnBound)
                     ELSE turned,
           ~turning'
    PROVE  BudgetInv'
<1>1. UNCHANGED <<tick, command, command_fresh>> /\ odom' = "fresh"
      /\ UNCHANGED SmallSpinRequested
  BY DEF OnOdom, tickVars, cmdVars, SmallSpinRequested
<1>2. m.turn \in Nat /\ m.step \in Nat /\ m.turn <= LargestTurn
  BY InputAssumption, TurnAssumption
<1>3. spin \in SpinBudget /\ turned \in Nat
  BY DEF BudgetInv, TypeOK, OdomTypeOK
<1>4. CASE Renewed
  <2>1. spin' = NoSpin /\ turned' = 0
    BY <1>4 DEF Renewed
  <2>2. ~spin'.active /\ ~spin'.limit
    BY <2>1 DEF NoSpin
  <2> QED BY <1>1, <2>1, <2>2 DEF BudgetInv
<1>5. CASE ~Renewed
  <2> DEFINE charged == spin.active /\ odom # "never" /\ SmallSpinRequested
             total == IF charged
                      THEN Saturate(spin.accumulated + m.turn, MaxInPlaceRotation)
                      ELSE spin.accumulated
             limit == spin.limit \/ (charged /\ total >= MaxInPlaceRotation)
  <2>1. /\ turned' = IF turning THEN Saturate(turned + m.turn, TurnBound)
                     ELSE turned
    BY <1>5
  <2>2. turned' \in Nat /\ turned' <= turned + m.turn
        /\ (~turning => turned' = turned)
    <3>1. turned + m.turn \in Nat
      BY <1>2, <1>3
    <3>2. Saturate(turned + m.turn, TurnBound) \in Nat
          /\ Saturate(turned + m.turn, TurnBound) <= turned + m.turn
      BY <3>1, BudgetNumbers DEF Saturate
    <3> QED BY <1>2, <1>3, <2>1, <3>2
  <2>3. CASE ~spin.active
    <3>1. spin = NoSpin /\ turned = 0 /\ ~turning
      BY <2>3 DEF BudgetInv
    <3>2. spin' = NoSpin
      <4>1. SpinAfter(m, FALSE) = [NoSpin EXCEPT !.accumulated = 0,
                                     !.limit = FALSE, !.moved = 0]
        BY <3>1 DEF SpinAfter, NoSpin
      <4>2. SpinAfter(m, FALSE) = NoSpin
        BY <4>1 DEF NoSpin
      <4>3. SpinAfter(m, TRUE) = NoSpin
        BY DEF SpinAfter
      <4>4. PICK far \in {FALSE, MayBeFar(m)} : spin' = SpinAfter(m, far)
        BY DEF OnOdom
      <4>5. far = FALSE \/ far = TRUE
        BY DEF MayBeFar
      <4> QED BY <4>2, <4>3, <4>4, <4>5
    <3>3. ~spin'.active /\ ~spin'.limit
      BY <3>2 DEF NoSpin
    <3> QED BY <1>1, <2>2, <3>1, <3>2, <3>3 DEF BudgetInv
  <2>4. CASE spin.active
    <3>1. spin' = SpinAfter(m, FALSE)
      <4>1. PICK far \in {FALSE, MayBeFar(m)} : spin' = SpinAfter(m, far)
        BY DEF OnOdom
      <4>2. spin # NoSpin
        BY <2>4 DEF NoSpin
      <4>3. spin' # NoSpin
        BY <1>5, <4>2 DEF Renewed
      <4>4. far # TRUE
        BY <4>1, <4>3 DEF SpinAfter
      <4>5. far = FALSE \/ far = TRUE
        BY DEF MayBeFar
      <4> QED BY <4>1, <4>4, <4>5
    <3>2. /\ spin'.active = spin.active
          /\ spin'.accumulated = total
          /\ spin'.limit = limit
      BY <1>3, <3>1 DEF SpinAfter, SpinBudget
    <3>3. spin'.active
      BY <2>4, <3>2
    <3>4. spin.accumulated \in 0 .. MaxInPlaceRotation
      BY <1>3 DEF SpinBudget
    <3>5. spin.limit => spin'.limit
      BY <3>2
    <3>6. CASE ~spin'.limit
      <4>1. ~spin.limit /\ ~(charged /\ total >= MaxInPlaceRotation)
        BY <3>2, <3>6
      <4>2. turned <= spin.accumulated /\ spin.accumulated < MaxInPlaceRotation
        BY <2>4, <4>1 DEF BudgetInv
      <4>3. turning => charged
        BY <2>4 DEF BudgetInv
      <4>4. CASE charged
        <5>1. total < MaxInPlaceRotation
              /\ total = Saturate(spin.accumulated + m.turn, MaxInPlaceRotation)
          <6>1. total = Saturate(spin.accumulated + m.turn, MaxInPlaceRotation)
            BY <4>4
          <6>2. spin.accumulated + m.turn \in Nat
            BY <1>2, <3>4
          <6>3. Saturate(spin.accumulated + m.turn, MaxInPlaceRotation) \in Nat
            BY <6>2, BudgetNumbers DEF Saturate
          <6> HIDE DEF total, charged
          <6>4. total \in Nat
            BY <6>1, <6>3
          <6> QED BY <4>1, <4>4, <6>1, <6>4, BudgetNumbers
        <5>2. total = spin.accumulated + m.turn
          <6> HIDE DEF total
          <6> QED BY <1>2, <3>4, <5>1, BudgetNumbers DEF Saturate
        <5>3. turned' <= total
          <6> HIDE DEF total
          <6> QED BY <1>2, <1>3, <2>2, <3>4, <4>2, <5>2
        <5> HIDE DEF total
        <5> QED BY <1>1, <2>2, <3>2, <3>3, <3>6, <5>1, <5>3 DEF BudgetInv
      <4>5. CASE ~charged
        <5>1. turned' = turned /\ total = spin.accumulated
          BY <2>2, <4>3, <4>5
        <5> HIDE DEF total
        <5> QED BY <1>1, <2>2, <3>2, <3>3, <3>6, <4>2, <5>1 DEF BudgetInv
      <4> QED BY <4>4, <4>5
    <3>7. CASE spin'.limit /\ ~spin.limit
      <4>1. turned < MaxInPlaceRotation
        BY <1>3, <2>4, <3>4, <3>7, BudgetNumbers DEF BudgetInv
      <4>2. turned' < MaxInPlaceRotation + LargestTurn
        BY <1>2, <1>3, <2>2, <4>1, BudgetNumbers
      <4>3. turned' < MaxInPlaceRotation + 2 * LargestTurn
        BY <2>2, <4>2, BudgetNumbers
      <4> QED BY <1>1, <2>2, <3>3, <3>7, <4>2, <4>3 DEF BudgetInv
    <3>8. CASE spin'.limit /\ spin.limit
      <4>1. CASE turning
        <5>1. turned < MaxInPlaceRotation + LargestTurn /\ ~tick.ready
          BY <3>8, <4>1 DEF BudgetInv
        <5>2. turned' < MaxInPlaceRotation + 2 * LargestTurn
          BY <1>2, <1>3, <2>2, <5>1, BudgetNumbers
        <5> QED BY <1>1, <2>2, <3>3, <3>8, <5>1, <5>2 DEF BudgetInv
      <4>2. CASE ~turning
        <5>1. turned' = turned
          BY <2>2, <4>2
        <5> QED BY <1>1, <2>2, <3>3, <3>8, <5>1 DEF BudgetInv
      <4> QED BY <4>1, <4>2
    <3> QED BY <3>5, <3>6, <3>7, <3>8
  <2> QED BY <2>3, <2>4
<1> QED BY <1>4, <1>5

LEMMA BudgetInvStep ==
    ASSUME RotationOnly
    PROVE  BudgetInv /\ [SpinNext]_spinVars => BudgetInv'
<1> SUFFICES ASSUME BudgetInv, [SpinNext]_spinVars PROVE BudgetInv'
  OBVIOUS
<1>1. TypeOK'
  BY SpinTypeInvariant DEF BudgetInv
<1>2. CASE UNCHANGED spinVars
  <2>1. QuietForSpin /\ ~Renewed /\ turned' = turned /\ (turning' <=> turning)
    BY <1>2 DEF QuietForSpin, Renewed, spinVars, vars, odomVars, cmdVars
  <2>2. /\ UNCHANGED <<spin, tick, odom, command_fresh>>
        /\ UNCHANGED SmallSpinRequested
    BY <1>2 DEF spinVars, vars, odomVars, cmdVars, tickVars, SmallSpinRequested
  <2> QED BY <1>1, <2>1, <2>2 DEF BudgetInv
<1>3. ASSUME NEW m \in OdomInputs, OnOdom(m),
             turned' = IF Renewed THEN 0
                       ELSE IF turning THEN Saturate(turned + m.turn, TurnBound)
                       ELSE turned,
             turning' = FALSE
      PROVE  BudgetInv'
  BY <1>1, <1>3, BudgetInvOdom
<1>4. ASSUME OtherThanOdom,
             turned' = IF Renewed THEN 0 ELSE turned,
             turning' = IF tick.pc = "publish" /\ tick'.pc = "idle"
                        THEN out'.lin = 0 /\ out'.ang # 0
                        ELSE turning /\ ~Renewed
      PROVE  BudgetInv'
  <2>1. CASE TickReason \/ TickProfile \/ TickPublish
    BY <1>1, <1>4, <2>1, BudgetInvTick
  <2>2. CASE QuietForSpin
    <3>1. ~(tick.pc = "publish" /\ tick'.pc = "idle")
      BY <2>2 DEF QuietForSpin, tickVars
    <3>2. turning' = (turning /\ ~Renewed)
      BY <1>4, <3>1
    <3> QED BY <1>1, <1>4, <2>2, <3>2, BudgetInvQuiet
  <2> QED BY <1>4, <2>1, <2>2, SpinWriters
<1> QED BY <1>2, <1>3, <1>4 DEF SpinNext

(* Under a controller that rotates in place, the yaw really turned since   *)
(* the budget was last renewed stays below max_in_place_rotation plus two   *)
(* odometry increments, for every limit and every increment.  (With a       *)
(* controller that mixes rotations and translations on_odom() charges       *)
(* nothing while the last command translates, and no such bound holds.)     *)
THEOREM RotationStaysBoundedHolds ==
    ASSUME RotationOnly
    PROVE  SpinSpec => []RotationStaysBounded
<1>1. BudgetInv => RotationStaysBounded
  <2> SUFFICES ASSUME BudgetInv PROVE RotationStaysBounded
    OBVIOUS
  <2>1. spin.accumulated \in Nat /\ turned \in Nat
    BY BudgetNumbers DEF BudgetInv, TypeOK, OdomTypeOK, SpinBudget
  <2>2. CASE ~spin.active \/ ~spin.limit
    <3>1. turned < MaxInPlaceRotation
      BY <2>1, <2>2, BudgetNumbers DEF BudgetInv
    <3> QED BY <2>1, <3>1, BudgetNumbers DEF RotationStaysBounded
  <2>3. CASE spin.limit
    BY <2>3 DEF BudgetInv, RotationStaysBounded
  <2> QED BY <2>2, <2>3
<1>2. BudgetInv /\ [SpinNext]_spinVars => BudgetInv'
  BY BudgetInvStep
<1> QED BY <1>1, <1>2, BudgetInvInit, PTL DEF SpinSpec

(* A limit is only ever set in an active budget. *)
LimitInv == TypeOK /\ (~spin.active => spin = NoSpin)

LEMMA LimitInvStep ==
    ASSUME LimitInv, [SpinNext]_spinVars
    PROVE  /\ LimitInv'
           /\ spin.limit /\ ~spin'.limit
                => \/ goal_active' # goal_active
                   \/ armed' # armed \/ ~armed'
                   \/ spin.moved >= SpinResetDistance
                   \/ odom' = "fresh" /\ \E m \in OdomInputs : MayBeFar(m)
<1>1. TypeOK'
  BY SpinTypeInvariant DEF LimitInv
<1>2. CASE UNCHANGED spin
  BY <1>1, <1>2 DEF LimitInv
<1>3. CASE spin' = NoSpin /\ (armed' # armed \/ ~armed'
                              \/ goal_active' # goal_active)
  BY <1>1, <1>3 DEF LimitInv
<1>4. CASE TickPublish
  <2>1. CASE spin' = spin
    BY <1>2, <2>1
  <2>2. CASE spin' # spin
    <3>1. ~spin.active /\ spin' = [NoSpin EXCEPT !.active = TRUE]
      BY <1>4, <2>2 DEF TickPublish
    <3>2. spin'.active /\ ~spin.limit
      BY <3>1 DEF LimitInv, NoSpin
    <3> QED BY <1>1, <3>2 DEF LimitInv
  <2> QED BY <2>1, <2>2
<1>5. ASSUME NEW m \in OdomInputs, OnOdom(m)
      PROVE  /\ LimitInv'
             /\ spin.limit /\ ~spin'.limit => odom' = "fresh" /\ MayBeFar(m)
  <2>1. PICK far \in {FALSE, MayBeFar(m)} : spin' = SpinAfter(m, far)
    BY <1>5 DEF OnOdom
  <2>2. spin \in SpinBudget /\ odom' = "fresh"
    BY <1>5 DEF LimitInv, TypeOK, OdomTypeOK, OnOdom
  <2>3. CASE far
    <3>1. spin' = NoSpin /\ MayBeFar(m)
      BY <2>1, <2>3 DEF SpinAfter
    <3> QED BY <1>1, <2>2, <3>1 DEF LimitInv
  <2>4. CASE ~far
    <3>1. spin'.active = spin.active /\ (spin.limit => spin'.limit)
      BY <2>1, <2>2, <2>4 DEF SpinAfter, SpinBudget
    <3>2. ~spin.active => spin' = NoSpin
      <4>1. SUFFICES ASSUME ~spin.active PROVE spin' = NoSpin
        OBVIOUS
      <4>2. spin = NoSpin
        BY <4>1 DEF LimitInv
      <4>3. spin' = [NoSpin EXCEPT !.accumulated = 0, !.limit = FALSE, !.moved = 0]
        BY <2>1, <2>4, <4>2 DEF SpinAfter, NoSpin
      <4> QED BY <4>3 DEF NoSpin
    <3> QED BY <1>1, <2>2, <3>1, <3>2 DEF LimitInv
  <2> QED BY <2>3, <2>4
<1>6. CASE OtherThanOdom
  <2>1. CASE QuietForSpin
    BY <1>2, <1>3, <2>1 DEF QuietForSpin
  <2>2. CASE TickReason \/ TickProfile
    BY <1>2, <2>2 DEF TickReason, TickProfile, odomVars
  <2> QED BY <1>4, <1>6, <2>1, <2>2, SpinWriters
<1>7. CASE UNCHANGED spinVars
  BY <1>2, <1>7 DEF spinVars, vars, odomVars
<1> QED BY <1>5, <1>6, <1>7 DEF SpinNext

(* Once reached, the rotation limit is lifted only by a new goal, by a     *)
(* change of arming or by travelling small_spin_reset_distance, whatever    *)
(* commands the controller sends.                                           *)
THEOREM SpinLimitHoldsHolds == SpinSpec => SpinLimitHolds
<1>1. SpinInit => LimitInv
  BY TypeInit DEF SpinInit, LimitInv, Init
<1>2. LimitInv /\ [SpinNext]_spinVars => LimitInv'
  BY LimitInvStep
<1>3. LimitInv /\ [SpinNext]_spinVars
        => [spin.limit /\ ~spin'.limit
              => \/ goal_active' # goal_active
                 \/ armed' # armed \/ ~armed'
                 \/ spin.moved >= SpinResetDistance
                 \/ odom' = "fresh" /\ \E m \in OdomInputs : MayBeFar(m)]_spinVars
  BY LimitInvStep
<1> QED BY <1>1, <1>2, <1>3, PTL DEF SpinSpec, SpinLimitHolds
=============================================================================
