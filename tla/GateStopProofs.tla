--------------------------- MODULE GateStopProofs ---------------------------
(***************************************************************************)
(* Theorems about how the motion gate stops, for every value of the        *)
(* constants and any number of sensors: at most one Twist after permission *)
(* is lost, tick() implements the licence scheme of MotionLicence, and     *)
(* reversing waits for the evidence of every rear sensor.                  *)
(***************************************************************************)
EXTENDS GateStop, GateRear, MotionGateProofs

(* What MotionPermitted reads. *)
permitVars == <<armed, peerVars, goalVars, locVars, odom>>

(* tick() changes nothing that MotionPermitted reads. *)
LEMMA TickKeepsPermission ==
    ASSUME TickReason \/ TickProfile \/ TickPublish
    PROVE  MotionPermitted' = MotionPermitted
<1>1. UNCHANGED permitVars
  BY DEF permitVars, TickReason, TickProfile, TickPublish, odomVars
<1> QED
  BY <1>1 DEF permitVars, peerVars, goalVars, locVars, MotionPermitted,
              PeersHealthy, RecoveryExhausted

LEMMA PermissionIsBoolean == MotionPermitted \in BOOLEAN
BY DEF MotionPermitted

(* The inductive invariant.  A verdict exists only inside a pass of tick(), *)
(* and once one late Twist went out no verdict to move is left over until   *)
(* motion is permitted again.                                               *)
StopInv ==
    /\ tick.pc = "idle" => tick.ready = FALSE
    /\ late \in {0, 1}
    /\ late = 1 => MotionPermitted \/ ~tick.ready

LEMMA StopInvInit == StopInit => StopInv
BY DEF StopInit, Init, StopInv, IdleTick

LEMMA StopInvStep == StopInv /\ [StopNext]_stopVars => StopInv'
<1> SUFFICES ASSUME StopInv, [StopNext]_stopVars PROVE StopInv'
  OBVIOUS
<1>1. CASE UNCHANGED stopVars
  <2>1. UNCHANGED <<tickVars, late>> /\ UNCHANGED permitVars
    BY <1>1 DEF stopVars, vars, permitVars, odomVars
  <2>2. MotionPermitted' = MotionPermitted
    BY <2>1 DEF permitVars, peerVars, goalVars, locVars, MotionPermitted,
                PeersHealthy, RecoveryExhausted
  <2> QED BY <2>1, <2>2 DEF StopInv, tickVars
<1>2. CASE StopNext /\ UNCHANGED tickVars
  <2>1. ~Publishes
    BY <1>2 DEF Publishes, tickVars
  <2>2. late' = IF MotionPermitted THEN 0 ELSE late
    BY <1>2, <2>1 DEF StopNext, ObserveLate
  <2> QED BY <1>2, <2>2 DEF StopInv, tickVars
<1>3. CASE StopNext /\ TickReason
  <2>1. ~Publishes /\ tick'.pc = "profile" /\ tick'.ready = Ready
    BY <1>3 DEF Publishes, TickReason
  <2>2. late' = IF MotionPermitted THEN 0 ELSE late
    BY <1>3, <2>1 DEF StopNext, ObserveLate
  <2>3. CASE MotionPermitted
    BY <2>1, <2>2, <2>3 DEF StopInv
  <2>4. CASE ~MotionPermitted
    <3>1. ~tick'.ready
      BY <2>1, <2>4 DEF Ready
    <3> QED BY <2>1, <2>2, <2>4, <3>1 DEF StopInv
  <2> QED BY <2>3, <2>4
<1>4. CASE StopNext /\ TickProfile
  <2>1. tick.pc = "profile" /\ ~Publishes
    BY <1>4 DEF Publishes, TickProfile
  <2>2. tick'.pc # "idle" /\ (tick'.ready => tick.ready)
    <3>1. tick' = [tick EXCEPT !.pc = "publish",
                               !.cap = CurrentSpeedProfile(goal_active,
                                         degraded.mode, goal_traveled,
                                         speed_plan_remaining)]
      BY <1>4 DEF TickProfile
    <3> QED BY <3>1
  <2>3. late' = IF MotionPermitted THEN 0 ELSE late
    BY <1>4, <2>1 DEF StopNext, ObserveLate
  <2> QED BY <2>2, <2>3 DEF StopInv
<1>5. CASE StopNext /\ TickPublish
  <2>1. tick'.ready = FALSE /\ Publishes
    BY <1>5 DEF TickPublish, IdleTick, Publishes
  <2>2. out' # Rest => tick.ready
    BY <1>5 DEF TickPublish, PublishedTwist
  <2>3. late' = IF MotionPermitted THEN 0
                ELSE IF out' # Rest THEN Saturate(late + 1, 2) ELSE late
    BY <1>5, <2>1 DEF StopNext, ObserveLate
  <2>4. late' \in {0, 1}
    BY <2>2, <2>3 DEF StopInv, Saturate
  <2> QED BY <2>1, <2>4 DEF StopInv
<1> QED
  BY <1>1, <1>2, <1>3, <1>4, <1>5, OnlyTickPublishes DEF StopNext

(* However the callbacks of the six threads interleave with tick(), at     *)
(* most one moving Twist is published after the gate is disarmed or loses  *)
(* its lease, a health stream, the localization or its recovery budget.     *)
THEOREM StopsWithinOneTickHolds == StopSpec => []StopsWithinOneTick
<1>1. StopInv => StopsWithinOneTick
  BY DEF StopInv, StopsWithinOneTick
<1> QED BY <1>1, StopInvInit, StopInvStep, PTL DEF StopSpec

(* One step of the gate is a step of the licence scheme or a stutter. *)
LEMMA LicenceStep ==
    ASSUME StopInv, [StopNext]_stopVars
    PROVE  [Licence!Next]_Licence!vars
<1> USE DEF Licence!vars
<1>1. CASE UNCHANGED stopVars
  <2>1. UNCHANGED permitVars /\ UNCHANGED tickVars
    BY <1>1 DEF stopVars, vars, permitVars, odomVars
  <2>2. MotionPermitted' = MotionPermitted
    BY <2>1 DEF permitVars, peerVars, goalVars, locVars, MotionPermitted,
                PeersHealthy, RecoveryExhausted
  <2> QED BY <2>1, <2>2 DEF tickVars, Rest
<1>2. CASE StopNext /\ UNCHANGED tickVars
  <2>1. MotionPermitted' \in BOOLEAN
    BY DEF MotionPermitted
  <2>2. Licence!PermissionChanges
    BY <1>2, <2>1 DEF Licence!PermissionChanges, tickVars, Rest
  <2> QED BY <2>2 DEF Licence!Next
<1>3. CASE StopNext /\ TickReason
  <2>1. MotionPermitted' = MotionPermitted
    BY <1>3, TickKeepsPermission
  <2>2. tick.ready = FALSE /\ tick'.ready = Ready /\ UNCHANGED out
    BY <1>3 DEF StopInv, TickReason
  <2>3. CASE Ready
    <3>1. MotionPermitted
      BY <2>3 DEF Ready
    <3>2. Licence!Grant
      BY <2>1, <2>2, <2>3, <3>1 DEF Licence!Grant, Rest
    <3> QED BY <3>2 DEF Licence!Next
  <2>4. CASE ~Ready
    <3>1. Ready = FALSE
      BY <2>4 DEF Ready, MotionPermitted
    <3> QED BY <2>1, <2>2, <3>1 DEF Rest
  <2> QED BY <2>3, <2>4
<1>4. CASE StopNext /\ TickProfile
  <2>1. MotionPermitted' = MotionPermitted
    BY <1>4, TickKeepsPermission
  <2>2. UNCHANGED out /\ tick'.ready = tick.ready
    BY <1>4 DEF TickProfile
  <2> QED BY <2>1, <2>2 DEF Rest
<1>5. CASE StopNext /\ TickPublish
  <2>1. MotionPermitted' = MotionPermitted
    BY <1>5, TickKeepsPermission
  <2>2. tick'.ready = FALSE
    BY <1>5 DEF TickPublish, IdleTick
  <2>3. out' # Rest => tick.ready
    BY <1>5 DEF TickPublish, PublishedTwist
  <2>4. Licence!Publish
    BY <2>1, <2>2, <2>3 DEF Licence!Publish, Rest
  <2> QED BY <2>4 DEF Licence!Next
<1> QED
  BY <1>1, <1>2, <1>3, <1>4, <1>5, OnlyTickPublishes DEF StopNext

(* The gate implements MotionLicence: a Twist that moves the robot uses up *)
(* a verdict of reason() given while motion was permitted.                  *)
THEOREM GateImplementsLicence == StopSpec => LicenceSpec
<1>1. StopInit => Licence!Init
  BY DEF StopInit, Init, Licence!Init, IdleTick, MotionPermitted, Rest
<1>2. StopInv /\ [StopNext]_stopVars => [Licence!Next]_Licence!vars
  BY LicenceStep
<1> QED
  BY <1>1, <1>2, StopInvInit, StopInvStep, PTL
  DEF StopSpec, LicenceSpec, Licence!Spec
-----------------------------------------------------------------------------
(* Reversing (GateRear).                                                    *)

(* The inductive invariant: an open reverse latch has its evidence, and a  *)
(* blocked one counted no more clear samples than really arrived since the *)
(* obstacle.                                                                *)
LatchSound(latch, seen) ==
    /\ seen \in 0 .. FiniteSamples
    /\ ~latch.blocked => seen >= FiniteSamples
    /\ seen >= FiniteSamples \/ latch.clear_count <= seen

RearInv == \A s \in Sides : LatchSound(sonar[s].reverse, clear_since[s])

(* UltrasonicLatch.update with the reverse distances keeps a latch sound. *)
LEMMA UpdateKeepsSound ==
    ASSUME NEW l \in Latch(NoEchoSamples), NEW seen, LatchSound(l, seen),
           NEW r \in RangeInputs, ~IsSelfEcho(r)
    PROVE  LatchSound(UpdateLatch(l, r, StopDistance, ClearDistance,
                                  FiniteSamples, NoEchoSamples),
                      AfterReading(seen, r))
<1> DEFINE kind == SampleKind(r, StopDistance, ClearDistance)
           new == UpdateLatch(l, r, StopDistance, ClearDistance,
                              FiniteSamples, NoEchoSamples)
           after == AfterReading(seen, r)
<1> SUFFICES LatchSound(new, after)
  OBVIOUS
<1>1. /\ FiniteSamples \in Nat \ {0} /\ NoEchoSamples \in Nat
      /\ FiniteSamples <= NoEchoSamples
      /\ StopDistance \in Nat /\ ClearDistance \in Nat
      /\ StopDistance < ClearDistance
      /\ r \in Nat \cup {NoEcho, Invalid}
  BY SpeedAssumption, RearAssumption, InputAssumption
<1>2. seen \in 0 .. FiniteSamples /\ l.clear_count \in Nat
  BY DEF LatchSound, Latch
<1>3. Uncounted(l).clear_count = 0 /\ Uncounted(l).blocked = l.blocked
  BY DEF Uncounted, Latch
<1>4. CASE kind = "obstacle"
  <2>1. ObstacleReading(r)
    BY <1>1, <1>4 DEF SampleKind, ObstacleReading, NoEcho, Invalid
  <2>2. after = 0
    BY <2>1 DEF AfterReading
  <2>3. new.blocked = TRUE /\ new.clear_count = 0
    <3>1. new = [Uncounted(l) EXCEPT !.blocked = TRUE, !.holding = TRUE]
      BY <1>4 DEF UpdateLatch
    <3> QED BY <3>1, <1>3 DEF Uncounted, Latch
  <2> HIDE DEF new, after
  <2> QED BY <1>1, <2>2, <2>3 DEF LatchSound
<1>5. CASE kind = "between"
  <2>1. ~ObstacleReading(r) /\ ~ClearReading(r)
    BY <1>1, <1>5 DEF SampleKind, ObstacleReading, ClearReading, NoEcho, Invalid
  <2>2. after = seen
    BY <2>1 DEF AfterReading
  <2>3. new = Uncounted(l)
    BY <1>5 DEF UpdateLatch
  <2> HIDE DEF new, after
  <2> QED BY <1>1, <1>2, <1>3, <2>2, <2>3 DEF LatchSound
<1>6. CASE kind \in {"finite", "no_echo"}
  <2>1. ~ObstacleReading(r) /\ ClearReading(r)
    BY <1>1, <1>6 DEF SampleKind, ObstacleReading, ClearReading, NoEcho, Invalid
  <2>2. after = Saturate(seen + 1, FiniteSamples)
    BY <2>1 DEF AfterReading
  <2>3. after \in 0 .. FiniteSamples /\ after >= seen
        /\ (after >= FiniteSamples \/ after = seen + 1)
    BY <1>1, <1>2, <2>2 DEF Saturate
  <2> DEFINE required == IF kind = "finite" THEN FiniteSamples ELSE NoEchoSamples
             count == IF l.clear_kind = kind THEN l.clear_count + 1 ELSE 1
  <2>4. required \in Nat /\ required >= FiniteSamples
    BY <1>1
  <2>5. count \in Nat /\ (seen >= FiniteSamples \/ count <= seen + 1)
    BY <1>1, <1>2 DEF LatchSound
  <2>6. new = IF ~l.blocked THEN l
              ELSE IF l.holding THEN Uncounted(l)
              ELSE CountClear(l, kind, required)
    BY <1>6 DEF UpdateLatch
  <2> HIDE DEF kind, new, after, required, count
  <2>7. CASE ~l.blocked
    BY <1>1, <1>2, <2>3, <2>6, <2>7 DEF LatchSound
  <2>8. CASE l.blocked /\ l.holding
    <3>1. new = Uncounted(l)
      BY <2>6, <2>8
    <3>2. new.blocked /\ new.clear_count = 0
      BY <1>3, <2>8, <3>1
    <3> QED BY <1>1, <2>3, <3>2 DEF LatchSound
  <2>9. CASE l.blocked /\ ~l.holding
    <3>1. CASE count >= required
      <4>1. after >= FiniteSamples
        BY <1>1, <1>2, <2>3, <2>4, <2>5, <3>1
      <4> QED BY <2>3, <4>1 DEF LatchSound
    <3>2. CASE ~(count >= required)
      <4>1. new = [l EXCEPT !.clear_count = count, !.clear_kind = kind]
        BY <2>6, <2>9, <3>2 DEF CountClear, count
      <4>2. new.clear_count = count /\ new.blocked = l.blocked
        BY <4>1 DEF Latch
      <4> QED BY <1>1, <1>2, <2>3, <2>5, <2>9, <4>2 DEF LatchSound
    <3> QED BY <3>1, <3>2
  <2> QED BY <2>7, <2>8, <2>9
<1>7. kind \in {"no_echo", "obstacle", "finite", "between"}
  BY DEF SampleKind
<1> QED BY <1>4, <1>5, <1>6, <1>7

(* A self echo counts neither as an obstacle nor as a clear reading. *)
LEMMA SelfEchoUncounted ==
    ASSUME NEW r \in RangeInputs, IsSelfEcho(r), NEW seen
    PROVE  AfterReading(seen, r) = seen
<1>1. /\ StopDistance \in Nat /\ ClearDistance \in Nat
      /\ SelfEchoMin \in Nat /\ SelfEchoMax \in Nat
      /\ StopDistance < ClearDistance /\ SelfEchoMax <= StopDistance
      /\ r \in Nat \cup {NoEcho, Invalid}
  BY SpeedAssumption, RearAssumption, InputAssumption
<1>2. ~ObstacleReading(r) /\ ~ClearReading(r)
  BY <1>1 DEF IsSelfEcho, ObstacleReading, ClearReading, NoEcho, Invalid
<1> QED BY <1>2 DEF AfterReading

(* No callback but on_ultrasonic_range releases a reverse latch or touches *)
(* its count.                                                               *)
LEMMA OthersKeepLatches ==
    ASSUME TypeOK,
           \/ \E v \in FitnessInputs : OnLocalization(v)
           \/ GoalStarts \/ Arm \/ OtherStep
           \/ UNCHANGED vars,
           NEW s \in Sides
    PROVE  /\ sonar'[s].reverse.blocked = sonar[s].reverse.blocked
           /\ sonar'[s].reverse.clear_count = sonar[s].reverse.clear_count
<1>1. /\ sonar \in [Sides -> [fresh : BOOLEAN, range : Nat \cup {NoEcho, Invalid},
                              reverse : Latch(NoEchoSamples),
                              turn : Latch(NoEchoSamples)]]
  BY DEF TypeOK, SonarTypeOK
<1>2. CASE \E t \in Sides : SonarHoldPasses(t)
  <2>1. PICK t \in Sides : SonarHoldPasses(t)
    BY <1>2
  <2>2. \A l \in Latch(NoEchoSamples) :
          /\ LatchHoldOver(l).blocked = l.blocked
          /\ LatchHoldOver(l).clear_count = l.clear_count
    BY DEF LatchHoldOver, Latch
  <2> QED BY <1>1, <2>1, <2>2 DEF SonarHoldPasses
<1>3. CASE \E t \in Sides : ExpireSonar(t)
  BY <1>1, <1>3 DEF ExpireSonar
<1>4. CASE sonar' = sonar
  BY <1>4
<1> USE DEF sonarVars
<1>5. CASE \E v \in FitnessInputs : OnLocalization(v)
  BY <1>4, <1>5 DEF OnLocalization
<1>6. CASE GoalStarts \/ Arm \/ ArmRefused \/ Disarm
  BY <1>4, <1>6 DEF GoalStarts, Arm, ArmRefused, Disarm
<1>7. CASE LocalizationUpdate \/ OnLocalizationPose \/ FitnessHoldPasses
  BY <1>4, <1>7 DEF LocalizationUpdate, OnLocalizationPose, FitnessHoldPasses
<1>8. CASE \/ \E n \in PlanLengths : PlannerPublishes(n)
           \/ OnSpeedProfilePlan \/ GoalLeaseRenewed \/ GoalEnds
  BY <1>4, <1>8 DEF PlannerPublishes, OnSpeedProfilePlan, GoalLeaseRenewed,
                    GoalEnds
<1>9. CASE \E m \in OdomInputs : OnOdom(m)
  BY <1>4, <1>9 DEF OnOdom
<1>10. CASE \/ \E p \in Peers, good \in HealthInputs : OnPeer(p, good)
            \/ \E c \in CommandInputs : OnCommand(c)
            \/ \E asking \in CollisionInputs : OnPreCollisionCommand(asking)
            \/ \E straight \in StraightInputs : OnPlan(straight)
            \/ \E good \in HealthInputs : OnUltrasonicHealth(good)
  BY <1>4, <1>10 DEF OnPeer, OnCommand, OnPreCollisionCommand, OnPlan,
                     OnUltrasonicHealth
<1>11. CASE Expire
  BY <1>3, <1>4, <1>11 DEF Expire, ExpirePeer, ExpireLease, ExpireLocalization,
       ExpireOdom, ExpireCommand, ExpireReversePlan, ExpireSonarHealth
<1>12. CASE TickReason \/ TickProfile \/ TickPublish
  BY <1>4, <1>12 DEF TickReason, TickProfile, TickPublish
<1>13. CASE UNCHANGED vars
  BY <1>4, <1>13 DEF vars
<1> QED
  BY <1>2, <1>5, <1>6, <1>7, <1>8, <1>9, <1>10, <1>11, <1>12, <1>13
  DEF OtherStep, StepWithoutOdom

LEMMA RearInvInit == RearInit => RearInv
<1> SUFFICES ASSUME RearInit, NEW s \in Sides
             PROVE  LatchSound(sonar[s].reverse, clear_since[s])
  BY DEF RearInv
<1>1. sonar[s].reverse = InitLatch /\ clear_since[s] = FiniteSamples
  BY DEF RearInit, Init
<1> QED BY <1>1, RearAssumption DEF LatchSound, InitLatch

LEMMA RearInvStep ==
    ASSUME TypeOK, RearInv, clear_since \in [Sides -> 0 .. FiniteSamples],
           [RearNext]_rearVars
    PROVE  RearInv' /\ clear_since' \in [Sides -> 0 .. FiniteSamples]
<1>1. CASE \E s \in Sides, r \in RangeInputs :
             /\ OnUltrasonicRange(s, r)
             /\ clear_since' = [clear_since EXCEPT ![s] = AfterReading(@, r)]
  <2>1. PICK s \in Sides, r \in RangeInputs :
          /\ OnUltrasonicRange(s, r)
          /\ clear_since' = [clear_since EXCEPT ![s] = AfterReading(@, r)]
    BY <1>1
  <2>2. sonar[s].reverse \in Latch(NoEchoSamples)
        /\ sonar \in [Sides -> [fresh : BOOLEAN,
                                range : Nat \cup {NoEcho, Invalid},
                                reverse : Latch(NoEchoSamples),
                                turn : Latch(NoEchoSamples)]]
    BY DEF TypeOK, SonarTypeOK
  <2>3. LatchSound(sonar[s].reverse, clear_since[s])
    BY DEF RearInv
  <2>4. clear_since'[s] = AfterReading(clear_since[s], r)
    BY <2>1
  <2>5. sonar'[s].reverse
          = IF IsSelfEcho(r) THEN sonar[s].reverse
            ELSE UpdateLatch(sonar[s].reverse, r, StopDistance, ClearDistance,
                             FiniteSamples, NoEchoSamples)
    BY <2>1, <2>2 DEF OnUltrasonicRange
  <2>6. LatchSound(sonar'[s].reverse, clear_since'[s])
    <3>1. CASE IsSelfEcho(r)
      BY <2>3, <2>4, <2>5, <3>1, SelfEchoUncounted
    <3>2. CASE ~IsSelfEcho(r)
      BY <2>2, <2>3, <2>4, <2>5, <3>2, UpdateKeepsSound
    <3> QED BY <3>1, <3>2
  <2>7. ASSUME NEW t \in Sides, t # s
        PROVE  LatchSound(sonar'[t].reverse, clear_since'[t])
    <3>1. sonar'[t] = sonar[t] /\ clear_since'[t] = clear_since[t]
      BY <2>1, <2>2, <2>7 DEF OnUltrasonicRange
    <3> QED BY <3>1 DEF RearInv
  <2>8. RearInv'
    BY <2>6, <2>7 DEF RearInv
  <2>9. clear_since'[s] \in 0 .. FiniteSamples
    BY <2>6 DEF LatchSound
  <2> QED BY <2>1, <2>8, <2>9
<1>2. CASE /\ \/ \E v \in FitnessInputs : OnLocalization(v)
              \/ GoalStarts \/ Arm \/ OtherStep
              \/ UNCHANGED vars
           /\ UNCHANGED clear_since
  <2>1. ASSUME NEW s \in Sides
        PROVE  LatchSound(sonar'[s].reverse, clear_since[s])
    <3>1. LatchSound(sonar[s].reverse, clear_since[s])
      BY DEF RearInv
    <3>2. /\ sonar'[s].reverse.blocked = sonar[s].reverse.blocked
          /\ sonar'[s].reverse.clear_count = sonar[s].reverse.clear_count
      BY <1>2, OthersKeepLatches
    <3> QED BY <3>1, <3>2 DEF LatchSound
  <2> QED BY <1>2, <2>1 DEF RearInv
<1> QED BY <1>1, <1>2 DEF RearNext, rearVars

(* The observer only adds to the gate: its steps are steps of the gate. *)
LEMMA RearStepIsGateStep == [RearNext]_rearVars => [Next]_vars
BY DEF RearNext, rearVars, Next

(* The whole inductive invariant of the rear theorems. *)
RearIInv == TypeOK /\ RearInv /\ clear_since \in [Sides -> 0 .. FiniteSamples]

LEMMA RearIInvAlways == RearSpec => []RearIInv
<1>1. RearInit => RearIInv
  <2>1. FiniteSamples \in 0 .. FiniteSamples
    BY RearAssumption
  <2> QED BY <2>1, RearInvInit, TypeInit DEF RearInit, RearIInv
<1>2. RearIInv /\ [RearNext]_rearVars => RearIInv'
  BY RearInvStep, TypeStep, RearStepIsGateStep DEF RearIInv
<1> QED BY <1>1, <1>2, PTL DEF RearSpec

(* UltrasonicLatch never opens early: an open reverse latch saw no         *)
(* obstacle yet, or the configured number of clear readings since.          *)
THEOREM OpenLatchHasEvidenceHolds == RearSpec => []OpenLatchHasEvidence
<1>1. RearIInv => OpenLatchHasEvidence
  BY DEF RearIInv, RearInv, LatchSound, OpenLatchHasEvidence
<1> QED BY <1>1, RearIInvAlways, PTL

(* tick() publishes reverse motion only when every rear sensor has given   *)
(* its clear readings since its last obstacle, however commands, latches   *)
(* and tick() interleave.                                                   *)
THEOREM NoReverseBeforeClearHolds == RearSpec => NoReverseBeforeClear
<1>1. RearIInv /\ [RearNext]_rearVars
        => [out'.lin < 0 /\ tick.pc = "publish" /\ tick'.pc = "idle"
              => \A s \in Sides : clear_since[s] >= FiniteSamples]_rearVars
  <2> SUFFICES ASSUME RearIInv, [RearNext]_rearVars, out'.lin < 0,
                      tick.pc = "publish", tick'.pc = "idle", NEW s \in Sides
               PROVE  clear_since[s] >= FiniteSamples
    OBVIOUS
  <2>1. TickPublish
    <3>1. tickVars' # tickVars
      BY DEF tickVars
    <3> QED BY <3>1, RearStepIsGateStep, OnlyTickPublishes
            DEF TickReason, TickProfile
  <2>2. TypeOK
    BY DEF RearIInv
  <2>3. /\ command \in [lin : Int, ang : Int] /\ degraded.mode \in BOOLEAN
        /\ tick.cap \in Nat
    BY <2>2 DEF TypeOK, CmdTypeOK, LocTypeOK, TickTypeOK, Recovery
  <2>4. out' = ShapedTwist(command, degraded.mode, RearReverseSpeedScale, tick.cap)
    BY <2>1 DEF TickPublish, PublishedTwist, Rest
  <2>5. RearReverseSpeedScale \in Nat
    BY <2>2, SpeedScaleWithin
  <2>6. RearReverseSpeedScale # 0
    BY <2>3, <2>4, <2>5, ShapedTwistWithin
  <2>7. ~sonar[s].reverse.blocked
    BY <2>2, <2>6, SpeedScaleWithin
    DEF RearReverseAllowed, SensorAllowed
  <2> QED BY <2>7 DEF RearIInv, RearInv, LatchSound
<1> QED BY <1>1, RearIInvAlways, PTL DEF RearSpec, NoReverseBeforeClear
=============================================================================
