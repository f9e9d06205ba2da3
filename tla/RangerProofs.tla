----------------------------- MODULE RangerProofs -----------------------------
(***************************************************************************)
(* The chassis driver, for every rate, range of the counter, robot type    *)
(* and set of commands.                                                    *)
(***************************************************************************)
EXTENDS RangerDriverChecks, TLAPS

LEMMA SignBounded ==
  ASSUME NEW n \in Int
  PROVE  Sign(n) \in -1 .. 1 /\ (n # 0 => Sign(n) \in {-1, 1})
  BY DEF Sign

(* Every Twist selects a mode and a command within the limits. *)
LEMMA CommandTyped ==
  ASSUME TypeOK, NEW t \in Twists
  PROVE  ModeOf(t) \in Modes /\ CommandOf(t) \in Commands
<1>1. t.x \in Int /\ t.y \in Int /\ t.w \in Int
  BY DriverAssumption
<1>2. ModeOf(t) \in Modes
  BY DEF ModeOf, Modes
<1>3. Sign(t.x) \in -1 .. 1 /\ Sign(t.y) \in -1 .. 1 /\ Sign(t.w) \in -1 .. 1
  BY <1>1, SignBounded
<1>4. SteeringAngle(t) \in -1 .. 1 /\ last_nonzero_x \in -1 .. 1
  BY DEF SteeringAngle, TypeOK
<1>5. \/ ModeOf(t) = "parallel" /\ t.x # 0
      \/ ModeOf(t) = "parallel" /\ t.x = 0
      \/ ModeOf(t) \in {"dual_ackerman", "spinning", "side_slip"}
  BY <1>2, Zenon DEF Modes
<1>6. \A l, s, a \in -1 .. 1 :
        [mode |-> ModeOf(t), linear |-> l, steer |-> s, angular |-> a] \in Commands
  BY <1>2 DEF Commands
<1>7. CommandOf(t) \in Commands
  BY <1>3, <1>4, <1>5, <1>6 DEF CommandOf
<1> QED  BY <1>2, <1>7

(* The increment of every mode is one of the increments. *)
LEMMA IncrementTyped ==
  ASSUME NEW mode \in Modes, NEW m \in Motions
  PROVE  Increment(mode, m) \in Vectors
<1>1. /\ m.linear \in {-1, 0, 1} /\ m.steer \in {-1, 0, 1} /\ m.angular \in {-1, 0, 1}
  BY DEF Motions
<1>2. m.linear * m.steer \in -1 .. 1
  BY <1>1
<1>3. m.linear \in -1 .. 1 /\ m.angular \in -1 .. 1 /\ 0 \in -1 .. 1
  BY <1>1
<1> QED  BY <1>2, <1>3 DEF Increment, Vectors, Modes

-----------------------------------------------------------------------------
(* The invariant.                                                           *)

(* Without a new command the driver's mode is the one reported last. *)
ModeKept == ~commanded => motion_mode = reported

(* Between two requests the retry count runs ahead of the last multiple of  *)
(* the rate by the passes gone by.                                          *)
CountFollowsPasses ==
    /\ silent \in Int /\ silent <= Rate
    /\ retry_count # 0 =>
         0 <= silent /\ silent < Rate /\ \E q \in Int : retry_count - 1 = Rate * q + silent

LEMMA DriverInitially ==
  ChecksInit => TypeOK /\ ModeKept /\ CountFollowsPasses
<1> SUFFICES ASSUME ChecksInit PROVE TypeOK /\ ModeKept /\ CountFollowsPasses
  OBVIOUS
<1> USE DriverAssumption DEF ChecksInit, Init
<1>1. ModeKept /\ CountFollowsPasses
  BY DEF ModeKept, CountFollowsPasses
<1>2. Parked \in States
  BY DEF Parked, States, Rest, Motions, Modes
<1>3. command \in Commands /\ step \in Vectors
  BY DEF NoCommand, Commands, NoStep, Vectors, Modes
<1>4. request \in BOOLEAN
  BY Zenon
<1> QED  BY <1>1, <1>2, <1>3, <1>4 DEF TypeOK, Modes

LEMMA PassTyped ==
  ASSUME TypeOK, PublishStateToROS
  PROVE  TypeOK'
<1>1. retry_count' \in 0 .. CounterSize - 1
  BY DriverAssumption DEF TypeOK, PublishStateToROS, NextCount
<1>2. seen.mode \in Modes /\ seen.motion \in Motions
  BY DEF TypeOK, States
<1>3. step' \in Vectors
  BY <1>2, IncrementTyped DEF TypeOK, PublishStateToROS
<1>4. request' \in BOOLEAN
  BY Zenon DEF TypeOK, PublishStateToROS
<1> QED  BY <1>1, <1>2, <1>3, <1>4 DEF TypeOK, PublishStateToROS

LEMMA TwistTyped ==
  ASSUME TypeOK, NEW t \in Twists, TwistCmdCallback(t)
  PROVE  TypeOK'
<1>1. t.x # 0 => Sign(t.x) \in {-1, 1}
  BY DriverAssumption, SignBounded
<1>2. last_nonzero_x' \in {-1, 1}
  BY <1>1 DEF TypeOK, TwistCmdCallback
<1>3. motion_mode' \in Modes /\ command' \in Commands
  BY CommandTyped DEF TwistCmdCallback
<1> QED  BY <1>2, <1>3 DEF TypeOK, TwistCmdCallback, busVars

LEMMA BusTyped ==
  ASSUME TypeOK,
         \/ DeliverRequest \/ LoseRequest \/ TakeOver \/ ChassisActs
         \/ \E kind \in {"control", "mode", "motion"} : Frame(kind)
  PROVE  TypeOK'
<1> USE DEF TypeOK, driverVars
<1>1. ASSUME DeliverRequest \/ LoseRequest PROVE TypeOK'
  <2>1. request' \in BOOLEAN
    BY <1>1, Zenon DEF DeliverRequest, LoseRequest
  <2>2. chassis' \in States
    BY <1>1 DEF DeliverRequest, LoseRequest, States
  <2> QED  BY <1>1, <2>1, <2>2 DEF DeliverRequest, LoseRequest
<1>2. ASSUME TakeOver PROVE TypeOK'
  <2>1. chassis' \in States
    BY <1>2 DEF TakeOver, States
  <2>2. takeovers' \in 0 .. MaxTakeovers
    BY <1>2, DriverAssumption DEF TakeOver
  <2> QED  BY <1>2, <2>1, <2>2 DEF TakeOver
<1>3. ASSUME ChassisActs PROVE TypeOK'
  <2>1. Rest \in Motions /\ command.mode \in Modes
    BY DEF Rest, Motions, Commands
  <2>2. \A m \in Motions : [chassis EXCEPT !.motion = m] \in States
    BY DEF States
  <2>3. [chassis EXCEPT !.mode = command.mode] \in States
    BY <2>1 DEF States
  <2>5. chassis' \in States
    BY <1>3, <2>1, <2>2, <2>3 DEF ChassisActs, MotionsIn
  <2> QED  BY <1>3, <2>5 DEF ChassisActs
<1>4. ASSUME NEW kind \in {"control", "mode", "motion"}, Frame(kind) PROVE TypeOK'
  <2>1. seen' \in States
    BY <1>4 DEF Frame, States
  <2> QED  BY <1>4, <2>1 DEF Frame
<1> QED  BY <1>1, <1>2, <1>3, <1>4

LEMMA LifecycleTyped ==
  ASSUME TypeOK, (\E connects \in BOOLEAN : Start(connects)) \/ FirstPass \/ BrokenPass
  PROVE  TypeOK'
<1>1. request' \in BOOLEAN
  BY Zenon DEF TypeOK, Start, FirstPass, BrokenPass, busVars
<1> QED  BY <1>1 DEF TypeOK, Start, FirstPass, BrokenPass, busVars

LEMMA DriverNext ==
  ASSUME TypeOK /\ ModeKept, [ChecksNext]_checkVars
  PROVE  (TypeOK /\ ModeKept)'
<1>1. TypeOK'
  <2>1. CASE UNCHANGED checkVars
    BY <2>1 DEF TypeOK, checkVars, vars, driverVars, busVars
  <2>2. CASE ChecksNext
    BY <2>2, PassTyped, TwistTyped, BusTyped, LifecycleTyped
    DEF ChecksNext, PassSeen, TwistSeen
  <2> QED  BY <2>1, <2>2
<1>2. ModeKept'
  <2>1. CASE PassSeen
    BY <2>1 DEF PassSeen, PublishStateToROS, ModeKept
  <2>2. CASE \E t \in Twists : TwistSeen(t)
    BY <2>2 DEF TwistSeen, ModeKept
  <2>3. CASE UNCHANGED <<motion_mode, commanded, reported>>
    BY <2>3 DEF ModeKept
  <2> QED  BY <2>1, <2>2, <2>3 DEF ChecksNext, Start, FirstPass, BrokenPass,
           DeliverRequest, LoseRequest, TakeOver, ChassisActs, Frame, checkVars,
           vars, driverVars
<1> QED  BY <1>1, <1>2

(* The variables keep their types; the retry count wraps in its range.      *)
THEOREM DriverTypeCorrect == ChecksSpec => []TypeOK
<1> QED  BY DriverInitially, DriverNext, PTL DEF ChecksSpec

(* Errors of the odometry do not outlast a change of mode, for every robot  *)
(* type and set of commands.                                                *)
THEOREM OdometryErrsOnlyInTransitionsHolds == ChecksSpec => OdometryErrsOnlyInTransitions
<1>1. ASSUME ModeKept
      PROVE  [PublishStateToROS /\ step' # Increment(seen.mode, seen.motion)
                => commanded \/ seen.mode # reported]_checkVars
  BY <1>1 DEF ModeKept, PublishStateToROS
<1> QED  BY <1>1, DriverInitially, DriverNext, PTL
         DEF ChecksSpec, OdometryErrsOnlyInTransitions

-----------------------------------------------------------------------------
(* The retry count.                                                         *)

LEMMA Remainder ==
  ASSUME NEW n \in Int, NEW r \in Int, r > 0, NEW q \in Int, NEW m \in Int,
         n = r * q + m, 0 <= m, m < r
  PROVE  n % r = m
  BY SMT

LEMMA CountWraps ==
  ASSUME NEW c \in 0 .. CounterSize - 1
  PROVE  (c + 1) % CounterSize = 0 \/ (c + 1) % CounterSize = c + 1
<1>1. CounterSize \in Nat /\ CounterSize > 0 /\ c \in Nat
  BY DriverAssumption
<1>2. CASE c + 1 < CounterSize
  BY <1>1, <1>2
<1>3. CASE c + 1 = CounterSize
  BY <1>1, <1>3
<1> QED  BY <1>1, <1>2, <1>3

(* A pass keeps count and passes in step, over the wrap too. *)
LEMMA PassCounts ==
  ASSUME Rate >= 1, TypeOK, CountFollowsPasses, PassSeen
  PROVE  CountFollowsPasses'
<1>1. Rate \in Int /\ retry_count \in Int /\ silent \in Int /\ silent <= Rate
  BY DriverAssumption DEF TypeOK, CountFollowsPasses
<1>2. retry_count' = NextCount
      /\ silent' = IF seen.control = "CAN" THEN Rate
                   ELSE IF RetryDue THEN 0
                   ELSE IF silent > Rate THEN silent ELSE silent + 1
  BY DEF PassSeen, PublishStateToROS
<1>3. CASE seen.control = "CAN"
  BY <1>1, <1>2, <1>3 DEF NextCount, CountFollowsPasses
<1>4. CASE seen.control # "CAN"
  <2>1. retry_count' = 0 \/ retry_count' = retry_count + 1
    BY <1>2, <1>4, CountWraps DEF TypeOK, NextCount
  <2>2. RetryDue <=> retry_count % Rate = 0
    BY <1>1, <1>4 DEF RetryDue
  <2>3. silent' = IF RetryDue THEN 0 ELSE silent + 1
    BY <1>1, <1>2, <1>4
  <2>4. retry_count' # 0 => retry_count' - 1 = retry_count
    BY <1>1, <2>1
  <2>5. CASE retry_count = 0
    <3>1. retry_count % Rate = 0
      BY <1>1, <2>5
    <3>2. silent' = 0
      BY <2>2, <2>3, <3>1
    <3>3. retry_count' # 0 => retry_count' - 1 = 0
      BY <1>1, <2>1, <2>5
    <3>4. Rate * 0 + silent' = 0
      BY <1>1, <3>2
    <3> QED  BY <1>1, <3>2, <3>3, <3>4 DEF CountFollowsPasses
  <2>6. CASE retry_count # 0
    <3>1. PICK q \in Int : retry_count - 1 = Rate * q + silent
      BY <2>6 DEF CountFollowsPasses
    <3>2. 0 <= silent /\ silent < Rate
      BY <2>6 DEF CountFollowsPasses
    <3>3. CASE silent + 1 < Rate
      <4>1. retry_count = Rate * q + (silent + 1)
        BY <1>1, <3>1
      <4>2. retry_count % Rate = silent + 1
        BY <1>1, <3>2, <3>3, <4>1, Remainder
      <4>3. silent' = silent + 1
        BY <1>1, <2>2, <2>3, <3>2, <4>2
      <4>4. retry_count' # 0 => retry_count' - 1 = Rate * q + silent'
        BY <2>4, <4>1, <4>3
      <4>5. silent' \in Int /\ 0 <= silent' /\ silent' < Rate
        BY <1>1, <3>2, <3>3, <4>3
      <4> QED  BY <1>1, <4>4, <4>5 DEF CountFollowsPasses
    <3>4. CASE silent + 1 = Rate
      <4>1. Rate * (q + 1) = Rate * q + Rate
        BY <1>1
      <4>2. retry_count = Rate * (q + 1) + 0
        BY <1>1, <3>1, <3>4, <4>1
      <4>3. retry_count % Rate = 0
        BY <1>1, <4>2, Remainder
      <4>4. silent' = 0
        BY <2>2, <2>3, <4>3
      <4>5. retry_count' # 0 => retry_count' - 1 = Rate * (q + 1) + silent'
        BY <2>4, <4>2, <4>4
      <4>6. q + 1 \in Int
        OBVIOUS
      <4> QED  BY <1>1, <4>4, <4>5, <4>6 DEF CountFollowsPasses
    <3> QED  BY <1>1, <3>2, <3>3, <3>4
  <2> QED  BY <2>5, <2>6
<1> QED  BY <1>3, <1>4

(* Rate passes never go by without a request, whatever the range of the     *)
(* counter, multiple of the rate or not.                                    *)
THEOREM RequestsInTimeHolds ==
  ASSUME Rate >= 1
  PROVE  ChecksSpec => []RequestsInTime
<1>1. ASSUME TypeOK, CountFollowsPasses, [ChecksNext]_checkVars PROVE CountFollowsPasses'
  <2>1. CASE PassSeen
    BY <1>1, <2>1, PassCounts
  <2>2. CASE UNCHANGED <<retry_count, silent>>
    BY <1>1, <2>2 DEF CountFollowsPasses
  <2> QED  BY <1>1, <2>1, <2>2 DEF ChecksNext, TwistSeen, TwistCmdCallback, Start,
           FirstPass, BrokenPass, DeliverRequest, LoseRequest, TakeOver, ChassisActs,
           Frame, checkVars, vars, driverVars
<1>2. CountFollowsPasses => RequestsInTime
  BY DEF CountFollowsPasses, RequestsInTime
<1> QED  BY <1>1, <1>2, DriverInitially, DriverNext, PTL DEF ChecksSpec
=============================================================================
