-------------------------- MODULE MotionGateProofs --------------------------
(***************************************************************************)
(* Theorems about MotionGate for every value of its constants: type        *)
(* correctness, with the lemmas on the hysteresis, the latches and the     *)
(* speed shaping that it rests on.                                         *)
(***************************************************************************)
EXTENDS MotionGate, WellFoundedInduction, TLAPS

(* Every non-empty set of naturals has a minimum, and Min picks it. *)
LEMMA MinOfNaturals ==
    ASSUME NEW S \in SUBSET Nat, S # {}
    PROVE  Min(S) \in S /\ \A y \in S : Min(S) <= y
<1> DEFINE R == OpToRel(<, Nat)
<1>1. IsWellFoundedOn(R, Nat)
  BY NatLessThanWellFounded
<1>2. PICK x \in S : \A y \in S : ~(<<y, x>> \in R)
  <2> HIDE DEF R
  <2> QED BY <1>1, WFMin
<1>3. \A y \in S : x <= y
  <2> SUFFICES ASSUME NEW y \in S PROVE x <= y
    OBVIOUS
  <2>1. x \in Nat /\ y \in Nat
    OBVIOUS
  <2>2. ~(y < x)
    BY <1>2, <2>1 DEF OpToRel
  <2> QED BY <2>1, <2>2
<1> QED BY <1>3 DEF Min

(* FitnessHysteresis.update keeps its count within any bound that is at    *)
(* least the number of samples asked for.                                   *)
LEMMA UpdateFitnessType ==
    ASSUME NEW n \in Nat, NEW h \in Hysteresis(n),
           NEW value \in Nat \cup {NonFinite}, NEW block \in Nat,
           NEW clear \in Nat, NEW samples \in 1 .. n
    PROVE  UpdateFitness(h, value, block, clear, samples) \in Hysteresis(n)
<1>1. CASE value = NonFinite
  BY <1>1 DEF UpdateFitness, IsFinite, Hysteresis, HoldTimer
<1>2. CASE value # NonFinite /\ h.blocked
  <2>1. value \in Nat /\ h.clear_count \in 0 .. n
    BY <1>2 DEF Hysteresis
  <2>2. UpdateFitness(h, value, block, clear, samples)
          = UpdateBlocked(h, value, clear, samples)
    BY <1>2 DEF UpdateFitness, IsFinite
  <2> DEFINE freed == value <= clear /\ h.clear_count + 1 >= samples
  <2>3. CASE freed
    BY <2>1, <2>2, <2>3 DEF UpdateBlocked, Hysteresis, HoldTimer
  <2>4. CASE ~freed
    BY <2>1, <2>2, <2>4 DEF UpdateBlocked, Hysteresis, HoldTimer
  <2> QED BY <2>3, <2>4
<1>3. CASE value # NonFinite /\ ~h.blocked
  <2>1. value \in Nat /\ h.bad_since \in HoldTimer
    BY <1>3 DEF Hysteresis
  <2>2. UpdateFitness(h, value, block, clear, samples)
          = UpdateAllowed(h, value, block)
    BY <1>3 DEF UpdateFitness, IsFinite
  <2> QED BY <2>1, <2>2 DEF UpdateAllowed, Hysteresis, HoldTimer
<1> QED BY <1>1, <1>2, <1>3

(* UltrasonicLatch.update keeps its count below the samples it asks for.   *)
LEMMA UpdateLatchType ==
    ASSUME NEW n \in Nat \ {0}, NEW l \in Latch(n),
           NEW value \in Nat \cup {NoEcho, Invalid},
           NEW stop \in Nat, NEW clear \in Nat, NEW finite \in 1 .. n
    PROVE  UpdateLatch(l, value, stop, clear, finite, n) \in Latch(n)
<1> DEFINE kind == SampleKind(value, stop, clear)
<1>1. kind \in {"no_echo", "obstacle", "finite", "between"}
  BY DEF SampleKind
<1>2. Uncounted(l) \in Latch(n)
  <2>1. [l EXCEPT !.clear_count = 0] \in Latch(n)
    BY DEF Latch
  <2>2. [[l EXCEPT !.clear_count = 0] EXCEPT !.clear_kind = "none"] \in Latch(n)
    BY <2>1 DEF Latch
  <2> QED BY <2>2 DEF Uncounted
<1>3. ASSUME NEW required \in 1 .. n, kind \in {"finite", "no_echo"}
      PROVE  CountClear(l, kind, required) \in Latch(n)
  <2> DEFINE count == IF l.clear_kind = kind THEN l.clear_count + 1 ELSE 1
  <2> HIDE DEF kind
  <2>1. l.clear_count \in 0 .. n
    BY DEF Latch
  <2>2. count \in Nat
    BY <2>1
  <2>3. CASE count >= required
    <3>1. [Uncounted(l) EXCEPT !.blocked = FALSE] \in Latch(n)
      BY <1>2 DEF Latch
    <3> QED BY <2>3, <3>1 DEF CountClear
  <2>4. CASE ~(count >= required)
    <3>1. count \in 0 .. n
      BY <2>2, <2>4
    <3> QED BY <1>3, <2>4, <3>1 DEF CountClear, Latch
  <2> QED BY <2>3, <2>4
<1> HIDE DEF kind
<1>4. CASE kind = "obstacle"
  <2>1. [Uncounted(l) EXCEPT !.blocked = TRUE, !.holding = TRUE] \in Latch(n)
    BY <1>2 DEF Latch
  <2> QED BY <1>4, <2>1 DEF UpdateLatch, kind
<1>5. CASE kind = "between"
  BY <1>2, <1>5 DEF UpdateLatch, kind
<1>6. CASE kind = "finite"
  BY <1>2, <1>3, <1>6 DEF UpdateLatch, kind
<1>7. CASE kind = "no_echo"
  BY <1>2, <1>3, <1>7 DEF UpdateLatch, kind
<1> QED BY <1>1, <1>4, <1>5, <1>6, <1>7

(* The unit of published speeds is positive: nothing rounds to zero. *)
LEMMA UnitPositive ==
    /\ TaperSpan \in Nat \ {0} /\ ApproachDistance \in Nat \ {0}
    /\ Unit \in Nat \ {0}
<1>1. TaperSpan \in Nat \ {0} /\ ApproachDistance \in Nat \ {0}
  BY SpeedAssumption DEF TaperSpan
<1>2. \A a, b \in Nat \ {0} : a * b \in Nat \ {0}
  OBVIOUS
<1> QED BY <1>1, <1>2 DEF Unit

(* Clamping keeps an integer within the limit and never flips its sign. *)
LEMMA ClampWithin ==
    ASSUME NEW x \in Int, NEW limit \in Nat
    PROVE  /\ Clamp(x, limit) \in Int
           /\ Abs(Clamp(x, limit)) <= limit
           /\ Clamp(x, limit) < 0 => x < 0
           /\ Clamp(x, limit) > 0 => x > 0
BY DEF Clamp, Abs

(* The profile never exceeds cruise speed, nor the degraded limit while    *)
(* recovering, and never stalls: every cap is positive.                     *)
LEMMA ProfileWithin ==
    ASSUME NEW active \in BOOLEAN, NEW recovering \in BOOLEAN,
           NEW traveled \in Nat, NEW remaining \in Nat \cup {Unplanned}
    PROVE  LET cap == CurrentSpeedProfile(active, recovering, traveled, remaining)
           IN  /\ cap \in Nat \ {0}
               /\ cap <= MaxLinear * ApproachDistance
               /\ active /\ recovering
                    => cap <= DegradedMaxLinear * ApproachDistance
<1> DEFINE A == ApproachDistance
           profile == ComputeSpeedProfile(traveled, remaining)
<1>1. /\ MaxLinear \in Nat /\ StartMaxLinear \in Nat /\ ApproachMinLinear \in Nat
      /\ DegradedMaxLinear \in Nat /\ A \in Nat
      /\ 0 < ApproachMinLinear /\ ApproachMinLinear <= StartMaxLinear
      /\ StartMaxLinear < MaxLinear /\ 0 < A
      /\ 0 < DegradedMaxLinear /\ DegradedMaxLinear <= StartMaxLinear
  BY SpeedAssumption
<1> HIDE DEF A
<1>2. ASSUME NEW v \in Nat, 0 < v, v <= MaxLinear
      PROVE  v * A \in Nat \ {0} /\ v * A <= MaxLinear * A
  BY <1>1, <1>2
<1>3. ASSUME NEW r \in 0 .. A
      PROVE  /\ ApproachMinLinear * A + (MaxLinear - ApproachMinLinear) * r
                  \in Nat \ {0}
             /\ ApproachMinLinear * A + (MaxLinear - ApproachMinLinear) * r
                  <= MaxLinear * A
  <2>1. PICK d \in Nat : d = MaxLinear - ApproachMinLinear
    BY <1>1
  <2>2. d * r \in Nat /\ d * r <= d * A
    BY <1>1
  <2>3. ApproachMinLinear * A + d * A = MaxLinear * A
    BY <1>1, <2>1
  <2>4. ApproachMinLinear * A \in Nat \ {0}
    BY <1>1
  <2>5. ASSUME NEW a \in Nat \ {0}, NEW e \in Nat, NEW f \in Int, e <= f
        PROVE  a + e \in Nat \ {0} /\ a + e <= a + f
    BY <2>5
  <2>6. d * A \in Int
    BY <1>1
  <2> QED BY <2>1, <2>2, <2>3, <2>4, <2>5, <2>6
<1>4. profile \in Nat \ {0} /\ profile <= MaxLinear * A
  <2> DEFINE start == IF traveled < StartDistance
                      THEN {StartMaxLinear * A} ELSE {}
             near == IF remaining # Unplanned /\ remaining <= A
                     THEN {ApproachMinLinear * A
                           + (MaxLinear - ApproachMinLinear) * remaining}
                     ELSE {}
             limits == start \cup near
  <2>1. StartMaxLinear * A \in Nat \ {0} /\ StartMaxLinear * A <= MaxLinear * A
    BY <1>1, <1>2
  <2>2. MaxLinear * A \in Nat \ {0}
    BY <1>1, <1>2
  <2>3. \A x \in start : x \in Nat \ {0} /\ x <= MaxLinear * A
    BY <2>1
  <2>4. \A x \in near : x \in Nat \ {0} /\ x <= MaxLinear * A
    <3>1. CASE remaining # Unplanned /\ remaining <= A
      <4>1. remaining \in 0 .. A
        BY <1>1, <3>1
      <4> QED BY <1>3, <4>1
    <3>2. CASE ~(remaining # Unplanned /\ remaining <= A)
      BY <3>2
    <3> QED BY <3>1, <3>2
  <2>5. profile = IF limits = {} THEN MaxLinear * A ELSE Min(limits)
    BY DEF ComputeSpeedProfile, A
  <2> HIDE DEF start, near, profile
  <2>6. CASE limits = {}
    BY <1>1, <2>2, <2>5, <2>6
  <2>7. CASE limits # {}
    <3>1. limits \in SUBSET Nat
      BY <2>3, <2>4
    <3>2. Min(limits) \in limits
      BY <2>7, <3>1, MinOfNaturals
    <3> QED BY <2>3, <2>4, <2>5, <2>7, <3>2
  <2> QED BY <2>6, <2>7
<1>5. DegradedMaxLinear * A \in Nat \ {0} /\ DegradedMaxLinear * A <= MaxLinear * A
  BY <1>1, <1>2
<1>6. StartMaxLinear * A \in Nat \ {0} /\ StartMaxLinear * A <= MaxLinear * A
  BY <1>1, <1>2
<1>7. DegradedMaxLinear * A \in Int /\ MaxLinear * A \in Int
  BY <1>1
<1> HIDE DEF profile
<1>8. CurrentSpeedProfile(active, recovering, traveled, remaining)
        = IF ~active THEN StartMaxLinear * A
          ELSE IF recovering /\ profile > DegradedMaxLinear * A
          THEN DegradedMaxLinear * A ELSE profile
  BY DEF CurrentSpeedProfile, profile, A
<1> QED BY <1>4, <1>5, <1>6, <1>7, <1>8 DEF A

(* The bound that tick() puts on the angular speed while translating. *)
LEMMA CurveLimitIsNatural ==
    ASSUME NEW lin \in Int
    PROVE  Min({MaxAngular * Unit,
                Abs(lin) * MaxMotionCurvature + CurvatureSlack * Unit}) \in Nat
<1> DEFINE bend == Abs(lin) * MaxMotionCurvature + CurvatureSlack * Unit
<1>1. MaxAngular \in Nat /\ MaxMotionCurvature \in Nat /\ CurvatureSlack \in Nat
  BY SpeedAssumption
<1>2. Abs(lin) \in Nat
  BY DEF Abs
<1>3. \A a, b \in Nat : a * b \in Nat
  OBVIOUS
<1>4. MaxAngular * Unit \in Nat /\ Abs(lin) * MaxMotionCurvature \in Nat
      /\ CurvatureSlack * Unit \in Nat
  BY <1>1, <1>2, <1>3, UnitPositive
<1>5. {MaxAngular * Unit, bend} \in SUBSET Nat
  BY <1>4
<1> HIDE DEF bend
<1>6. Min({MaxAngular * Unit, bend}) \in {MaxAngular * Unit, bend}
  BY <1>5, MinOfNaturals
<1> QED BY <1>5, <1>6 DEF bend

(* What tick() publishes for a command is within the linear and angular    *)
(* limits, and goes backwards only for a reverse command whose taper is     *)
(* not zero.                                                                *)
LEMMA ShapedTwistWithin ==
    ASSUME NEW c \in [lin : Int, ang : Int], NEW recovering \in BOOLEAN,
           NEW scale \in Nat, NEW cap \in Nat
    PROVE  LET twist == ShapedTwist(c, recovering, scale, cap)
           IN  /\ twist \in [lin : Int, ang : Int]
               /\ Abs(twist.lin) <= cap * TaperSpan
               /\ twist.lin < 0 => scale # 0
<1> DEFINE lin == ShapedLinear(c, scale, cap)
           ang == ShapedAngular(c, recovering)
<1>1. MaxLinear \in Nat /\ MaxAngular \in Nat /\ DegradedMaxAngular \in Nat
      /\ MaxInPlaceAngular \in Nat /\ MaxMotionCurvature \in Nat
      /\ CurvatureSlack \in Nat
  BY SpeedAssumption
<1>2. c.lin \in Int /\ c.ang \in Int
  OBVIOUS
<1>3. /\ lin \in Int /\ Abs(lin) <= cap * TaperSpan
      /\ lin < 0 => scale # 0
  <2> DEFINE x == Clamp(c.lin, MaxLinear)
             k == IF x < 0 THEN scale ELSE TaperSpan
  <2>1. x \in Int
    BY <1>1, <1>2, ClampWithin
  <2>2. k \in Nat
    BY UnitPositive
  <2>3. x * ApproachDistance \in Int
    BY <2>1, UnitPositive
  <2>4. x * ApproachDistance * k \in Int
    BY <2>2, <2>3
  <2>5. cap * TaperSpan \in Nat
    BY UnitPositive
  <2>6. lin = Clamp(x * ApproachDistance * k, cap * TaperSpan)
    BY DEF ShapedLinear
  <2>7. x * ApproachDistance * k < 0 => scale # 0
    <3>1. CASE x < 0
      <4>1. k = scale
        BY <3>1
      <4>2. x * ApproachDistance * 0 = 0
        BY <2>3
      <4> QED BY <4>1, <4>2
    <3>2. CASE ~(x < 0)
      <4>1. \A a, b \in Nat : a * b \in Nat
        OBVIOUS
      <4>2. x * ApproachDistance \in Nat
        BY <2>1, <3>2, <4>1, UnitPositive
      <4>3. x * ApproachDistance * k \in Nat
        BY <2>2, <4>1, <4>2
      <4> QED BY <4>3
    <3> QED BY <3>1, <3>2
  <2> HIDE DEF x, k, lin
  <2> QED BY <2>4, <2>5, <2>6, <2>7, ClampWithin
<1>4. ang \in Int
  BY <1>1, <1>2, ClampWithin DEF ShapedAngular
<1>5. ShapedTwist(c, recovering, scale, cap).lin \in {0, lin}
  BY DEF ShapedTwist
<1>6. ShapedTwist(c, recovering, scale, cap) \in [lin : Int, ang : Int]
  <2> DEFINE bend == Abs(lin) * MaxMotionCurvature + CurvatureSlack * Unit
             limit == Min({MaxAngular * Unit, bend})
  <2> HIDE DEF lin, ang
  <2>1. Clamp(ang, MaxInPlaceAngular) * Unit \in Int
    <3>1. Clamp(ang, MaxInPlaceAngular) \in Int
      BY <1>1, <1>4, ClampWithin
    <3> QED BY <3>1, UnitPositive
  <2>2. limit \in Nat
    <3> HIDE DEF lin
    <3> QED BY <1>3, CurveLimitIsNatural
  <2>3. ang * Unit \in Int
    BY <1>4, UnitPositive
  <2> HIDE DEF limit
  <2>4. Clamp(ang * Unit, limit) \in Int
    BY <2>2, <2>3, ClampWithin
  <2>5. ShapedTwist(c, recovering, scale, cap)
          = IF InPlace(lin)
            THEN [lin |-> 0, ang |-> Clamp(ang, MaxInPlaceAngular) * Unit]
            ELSE [lin |-> lin, ang |-> Clamp(ang * Unit, limit)]
    BY DEF ShapedTwist, lin, ang, limit
  <2> QED BY <1>3, <2>1, <2>4, <2>5
<1>7. cap * TaperSpan \in Nat
  BY UnitPositive
<1> HIDE DEF lin, ang
<1>8. ShapedTwist(c, recovering, scale, cap).lin = 0
        => Abs(ShapedTwist(c, recovering, scale, cap).lin) <= cap * TaperSpan
  BY <1>7 DEF Abs
<1> QED BY <1>3, <1>5, <1>6, <1>8

(* The reverse taper is a fraction of TaperSpan, and zero unless every rear *)
(* reverse latch is open.                                                   *)
LEMMA SpeedScaleWithin ==
    ASSUME TypeOK
    PROVE  /\ RearReverseSpeedScale \in Nat
           /\ RearReverseSpeedScale # 0 => RearReverseAllowed
<1> DEFINE sideScale(s) ==
             CASE IsSelfEcho(sonar[s].range) -> TaperSpan
               [] sonar[s].range = NoEcho    -> TaperSpan
               [] sonar[s].range = Invalid   -> 0
               [] OTHER -> Saturate(IF sonar[s].range < StopDistance THEN 0
                                    ELSE sonar[s].range - StopDistance, TaperSpan)
           scales == {TaperSpan} \cup {sideScale(s) : s \in Sides}
<1>1. ASSUME NEW s \in Sides PROVE sideScale(s) \in Nat
  <2>1. sonar[s].range \in Nat \cup {NoEcho, Invalid}
    BY DEF TypeOK, SonarTypeOK
  <2>2. StopDistance \in Nat /\ SelfEchoMin \in Nat /\ SelfEchoMax \in Nat
    BY SpeedAssumption, RearAssumption
  <2>3. CASE IsSelfEcho(sonar[s].range)
    BY <2>3, UnitPositive
  <2>4. CASE ~IsSelfEcho(sonar[s].range)
    BY <2>1, <2>2, <2>4, UnitPositive DEF Saturate, NoEcho, Invalid
  <2> QED BY <2>3, <2>4
<1>2. scales \in SUBSET Nat
  <2> HIDE DEF sideScale
  <2> QED BY <1>1, UnitPositive
<1>3. Min(scales) \in Nat
  <2> HIDE DEF sideScale
  <2>1. scales # {}
    OBVIOUS
  <2> HIDE DEF scales
  <2> QED BY <1>2, <2>1, MinOfNaturals
<1>4. RearReverseSpeedScale = IF RearReverseAllowed THEN Min(scales) ELSE 0
  BY DEF RearReverseSpeedScale
<1> HIDE DEF scales
<1> QED BY <1>3, <1>4

(* A group of fields that a step leaves alone keeps its type. *)
LEMMA TypeFrames ==
    ASSUME TypeOK
    PROVE  /\ UNCHANGED armed => (armed \in BOOLEAN)'
           /\ UNCHANGED peerVars => PeerTypeOK'
           /\ UNCHANGED goalVars => GoalTypeOK'
           /\ UNCHANGED locVars => LocTypeOK'
           /\ UNCHANGED odomVars => OdomTypeOK'
           /\ UNCHANGED cmdVars => CmdTypeOK'
           /\ UNCHANGED sonarVars => SonarTypeOK'
           /\ UNCHANGED tickVars => TickTypeOK'
<1>1. UNCHANGED armed => (armed \in BOOLEAN)'
  BY DEF TypeOK
<1>2. UNCHANGED peerVars => PeerTypeOK'
  BY DEF TypeOK, PeerTypeOK, peerVars
<1>3. UNCHANGED goalVars => GoalTypeOK'
  BY DEF TypeOK, GoalTypeOK, goalVars
<1>4. UNCHANGED locVars => LocTypeOK'
  BY DEF TypeOK, LocTypeOK, locVars
<1>5. UNCHANGED odomVars => OdomTypeOK'
  BY DEF TypeOK, OdomTypeOK, odomVars
<1>6. UNCHANGED cmdVars => CmdTypeOK'
  BY DEF TypeOK, CmdTypeOK, cmdVars
<1>7. UNCHANGED sonarVars => SonarTypeOK'
  BY DEF TypeOK, SonarTypeOK, sonarVars
<1>8. UNCHANGED tickVars => TickTypeOK'
  BY DEF TypeOK, TickTypeOK, tickVars
<1> QED BY <1>1, <1>2, <1>3, <1>4, <1>5, <1>6, <1>7, <1>8

(* The records that resets assign, and saturated sums. *)
LEMMA ResetTypes ==
    /\ NoRecovery \in Recovery /\ RecoveryStarted \in Recovery
    /\ NoSpin \in SpinBudget /\ [NoSpin EXCEPT !.active = TRUE] \in SpinBudget
<1>1. DegradedMaxTravel \in Nat /\ DegradedMaxRotation \in Nat
      /\ FitnessSamples - 1 \in Nat
  BY FitnessAssumption
<1>2. MaxInPlaceRotation \in Nat /\ SpinResetDistance \in Nat
  BY RearAssumption
<1>3. NoRecovery \in Recovery
  BY <1>1 DEF NoRecovery, Recovery
<1>4. [NoRecovery EXCEPT !.mode = TRUE] \in Recovery
  BY <1>3 DEF Recovery
<1>5. [[NoRecovery EXCEPT !.mode = TRUE] EXCEPT !.attempted = TRUE] \in Recovery
  BY <1>4 DEF Recovery
<1>6. RecoveryStarted \in Recovery
  BY <1>5 DEF RecoveryStarted
<1>7. NoSpin \in SpinBudget
  BY <1>2 DEF NoSpin, SpinBudget
<1>8. [NoSpin EXCEPT !.active = TRUE] \in SpinBudget
  BY <1>7 DEF SpinBudget
<1> QED BY <1>3, <1>6, <1>7, <1>8

LEMMA SaturateWithin ==
    ASSUME NEW x \in Nat, NEW bound \in Nat
    PROVE  Saturate(x, bound) \in 0 .. bound
BY DEF Saturate

(* Resetting the count keeps the hysteresis well-typed, as does ageing it. *)
LEMMA RestartedType ==
    ASSUME NEW n \in Nat, NEW h \in Hysteresis(n)
    PROVE  HysteresisRestarted(h) \in Hysteresis(n) /\ HoldOver(h) \in Hysteresis(n)
BY DEF HysteresisRestarted, HoldOver, Hysteresis, HoldTimer

(* OnLocalization up to the choice of thresholds keeps the types. *)
LEMMA OnLocalizationType ==
    ASSUME TypeOK, NEW v \in FitnessInputs, OnLocalization(v)
    PROVE  TypeOK'
<1>1. /\ degraded \in Recovery
      /\ fitness_hysteresis \in Hysteresis(FitnessSamples + DegradedSamples)
  BY DEF TypeOK, LocTypeOK
<1>2. FitnessSamples + DegradedSamples \in Nat
  BY FitnessAssumption
<1>3. degraded' \in Recovery
  BY <1>1, ResetTypes DEF OnLocalization
<1>4. fitness_hysteresis' \in Hysteresis(FitnessSamples + DegradedSamples)
  BY <1>1, <1>2, RestartedType DEF OnLocalization
<1>5. loc_job' \in [busy : BOOLEAN, block : Nat, clear : Nat,
                    samples : {1, FitnessSamples, DegradedSamples}]
  BY FitnessAssumption DEF OnLocalization, RuntimeThresholds
<1>6. (localization_fresh \in BOOLEAN)' /\ last_fitness' \in Nat \cup {NonFinite}
  BY InputAssumption DEF OnLocalization
<1>7. LocTypeOK'
  BY <1>3, <1>4, <1>5, <1>6 DEF LocTypeOK
<1> QED BY <1>7, TypeFrames DEF TypeOK, OnLocalization

(* The second half of on_localization keeps the types. *)
LEMMA LocalizationUpdateType ==
    ASSUME TypeOK, LocalizationUpdate
    PROVE  TypeOK'
<1>1. /\ degraded \in Recovery
      /\ fitness_hysteresis \in Hysteresis(FitnessSamples + DegradedSamples)
      /\ last_fitness \in Nat \cup {NonFinite}
      /\ loc_job.block \in Nat /\ loc_job.clear \in Nat
      /\ loc_job.samples \in {1, FitnessSamples, DegradedSamples}
  BY DEF TypeOK, LocTypeOK
<1>2. /\ FitnessSamples + DegradedSamples \in Nat
      /\ loc_job.samples \in 1 .. (FitnessSamples + DegradedSamples)
  BY <1>1, FitnessAssumption
<1>3. fitness_hysteresis' \in Hysteresis(FitnessSamples + DegradedSamples)
  BY <1>1, <1>2, UpdateFitnessType DEF LocalizationUpdate
<1>4. degraded' \in Recovery
  <2>1. degraded' = RecoveryAfterSample(degraded)
    BY DEF LocalizationUpdate
  <2>2. [degraded EXCEPT !.healthy = 0] \in Recovery
    BY <1>1, FitnessAssumption DEF Recovery
  <2>3. [NoRecovery EXCEPT !.attempted = degraded.attempted] \in Recovery
    BY <1>1, ResetTypes DEF Recovery
  <2>4. ASSUME ~(degraded.healthy + 1 >= FitnessSamples)
        PROVE  [degraded EXCEPT !.healthy = @ + 1] \in Recovery
    BY <1>1, <2>4, FitnessAssumption DEF Recovery
  <2> QED BY <1>1, <2>1, <2>2, <2>3, <2>4 DEF RecoveryAfterSample
<1>5. loc_job' \in [busy : BOOLEAN, block : Nat, clear : Nat,
                    samples : {1, FitnessSamples, DegradedSamples}]
  BY DEF LocalizationUpdate, IdleJob
<1>6. LocTypeOK'
  BY <1>3, <1>4, <1>5 DEF TypeOK, LocTypeOK, LocalizationUpdate
<1> QED BY <1>6, TypeFrames DEF TypeOK, LocalizationUpdate

(* The rising edge of goal_active keeps the types. *)
LEMMA GoalStartsType ==
    ASSUME TypeOK, GoalStarts
    PROVE  TypeOK'
<1>1. /\ degraded \in Recovery
      /\ fitness_hysteresis \in Hysteresis(FitnessSamples + DegradedSamples)
      /\ plan_wire \in Nat \cup {Unplanned}
  BY DEF TypeOK, LocTypeOK, GoalTypeOK
<1>2. FitnessSamples + DegradedSamples \in Nat
  BY FitnessAssumption
<1>3. degraded' \in Recovery
  <2>1. [degraded EXCEPT !.attempted = degraded.mode] \in Recovery
    BY <1>1 DEF Recovery
  <2>2. \A r \in Recovery : /\ [r EXCEPT !.traveled = 0] \in Recovery
                            /\ [r EXCEPT !.rotated = 0] \in Recovery
    BY FitnessAssumption DEF Recovery
  <2>3. [[[degraded EXCEPT !.attempted = degraded.mode]
            EXCEPT !.traveled = 0] EXCEPT !.rotated = 0] \in Recovery
    BY <2>1, <2>2
  <2> QED BY <2>3, ResetTypes DEF GoalStarts
<1>4. fitness_hysteresis' \in Hysteresis(FitnessSamples + DegradedSamples)
  BY <1>1, <1>2, RestartedType DEF GoalStarts
<1>5. LocTypeOK'
  BY <1>3, <1>4 DEF TypeOK, LocTypeOK, GoalStarts
<1>6. plan_wire' \in Nat \cup {Unplanned}
  BY <1>1 DEF GoalStarts
<1>7. GoalTypeOK'
  BY <1>6, SpeedAssumption DEF GoalTypeOK, GoalStarts
<1>8. OdomTypeOK'
  BY ResetTypes DEF TypeOK, OdomTypeOK, GoalStarts
<1> QED BY <1>5, <1>7, <1>8, TypeFrames DEF TypeOK, GoalStarts

(* on_odom keeps the types: every budget saturates at its bound. *)
LEMMA OnOdomType ==
    ASSUME TypeOK, NEW m \in OdomInputs, OnOdom(m)
    PROVE  TypeOK'
<1>1. /\ degraded \in Recovery /\ spin \in SpinBudget
      /\ goal_traveled \in 0 .. StartDistance
      /\ m.step \in Nat /\ m.turn \in Nat
  BY InputAssumption DEF TypeOK, LocTypeOK, OdomTypeOK, GoalTypeOK
<1>2. /\ DegradedMaxTravel \in Nat /\ DegradedMaxRotation \in Nat
      /\ StartDistance \in Nat /\ SpinResetDistance \in Nat
      /\ MaxInPlaceRotation \in Nat
  BY FitnessAssumption, SpeedAssumption, RearAssumption
<1>3. degraded' \in Recovery
  <2>1. degraded.rotated + m.turn \in Nat /\ degraded.traveled + m.step \in Nat
    BY <1>1 DEF Recovery
  <2>2. \A b, c \in BOOLEAN :
          [[degraded EXCEPT
              !.rotated = IF b THEN @ ELSE Saturate(@ + m.turn, DegradedMaxRotation)]
              EXCEPT
              !.traveled = IF c THEN Saturate(@ + m.step, DegradedMaxTravel)
                           ELSE @] \in Recovery
    <3> SUFFICES ASSUME NEW b \in BOOLEAN, NEW c \in BOOLEAN
                 PROVE  [[degraded EXCEPT
                            !.rotated = IF b THEN @
                              ELSE Saturate(@ + m.turn, DegradedMaxRotation)]
                          EXCEPT
                            !.traveled = IF c
                              THEN Saturate(@ + m.step, DegradedMaxTravel)
                              ELSE @] \in Recovery
      OBVIOUS
    <3>1. Saturate(degraded.rotated + m.turn, DegradedMaxRotation)
            \in 0 .. DegradedMaxRotation
      BY <1>2, <2>1, SaturateWithin
    <3>2. Saturate(degraded.traveled + m.step, DegradedMaxTravel)
            \in 0 .. DegradedMaxTravel
      BY <1>2, <2>1, SaturateWithin
    <3> DEFINE d == [degraded EXCEPT
                       !.rotated = IF b THEN @
                         ELSE Saturate(@ + m.turn, DegradedMaxRotation)]
    <3>3. d \in Recovery /\ d.traveled = degraded.traveled
      BY <1>1, <3>1 DEF Recovery
    <3> HIDE DEF d
    <3>4. [d EXCEPT !.traveled = IF c THEN Saturate(@ + m.step, DegradedMaxTravel)
                                 ELSE @] \in Recovery
      BY <3>2, <3>3 DEF Recovery
    <3> QED BY <3>4 DEF d
  <2> DEFINE counted == goal_active /\ odom # "never" /\ m.step <= OdomJump
  <2>3. (odom = "never") \in BOOLEAN /\ counted \in BOOLEAN
    BY DEF TypeOK, GoalTypeOK
  <2> QED BY <1>1, <2>2, <2>3 DEF OnOdom
<1>4. LocTypeOK'
  BY <1>3 DEF TypeOK, LocTypeOK, OnOdom
<1>5. goal_traveled' \in 0 .. StartDistance
  BY <1>1, <1>2, SaturateWithin DEF OnOdom
<1>6. GoalTypeOK'
  BY <1>5 DEF TypeOK, GoalTypeOK, OnOdom
<1>7. ASSUME NEW far \in BOOLEAN
      PROVE  SpinAfter(m, far) \in SpinBudget
  <2> DEFINE charged == spin.active /\ odom # "never" /\ SmallSpinRequested
             total == IF charged
                      THEN Saturate(spin.accumulated + m.turn, MaxInPlaceRotation)
                      ELSE spin.accumulated
             moved == IF spin.active
                      THEN Saturate(spin.moved + m.step, SpinResetDistance)
                      ELSE spin.moved
             limit == spin.limit \/ (charged /\ total >= MaxInPlaceRotation)
  <2>1. /\ spin.accumulated \in 0 .. MaxInPlaceRotation
        /\ spin.moved \in 0 .. SpinResetDistance
        /\ spin.active \in BOOLEAN /\ spin.limit \in BOOLEAN
    BY <1>1 DEF SpinBudget
  <2>2. total \in 0 .. MaxInPlaceRotation
    <3>1. spin.accumulated + m.turn \in Nat
      BY <1>1, <2>1
    <3>2. Saturate(spin.accumulated + m.turn, MaxInPlaceRotation)
            \in 0 .. MaxInPlaceRotation
      BY <1>2, <3>1, SaturateWithin
    <3> QED BY <2>1, <3>2
  <2>3. moved \in 0 .. SpinResetDistance
    <3>1. spin.moved + m.step \in Nat
      BY <1>1, <2>1
    <3>2. Saturate(spin.moved + m.step, SpinResetDistance)
            \in 0 .. SpinResetDistance
      BY <1>2, <3>1, SaturateWithin
    <3> QED BY <2>1, <3>2
  <2>4. limit \in BOOLEAN
    BY <2>1
  <2>5. SpinAfter(m, far)
          = IF far THEN NoSpin
            ELSE [spin EXCEPT !.accumulated = total, !.limit = limit,
                              !.moved = moved]
    BY DEF SpinAfter
  <2> HIDE DEF total, moved, limit
  <2>6. \A b \in SpinBudget : /\ [b EXCEPT !.accumulated = total] \in SpinBudget
                              /\ [b EXCEPT !.limit = limit] \in SpinBudget
                              /\ [b EXCEPT !.moved = moved] \in SpinBudget
    BY <2>2, <2>3, <2>4 DEF SpinBudget
  <2>7. [[[spin EXCEPT !.accumulated = total] EXCEPT !.limit = limit]
           EXCEPT !.moved = moved] \in SpinBudget
    BY <1>1, <2>6
  <2> QED BY <2>5, <2>7, ResetTypes
<1>8. OdomTypeOK'
  <2>1. PICK far \in {FALSE, MayBeFar(m)} : spin' = SpinAfter(m, far)
    BY DEF OnOdom
  <2>2. far \in BOOLEAN
    BY DEF MayBeFar
  <2> QED BY <1>7, <2>1, <2>2 DEF OdomTypeOK, OnOdom
<1> QED BY <1>4, <1>6, <1>8, TypeFrames DEF TypeOK, OnOdom

(* tick() keeps the types: what it publishes is a pair of integers. *)
LEMMA TickType ==
    ASSUME TypeOK, TickReason \/ TickProfile \/ TickPublish
    PROVE  TypeOK'
<1>1. CASE TickReason
  <2>1. Ready \in BOOLEAN
    BY DEF Ready, MotionPermitted
  <2>2. tick' \in [pc : {"idle", "profile", "publish"}, ready : BOOLEAN, cap : Nat]
    BY <1>1, <2>1 DEF TickReason
  <2>3. TickTypeOK'
    BY <1>1, <2>2 DEF TypeOK, TickTypeOK, TickReason
  <2> QED BY <1>1, <2>3, TypeFrames DEF TypeOK, TickReason
<1>2. CASE TickProfile
  <2>1. /\ goal_active \in BOOLEAN /\ degraded.mode \in BOOLEAN
        /\ goal_traveled \in Nat /\ speed_plan_remaining \in Nat \cup {Unplanned}
        /\ tick \in [pc : {"idle", "profile", "publish"}, ready : BOOLEAN, cap : Nat]
    BY DEF TypeOK, GoalTypeOK, LocTypeOK, TickTypeOK, Recovery
  <2> DEFINE profile == CurrentSpeedProfile(goal_active, degraded.mode,
                          goal_traveled, speed_plan_remaining)
  <2>2. profile \in Nat
    BY <2>1, ProfileWithin
  <2>3. tick' = [tick EXCEPT !.pc = "publish", !.cap = profile]
    BY <1>2 DEF TickProfile
  <2> HIDE DEF profile
  <2>4. tick' \in [pc : {"idle", "profile", "publish"}, ready : BOOLEAN, cap : Nat]
    BY <2>1, <2>2, <2>3
  <2>5. TickTypeOK'
    BY <1>2, <2>4 DEF TypeOK, TickTypeOK, TickProfile
  <2> QED BY <1>2, <2>5, TypeFrames DEF TypeOK, TickProfile
<1>3. CASE TickPublish
  <2>1. /\ command \in [lin : Int, ang : Int] /\ degraded.mode \in BOOLEAN
        /\ tick.cap \in Nat
    BY DEF TypeOK, CmdTypeOK, LocTypeOK, TickTypeOK, Recovery
  <2>2. Rest \in [lin : Int, ang : Int]
    BY DEF Rest
  <2>3. PublishedTwist \in [lin : Int, ang : Int]
    BY <2>1, <2>2, ShapedTwistWithin, SpeedScaleWithin DEF PublishedTwist
  <2>4. TickTypeOK'
    BY <1>3, <2>3 DEF TickTypeOK, TickPublish, IdleTick
  <2>5. OdomTypeOK'
    BY <1>3, ResetTypes DEF TypeOK, OdomTypeOK, TickPublish
  <2> QED BY <1>3, <2>4, <2>5, TypeFrames DEF TypeOK, TickPublish
<1> QED BY <1>1, <1>2, <1>3

(* The arm service keeps the types. *)
LEMMA ArmType ==
    ASSUME TypeOK, Arm \/ ArmRefused \/ Disarm
    PROVE  TypeOK'
<1>1. /\ degraded \in Recovery
      /\ fitness_hysteresis \in Hysteresis(FitnessSamples + DegradedSamples)
      /\ FitnessSamples + DegradedSamples \in Nat
  BY FitnessAssumption DEF TypeOK, LocTypeOK
<1>2. (armed \in BOOLEAN)'
  BY DEF Arm, ArmRefused, Disarm
<1>3. OdomTypeOK'
  BY ResetTypes DEF TypeOK, OdomTypeOK, Arm, ArmRefused, Disarm
<1>4. LocTypeOK'
  <2>1. CASE Arm
    <3>1. degraded' \in Recovery
      BY <1>1, <2>1, ResetTypes DEF Arm
    <3>2. fitness_hysteresis' \in Hysteresis(FitnessSamples + DegradedSamples)
      BY <1>1, <2>1, RestartedType DEF Arm
    <3> QED BY <2>1, <3>1, <3>2 DEF TypeOK, LocTypeOK, Arm
  <2>2. CASE ArmRefused
    BY <2>2, TypeFrames DEF ArmRefused
  <2>3. CASE Disarm
    BY <2>3, ResetTypes DEF TypeOK, LocTypeOK, Disarm
  <2> QED BY <2>1, <2>2, <2>3
<1> QED BY <1>2, <1>3, <1>4, TypeFrames DEF TypeOK, Arm, ArmRefused, Disarm

(* on_ultrasonic_range and the passing of a latch hold keep the types. *)
LEMMA SonarType ==
    ASSUME TypeOK, NEW s \in Sides,
           \/ \E r \in RangeInputs : OnUltrasonicRange(s, r)
           \/ SonarHoldPasses(s)
    PROVE  TypeOK'
<1> DEFINE Reading == [fresh : BOOLEAN, range : Nat \cup {NoEcho, Invalid},
                       reverse : Latch(NoEchoSamples),
                       turn : Latch(NoEchoSamples)]
<1>1. sonar \in [Sides -> Reading] /\ sonar[s] \in Reading
  BY DEF TypeOK, SonarTypeOK
<1>2. /\ NoEchoSamples \in Nat \ {0} /\ FiniteSamples \in 1 .. NoEchoSamples
      /\ StopDistance \in Nat /\ ClearDistance \in Nat
      /\ TurnAllowDistance \in Nat
  BY SpeedAssumption, RearAssumption
<1>3. CASE \E r \in RangeInputs : OnUltrasonicRange(s, r)
  <2>1. PICK r \in RangeInputs : OnUltrasonicRange(s, r)
    BY <1>3
  <2>2. r \in Nat \cup {NoEcho, Invalid}
    BY InputAssumption
  <2>3. UpdateLatch(sonar[s].reverse, r, StopDistance, ClearDistance,
                    FiniteSamples, NoEchoSamples) \in Latch(NoEchoSamples)
    BY <1>1, <1>2, <2>2, UpdateLatchType
  <2>4. UpdateLatch(sonar[s].turn, r, TurnAllowDistance, TurnAllowDistance,
                    FiniteSamples, NoEchoSamples) \in Latch(NoEchoSamples)
    BY <1>1, <1>2, <2>2, UpdateLatchType
  <2>5. PICK a \in Latch(NoEchoSamples), b \in Latch(NoEchoSamples) :
          sonar' = [sonar EXCEPT ![s] = [fresh |-> TRUE, range |-> r,
                                         reverse |-> a, turn |-> b]]
    BY <1>1, <2>1, <2>3, <2>4 DEF OnUltrasonicRange
  <2>6. sonar' \in [Sides -> Reading]
    BY <1>1, <2>2, <2>5
  <2>7. SonarTypeOK'
    BY <2>1, <2>6 DEF TypeOK, SonarTypeOK, OnUltrasonicRange
  <2> QED BY <2>1, <2>7, TypeFrames DEF TypeOK, OnUltrasonicRange
<1>4. CASE SonarHoldPasses(s)
  <2>1. \A l \in Latch(NoEchoSamples) : LatchHoldOver(l) \in Latch(NoEchoSamples)
    BY DEF LatchHoldOver, Latch
  <2>2. PICK x \in Reading : sonar' = [sonar EXCEPT ![s] = x]
    <3>1. CASE sonar' = [sonar EXCEPT ![s].reverse = LatchHoldOver(@)]
      <4>1. [sonar[s] EXCEPT !.reverse = LatchHoldOver(@)] \in Reading
        BY <1>1, <2>1
      <4> QED BY <3>1, <4>1
    <3>2. CASE sonar' = [sonar EXCEPT ![s].turn = LatchHoldOver(@)]
      <4>1. [sonar[s] EXCEPT !.turn = LatchHoldOver(@)] \in Reading
        BY <1>1, <2>1
      <4> QED BY <3>2, <4>1
    <3> QED BY <1>4, <3>1, <3>2 DEF SonarHoldPasses
  <2>3. sonar' \in [Sides -> Reading]
    BY <1>1, <2>2
  <2>4. SonarTypeOK'
    BY <1>4, <2>3 DEF TypeOK, SonarTypeOK, SonarHoldPasses
  <2> QED BY <1>4, <2>4, TypeFrames DEF TypeOK, SonarHoldPasses
<1> QED BY <1>3, <1>4

(* A stream that falls silent keeps the types. *)
LEMMA ExpireType ==
    ASSUME TypeOK, Expire
    PROVE  TypeOK'
<1>1. CASE \E p \in Peers : ExpirePeer(p)
  <2>1. PeerTypeOK'
    BY <1>1 DEF TypeOK, PeerTypeOK, ExpirePeer
  <2> QED BY <1>1, <2>1, TypeFrames DEF TypeOK, ExpirePeer
<1>2. CASE ExpireLease
  <2>1. GoalTypeOK'
    BY <1>2 DEF TypeOK, GoalTypeOK, ExpireLease
  <2> QED BY <1>2, <2>1, TypeFrames DEF TypeOK, ExpireLease
<1>3. CASE ExpireLocalization
  <2>1. LocTypeOK'
    BY <1>3 DEF TypeOK, LocTypeOK, ExpireLocalization
  <2> QED BY <1>3, <2>1, TypeFrames DEF TypeOK, ExpireLocalization
<1>4. CASE ExpireOdom
  <2>1. OdomTypeOK'
    BY <1>4 DEF TypeOK, OdomTypeOK, ExpireOdom
  <2> QED BY <1>4, <2>1, TypeFrames DEF TypeOK, ExpireOdom
<1>5. CASE ExpireCommand
  <2>1. CmdTypeOK'
    BY <1>5 DEF TypeOK, CmdTypeOK, ExpireCommand
  <2> QED BY <1>5, <2>1, TypeFrames DEF TypeOK, ExpireCommand
<1>6. CASE ExpireReversePlan
  <2>1. CmdTypeOK'
    BY <1>6 DEF TypeOK, CmdTypeOK, ExpireReversePlan
  <2> QED BY <1>6, <2>1, TypeFrames DEF TypeOK, ExpireReversePlan
<1>7. CASE \E s \in Sides : ExpireSonar(s)
  <2>1. PICK s \in Sides : ExpireSonar(s)
    BY <1>7
  <2>2. SonarTypeOK'
    BY <2>1 DEF TypeOK, SonarTypeOK, ExpireSonar
  <2> QED BY <2>1, <2>2, TypeFrames DEF TypeOK, ExpireSonar
<1>8. CASE ExpireSonarHealth
  <2>1. SonarTypeOK'
    BY <1>8 DEF TypeOK, SonarTypeOK, ExpireSonarHealth
  <2> QED BY <1>8, <2>1, TypeFrames DEF TypeOK, ExpireSonarHealth
<1> QED
  BY <1>1, <1>2, <1>3, <1>4, <1>5, <1>6, <1>7, <1>8 DEF Expire

(* The callbacks that only record what they received keep the types. *)
LEMMA RecordingType ==
    ASSUME TypeOK,
           \/ OnLocalizationPose
           \/ FitnessHoldPasses
           \/ \E n \in PlanLengths : PlannerPublishes(n)
           \/ OnSpeedProfilePlan
           \/ GoalLeaseRenewed
           \/ GoalEnds
           \/ \E p \in Peers, good \in HealthInputs : OnPeer(p, good)
           \/ \E c \in CommandInputs : OnCommand(c)
           \/ \E asking \in CollisionInputs : OnPreCollisionCommand(asking)
           \/ \E straight \in StraightInputs : OnPlan(straight)
           \/ \E good \in HealthInputs : OnUltrasonicHealth(good)
    PROVE  TypeOK'
<1>1. CASE OnLocalizationPose
  <2>1. LocTypeOK'
    BY <1>1 DEF TypeOK, LocTypeOK, OnLocalizationPose
  <2> QED BY <1>1, <2>1, TypeFrames DEF TypeOK, OnLocalizationPose
<1>2. CASE FitnessHoldPasses
  <2>1. FitnessSamples + DegradedSamples \in Nat
    BY FitnessAssumption
  <2>2. LocTypeOK'
    BY <1>2, <2>1, RestartedType DEF TypeOK, LocTypeOK, FitnessHoldPasses
  <2> QED BY <1>2, <2>2, TypeFrames DEF TypeOK, FitnessHoldPasses
<1>3. CASE \E n \in PlanLengths : PlannerPublishes(n)
  <2>1. GoalTypeOK'
    BY <1>3, InputAssumption DEF TypeOK, GoalTypeOK, PlannerPublishes
  <2> QED BY <1>3, <2>1, TypeFrames DEF TypeOK, PlannerPublishes
<1>4. CASE OnSpeedProfilePlan
  <2>1. GoalTypeOK'
    BY <1>4 DEF TypeOK, GoalTypeOK, OnSpeedProfilePlan
  <2> QED BY <1>4, <2>1, TypeFrames DEF TypeOK, OnSpeedProfilePlan
<1>5. CASE GoalLeaseRenewed
  <2>1. GoalTypeOK'
    BY <1>5 DEF TypeOK, GoalTypeOK, GoalLeaseRenewed
  <2> QED BY <1>5, <2>1, TypeFrames DEF TypeOK, GoalLeaseRenewed
<1>6. CASE GoalEnds
  <2>1. GoalTypeOK'
    BY <1>6 DEF TypeOK, GoalTypeOK, GoalEnds
  <2>2. LocTypeOK'
    BY <1>6, ResetTypes DEF TypeOK, LocTypeOK, GoalEnds
  <2> QED BY <1>6, <2>1, <2>2, TypeFrames DEF TypeOK, GoalEnds
<1>7. CASE \E p \in Peers, good \in HealthInputs : OnPeer(p, good)
  <2>1. PICK p \in Peers, good \in HealthInputs : OnPeer(p, good)
    BY <1>7
  <2>2. system_state_count' \in 0 .. 3
    BY <2>1 DEF TypeOK, PeerTypeOK, OnPeer, Saturate
  <2>3. PeerTypeOK'
    BY <2>1, <2>2 DEF TypeOK, PeerTypeOK, OnPeer
  <2> QED BY <2>1, <2>3, TypeFrames DEF TypeOK, OnPeer
<1>8. CASE \E c \in CommandInputs : OnCommand(c)
  <2>1. CmdTypeOK'
    BY <1>8, InputAssumption DEF TypeOK, CmdTypeOK, OnCommand
  <2> QED BY <1>8, <2>1, TypeFrames DEF TypeOK, OnCommand
<1>9. CASE \E asking \in CollisionInputs : OnPreCollisionCommand(asking)
  <2>1. CmdTypeOK'
    BY <1>9, InputAssumption DEF TypeOK, CmdTypeOK, OnPreCollisionCommand
  <2> QED BY <1>9, <2>1, TypeFrames DEF TypeOK, OnPreCollisionCommand
<1>10. CASE \E straight \in StraightInputs : OnPlan(straight)
  <2>1. PICK straight \in BOOLEAN : OnPlan(straight)
    BY <1>10, InputAssumption
  <2>2. reverse_plan.confirmed \in 0 .. Confirmations /\ Confirmations \in Nat
    BY RearAssumption DEF TypeOK, CmdTypeOK
  <2>3. Saturate(reverse_plan.confirmed + 1, Confirmations) \in 0 .. Confirmations
    <3>1. reverse_plan.confirmed + 1 \in Nat
      BY <2>2
    <3> QED BY <2>2, <3>1, SaturateWithin
  <2>4. reverse_plan' \in [fresh : BOOLEAN, straight : BOOLEAN,
                           confirmed : 0 .. Confirmations]
    BY <2>1, <2>2, <2>3 DEF OnPlan
  <2>5. CmdTypeOK'
    BY <2>1, <2>4 DEF TypeOK, CmdTypeOK, OnPlan
  <2> QED BY <2>1, <2>5, TypeFrames DEF TypeOK, OnPlan
<1>11. CASE \E good \in HealthInputs : OnUltrasonicHealth(good)
  <2>1. SonarTypeOK'
    BY <1>11 DEF TypeOK, SonarTypeOK, OnUltrasonicHealth
  <2> QED BY <1>11, <2>1, TypeFrames DEF TypeOK, OnUltrasonicHealth
<1> QED
  BY <1>1, <1>2, <1>3, <1>4, <1>5, <1>6, <1>7, <1>8, <1>9, <1>10, <1>11

(* A step of the gate keeps every field in its range. *)
LEMMA TypeStep == TypeOK /\ [Next]_vars => TypeOK'
<1> SUFFICES ASSUME TypeOK, [Next]_vars PROVE TypeOK'
  OBVIOUS
<1>1. CASE \E v \in FitnessInputs : OnLocalization(v)
  BY <1>1, OnLocalizationType
<1>2. CASE \E s \in Sides : \/ \E r \in RangeInputs : OnUltrasonicRange(s, r)
                            \/ SonarHoldPasses(s)
  BY <1>2, SonarType
<1>3. CASE GoalStarts
  BY <1>3, GoalStartsType
<1>4. CASE Arm \/ ArmRefused \/ Disarm
  BY <1>4, ArmType
<1>5. CASE LocalizationUpdate
  BY <1>5, LocalizationUpdateType
<1>6. CASE \E m \in OdomInputs : OnOdom(m)
  BY <1>6, OnOdomType
<1>7. CASE Expire
  BY <1>7, ExpireType
<1>8. CASE TickReason \/ TickProfile \/ TickPublish
  BY <1>8, TickType
<1>9. CASE UNCHANGED vars
  BY <1>9, TypeFrames DEF TypeOK, vars
<1> QED
  BY <1>1, <1>2, <1>3, <1>4, <1>5, <1>6, <1>7, <1>8, <1>9, RecordingType
  DEF Next, OtherStep, StepWithoutOdom

(* The constructor's initial fields have their types. *)
LEMMA TypeInit == Init => TypeOK
<1> SUFFICES ASSUME Init PROVE TypeOK
  OBVIOUS
<1>1. (armed \in BOOLEAN) /\ PeerTypeOK
  <2>1. armed \in BOOLEAN
    BY Zenon DEF Init
  <2>2. PeerTypeOK
    BY DEF Init, PeerTypeOK
  <2> QED BY <2>1, <2>2
<1>2. GoalTypeOK
  <2>1. lease_fresh \in BOOLEAN /\ goal_active \in BOOLEAN
    BY Zenon DEF Init
  <2>2. /\ goal_traveled \in 0 .. StartDistance
        /\ speed_plan_remaining \in Nat \cup {Unplanned}
        /\ plan_wire \in Nat \cup {Unplanned}
    BY SpeedAssumption DEF Init
  <2> QED BY <2>1, <2>2 DEF GoalTypeOK
<1>3. LocTypeOK
  <2>1. InitHysteresis \in Hysteresis(FitnessSamples + DegradedSamples)
    BY FitnessAssumption DEF InitHysteresis, Hysteresis, HoldTimer
  <2> QED BY <2>1, ResetTypes DEF Init, LocTypeOK, IdleJob
<1>4. OdomTypeOK
  BY ResetTypes DEF Init, OdomTypeOK
<1>5. CmdTypeOK
  <2>1. command_fresh \in BOOLEAN /\ pre_collision \in BOOLEAN
    BY Zenon DEF Init
  <2>2. /\ command \in [lin : Int, ang : Int]
        /\ reverse_plan \in [fresh : BOOLEAN, straight : BOOLEAN,
                             confirmed : 0 .. Confirmations]
    BY RearAssumption DEF Init, NoCommand
  <2> QED BY <2>1, <2>2 DEF CmdTypeOK
<1>6. SonarTypeOK
  <2>1. InitLatch \in Latch(NoEchoSamples)
    BY RearAssumption DEF InitLatch, Latch
  <2> QED BY <2>1 DEF Init, SonarTypeOK
<1>7. TickTypeOK
  BY DEF Init, TickTypeOK, IdleTick, Rest
<1> QED BY <1>1, <1>2, <1>3, <1>4, <1>5, <1>6, <1>7 DEF TypeOK

(* Type correctness: every field of the gate stays in its range, and no    *)
(* budget or counter of on_odom(), on_localization() and                    *)
(* on_ultrasonic_range() passes the bound it is compared with.              *)
THEOREM TypeCorrect == Spec => []TypeOK
BY TypeInit, TypeStep, PTL DEF Spec

(* tick and the published Twist are written by tick() alone: every other   *)
(* callback leaves them as they are.                                        *)
LEMMA OnlyTickPublishes ==
    ASSUME [Next]_vars
    PROVE  UNCHANGED tickVars \/ TickReason \/ TickProfile \/ TickPublish
<1>1. CASE \E v \in FitnessInputs : OnLocalization(v)
  BY <1>1 DEF OnLocalization
<1>2. CASE \E s \in Sides, r \in RangeInputs : OnUltrasonicRange(s, r)
  BY <1>2 DEF OnUltrasonicRange
<1>3. CASE GoalStarts
  BY <1>3 DEF GoalStarts
<1>4. CASE Arm \/ ArmRefused \/ Disarm
  BY <1>4 DEF Arm, ArmRefused, Disarm
<1>5. CASE LocalizationUpdate \/ OnLocalizationPose \/ FitnessHoldPasses
  BY <1>5 DEF LocalizationUpdate, OnLocalizationPose, FitnessHoldPasses
<1>6. CASE \/ \E n \in PlanLengths : PlannerPublishes(n)
           \/ OnSpeedProfilePlan \/ GoalLeaseRenewed \/ GoalEnds
  BY <1>6 DEF PlannerPublishes, OnSpeedProfilePlan, GoalLeaseRenewed, GoalEnds
<1>7. CASE \E m \in OdomInputs : OnOdom(m)
  BY <1>7 DEF OnOdom
<1>8. CASE \E p \in Peers, good \in HealthInputs : OnPeer(p, good)
  BY <1>8 DEF OnPeer
<1>9. CASE \/ \E c \in CommandInputs : OnCommand(c)
           \/ \E asking \in CollisionInputs : OnPreCollisionCommand(asking)
           \/ \E straight \in StraightInputs : OnPlan(straight)
  BY <1>9 DEF OnCommand, OnPreCollisionCommand, OnPlan
<1>10. CASE \/ \E good \in HealthInputs : OnUltrasonicHealth(good)
            \/ \E s \in Sides : SonarHoldPasses(s)
  BY <1>10 DEF OnUltrasonicHealth, SonarHoldPasses
<1>11. CASE Expire
  BY <1>11 DEF Expire, ExpirePeer, ExpireLease, ExpireLocalization, ExpireOdom,
               ExpireCommand, ExpireReversePlan, ExpireSonar,
               ExpireSonarHealth
<1>12. CASE UNCHANGED vars
  BY <1>12 DEF vars
<1> QED
  BY <1>1, <1>2, <1>3, <1>4, <1>5, <1>6, <1>7, <1>8, <1>9, <1>10, <1>11, <1>12
  DEF Next, OtherStep, StepWithoutOdom
=============================================================================
