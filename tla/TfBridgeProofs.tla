---------------------------- MODULE TfBridgeProofs ----------------------------
(***************************************************************************)
(* The transform bridge, for every mount, motion, estimate, threshold and  *)
(* length of the history.                                                  *)
(***************************************************************************)
EXTENDS TfBridgeChecks, WellFoundedInduction, TLAPS

LEMMA PoseClosure ==
  ASSUME NEW a \in Poses, NEW b \in Poses
  PROVE  Mul(a, b) \in Poses /\ Inv(a) \in Poses /\ Motion(a, b) \in Poses
  BY DEF Poses, Mul, Inv, Motion

(* A transform and its inverse cancel, on either side. *)
LEMMA Cancels ==
  ASSUME NEW a \in Poses, NEW b \in Poses
  PROVE  /\ Mul(Mul(a, Inv(b)), b) = a
         /\ Mul(b, Inv(b)) = Identity /\ Mul(Identity, b) = b
  BY DEF Poses, Mul, Inv, Identity

(* A nonempty set of natural numbers has a least element. *)
LEMMA LeastNatural ==
  ASSUME NEW T \in SUBSET Nat, T # {}
  PROVE  \E x \in T : \A y \in T : x <= y
<1> DEFINE R == OpToRel(<, Nat)
<1>1. IsWellFoundedOn(R, Nat)
  BY NatLessThanWellFounded
<1> HIDE DEF R
<1>2. PICK x \in T : \A y \in T : ~ (<<y, x>> \in R)
  BY <1>1, WFMin
<1>3. ASSUME NEW y \in T PROVE x <= y
  <2>1. ~ (<<y, x>> \in R) /\ x \in Nat /\ y \in Nat
    BY <1>2
  <2> QED  BY <2>1 DEF R, OpToRel
<1> QED  BY <1>2, <1>3

(* The search for the closest sample finds one of the history. *)
LEMMA ClosestExists ==
  ASSUME odom_history \in SUBSET Nat, odom_history # {}, NEW t \in Nat
  PROVE  Closest(t) \in odom_history
<1> DEFINE rank(u) == 2 * Magnitude(u - t) + (IF u <= t THEN 0 ELSE 1)
           T == {rank(u) : u \in odom_history}
<1>1. \A u \in odom_history : u \in Nat /\ rank(u) \in Nat
  BY DEF Magnitude
<1>2. T \in SUBSET Nat /\ T # {}
  BY <1>1
<1>3. PICK x \in T : \A y \in T : x <= y
  BY <1>2, LeastNatural
<1>4. PICK u \in odom_history : x = rank(u)
  BY <1>3
<1>5. \A v \in odom_history : rank(u) <= rank(v)
  BY <1>3, <1>4
<1>6. ASSUME NEW v \in odom_history
      PROVE  \/ Magnitude(u - t) < Magnitude(v - t)
             \/ Magnitude(u - t) = Magnitude(v - t) /\ u <= v
  <2>1. u \in Nat /\ v \in Nat /\ rank(u) <= rank(v)
    BY <1>1, <1>5
  <2> QED  BY <2>1 DEF Magnitude
<1> QED  BY <1>6 DEF Closest

-----------------------------------------------------------------------------
(* The invariant.                                                           *)

(* With odometry there is a sample to pair an estimate with. *)
SampleKept ==
    latest_odom # None => latest_odom.stamp \in odom_history

(* What is held is what was published, and a locked centre is where the     *)
(* chassis was shown.                                                       *)
HeldIsPublished ==
    /\ held # None =>
         /\ tf # None /\ publish_odom # None
         /\ tf.map_odom = held.map_odom /\ tf.base = Mul(held.map_odom, publish_odom)
    /\ in_place_anchor # None => held # None /\ tf.base.p = in_place_anchor.p

TfInv ==
    /\ TypeOK /\ SampleKept /\ HeldIsPublished /\ TrueEstimatesGiveTrueFrame

LEMMA TfInitially == ChecksInit => TfInv
<1> SUFFICES ASSUME ChecksInit PROVE TfInv
  OBVIOUS
<1> USE BridgeAssumption DEF ChecksInit, TrackInit, TfInit
<1>1. TrackType
  BY DEF TrackType, now, Identity, Poses
<1>2. pose_fresh \in BOOLEAN /\ odom_fresh \in BOOLEAN
  BY Zenon
<1>3. TfTypeOK
  BY <1>1, <1>2 DEF TfTypeOK
<1> QED  BY <1>1, <1>3 DEF TfInv, TypeOK, SampleKept, HeldIsPublished,
         TrueEstimatesGiveTrueFrame

-----------------------------------------------------------------------------
(* Publication.                                                             *)

(* The odometry at hand, and that of the sample an estimate belongs to. *)
LEMMA OdometryAtHand ==
  ASSUME TfInv, latest_odom # None
  PROVE  /\ track[latest_odom.stamp] \in Poses
         /\ latest_pose # None => track[Closest(latest_pose.stamp)] \in Poses
<1>1. /\ odom_history \in SUBSET (1 .. now) /\ latest_odom.stamp \in odom_history
      /\ track \in Seq(Poses) /\ now \in Nat
      /\ latest_pose # None => latest_pose.stamp \in Nat
  BY DEF TfInv, TypeOK, TfTypeOK, TrackType, now, SampleKept
<1>2. odom_history \in SUBSET Nat /\ odom_history # {}
  BY <1>1
<1>3. latest_pose # None => Closest(latest_pose.stamp) \in 1 .. now
  BY <1>1, <1>2, ClosestExists
<1>4. \A t \in 1 .. now : track[t] \in Poses
  BY <1>1 DEF now
<1>5. latest_odom.stamp \in 1 .. now
  BY <1>1
<1> QED  BY <1>3, <1>4, <1>5

(* A correction moves a chassis at rest or turning not at all, and any      *)
(* other by no more than the limit.                                         *)
LEMMA FilterLimits ==
  ASSUME held \in Corrections, NEW measured \in Poses, NEW odom_base \in Poses
  PROVE  /\ Filter(measured, odom_base) \in Poses
         /\ Magnitude(Filter(measured, odom_base).p - Mul(held.map_odom, odom_base).p)
              <= MaxCorrection
         /\ held.odom_base.p = odom_base.p =>
              Filter(measured, odom_base).p = Mul(held.map_odom, odom_base).p
         /\ measured = Mul(held.map_odom, odom_base) =>
              Filter(measured, odom_base) = measured
<1> DEFINE delta == Motion(held.odom_base, odom_base)
           predicted == Mul(held.map_odom, odom_base)
           filtered == Filter(measured, odom_base)
<1>1. held.map_odom \in Poses /\ held.odom_base \in Poses /\ held # None
  BY BridgeAssumption DEF Corrections
<1>2. predicted \in Poses /\ delta \in Poses
  BY <1>1, PoseClosure
<1>3. held.odom_base.p = odom_base.p => Translation(delta) = 0
  BY <1>1 DEF Poses, Motion, Mul, Inv, Translation, Magnitude
<1>4. filtered =
        IF Translation(delta) <= StationaryTranslation /\ ~Turned(delta)
        THEN predicted
        ELSE IF Translation(delta) <= InPlaceTranslation /\ Turned(delta)
        THEN [p |-> predicted.p, s |-> measured.s]
        ELSE [p |-> predicted.p + Limit(measured.p - predicted.p, MaxCorrection),
              s |-> measured.s]
  BY <1>1 DEF Filter
<1> HIDE DEF delta, predicted, filtered
<1> SUFFICES /\ filtered \in Poses
             /\ Magnitude(filtered.p - predicted.p) <= MaxCorrection
             /\ held.odom_base.p = odom_base.p => filtered.p = predicted.p
             /\ measured = predicted => filtered = measured
  BY DEF delta, predicted, filtered
<1>5. /\ StationaryTranslation \in Nat /\ InPlaceTranslation \in Nat
      /\ MaxCorrection \in Nat
  BY BridgeAssumption
<1>6. predicted.p \in Int /\ measured.p \in Int
  BY <1>2 DEF Poses
<1>7. CASE Translation(delta) <= StationaryTranslation /\ ~Turned(delta)
  <2>1. filtered = predicted
    BY <1>4, <1>7
  <2> QED  BY <1>2, <1>5, <1>6, <2>1 DEF Magnitude
<1>8. CASE ~(Translation(delta) <= StationaryTranslation /\ ~Turned(delta))
           /\ Translation(delta) <= InPlaceTranslation /\ Turned(delta)
  <2>1. filtered = [p |-> predicted.p, s |-> measured.s]
    BY <1>4, <1>8
  <2> QED  BY <1>2, <1>5, <1>6, <2>1 DEF Magnitude, Poses
<1>9. CASE /\ ~(Translation(delta) <= StationaryTranslation /\ ~Turned(delta))
           /\ ~(Translation(delta) <= InPlaceTranslation /\ Turned(delta))
  <2> DEFINE l == Limit(measured.p - predicted.p, MaxCorrection)
  <2>1. filtered = [p |-> predicted.p + l, s |-> measured.s]
    BY <1>4, <1>9
  <2>2. l \in Int /\ Magnitude(l) <= MaxCorrection
        /\ (measured.p = predicted.p => l = 0)
    BY <1>5, <1>6 DEF Limit, Magnitude
  <2> HIDE DEF l
  <2>3. filtered \in Poses /\ filtered.p = predicted.p + l /\ filtered.s = measured.s
    BY <1>6, <2>1, <2>2 DEF Poses
  <2>4. Magnitude(filtered.p - predicted.p) <= MaxCorrection
    BY <1>6, <2>2, <2>3 DEF Magnitude
  <2>5. ~(held.odom_base.p = odom_base.p)
    BY <1>3, <1>5, <1>9
  <2>6. measured = predicted => filtered = measured
    <3> HAVE measured = predicted
    <3>1. l = 0
      BY <2>2
    <3> QED  BY <1>6, <2>1, <3>1 DEF Poses
  <2> QED  BY <2>3, <2>4, <2>5, <2>6
<1> QED  BY <1>7, <1>8, <1>9

(* What the newest estimate makes of the correction: a limited shift, and   *)
(* none at all when every estimate was true.                                *)
LEMMA Correction ==
  ASSUME TfInv, latest_pose # None, latest_odom # None, held = None => PoseChanged
  PROVE  /\ Corrected \in Corrections
         /\ held # None =>
              Magnitude(Mul(Corrected.map_odom, Corrected.odom_base).p
                          - Mul(held.map_odom, Corrected.odom_base).p)
                <= IF held.odom_base.p = Corrected.odom_base.p THEN 0 ELSE MaxCorrection
         /\ honest /\ Honest => Corrected.map_odom = Identity
<1>1. held # None => held \in Corrections /\ tf.map_odom = held.map_odom
  BY DEF TfInv, TypeOK, TfTypeOK, HeldIsPublished
<1>2. honest /\ held # None => held.map_odom = Identity
  BY <1>1 DEF TfInv, TrueEstimatesGiveTrueFrame
<1>3. MaxCorrection \in Nat
  BY BridgeAssumption
<1>4. CASE ~PoseChanged
  <2>1. Corrected = held /\ held # None
    BY <1>4 DEF Corrected
  <2>2. held.map_odom \in Poses /\ held.odom_base \in Poses
    BY <1>1, <2>1 DEF Corrections
  <2>3. Mul(held.map_odom, held.odom_base).p \in Int
    BY <2>2, PoseClosure DEF Poses
  <2> QED  BY <1>1, <1>2, <1>3, <2>1, <2>3 DEF Magnitude
<1>5. CASE PoseChanged
  <2> DEFINE odom_base == track[Closest(latest_pose.stamp)]
             measured == Mul(latest_pose.pose, Mount)
             map_base == Filter(measured, odom_base)
  <2>1. odom_base \in Poses
    BY OdometryAtHand
  <2>2. latest_pose.pose \in Poses /\ measured \in Poses
    BY MountAssumption, PoseClosure DEF TfInv, TypeOK, TfTypeOK
  <2>3. Corrected = [map_odom |-> Mul(map_base, Inv(odom_base)), odom_base |-> odom_base,
                     localization |-> latest_pose.pose]
    BY <1>5 DEF Corrected
  <2>4. honest /\ Honest => measured = odom_base
    BY <1>5, <2>1, MountAssumption, Cancels DEF Honest, BodyAt
  <2>5. held = None => map_base = measured
    BY DEF Filter
  <2>6. held # None =>
          /\ map_base \in Poses
          /\ Magnitude(map_base.p - Mul(held.map_odom, odom_base).p) <= MaxCorrection
          /\ held.odom_base.p = odom_base.p =>
               map_base.p = Mul(held.map_odom, odom_base).p
          /\ measured = Mul(held.map_odom, odom_base) => map_base = measured
    BY <1>1, <2>1, <2>2, FilterLimits
  <2> HIDE DEF odom_base, measured, map_base
  <2>7. map_base \in Poses
    BY <2>2, <2>5, <2>6
  <2>8. Mul(map_base, Inv(odom_base)) \in Poses
        /\ Mul(Mul(map_base, Inv(odom_base)), odom_base) = map_base
    BY <2>1, <2>7, PoseClosure, Cancels
  <2>9. Corrected \in Corrections
    BY <2>1, <2>2, <2>3, <2>8 DEF Corrections
  <2>10. ASSUME held # None
         PROVE  Magnitude(Mul(Corrected.map_odom, Corrected.odom_base).p
                          - Mul(held.map_odom, Corrected.odom_base).p)
                <= IF held.odom_base.p = Corrected.odom_base.p THEN 0 ELSE MaxCorrection
    <3>1. Corrected.odom_base = odom_base
          /\ Mul(Corrected.map_odom, Corrected.odom_base) = map_base
      BY <2>3, <2>8
    <3>2. map_base.p \in Int
      BY <2>7 DEF Poses
    <3> QED  BY <2>6, <2>10, <3>1, <3>2 DEF Magnitude
  <2>11. ASSUME honest /\ Honest PROVE Corrected.map_odom = Identity
    <3>1. measured = odom_base
      BY <2>4, <2>11
    <3>2. held # None => Mul(held.map_odom, odom_base) = odom_base
      BY <1>2, <2>1, <2>11, Cancels
    <3>3. map_base = odom_base
      BY <2>5, <2>6, <3>1, <3>2
    <3> QED  BY <2>1, <2>3, <3>3, Cancels
  <2> QED  BY <2>9, <2>10, <2>11
<1> QED  BY <1>4, <1>5

(* What a publication leaves behind. *)
LEMMA Publication ==
  ASSUME TfInv, PublishTransform
  PROVE  /\ held' \in Corrections /\ held'.odom_base = Corrected.odom_base
         /\ publish_odom' = track[latest_odom.stamp]
         /\ in_place_anchor' \in Poses \cup {None}
         /\ tf' \in Transforms /\ tf'.map_odom = held'.map_odom
         /\ tf'.base = Mul(held'.map_odom, publish_odom')
         /\ in_place_anchor' = None => held'.map_odom = Corrected.map_odom
         /\ in_place_anchor' # None =>
              /\ tf'.base.p = in_place_anchor'.p
              /\ RotatingNow(publish_odom')
              /\ in_place_anchor # None => in_place_anchor' = in_place_anchor
              /\ in_place_anchor = None =>
                   in_place_anchor'.p = Mul(Corrected.map_odom, publish_odom').p
              /\ held'.map_odom =
                   Mul([p |-> in_place_anchor'.p,
                        s |-> Mul(Corrected.map_odom, publish_odom').s],
                       Inv(publish_odom'))
<1> DEFINE c == Corrected
           current == track[latest_odom.stamp]
           map_base == Mul(c.map_odom, current)
           anchor == Anchor(current, map_base)
           map_odom == IF anchor = None THEN c.map_odom
                       ELSE Mul([p |-> anchor.p, s |-> map_base.s], Inv(current))
<1>1. /\ held' = [c EXCEPT !.map_odom = map_odom] /\ in_place_anchor' = anchor
      /\ publish_odom' = current
      /\ tf' = [map_odom |-> map_odom, base |-> Mul(map_odom, current)]
      /\ latest_pose # None /\ latest_odom # None /\ (held = None => PoseChanged)
  BY DEF PublishTransform
<1>2. c \in Corrections /\ current \in Poses
  BY <1>1, Correction, OdometryAtHand
<1>3. c.map_odom \in Poses /\ map_base \in Poses
  BY <1>2, PoseClosure DEF Corrections
<1>4. in_place_anchor \in Poses \cup {None}
  BY DEF TfInv, TypeOK, TfTypeOK
<1>5. /\ anchor # None =>
           /\ anchor \in Poses /\ RotatingNow(current)
           /\ in_place_anchor # None => anchor = in_place_anchor
           /\ in_place_anchor = None => anchor.p = map_base.p
  <2> HIDE DEF map_base, current
  <2>1. [map_base EXCEPT !.s = 1] \in Poses /\ [map_base EXCEPT !.s = 1].p = map_base.p
    BY <1>3 DEF Poses
  <2> QED  BY <1>4, <2>1 DEF Anchor
<1> HIDE DEF c, current, map_base, anchor
<1>6. map_odom \in Poses
      /\ (anchor # None => Mul(map_odom, current) = [p |-> anchor.p, s |-> map_base.s])
  <2>1. CASE anchor = None
    BY <1>3, <2>1
  <2>2. CASE anchor # None
    <3>1. [p |-> anchor.p, s |-> map_base.s] \in Poses
      BY <1>3, <1>5, <2>2 DEF Poses
    <3> QED  BY <1>2, <2>2, <3>1, PoseClosure, Cancels
  <2> QED  BY <2>1, <2>2
<1>7. anchor # None =>
        map_odom = Mul([p |-> anchor.p, s |-> map_base.s], Inv(current))
  OBVIOUS
<1>8. anchor = None => map_odom = c.map_odom
  OBVIOUS
<1> HIDE DEF map_odom
<1>9. /\ held' \in Corrections /\ held'.odom_base = c.odom_base
      /\ held'.map_odom = map_odom
  BY <1>1, <1>2, <1>6 DEF Corrections
<1>10. tf' \in Transforms /\ tf'.map_odom = map_odom /\ tf'.base = Mul(map_odom, current)
  BY <1>1, <1>2, <1>6, PoseClosure DEF Transforms
<1>11. in_place_anchor' \in Poses \cup {None}
  BY <1>1, <1>5
<1>12. anchor # None => tf'.base.p = anchor.p
  BY <1>6, <1>10
<1>13. map_base = Mul(Corrected.map_odom, publish_odom')
  BY <1>1 DEF map_base, c, current
<1> QED  BY <1>1, <1>5, <1>7, <1>8, <1>9, <1>10, <1>11, <1>12, <1>13 DEF c, current

(* With true estimates the published correction is the identity. *)
LEMMA TruthfulPublication ==
  ASSUME TfInv, PublishTransform, honest, Honest
  PROVE  held'.map_odom = Identity
<1> DEFINE current == track[latest_odom.stamp]
<1>1. /\ latest_pose # None /\ latest_odom # None /\ (held = None => PoseChanged)
  BY DEF PublishTransform
<1>2. Corrected.map_odom = Identity /\ current \in Poses
  BY <1>1, Correction, OdometryAtHand
<1>3. publish_odom' = current /\ Mul(Corrected.map_odom, publish_odom') = current
  BY <1>2, Publication, Cancels
<1>4. CASE in_place_anchor' = None
  BY <1>2, <1>4, Publication
<1>5. CASE in_place_anchor' # None
  <2>1. in_place_anchor'.p = current.p
    <3>1. CASE in_place_anchor = None
      BY <1>3, <1>5, <3>1, Publication
    <3>2. CASE in_place_anchor # None
      <4>1. in_place_anchor' = in_place_anchor /\ RotatingNow(current)
        BY <1>3, <1>5, <3>2, Publication
      <4>2. /\ held # None /\ publish_odom \in Poses
            /\ tf.base.p = in_place_anchor.p
            /\ tf.map_odom = held.map_odom /\ tf.base = Mul(held.map_odom, publish_odom)
        BY <3>2 DEF TfInv, HeldIsPublished, TypeOK, TfTypeOK
      <4>3. held.map_odom = Identity
        BY <4>2 DEF TfInv, TrueEstimatesGiveTrueFrame
      <4>4. tf.base = publish_odom
        BY <4>2, <4>3, Cancels
      <4>5. publish_odom.p = current.p
        BY <3>2, <4>1 DEF Honest
      <4> QED  BY <4>1, <4>2, <4>4, <4>5
    <3> QED  BY <3>1, <3>2
  <2>2. held'.map_odom = Mul([p |-> current.p, s |-> current.s], Inv(current))
    BY <1>3, <1>5, <2>1, Publication
  <2> HIDE DEF current
  <2>3. [p |-> current.p, s |-> current.s] = current
    BY <1>2 DEF Poses
  <2> QED  BY <1>2, <2>2, <2>3, Cancels
<1> QED  BY <1>4, <1>5

(* One publication shifts the chassis by a limited amount. *)
Shifted ==
    LET sample == held'.odom_base
        shift  == Mul(held'.map_odom, sample).p - Mul(held.map_odom, sample).p
    IN  Magnitude(shift) <= IF held.odom_base.p = sample.p THEN 0 ELSE MaxCorrection

LEMMA PublishStep ==
  ASSUME TfInv, PublishTransform, honest' = (honest /\ Honest), UNCHANGED <<track, taken>>
  PROVE  /\ TfInv'
         /\ held # None /\ in_place_anchor' = None => Shifted
         /\ in_place_anchor # None /\ in_place_anchor' # None => tf'.base.p = tf.base.p
<1>1. /\ latest_pose # None /\ latest_odom # None /\ (held = None => PoseChanged)
      /\ UNCHANGED <<latest_pose, pose_fresh, latest_odom, odom_fresh, odom_history>>
  BY DEF PublishTransform
<1>2. track[latest_odom.stamp] \in Poses
  BY <1>1, OdometryAtHand
<1>3. TypeOK'
  <2>1. TrackType'
    BY DEF TfInv, TypeOK, TrackType, now
  <2>2. publish_odom' \in Poses
    BY <1>2, Publication
  <2> QED  BY <1>1, <2>1, <2>2, Publication DEF TfInv, TypeOK, TfTypeOK, now
<1>4. SampleKept'
  BY <1>1 DEF TfInv, SampleKept
<1>5. held' # None /\ tf' # None /\ publish_odom' # None
  BY <1>2, Publication, BridgeAssumption, NoneAssumption
<1>6. HeldIsPublished'
  BY <1>5, Publication DEF HeldIsPublished
<1>7. TrueEstimatesGiveTrueFrame'
  BY TruthfulPublication, Publication DEF TrueEstimatesGiveTrueFrame
<1>8. ASSUME held # None, in_place_anchor' = None PROVE Shifted
  <2>1. held'.map_odom = Corrected.map_odom /\ held'.odom_base = Corrected.odom_base
    BY <1>8, Publication
  <2> QED  BY <1>1, <1>8, <2>1, Correction DEF Shifted
<1>9. ASSUME in_place_anchor # None, in_place_anchor' # None PROVE tf'.base.p = tf.base.p
  BY <1>9, Publication DEF TfInv, HeldIsPublished
<1> QED  BY <1>3, <1>4, <1>6, <1>7, <1>8, <1>9 DEF TfInv

-----------------------------------------------------------------------------
(* The other steps change neither what is held nor what is published, or    *)
(* clear it.                                                                *)
LEMMA OtherStep ==
  ASSUME TfInv, [ChecksNext]_checkVars,
         ~(PublishTransform /\ honest' = (honest /\ Honest) /\ UNCHANGED <<track, taken>>)
  PROVE  /\ TfInv'
         /\ \/ held' = None /\ in_place_anchor' = None
            \/ UNCHANGED <<held, in_place_anchor, tf>>
<1>0. /\ TrackType /\ TfTypeOK /\ now \in Nat
  BY DEF TfInv, TypeOK, TrackType, now
<1>00. \A t \in 1 .. now : track[t] \in Poses
  BY <1>0 DEF TrackType, now
<1>1. CASE ResetCallback /\ honest' = TRUE /\ UNCHANGED <<track, taken>>
  <2>1. TrackType' /\ now' = now
    BY <1>0, <1>1 DEF TrackType, now
  <2>2. TfTypeOK'
    BY <1>0, <1>1, <2>1 DEF ResetCallback, TfTypeOK
  <2> QED  BY <1>1, <2>1, <2>2 DEF ResetCallback, TfInv, TypeOK, SampleKept,
           HeldIsPublished, TrueEstimatesGiveTrueFrame
<1>2. ASSUME NEW e \in Estimates, Estimate(e)
      PROVE  TfInv' /\ UNCHANGED <<held, in_place_anchor, tf>>
  <2>1. TrackType' /\ now' = now
    BY <1>0, <1>2 DEF Estimate, TrackType, now
  <2>2. e.pose \in Poses /\ e.stamp \in Nat
    <3>1. e.stamp \in 1 .. now /\ e.pose \in {BodyAt(t) : t \in 1 .. now} \cup Outliers
      BY DEF Estimates
    <3>2. \A t \in 1 .. now : BodyAt(t) \in Poses
      <4>1. Inv(Mount) \in Poses
        BY MountAssumption, PoseClosure
      <4> QED  BY <1>00, <4>1, PoseClosure DEF BodyAt
    <3> QED  BY <1>0, <3>1, <3>2, OutliersAssumption
  <2>3. pose_fresh' \in BOOLEAN /\ odom_fresh' \in BOOLEAN
    BY <1>0, <1>2, Zenon DEF Estimate, PoseCallback, TfTypeOK
  <2>4. TfTypeOK'
    BY <1>0, <1>2, <2>1, <2>2, <2>3 DEF Estimate, PoseCallback, TfTypeOK
  <2> QED  BY <1>2, <2>1, <2>4 DEF Estimate, PoseCallback, TfInv, TypeOK, SampleKept,
           HeldIsPublished, TrueEstimatesGiveTrueFrame
<1>3. ASSUME NEW step \in Steps, Move(step), UNCHANGED <<tfVars, taken, honest>>
      PROVE  TfInv' /\ UNCHANGED <<held, in_place_anchor, tf>>
  <2>1. Mul(track[now], step) \in Poses
    <3>1. now \in 1 .. now
      BY <1>0 DEF TrackType
    <3>2. track[now] \in Poses /\ step \in Poses
      BY <1>00, <3>1, StepsAssumption
    <3> QED  BY <3>2, PoseClosure
  <2>2. TrackType' /\ now' = now + 1
    BY <1>0, <1>3, <2>1 DEF Move, TrackType, now
  <2>3. TfTypeOK'
    <3>1. odom_history \in SUBSET (1 .. now')
      BY <1>0, <2>2 DEF TfTypeOK
    <3> QED  BY <1>0, <1>3, <3>1 DEF tfVars, TfTypeOK
  <2> QED  BY <1>3, <2>2, <2>3 DEF tfVars, TfInv, TypeOK, SampleKept,
           HeldIsPublished, TrueEstimatesGiveTrueFrame
<1>4. ASSUME NEW turning \in BOOLEAN, TfOdomCallback(turning), UNCHANGED <<track, taken, honest>>
      PROVE  TfInv' /\ UNCHANGED <<held, in_place_anchor, tf>>
  <2>1. TrackType' /\ now' = now /\ now >= 1
    BY <1>0, <1>4 DEF TrackType, now
  <2>2. latest_odom' \in OdomSamples /\ latest_odom'.stamp = now
    BY <1>0, <1>4, <2>1 DEF TfOdomCallback, OdomSamples
  <2>3. /\ odom_history' \in SUBSET (1 .. now') /\ now \in odom_history'
        /\ \A t \in odom_history' : latest_odom'.stamp - t <= HistoryLength
    <3>1. odom_history' = {t \in odom_history \cup {now} : now - t <= HistoryLength}
      BY <1>4 DEF TfOdomCallback
    <3>2. odom_history \in SUBSET (1 .. now) /\ HistoryLength \in Nat
      BY <1>0, BridgeAssumption DEF TfTypeOK
    <3>3. now \in odom_history' /\ \A t \in odom_history' : now - t <= HistoryLength
      BY <1>0, <3>1, <3>2
    <3>4. odom_history' \in SUBSET (1 .. now)
      <4>1. now \in 1 .. now
        BY <1>0, <2>1
      <4>2. odom_history' \subseteq odom_history \cup {now}
        BY <3>1
      <4> QED  BY <3>2, <4>1, <4>2
    <3> QED  BY <2>1, <2>2, <3>3, <3>4
  <2>4. pose_fresh' \in BOOLEAN /\ odom_fresh' \in BOOLEAN
    BY <1>0, <1>4, Zenon DEF TfOdomCallback, TfTypeOK
  <2>5. TfTypeOK'
    BY <1>0, <1>4, <2>2, <2>3, <2>4 DEF TfOdomCallback, TfTypeOK
  <2>6. SampleKept'
    BY <2>2, <2>3 DEF SampleKept
  <2> QED  BY <1>4, <2>1, <2>5, <2>6 DEF TfOdomCallback, TfInv, TypeOK,
           HeldIsPublished, TrueEstimatesGiveTrueFrame
<1>5. ASSUME PoseExpires \/ OdomExpires \/ UNCHANGED tfVars, UNCHANGED <<track, taken, honest>>
      PROVE  TfInv' /\ UNCHANGED <<held, in_place_anchor, tf>>
  <2>1. TrackType' /\ now' = now
    BY <1>0, <1>5 DEF TrackType, now
  <2>2. pose_fresh' \in BOOLEAN /\ odom_fresh' \in BOOLEAN
    BY <1>0, <1>5, Zenon DEF PoseExpires, OdomExpires, tfVars, TfTypeOK
  <2>3. TfTypeOK'
    BY <1>0, <1>5, <2>1, <2>2 DEF PoseExpires, OdomExpires, tfVars, TfTypeOK
  <2> QED  BY <1>5, <2>1, <2>3 DEF PoseExpires, OdomExpires, tfVars, TfInv, TypeOK,
           SampleKept, HeldIsPublished, TrueEstimatesGiveTrueFrame
<1>6. UNCHANGED checkVars => UNCHANGED tfVars /\ UNCHANGED <<track, taken, honest>>
  BY DEF checkVars
<1> QED  BY <1>1, <1>2, <1>3, <1>4, <1>5, <1>6 DEF ChecksNext

LEMMA TfNext ==
  ASSUME TfInv, [ChecksNext]_checkVars
  PROVE  TfInv'
BY PublishStep, OtherStep

(* The variables of the bridge keep their types, and its history of         *)
(* odometry never outgrows its length.                                      *)
THEOREM TfTypeCorrect == ChecksSpec => []TypeOK
<1>1. TfInv => TypeOK
  BY DEF TfInv
<1> QED  BY <1>1, TfInitially, TfNext, PTL DEF ChecksSpec

(* True estimates give the true frame, for every mount and history.         *)
THEOREM TrueEstimatesGiveTrueFrameHolds == ChecksSpec => []TrueEstimatesGiveTrueFrame
<1>1. TfInv => TrueEstimatesGiveTrueFrame
  BY DEF TfInv
<1> QED  BY <1>1, TfInitially, TfNext, PTL DEF ChecksSpec

(* No estimate teleports the navigation frame.                              *)
THEOREM SampleCannotTeleportHolds == ChecksSpec => SampleCannotTeleport
<1> DEFINE Step == held # None /\ held' # None /\ in_place_anchor' = None => Shifted
<1>1. ASSUME TfInv, [ChecksNext]_checkVars PROVE [Step]_checkVars
  <2>1. CASE PublishTransform /\ honest' = (honest /\ Honest) /\ UNCHANGED <<track, taken>>
    BY <1>1, <2>1, PublishStep
  <2>2. CASE ~(PublishTransform /\ honest' = (honest /\ Honest) /\ UNCHANGED <<track, taken>>)
    <3>1. held' = None \/ held' = held
      BY <1>1, <2>2, OtherStep
    <3>2. ASSUME held # None, held' = held PROVE Shifted
      <4>1. held.map_odom \in Poses /\ held.odom_base \in Poses
        BY <1>1, <3>2 DEF TfInv, TypeOK, TfTypeOK, Corrections
      <4>2. Mul(held.map_odom, held.odom_base).p \in Int
        BY <4>1, PoseClosure DEF Poses
      <4> QED  BY <3>2, <4>2 DEF Shifted, Magnitude
    <3> QED  BY <3>1, <3>2
  <2> QED  BY <2>1, <2>2
<1>2. [Step]_checkVars =>
        [held # None /\ held' # None /\ in_place_anchor' = None =>
           LET sample == held'.odom_base
               shift  == Mul(held'.map_odom, sample).p - Mul(held.map_odom, sample).p
           IN  Magnitude(shift)
                 <= IF held.odom_base.p = sample.p THEN 0 ELSE MaxCorrection]_checkVars
  BY DEF Shifted
<1> HIDE DEF Step
<1> QED  BY <1>1, <1>2, TfInitially, TfNext, PTL DEF ChecksSpec, SampleCannotTeleport

(* The locked centre stays where it is shown.                               *)
THEOREM LockHoldsHolds == ChecksSpec => LockHolds
<1>1. ASSUME TfInv, [ChecksNext]_checkVars
      PROVE  [in_place_anchor # None /\ in_place_anchor' # None
                => tf'.base.p = tf.base.p]_checkVars
  BY <1>1, PublishStep, OtherStep
<1> QED  BY <1>1, TfInitially, TfNext, PTL DEF ChecksSpec, LockHolds
=============================================================================
