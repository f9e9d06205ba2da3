--------------------------- MODULE LocalizerProofs ---------------------------
(***************************************************************************)
(* The localizer, for every map, mount, score, click and number of         *)
(* confirmations: its types, what an acceptable score means, that dead     *)
(* reckoning stays in step with the odometry, that LOCALIZED needs all its *)
(* confirmations, and that it stands free on the map.                      *)
(***************************************************************************)
EXTENDS LocalizerChecks, FiniteSetTheorems, WellFoundedInduction, TLAPS

LEMMA PoseClosure ==
  ASSUME NEW a \in Poses, NEW b \in Poses
  PROVE  Mul(a, b) \in Poses /\ Inv(a) \in Poses /\ Motion(a, b) \in Poses
  BY DEF Poses, Mul, Inv, Motion

(* The motion from a to b takes a to b. *)
LEMMA MotionLeads ==
  ASSUME NEW a \in Poses, NEW b \in Poses
  PROVE  Mul(a, Motion(a, b)) = b
  BY DEF Poses, Mul, Inv, Motion

(* A scan locates a pose. *)
LEMMA BodyIsPose ==
  ASSUME TrackType, NEW t \in 1 .. now
  PROVE  BodyAt(t) \in Poses
<1>1. track[t] \in Poses
  BY DEF TrackType, now
<1> QED  BY <1>1, MountAssumption, PoseClosure DEF BodyAt

-----------------------------------------------------------------------------
(* The invariant.                                                           *)

ObserverType ==
    /\ outcomes \in Seq(Poses \cup {None}) /\ Len(outcomes) <= ConfirmFrames
    /\ in_step \in BOOLEAN

(* A pose in step is the odometry it was stored with. *)
InStep == in_step => initialized /\ last_odom = map_t_body /\ current_odom # None

Earned(fitness, status) ==
    AtMost(fitness, MaxFitness) => status \in {"LOCALIZED", "NDT_REJECTED"}

(* The score at hand is as good as the one published. *)
ScoresEarned ==
    Earned(last_fitness, last_status) /\ Earned(report.fitness, report.status)

(* The last n outcomes are matches, each close to the one before, and the   *)
(* very last is the candidate pose.                                         *)
Streak(seq, n, pose) ==
    /\ n <= Len(seq)
    /\ n > 0 => seq[Len(seq)] = pose
    /\ \A i \in 1 .. Len(seq) : i > Len(seq) - n => seq[i] # None
    /\ \A i \in 2 .. Len(seq) : i > Len(seq) - n + 1 => Near(seq[i - 1], seq[i])

(* Until the node is LOCALIZED its count is that of a streak, and short of  *)
(* what is needed.                                                          *)
CountIsStreak ==
    ~have_ndt_pose => /\ confirm_count < AtLeast(ConfirmFrames, 1)
                      /\ Streak(outcomes, confirm_count, pending_pose)

LocInv ==
    /\ TypeOK /\ ObserverType
    /\ InStep /\ ScoresEarned /\ CountIsStreak

LEMMA LocInitially == ChecksInit => LocInv
<1> SUFFICES ASSUME ChecksInit PROVE LocInv
  OBVIOUS
<1> USE LocalizerAssumption, NoneAssumption DEF ChecksInit, TrackInit, NdtInit, NonFinite,
        Unlocalized
<1>1. Identity \in Poses
  BY DEF Identity, Poses
<1>2. TrackType
  BY <1>1 DEF TrackType, now
<1>3. /\ initialized \in BOOLEAN /\ have_ndt_pose \in BOOLEAN
      /\ search_pending \in BOOLEAN /\ search_passed \in BOOLEAN
      /\ in_step \in BOOLEAN
  BY Zenon
<1>4. report \in Reports
  BY DEF Reports, Fitness, Status, Unlocalized
<1>5. NdtTypeOK
  BY <1>1, <1>3, <1>4 DEF NdtTypeOK, Fitness, Status, Unlocalized, AtLeast
<1>6. ObserverType
  BY <1>3 DEF ObserverType
<1>7. ScoresEarned
  BY DEF ScoresEarned, Earned, AtMost, Unlocalized
<1>8. CountIsStreak
  BY DEF CountIsStreak, Streak, AtLeast
<1> QED  BY <1>2, <1>5, <1>6, <1>7, <1>8 DEF LocInv, TypeOK, InStep

-----------------------------------------------------------------------------
(* Streaks.                                                                 *)

(* Recent(Append(s, e)) ends in e and is otherwise a suffix of s. *)
LEMMA RecentExtends ==
  ASSUME NEW S, NEW s \in Seq(S), NEW e \in S, Len(s) <= ConfirmFrames
  PROVE  LET t == Recent(Append(s, e))
             d == Len(s) + 1 - Len(t)
         IN  /\ t \in Seq(S) /\ Len(t) <= ConfirmFrames /\ d \in {0, 1}
             /\ d = 1 => Len(t) = ConfirmFrames
             /\ Len(t) > 0 => t[Len(t)] = e
             /\ \A i \in 1 .. Len(t) - 1 : t[i] = s[i + d]
<1> USE LocalizerAssumption DEF NonFinite, Unlocalized
<1> DEFINE a == Append(s, e)
<1>1. /\ a \in Seq(S) /\ Len(a) = Len(s) + 1 /\ a[Len(a)] = e
      /\ \A i \in 1 .. Len(s) : a[i] = s[i]
  OBVIOUS
<1>2. CASE Len(a) > ConfirmFrames
  <2>1. Len(s) = ConfirmFrames /\ Recent(a) = Tail(a)
    BY <1>1, <1>2 DEF Recent
  <2>2. /\ Tail(a) \in Seq(S) /\ Len(Tail(a)) = Len(a) - 1
        /\ \A i \in 1 .. Len(Tail(a)) : Tail(a)[i] = a[i + 1]
    BY <1>1, a # <<>>
  <2> QED  BY <1>1, <2>1, <2>2
<1>3. CASE ~(Len(a) > ConfirmFrames)
  <2>1. Recent(a) = a
    BY <1>3 DEF Recent
  <2> QED  BY <1>1, <1>3, <2>1
<1> QED  BY <1>2, <1>3

(* One more match close to the last one lengthens a streak; any match is a  *)
(* streak of one.                                                           *)
LEMMA StreakGrows ==
  ASSUME NEW s \in Seq(Poses \cup {None}), Len(s) <= ConfirmFrames,
         NEW n \in Nat, n < ConfirmFrames, NEW p, Streak(s, n, p),
         NEW e \in Poses, n > 0 => Near(p, e)
  PROVE  Streak(Recent(Append(s, e)), n + 1, e)
<1> USE LocalizerAssumption DEF NonFinite, Unlocalized
<1> DEFINE t == Recent(Append(s, e))
           d == Len(s) + 1 - Len(t)
<1>1. /\ t \in Seq(Poses \cup {None}) /\ Len(t) <= ConfirmFrames /\ d \in {0, 1}
      /\ d = 1 => Len(t) = ConfirmFrames
      /\ Len(t) > 0 => t[Len(t)] = e
      /\ \A i \in 1 .. Len(t) - 1 : t[i] = s[i + d]
  BY RecentExtends
<1>2. Len(s) \in Nat /\ Len(t) \in Nat
  BY <1>1
<1> HIDE DEF t
<1>3. n + 1 <= Len(t)
  BY <1>1, <1>2 DEF Streak
<1>4. ASSUME NEW i \in 1 .. Len(t), i > Len(t) - (n + 1)
      PROVE  t[i] # None
  <2>1. CASE i = Len(t)
    BY <2>1, <1>1, <1>2, NoneAssumption
  <2>2. CASE i # Len(t)
    <3>1. i + d \in 1 .. Len(s) /\ i + d > Len(s) - n
      BY <2>2, <1>1, <1>2, <1>4
    <3>2. s[i + d] # None
      BY <3>1 DEF Streak
    <3>3. i \in 1 .. Len(t) - 1
      BY <2>2, <1>2
    <3> QED  BY <3>2, <3>3, <1>1
  <2> QED  BY <2>1, <2>2
<1>5. ASSUME NEW i \in 2 .. Len(t), i > Len(t) - (n + 1) + 1
      PROVE  Near(t[i - 1], t[i])
  <2>1. i - 1 \in 1 .. Len(t) - 1 /\ t[i - 1] = s[i - 1 + d]
    BY <1>1, <1>2
  <2>2. CASE i = Len(t)
    <3>1. n > 0 /\ i - 1 + d = Len(s)
      BY <2>2, <1>1, <1>2, <1>5
    <3>2. s[Len(s)] = p
      BY <3>1 DEF Streak
    <3> QED  BY <2>1, <2>2, <3>1, <3>2, <1>1, <1>2
  <2>3. CASE i # Len(t)
    <3>1. t[i] = s[i + d] /\ i + d \in 2 .. Len(s) /\ i + d > Len(s) - n + 1
      BY <2>3, <1>1, <1>2, <1>5
    <3>2. Near(s[(i + d) - 1], s[i + d])
      BY <3>1 DEF Streak
    <3>3. (i + d) - 1 = i - 1 + d
      BY <1>1, <1>2
    <3> QED  BY <2>1, <3>1, <3>2, <3>3
  <2> QED  BY <2>2, <2>3
<1> QED  BY <1>1, <1>2, <1>3, <1>4, <1>5 DEF Streak, t

-----------------------------------------------------------------------------
(* Steps.                                                                   *)

(* Queues stay within their depth and scores are scores. *)
LEMMA PublishType ==
  ASSUME NdtTypeOK, NEW pose \in Poses, NEW stamp \in Nat, NEW fitness \in Fitness,
         NEW status \in Status, Publish(pose, stamp, fitness, status)
  PROVE  /\ report' \in Reports
         /\ poses' \in Seq(Estimates) /\ Len(poses') <= Depth
<1> USE LocalizerAssumption DEF NonFinite, Unlocalized
<1>1. report' \in Reports
  BY DEF Publish, Reports
<1> DEFINE queue == IF Len(poses) < Depth THEN poses ELSE Tail(poses)
           e == [pose |-> pose, stamp |-> stamp]
<1>2. e \in Estimates
  BY DEF Estimates
<1>3. poses \in Seq(Estimates) /\ Len(poses) <= Depth
  BY DEF NdtTypeOK
<1>4. queue \in Seq(Estimates) /\ Len(queue) < Depth
  BY <1>3
<1>5. Append(queue, e) \in Seq(Estimates) /\ Len(Append(queue, e)) = Len(queue) + 1
  BY <1>2, <1>4
<1>6. poses' = Append(queue, e)
  BY DEF Publish
<1>7. Len(queue) \in Nat
  BY <1>4
<1> QED  BY <1>1, <1>4, <1>5, <1>6, <1>7

(* A pose is set together with its odometry. *)
LEMMA SetPoseType ==
  ASSUME NdtTypeOK, NEW pose \in Poses, SetPose(pose)
  PROVE  map_t_body' = pose /\ last_odom' \in Poses \cup {None}
  BY DEF NdtTypeOK, SetPose

LEMMA GuessType ==
  ASSUME NdtTypeOK
  PROVE  Guess \in Poses
<1>1. Identity \in Poses
  BY DEF Identity, Poses
<1>2. CASE current_odom # None /\ last_odom # None
  <2>1. map_t_body \in Poses /\ current_odom \in Poses /\ last_odom \in Poses
    BY <1>2 DEF NdtTypeOK
  <2> QED  BY <1>1, <2>1, PoseClosure DEF Guess
<1>3. CASE ~(current_odom # None /\ last_odom # None)
  BY <1>1, <1>3 DEF Guess, NdtTypeOK
<1> QED  BY <1>2, <1>3

(* A pose in step gives the newest odometry as the next guess. *)
LEMMA InStepGuess ==
  ASSUME TypeOK, InStep
  PROVE  GuessFollowsOdometry
<1> SUFFICES ASSUME in_step PROVE Guess = current_odom
  BY DEF GuessFollowsOdometry
<1>1. /\ initialized /\ last_odom = map_t_body
      /\ map_t_body \in Poses /\ current_odom \in Poses
  BY DEF InStep, TypeOK, NdtTypeOK
<1>2. last_odom # None /\ current_odom # None
  BY <1>1, NoneAssumption
<1> QED  BY <1>1, <1>2, MotionLeads DEF Guess

LEMMA ClickKeeps ==
  ASSUME LocInv, NEW click \in Clicks, ClickSeen(click)
  PROVE  LocInv'
<1> USE LocalizerAssumption DEF NonFinite, Unlocalized
<1> DEFINE pose == Mul(click, Inv(Mount))
<1>1. NdtTypeOK /\ TrackType /\ now \in 1 .. now
  BY DEF LocInv, TypeOK, TrackType, now
<1>2. pose \in Poses
  BY ClicksAssumption, MountAssumption, PoseClosure
<1>3. SetPose(pose) /\ Publish(pose, now, Unlocalized, "INITIAL_POSE")
  BY DEF ClickSeen, InitialPoseCallback
<1>4. map_t_body' = pose /\ last_odom' \in Poses \cup {None}
  BY <1>1, <1>2, <1>3, SetPoseType
<1>5. /\ report' \in Reports
      /\ poses' \in Seq(Estimates) /\ Len(poses') <= Depth
  BY <1>1, <1>2, <1>3, PublishType DEF Fitness, Status
<1>6. /\ initialized' \in BOOLEAN /\ have_ndt_pose' \in BOOLEAN
      /\ search_pending' \in BOOLEAN /\ search_passed' \in BOOLEAN
  BY Zenon, LocalizerAssumption DEF ClickSeen, InitialPoseCallback
<1>7. NdtTypeOK'
  BY <1>1, <1>2, <1>4, <1>5, <1>6
  DEF NdtTypeOK, ClickSeen, InitialPoseCallback, Fitness, Status, AtLeast
<1>8. TrackType'
  BY <1>1 DEF TrackType, now, ClickSeen
<1>9. ObserverType'
  <2>1. in_step' \in BOOLEAN
    BY Zenon DEF ClickSeen
  <2>2. outcomes' = <<>>
    BY DEF ClickSeen
  <2> QED  BY <2>1, <2>2 DEF ObserverType
<1>10. InStep'
  <2> SUFFICES ASSUME in_step' PROVE InStep'
    BY DEF InStep
  <2>1. click = track[now] /\ current_odom = BodyAt(now)
    BY DEF ClickSeen
  <2>2. current_odom = pose /\ current_odom # None
    BY <2>1, <1>2, NoneAssumption DEF BodyAt
  <2> QED  BY <1>3, <1>4, <2>2 DEF InStep, SetPose, ClickSeen, InitialPoseCallback
<1>11. ScoresEarned'
  BY <1>3 DEF ScoresEarned, Earned, AtMost, Publish, ClickSeen, InitialPoseCallback
<1>12. CountIsStreak'
  BY DEF CountIsStreak, Streak, ClickSeen, InitialPoseCallback, AtLeast
<1> QED  BY <1>7, <1>8, <1>9, <1>10, <1>11, <1>12 DEF LocInv, TypeOK

(* Odometry, the map timer and the motion of the robot. *)
LEMMA TimerKeeps ==
  ASSUME LocInv, UNCHANGED <<outcomes, in_step>>,
         \/ (OdomCallback \/ PublishMap) /\ UNCHANGED track
         \/ \E step \in Steps : Move(step) /\ UNCHANGED ndtVars
  PROVE  LocInv'
<1> USE LocalizerAssumption DEF NonFinite, Unlocalized
<1>1. NdtTypeOK /\ TrackType /\ now \in 1 .. now
  BY DEF LocInv, TypeOK, TrackType, now
<1>2. CASE OdomCallback /\ UNCHANGED track
  <2>1. current_odom' \in Poses
    BY <1>1, <1>2, BodyIsPose DEF OdomCallback
  <2>2. NdtTypeOK'
    BY <1>1, <1>2, <2>1 DEF NdtTypeOK, OdomCallback
  <2>3. TrackType' /\ ObserverType'
    BY <1>2 DEF LocInv, TypeOK, TrackType, now, ObserverType
  <2>4. InStep'
    BY <1>2, <2>1, NoneAssumption DEF LocInv, InStep, OdomCallback
  <2>5. ScoresEarned' /\ CountIsStreak'
    BY <1>2 DEF LocInv, ScoresEarned, CountIsStreak, Streak, OdomCallback
  <2> QED  BY <2>2, <2>3, <2>4, <2>5 DEF LocInv, TypeOK
<1>3. CASE PublishMap /\ UNCHANGED track
  <2> DEFINE status == IF have_ndt_pose THEN "LOCALIZED" ELSE last_status
  <2>1. Publish(map_t_body, now, last_fitness, status)
    BY <1>3 DEF PublishMap
  <2>2. /\ map_t_body \in Poses /\ now \in Nat /\ last_fitness \in Fitness
        /\ status \in Status
    BY <1>1 DEF NdtTypeOK, Status
  <2>3. /\ report' \in Reports
        /\ poses' \in Seq(Estimates) /\ Len(poses') <= Depth
    BY <1>1, <2>1, <2>2, PublishType
  <2>4. NdtTypeOK'
    BY <1>1, <1>3, <2>3 DEF NdtTypeOK, PublishMap
  <2>5. TrackType' /\ ObserverType'
    BY <1>3 DEF LocInv, TypeOK, TrackType, now, ObserverType
  <2>6. InStep'
    BY <1>3 DEF LocInv, InStep, PublishMap
  <2>7. report'.fitness = last_fitness /\ report'.status = status
    BY <2>1 DEF Publish
  <2>8. ScoresEarned'
    BY <1>3, <2>7 DEF LocInv, ScoresEarned, Earned, AtMost, PublishMap
  <2>9. CountIsStreak'
    BY <1>3 DEF LocInv, CountIsStreak, Streak, PublishMap
  <2> QED  BY <2>4, <2>5, <2>6, <2>8, <2>9 DEF LocInv, TypeOK
<1>4. ASSUME NEW step \in Steps, Move(step), UNCHANGED ndtVars PROVE LocInv'
  <2>1. track[now] \in Poses
    BY <1>1 DEF TrackType, now
  <2>2. Mul(track[now], step) \in Poses
    BY <2>1, StepsAssumption, PoseClosure
  <2>3. TrackType'
    BY <1>1, <1>4, <2>2 DEF TrackType, now, Move
  <2>4. NdtTypeOK' /\ ObserverType'
    BY <1>1, <1>4 DEF ndtVars, NdtTypeOK, LocInv, ObserverType
  <2>5. InStep' /\ ScoresEarned' /\ CountIsStreak'
    BY <1>4 DEF LocInv, ndtVars, InStep, ScoresEarned, CountIsStreak, Streak
  <2> QED  BY <2>3, <2>4, <2>5 DEF LocInv, TypeOK
<1> QED  BY <1>2, <1>3, <1>4

(* What a scan brings. *)
LEMMA ScanBrings ==
  ASSUME TypeOK, NEW t \in ScanStamps, NEW r \in Registrations(t, Guess)
  PROVE  /\ t \in Nat /\ r.pose \in Poses
         /\ FitnessOf(r) \in Fitness
         /\ Spoil(FitnessOf(r)) \in Fitness
         /\ ~AtMost(Spoil(FitnessOf(r)), MaxFitness)
<1> USE LocalizerAssumption DEF NonFinite, Unlocalized
<1>1. now \in Nat /\ t \in 1 .. now
  BY DEF ScanStamps, TypeOK, TrackType, now
<1>2. r.pose \in Poses
  BY <1>1, BodyIsPose, GuessType DEF Registrations, TypeOK
<1>3. FitnessOf(r) \in Fitness
  BY DEF Registrations, FitnessOf, RobustOk, Fitness
<1>4. /\ Spoil(FitnessOf(r)) \in Fitness
      /\ ~AtMost(Spoil(FitnessOf(r)), MaxFitness)
  BY <1>3 DEF Fitness, Spoil, Spoilt, AtLeast, AtMost
<1> QED  BY <1>1, <1>2, <1>3, <1>4

(* A rejected scan holds the pose and ends the streak. *)
LEMMA RejectKeeps ==
  ASSUME LocInv, NEW t \in ScanStamps, NEW best, NEW r \in Registrations(t, Guess),
         ScanSeen(t, best, r), Rejected(best, r)
  PROVE  LocInv'
<1> USE LocalizerAssumption DEF NonFinite, Unlocalized
<1> DEFINE spoilt == RejectCell(t, r)
           fitness == IF spoilt THEN Spoil(FitnessOf(r)) ELSE FitnessOf(r)
           status == IF spoilt THEN "NDT_OCCUPIED" ELSE "NDT_REJECTED"
<1>1. TypeOK /\ NdtTypeOK /\ TrackType
  BY DEF LocInv, TypeOK
<1>2. /\ t \in Nat /\ FitnessOf(r) \in Fitness /\ Spoil(FitnessOf(r)) \in Fitness
      /\ ~AtMost(Spoil(FitnessOf(r)), MaxFitness)
  BY <1>1, ScanBrings
<1>3. CloudCallback(t, best, r) /\ UNCHANGED <<track, current_odom>>
  BY DEF ScanSeen, CloudCallback
<1>4. RejectScan(t, r) \/ RejectCell(t, r)
  BY <1>3 DEF CloudCallback, Rejected
<1>5. /\ KeepPose /\ have_ndt_pose' = FALSE /\ confirm_count' = 0
      /\ last_fitness' = fitness /\ last_status' = status
      /\ Publish(map_t_body', t, fitness, status) /\ pending_pose' = pending_pose
  BY <1>4 DEF RejectScan, RejectCell
<1> HIDE DEF spoilt
<1>6. fitness \in Fitness /\ status \in Status
  BY <1>2 DEF Status
<1>7. map_t_body' \in Poses /\ last_odom' \in Poses \cup {None}
  <2>1. Identity \in Poses
    BY DEF Identity, Poses
  <2>2. CASE initialized
    BY <2>2, <1>1, <1>5 DEF KeepPose, NdtTypeOK
  <2>3. CASE ~initialized
    BY <2>1, <2>3, <1>1, <1>5, SetPoseType DEF KeepPose
  <2> QED  BY <2>2, <2>3
<1>8. /\ report' \in Reports
      /\ poses' \in Seq(Estimates) /\ Len(poses') <= Depth
  BY <1>1, <1>2, <1>5, <1>6, <1>7, PublishType
<1>9. /\ initialized' \in BOOLEAN /\ have_ndt_pose' \in BOOLEAN
      /\ search_pending' \in BOOLEAN /\ search_passed' \in BOOLEAN
  BY Zenon, <1>3, <1>5 DEF CloudCallback
<1>10. NdtTypeOK'
  BY <1>1, <1>3, <1>5, <1>6, <1>7, <1>8, <1>9 DEF NdtTypeOK, AtLeast
<1>11. TrackType'
  BY <1>1, <1>3 DEF TrackType, now
<1>12. outcomes' \in Seq(Poses \cup {None}) /\ Len(outcomes') <= ConfirmFrames
  <2>1. outcomes \in Seq(Poses \cup {None}) /\ Len(outcomes) <= ConfirmFrames
    BY DEF LocInv, ObserverType
  <2>2. outcomes' = Recent(Append(outcomes, None))
    BY DEF ScanSeen
  <2>3. None \in Poses \cup {None}
    OBVIOUS
  <2> QED  BY <2>1, <2>2, <2>3, RecentExtends
<1>13. in_step' = (initialized /\ in_step)
  BY DEF ScanSeen
<1>14. InStep'
  <2> SUFFICES ASSUME in_step' PROVE InStep'
    BY DEF InStep
  <2>1. initialized /\ in_step
    BY <1>13
  <2>2. initialized' /\ UNCHANGED <<map_t_body, last_odom, current_odom>>
    BY <2>1, <1>3, <1>5 DEF KeepPose, CloudCallback
  <2> QED  BY <2>1, <2>2 DEF LocInv, InStep
<1>15. ScoresEarned'
  <2>1. report'.fitness = fitness /\ report'.status = status
    BY <1>5 DEF Publish
  <2>2. Earned(fitness, status)
    BY <1>2 DEF Earned
  <2> QED  BY <1>5, <2>1, <2>2 DEF ScoresEarned, Earned, AtMost
<1>16. CountIsStreak'
  BY <1>5, <1>12 DEF CountIsStreak, Streak, AtLeast
<1>17. in_step' \in BOOLEAN
  BY <1>13 DEF LocInv, ObserverType, TypeOK, NdtTypeOK
<1> QED  BY <1>10, <1>11, <1>12, <1>14, <1>15, <1>16, <1>17
  DEF LocInv, TypeOK, ObserverType

(* A match is one more of a streak, or the first of a new one. *)
LEMMA MatchExtends ==
  ASSUME LocInv, NEW t, NEW best, NEW r, r.pose \in Poses,
         ScanSeen(t, best, r), ~Rejected(best, r), Confirming
  PROVE  /\ ConfirmCount(r.pose) \in Nat \ {0} /\ ConfirmCount(r.pose) <= ConfirmFrames
         /\ Streak(outcomes', ConfirmCount(r.pose), r.pose)
<1> USE LocalizerAssumption DEF NonFinite, Unlocalized
<1> DEFINE n == IF confirm_count > 0 /\ Stable(r.pose) THEN confirm_count ELSE 0
<1>1. /\ outcomes \in Seq(Poses \cup {None}) /\ Len(outcomes) <= ConfirmFrames
      /\ confirm_count \in Nat /\ confirm_count < ConfirmFrames
      /\ Streak(outcomes, confirm_count, pending_pose)
  BY DEF LocInv, ObserverType, CountIsStreak, Confirming, TypeOK, NdtTypeOK, AtLeast
<1>2. outcomes' = Recent(Append(outcomes, r.pose))
  BY DEF ScanSeen
<1>3. n \in Nat /\ n < ConfirmFrames /\ ConfirmCount(r.pose) = n + 1
  BY <1>1 DEF ConfirmCount
<1>4. Streak(outcomes, n, pending_pose)
  BY <1>1 DEF Streak
<1>5. n > 0 => Near(pending_pose, r.pose)
  BY DEF Stable, Near
<1>6. Streak(outcomes', n + 1, r.pose)
  BY <1>1, <1>2, <1>3, <1>4, <1>5, StreakGrows
<1> QED  BY <1>3, <1>6

(* A matched scan moves the pose and lengthens or completes the streak. *)
LEMMA MatchKeeps ==
  ASSUME LocInv, NEW t \in ScanStamps, NEW best, NEW r \in Registrations(t, Guess),
         ScanSeen(t, best, r), ~Rejected(best, r)
  PROVE  LocInv'
<1> USE LocalizerAssumption DEF NonFinite, Unlocalized
<1>1. TypeOK /\ NdtTypeOK /\ TrackType
  BY DEF LocInv, TypeOK
<1>2. /\ t \in Nat /\ r.pose \in Poses
      /\ FitnessOf(r) \in Fitness /\ Spoil(FitnessOf(r)) \in Fitness
      /\ ~AtMost(Spoil(FitnessOf(r)), MaxFitness)
  BY <1>1, ScanBrings
<1>3. CloudCallback(t, best, r) /\ UNCHANGED <<track, current_odom>>
  BY DEF ScanSeen, CloudCallback
<1>4. VerifyScan(t, r) \/ AcceptScan(t, r)
  BY <1>3 DEF CloudCallback, Rejected
<1>5. SetPose(r.pose)
  BY <1>4 DEF VerifyScan, AcceptScan
<1>6. map_t_body' = r.pose /\ last_odom' \in Poses \cup {None}
  BY <1>1, <1>2, <1>5, SetPoseType
<1>7. TrackType'
  BY <1>1, <1>3 DEF TrackType, now
<1>8. initialized' = TRUE /\ search_pending' \in BOOLEAN /\ search_passed' \in BOOLEAN
  BY Zenon, <1>3 DEF CloudCallback
<1>9. ObserverType'
  <2>1. outcomes \in Seq(Poses \cup {None}) /\ Len(outcomes) <= ConfirmFrames
    BY DEF LocInv, ObserverType
  <2>2. outcomes' = Recent(Append(outcomes, r.pose))
    BY DEF ScanSeen
  <2>3. outcomes' \in Seq(Poses \cup {None}) /\ Len(outcomes') <= ConfirmFrames
    BY <1>2, <2>1, <2>2, RecentExtends
  <2>4. in_step' \in BOOLEAN
    BY Zenon DEF ScanSeen
  <2> QED  BY <2>3, <2>4 DEF ObserverType
<1>10. InStep'
  <2> SUFFICES ASSUME in_step' PROVE InStep'
    BY DEF InStep
  <2>1. r.pose = BodyAt(t) /\ current_odom = BodyAt(t)
    BY DEF ScanSeen
  <2>2. current_odom # None
    BY <2>1, <1>2, NoneAssumption
  <2> QED  BY <2>1, <2>2, <1>3, <1>5, <1>8 DEF SetPose, InStep
<1>11. CASE VerifyScan(t, r)
  <2>1. /\ Confirming /\ confirm_count' = ConfirmCount(r.pose)
        /\ ConfirmCount(r.pose) < ConfirmFrames /\ pending_pose' = r.pose
        /\ UNCHANGED have_ndt_pose
        /\ last_fitness' = Spoil(FitnessOf(r)) /\ last_status' = "NDT_VERIFYING"
        /\ Publish(IF initialized THEN map_t_body ELSE Identity, t,
                   Spoil(FitnessOf(r)), "NDT_VERIFYING")
    BY <1>11 DEF VerifyScan
  <2>2. (IF initialized THEN map_t_body ELSE Identity) \in Poses
    BY <1>1 DEF NdtTypeOK, Identity, Poses
  <2>3. /\ report' \in Reports
        /\ poses' \in Seq(Estimates) /\ Len(poses') <= Depth
    BY <1>1, <1>2, <2>1, <2>2, PublishType DEF Status
  <2>4. /\ ConfirmCount(r.pose) \in Nat \ {0}
        /\ Streak(outcomes', ConfirmCount(r.pose), r.pose)
    BY <1>2, <2>1, MatchExtends
  <2>5. NdtTypeOK'
    BY <1>1, <1>2, <1>3, <1>6, <1>8, <2>1, <2>3, <2>4 DEF NdtTypeOK, AtLeast, Status
  <2>6. ScoresEarned'
    <3>1. report'.fitness = Spoil(FitnessOf(r))
      BY <2>1 DEF Publish
    <3> QED  BY <1>2, <2>1, <3>1 DEF ScoresEarned, Earned, AtMost
  <2>7. CountIsStreak'
    BY <2>1, <2>4 DEF CountIsStreak, AtLeast, Streak
  <2> QED  BY <1>7, <1>9, <1>10, <2>5, <2>6, <2>7 DEF LocInv, TypeOK
<1>12. CASE AcceptScan(t, r)
  <2>1. /\ have_ndt_pose' = TRUE
        /\ last_fitness' = FitnessOf(r) /\ last_status' = "LOCALIZED"
        /\ Publish(r.pose, t, FitnessOf(r), "LOCALIZED")
    BY <1>12 DEF AcceptScan
  <2>2. /\ report' \in Reports
        /\ poses' \in Seq(Estimates) /\ Len(poses') <= Depth
    BY <1>1, <1>2, <2>1, PublishType DEF Status
  <2>3. confirm_count' \in 0 .. AtLeast(ConfirmFrames, 1) /\ pending_pose' \in Poses
    <3>1. CASE Confirming
      BY <3>1, <1>2, <1>12, MatchExtends DEF AcceptScan, AtLeast
    <3>2. CASE ~Confirming
      BY <3>2, <1>1, <1>12 DEF AcceptScan, NdtTypeOK
    <3> QED  BY <3>1, <3>2
  <2>4. NdtTypeOK'
    BY <1>1, <1>2, <1>3, <1>6, <1>8, <2>1, <2>2, <2>3 DEF NdtTypeOK, Status
  <2>5. ScoresEarned'
    <3>1. report'.status = "LOCALIZED"
      BY <2>1 DEF Publish
    <3> QED  BY <2>1, <3>1 DEF ScoresEarned, Earned
  <2>6. CountIsStreak'
    BY <2>1 DEF CountIsStreak
  <2> QED  BY <1>7, <1>9, <1>10, <2>4, <2>5, <2>6 DEF LocInv, TypeOK
<1> QED  BY <1>4, <1>11, <1>12

(* The observer's record after a match. *)
LEMMA ObservedMatch ==
  ASSUME NEW old \in Seq(Poses \cup {None}), Len(old) <= ConfirmFrames,
         NEW e \in Poses, NEW new, new = Recent(Append(old, e))
  PROVE  /\ new \in Seq(Poses \cup {None}) /\ Len(new) <= ConfirmFrames
         /\ Len(new) > 0 => new[Len(new)] = e
         /\ Len(old) + 1 - Len(new) \in {0, 1}
         /\ Len(old) + 1 - Len(new) = 1 => Len(new) = ConfirmFrames
<1> USE LocalizerAssumption DEF NonFinite, Unlocalized
<1> DEFINE t == Recent(Append(old, e))
           d == Len(old) + 1 - Len(t)
<1>1. /\ t \in Seq(Poses \cup {None}) /\ Len(t) <= ConfirmFrames /\ d \in {0, 1}
      /\ d = 1 => Len(t) = ConfirmFrames
      /\ Len(t) > 0 => t[Len(t)] = e
  BY RecentExtends
<1>2. new = t
  OBVIOUS
<1> HIDE DEF t
<1> QED  BY <1>1, <1>2

LEMMA LocInvKept ==
  ASSUME LocInv, [ChecksNext]_checkVars
  PROVE  LocInv'
<1>1. CASE \E click \in Clicks : ClickSeen(click)
  BY <1>1, ClickKeeps
<1>2. CASE \E t \in ScanStamps, best \in SearchScores :
             \E r \in Registrations(t, Guess) : ScanSeen(t, best, r)
  BY <1>2, RejectKeeps, MatchKeeps
<1>3. CASE (OdomCallback \/ PublishMap) /\ UNCHANGED <<track, outcomes, in_step>>
  BY <1>3, TimerKeeps
<1>4. CASE \E step \in Steps : Move(step) /\ UNCHANGED <<ndtVars, outcomes, in_step>>
  BY <1>4, TimerKeeps
<1>5. CASE UNCHANGED checkVars
  <2>1. TypeOK' /\ ObserverType'
    BY <1>5 DEF checkVars, ndtVars, LocInv, TypeOK, TrackType, now, NdtTypeOK, ObserverType
  <2>2. InStep' /\ ScoresEarned' /\ CountIsStreak'
    BY <1>5 DEF checkVars, ndtVars, LocInv, InStep, ScoresEarned, CountIsStreak, Streak
  <2> QED  BY <2>1, <2>2 DEF LocInv
<1> QED  BY <1>1, <1>2, <1>3, <1>4, <1>5 DEF ChecksNext

LEMMA LocInvHolds == ChecksSpec => []LocInv
  BY LocInitially, LocInvKept, PTL DEF ChecksSpec

-----------------------------------------------------------------------------
(* The localizer's state keeps its types: in particular the count of        *)
(* confirmations and the queue of estimates stay within their limits.       *)
THEOREM LocalizerTypeCorrect == ChecksSpec => []TypeOK
<1>1. LocInv => TypeOK
  BY DEF LocInv
<1> QED  BY <1>1, LocInvHolds, PTL

(* An acceptable score is published only for a scan, never for a click, a   *)
(* candidate or a pose in a wall: publishPoseEstimate as called by every    *)
(* callback and by the map timer.                                           *)
THEOREM GoodScoreIsEarnedHolds == ChecksSpec => []GoodScoreIsEarned
<1>1. LocInv => GoodScoreIsEarned
  BY DEF LocInv, ScoresEarned, Earned, GoodScoreIsEarned
<1> QED  BY <1>1, LocInvHolds, PTL

(* makeInitialGuess loses no motion and counts none twice.                  *)
THEOREM GuessFollowsOdometryHolds == ChecksSpec => []GuessFollowsOdometry
<1>1. LocInv => GuessFollowsOdometry
  BY InStepGuess DEF LocInv
<1> QED  BY <1>1, LocInvHolds, PTL

(* cloudCallback becomes LOCALIZED only with the last of                    *)
(* initial_confirm_frames matches in a row, for every number of them.       *)
THEOREM LocalizedNeedsConfirmationHolds == ChecksSpec => LocalizedNeedsConfirmation
<1> DEFINE Confirmed ==
      ~have_ndt_pose /\ have_ndt_pose' =>
         /\ Len(outcomes') = ConfirmFrames
         /\ \A i \in 1 .. ConfirmFrames : outcomes'[i] # None
         /\ \A i \in 2 .. ConfirmFrames : Near(outcomes'[i - 1], outcomes'[i])
<1> USE LocalizerAssumption DEF NonFinite, Unlocalized
<1>1. ASSUME LocInv, ChecksNext PROVE Confirmed
  <2> SUFFICES ASSUME ~have_ndt_pose, have_ndt_pose' PROVE Confirmed
    OBVIOUS
  <2>1. PICK t \in ScanStamps, best \in SearchScores :
               \E r \in Registrations(t, Guess) : ScanSeen(t, best, r)
    BY <1>1 DEF ChecksNext, ClickSeen, InitialPoseCallback, OdomCallback, PublishMap,
                ndtVars
  <2>2. PICK r \in Registrations(t, Guess) : ScanSeen(t, best, r)
    BY <2>1
  <2>3. r.pose \in Poses
    BY <1>1, ScanBrings DEF LocInv
  <2>4. ~Rejected(best, r) /\ AcceptScan(t, r)
    BY <2>2 DEF ScanSeen, CloudCallback, Rejected, RejectScan, RejectCell, VerifyScan
  <2>5. /\ outcomes \in Seq(Poses \cup {None}) /\ Len(outcomes) <= ConfirmFrames
        /\ outcomes' = Recent(Append(outcomes, r.pose))
    BY <1>1, <2>2, <2>4 DEF LocInv, ObserverType, ScanSeen
  <2>6. /\ outcomes' \in Seq(Poses \cup {None}) /\ Len(outcomes') <= ConfirmFrames
        /\ Len(outcomes') > 0 => outcomes'[Len(outcomes')] = r.pose
        /\ Len(outcomes) + 1 - Len(outcomes') \in {0, 1}
        /\ Len(outcomes) + 1 - Len(outcomes') = 1 => Len(outcomes') = ConfirmFrames
    BY <2>3, <2>5, ObservedMatch
  <2>7. CASE Confirming
    <3>1. /\ ConfirmCount(r.pose) = ConfirmFrames
          /\ Streak(outcomes', ConfirmFrames, r.pose)
      BY <1>1, <2>2, <2>3, <2>4, <2>7, MatchExtends DEF AcceptScan
    <3> QED  BY <2>6, <3>1 DEF Streak
  <2>8. CASE ~Confirming
    <3>1. ConfirmFrames \in {0, 1}
      BY <2>8 DEF Confirming
    <3> QED  BY <3>1, <2>3, <2>5, <2>6, NoneAssumption
  <2> QED  BY <2>7, <2>8
<1>2. ASSUME LocInv, [ChecksNext]_checkVars PROVE [Confirmed]_checkVars
  BY <1>1, <1>2
<1> QED  BY <1>2, LocInvHolds, PTL DEF ChecksSpec, LocalizedNeedsConfirmation
-----------------------------------------------------------------------------
(* The occupancy grid.                                                      *)

(* A nonempty finite set of integers has a least and a greatest element. *)
HasEnds(T) == /\ \E x \in T : \A y \in T : x <= y
              /\ \E x \in T : \A y \in T : x >= y

LEMMA FiniteHasEnds ==
  ASSUME NEW S \in SUBSET Int, IsFiniteSet(S), S # {}
  PROVE  HasEnds(S)
<1> SUFFICES ASSUME ~HasEnds(S) PROVE FALSE
  OBVIOUS
<1> DEFINE Bad(T) == T # {} /\ IsFiniteSet(T) /\ ~HasEnds(T)
           D == {n \in Nat : \E T \in SUBSET S : Bad(T) /\ Cardinality(T) = n}
           R == OpToRel(<, Nat)
<1>1. Cardinality(S) \in D
  BY FS_CardinalityType
<1>2. IsWellFoundedOn(R, Nat)
  BY NatLessThanWellFounded
<1> HIDE DEF R
<1>3. PICK n \in D : \A k \in D : ~ (<<k, n>> \in R)
  <2>1. D \in SUBSET Nat /\ D # {}
    BY <1>1
  <2> HIDE DEF D
  <2> QED BY <1>2, <2>1, WFMin
<1>4. PICK T \in SUBSET S : Bad(T) /\ Cardinality(T) = n
  BY <1>3
<1>5. PICK e \in T : TRUE
  BY <1>4
<1>6. IsFiniteSet(T \ {e}) /\ Cardinality(T \ {e}) = n - 1
  BY <1>4, <1>5, FS_RemoveElement
<1>7. T \ {e} = {} \/ HasEnds(T \ {e})
  <2> SUFFICES ASSUME T \ {e} # {}, ~HasEnds(T \ {e}) PROVE FALSE
    OBVIOUS
  <2>1. n - 1 \in Nat /\ n \in Nat
    BY <1>3, <1>6, FS_CardinalityType
  <2>2. n - 1 \in D
    BY <1>6, <2>1
  <2>3. ~ (<<n - 1, n>> \in R)
    BY <1>3, <2>2
  <2> QED BY <2>1, <2>3 DEF R, OpToRel
<1>8. HasEnds(T)
  <2>1. T \in SUBSET Int /\ e \in Int
    BY <1>5
  <2>2. CASE T \ {e} = {}
    <3>1. T = {e}
      BY <1>5, <2>2
    <3> QED BY <2>1, <3>1 DEF HasEnds
  <2>3. CASE HasEnds(T \ {e})
    <3>1. PICK x \in T \ {e} : \A y \in T \ {e} : x <= y
      BY <2>3 DEF HasEnds
    <3>2. PICK z \in T \ {e} : \A y \in T \ {e} : z >= y
      BY <2>3 DEF HasEnds
    <3>3. \E m \in {x, e} : \A y \in T : m <= y
      BY <2>1, <3>1
    <3>4. \E m \in {z, e} : \A y \in T : m >= y
      BY <2>1, <3>2
    <3> QED BY <1>5, <3>3, <3>4 DEF HasEnds
  <2> QED BY <1>7, <2>2, <2>3
<1> QED BY <1>4, <1>8

LEMMA MinMaxAreEnds ==
  ASSUME NEW S \in SUBSET Int, IsFiniteSet(S), S # {}
  PROVE  /\ Min(S) \in S /\ \A y \in S : Min(S) <= y
         /\ Max(S) \in S /\ \A y \in S : Max(S) >= y
<1>1. HasEnds(S)
  BY FiniteHasEnds
<1>2. Min(S) \in S /\ \A y \in S : Min(S) <= y
  BY <1>1 DEF HasEnds, Min
<1>3. Max(S) \in S /\ \A y \in S : Max(S) >= y
  BY <1>1 DEF HasEnds, Max
<1> QED BY <1>2, <1>3

(* The coordinates of finitely many points are finitely many. *)
LEMMA CoordinatesFinite ==
  ASSUME NEW P \in SUBSET MapPoints
  PROVE  /\ IsFiniteSet({pt.x : pt \in P}) /\ {pt.x : pt \in P} \in SUBSET Int
         /\ IsFiniteSet({pt.z : pt \in P}) /\ {pt.z : pt \in P} \in SUBSET Int
<1>1. IsFiniteSet(P) /\ P \subseteq [x : Int, z : Int]
  BY GridAssumption, FS_Subset
<1>2. IsFiniteSet({pt.x : pt \in P})
  <2> DEFINE f == [pt \in P |-> pt.x]
  <2>1. f \in Surjection(P, {pt.x : pt \in P})
    BY DEF Surjection
  <2> QED BY <1>1, <2>1, FS_Surjection
<1>3. IsFiniteSet({pt.z : pt \in P})
  <2> DEFINE f == [pt \in P |-> pt.z]
  <2>1. f \in Surjection(P, {pt.z : pt \in P})
    BY DEF Surjection
  <2> QED BY <1>1, <2>1, FS_Surjection
<1> QED BY <1>1, <1>2, <1>3

(* The configuration of the node: poses on obstacles and off the map are    *)
(* rejected, and the grid has a margin.                                     *)
PosesAreChecked ==
    /\ RejectOccupied /\ RejectOutside
    /\ Padding >= 1 /\ RejectMinOccupied >= 1

(* A ready grid spans the kept map points with its margin. *)
LEMMA CellsSpan ==
  ASSUME Kept # {}, Padding >= 1
  PROVE  /\ \A pt \in Kept : pt.x \in Cells
         /\ \A c \in Cells : OnMap(c)
<1> DEFINE xs == {pt.x : pt \in Kept}
<1>1. xs \in SUBSET Int /\ IsFiniteSet(xs) /\ xs # {}
  BY CoordinatesFinite DEF Kept
<1> HIDE DEF xs
<1>2. /\ Min(xs) \in xs /\ \A y \in xs : Min(xs) <= y
      /\ Max(xs) \in xs /\ \A y \in xs : Max(xs) >= y
  BY <1>1, MinMaxAreEnds
<1>3. Cells = Min(xs) - Padding .. Max(xs) + Padding - 1
  BY DEF Cells, xs
<1>4. Padding \in Nat /\ Min(xs) \in Int /\ Max(xs) \in Int
  BY <1>1, <1>2, GridAssumption
<1>5. ASSUME NEW pt \in Kept PROVE pt.x \in Cells
  <2>1. pt.x \in xs
    BY DEF xs
  <2>2. pt.x \in Int /\ Min(xs) <= pt.x /\ Max(xs) >= pt.x
    BY <1>1, <1>2, <2>1
  <2>3. Padding >= 1
    OBVIOUS
  <2> QED BY <1>3, <1>4, <2>2, <2>3
<1>6. ASSUME NEW c \in Cells PROVE OnMap(c)
  <2>1. PICK a \in Kept : a.x = Min(xs)
    BY <1>2 DEF xs
  <2>2. PICK b \in Kept : b.x = Max(xs)
    BY <1>2 DEF xs
  <2>3. a.x - Padding <= c /\ c < b.x + Padding
    BY <1>3, <1>4, <2>1, <2>2
  <2> QED BY <2>1, <2>2, <2>3 DEF OnMap, Kept
<1> QED BY <1>5, <1>6

(* A wall is an occupied cell of the grid, before and after inflation. *)
LEMMA WallOccupied ==
  ASSUME NEW c \in Int, Wall(c), Padding >= 1
  PROVE  c \in OccupiedGrid
<1> DEFINE points == {pt \in MapPoints : pt.x = c /\ pt.z \in MinZ .. MaxZ}
           hs == Heights(c)
<1>1. /\ points \in SUBSET Kept /\ points \in SUBSET MapPoints
      /\ hs = {pt.z : pt \in points}
  BY DEF Kept, Heights
<1>2. PICK a \in points, b \in points : b.z - a.z >= MinZSpan
  BY DEF Wall
<1>3. c \in Cells
  BY <1>1, <1>2, CellsSpan
<1>4. IsFiniteSet(hs) /\ hs \in SUBSET Int /\ a.z \in hs /\ b.z \in hs
  BY <1>1, <1>2, CoordinatesFinite
<1>5. Cardinality(points) <= Cardinality(hs)
  <2> DEFINE f == [pt \in points |-> pt.z]
  <2>1. \A p, q \in points : p.z = q.z => p = q
    BY GridAssumption
  <2>2. f \in Injection(points, hs)
    BY <1>1, <2>1 DEF Injection, IsInjective
  <2> QED BY <1>4, <2>2, FS_Injection
<1>6. Cardinality(points) >= MinPointsPerCell
  BY DEF Wall
<1>7. Cardinality(hs) \in Nat /\ Cardinality(hs) # 0
  BY <1>4, FS_CardinalityType, FS_EmptySet
<1>8. Cardinality(points) \in Nat
  <2>1. IsFiniteSet(points)
    BY <1>1, GridAssumption, FS_Subset
  <2> QED BY <2>1, FS_CardinalityType
<1> HIDE DEF points, hs
<1>9. Cardinality(hs) >= AtLeast(MinPointsPerCell, 1)
  BY <1>5, <1>6, <1>7, <1>8, GridAssumption DEF AtLeast
<1>10. Max(hs) - Min(hs) >= MinZSpan
  <2>1. /\ Min(hs) \in hs /\ Min(hs) <= a.z
        /\ Max(hs) \in hs /\ Max(hs) >= b.z
    BY <1>4, MinMaxAreEnds
  <2>2. a.z \in Int /\ b.z \in Int /\ Min(hs) \in Int /\ Max(hs) \in Int
    BY <1>4, <2>1
  <2> QED BY <1>2, <2>1, <2>2, GridAssumption
<1>11. OccupiedCell(c)
  BY <1>9, <1>10 DEF OccupiedCell, hs
<1>12. 0 \in -AtLeast(InflateCells, 0) .. AtLeast(InflateCells, 0) /\ c + 0 = c
  BY GridAssumption DEF AtLeast
<1> QED BY <1>3, <1>11, <1>12 DEF OccupiedGrid

(* Where RejectedCell finds nothing, the chassis stands free on the map. *)
LEMMA AcceptedCellIsFree ==
  ASSUME PosesAreChecked, NEW c \in Int, ~RejectedCell(c)
  PROVE  OnMap(c) /\ Cardinality(WallsAround(c)) < RejectMinOccupied
<1>1. /\ grid_ready /\ c \in Cells
      /\ ~(Cardinality(Neighbourhood(c) \cap OccupiedGrid)
             >= AtLeast(RejectMinOccupied, 1))
  BY DEF RejectedCell, PosesAreChecked
<1>2. OnMap(c)
  BY <1>1, CellsSpan DEF grid_ready, PosesAreChecked
<1> DEFINE r == AtLeast(CheckRadius, 0)
<1>3. r \in Nat /\ CheckRadius \in Int /\ CheckRadius <= r
  BY GridAssumption DEF AtLeast
<1>4. WallsAround(c) \in SUBSET (Neighbourhood(c) \cap OccupiedGrid)
  <2> SUFFICES ASSUME NEW d \in WallsAround(c)
               PROVE  d \in Neighbourhood(c) /\ d \in OccupiedGrid
    OBVIOUS
  <2>1. d \in c - CheckRadius .. c + CheckRadius /\ Wall(d)
    BY DEF WallsAround
  <2>2. d \in Int /\ d - c \in -r .. r /\ c + (d - c) = d
    BY <1>3, <2>1
  <2>3. d \in Neighbourhood(c)
    BY <2>2 DEF Neighbourhood
  <2> QED BY <2>1, <2>2, <2>3, WallOccupied DEF PosesAreChecked
<1>5. IsFiniteSet(Neighbourhood(c) \cap OccupiedGrid)
  <2>1. Neighbourhood(c) \cap OccupiedGrid \in SUBSET (c - r .. c + r)
    BY <1>3 DEF Neighbourhood
  <2>2. IsFiniteSet(c - r .. c + r)
    BY <1>3, FS_Interval
  <2> QED BY <2>1, <2>2, FS_Subset
<1>6. /\ Cardinality(WallsAround(c)) \in Nat
      /\ Cardinality(Neighbourhood(c) \cap OccupiedGrid) \in Nat
      /\ Cardinality(WallsAround(c)) <= Cardinality(Neighbourhood(c) \cap OccupiedGrid)
  BY <1>4, <1>5, FS_Subset, FS_CardinalityType
<1> QED BY <1>1, <1>2, <1>6, GridAssumption DEF AtLeast, PosesAreChecked

(* What LOCALIZED stands on: the pose set with it passed the cell test, and *)
(* nothing moves it while the node stays LOCALIZED.                         *)
AcceptedInv == have_ndt_pose => ~InRejectedCell(map_t_body)

LEMMA AcceptedInvStep ==
  ASSUME AcceptedInv, [ChecksNext]_checkVars
  PROVE  AcceptedInv'
<1>1. CASE \E click \in Clicks : ClickSeen(click)
  BY <1>1 DEF ClickSeen, InitialPoseCallback, AcceptedInv
<1>2. ASSUME NEW t, NEW best, NEW r, ScanSeen(t, best, r)
      PROVE  AcceptedInv'
  <2>1. CloudCallback(t, best, r)
    BY <1>2 DEF ScanSeen
  <2>2. CASE RejectScan(t, r) \/ RejectCell(t, r)
    BY <2>2 DEF RejectScan, RejectCell, AcceptedInv
  <2>3. CASE VerifyScan(t, r)
    BY <2>3 DEF VerifyScan, Confirming, AcceptedInv
  <2>4. CASE AcceptScan(t, r) /\ ~InRejectedCell(r.pose)
    BY <2>4 DEF AcceptScan, SetPose, AcceptedInv, InRejectedCell
  <2> QED BY <2>1, <2>2, <2>3, <2>4 DEF CloudCallback
<1>3. CASE UNCHANGED <<map_t_body, have_ndt_pose>>
  BY <1>3 DEF AcceptedInv, InRejectedCell
<1> QED BY <1>1, <1>2, <1>3
        DEF ChecksNext, OdomCallback, PublishMap, ndtVars, checkVars

(* isPoseInRejectedCell and its grid keep a LOCALIZED chassis on the map    *)
(* and off its walls, for every map, grid parameter and mount: whatever the *)
(* registrations find and the operator clicks.                              *)
THEOREM LocalizedPoseIsFreeHolds ==
  ASSUME PosesAreChecked
  PROVE  ChecksSpec => []LocalizedPoseIsFree
<1>1. ChecksInit => AcceptedInv
  BY DEF ChecksInit, NdtInit, AcceptedInv
<1>2. AcceptedInv /\ TypeOK => LocalizedPoseIsFree
  <2> SUFFICES ASSUME AcceptedInv, TypeOK, have_ndt_pose
               PROVE  LET c == Mul(map_t_body, Mount).p
                      IN  OnMap(c) /\ Cardinality(WallsAround(c)) < RejectMinOccupied
    BY DEF LocalizedPoseIsFree
  <2>1. Mul(map_t_body, Mount) \in Poses
    BY MountAssumption, PoseClosure DEF TypeOK, NdtTypeOK
  <2>2. Mul(map_t_body, Mount).p \in Int
    BY <2>1 DEF Poses
  <2>3. ~RejectedCell(Mul(map_t_body, Mount).p)
    BY DEF AcceptedInv, InRejectedCell
  <2> QED BY <2>2, <2>3, AcceptedCellIsFree
<1> QED BY <1>1, <1>2, AcceptedInvStep, LocalizerTypeCorrect, PTL DEF ChecksSpec
=============================================================================
