----------------------------- MODULE NdtLocalizer -----------------------------
(***************************************************************************)
(* The node pcd_ndt_localizer (pcd_ndt_localizer.cpp): it matches LiDAR    *)
(* scans against the PCD map, starting from the last pose carried forward  *)
(* by FAST-LIO's odometry, and publishes a pose with a fitness score.      *)
(* One executor thread runs all callbacks, so each is one action.          *)
(*                                                                         *)
(* What a registration finds (PCL) is a choice: the true pose of the scan  *)
(* or the local optimum it started in, with any score.  A score is a       *)
(* natural number (small is good) or NonFinite.  Point counts, voxel       *)
(* filters and the accumulation of scans only decide which registrations   *)
(* are possible.  A scan that is skipped (no initial pose yet, too few     *)
(* points) changes nothing.                                                *)
(***************************************************************************)
EXTENDS RobotTrack, OccupancyGrid

CONSTANTS
    RequireInitialPose,     \* require_initial_pose
    InitialSearch,          \* initial_search_enable
    SearchFitness,          \* initial_search_max_fitness_score
    MaxFitness,             \* max_fitness_score
    ConfirmFrames,          \* initial_confirm_frames
    ConfirmTranslation,     \* initial_confirm_translation_m
    Scores,                 \* raw scores and search scores of the model
    RobustScores,           \* trimmed RMSEs that pass the robust test
    Depth                   \* queue depth of /relocalization_pose

NonFinite == -1
Unlocalized == 999          \* the score before any scan was matched

ASSUME LocalizerAssumption ==
    /\ RequireInitialPose \in BOOLEAN /\ InitialSearch \in BOOLEAN
    /\ SearchFitness \in Nat /\ MaxFitness \in Nat /\ MaxFitness < Unlocalized
    /\ ConfirmFrames \in Nat /\ ConfirmTranslation \in Nat
    /\ Scores \subseteq Nat \cup {NonFinite} /\ RobustScores \subseteq Nat
    /\ Depth \in Nat \ {0}

VARIABLES
    map_t_body,         \* pose of the LiDAR body in the map
    current_odom,       \* last /Odometry, or None (have_odom_)
    last_odom,          \* /Odometry that belongs to map_t_body, or None
    initialized,
    have_ndt_pose,
    search_pending,     \* initial_search_pending_
    search_passed,      \* initial_search_quality_passed_
    confirm_count,      \* initial_confirm_count_
    pending_pose,       \* pending_initial_pose_
    last_fitness,
    last_status,
    report,             \* score and status published last
    poses               \* /relocalization_pose in flight

ndtVars == <<map_t_body, current_odom, last_odom, initialized, have_ndt_pose,
             search_pending, search_passed, confirm_count, pending_pose,
             last_fitness, last_status, report, poses>>

Status == {"INITIAL_POSE", "NDT_REJECTED", "NDT_OCCUPIED",
           "NDT_VERIFYING", "LOCALIZED"}

Spoilt == MaxFitness + 1    \* max_fitness_score_ + 1.0e-6

Fitness == Nat \cup {NonFinite}

Reports == [fitness : Fitness, status : Status]
Estimates == [pose : Poses, stamp : Nat]

NdtTypeOK ==
    /\ map_t_body \in Poses /\ pending_pose \in Poses
    /\ current_odom \in Poses \cup {None} /\ last_odom \in Poses \cup {None}
    /\ initialized \in BOOLEAN /\ have_ndt_pose \in BOOLEAN
    /\ search_pending \in BOOLEAN /\ search_passed \in BOOLEAN
    /\ confirm_count \in 0 .. AtLeast(ConfirmFrames, 1)
    /\ last_fitness \in Fitness /\ last_status \in Status
    /\ report \in Reports
    /\ poses \in Seq(Estimates) /\ Len(poses) <= Depth

NdtInit ==
    /\ map_t_body = Identity /\ pending_pose = Identity
    /\ current_odom = None /\ last_odom = None
    /\ initialized = FALSE /\ have_ndt_pose = FALSE
    /\ search_pending = FALSE /\ search_passed = FALSE
    /\ confirm_count = 0
    /\ last_fitness = Unlocalized /\ last_status = "INITIAL_POSE"
    /\ report = [fitness |-> Unlocalized, status |-> "INITIAL_POSE"]
    /\ poses = <<>>

-----------------------------------------------------------------------------
(* publishPoseEstimate: the pose goes to the bridge (best effort, a full    *)
(* queue loses its oldest entry), its score to the gate and the displays.   *)
Publish(pose, stamp, fitness, status) ==
    /\ report' = [fitness |-> fitness, status |-> status]
    /\ poses' = LET queue == IF Len(poses) < Depth THEN poses ELSE Tail(poses)
                IN  Append(queue, [pose |-> pose, stamp |-> stamp])

(* odomCallback *)
OdomCallback ==
    /\ current_odom' = BodyAt(now)
    /\ UNCHANGED <<map_t_body, last_odom, initialized, have_ndt_pose, search_pending,
                   search_passed, confirm_count, pending_pose, last_fitness,
                   last_status, report, poses>>

(* Mutant: the odometry of the first pose is kept. *)
SetPoseKeepOdom(pose) ==
    /\ map_t_body' = pose
    /\ last_odom' = IF last_odom = None THEN current_odom ELSE last_odom

(* The pose is set together with the odometry it belongs to. *)
SetPose(pose) ==
    /\ map_t_body' = pose
    /\ last_odom' = IF current_odom = None THEN last_odom ELSE current_odom

(* Mutant: the score of the pose before the click is kept. *)
InitialPoseKeepScore(click) ==
    /\ SetPose(Mul(click, Inv(Mount)))
    /\ initialized' = TRUE
    /\ have_ndt_pose' = FALSE
    /\ search_pending' = InitialSearch
    /\ search_passed' = ~InitialSearch
    /\ confirm_count' = 0
    /\ last_status' = "INITIAL_POSE"
    /\ Publish(Mul(click, Inv(Mount)), now, Unlocalized, "INITIAL_POSE")
    /\ UNCHANGED <<current_odom, pending_pose, last_fitness>>

(* initialPoseCallback: the click is a pose of the chassis. *)
InitialPoseCallback(click) ==
    /\ SetPose(Mul(click, Inv(Mount)))
    /\ initialized' = TRUE
    /\ have_ndt_pose' = FALSE
    /\ search_pending' = InitialSearch
    /\ search_passed' = ~InitialSearch
    /\ confirm_count' = 0
    /\ last_fitness' = Unlocalized
    /\ last_status' = "INITIAL_POSE"
    /\ Publish(Mul(click, Inv(Mount)), now, Unlocalized, "INITIAL_POSE")
    /\ UNCHANGED <<current_odom, pending_pose>>

(* publishMap: the timer publishes the pose it finds with the current time. *)
PublishMap ==
    /\ initialized
    /\ Publish(map_t_body, now, last_fitness,
               IF have_ndt_pose THEN "LOCALIZED" ELSE last_status)
    /\ UNCHANGED <<map_t_body, current_odom, last_odom, initialized, have_ndt_pose,
                   search_pending, search_passed, confirm_count, pending_pose,
                   last_fitness, last_status>>

-----------------------------------------------------------------------------
(* makeInitialGuess *)
Guess ==
    IF ~initialized THEN Identity
    ELSE IF current_odom # None /\ last_odom # None
         THEN Mul(map_t_body, Motion(last_odom, current_odom))
         ELSE map_t_body

(* The pose and its odometry as makeInitialGuess leaves them. *)
KeepPose ==
    IF initialized
    THEN UNCHANGED <<map_t_body, last_odom>>
    ELSE SetPose(Identity)

(* PCL's NDT: a registration of the scan of instant t. *)
Registrations(t, guess) ==
    [converged : BOOLEAN, raw : Scores, rmse : RobustScores \cup {NonFinite},
     pose : {BodyAt(t), guess}]

(* robust_quality_ok; rmse is NonFinite when the robust test fails. *)
RobustOk(r) == r.rmse # NonFinite

AtMost(score, limit) == score # NonFinite /\ score <= limit

FitnessOf(r) == IF RobustOk(r) THEN r.rmse ELSE r.raw

Spoil(score) == AtLeast(score, Spoilt)

(* runBoundedInitialSearch runs once after an initial pose; best is its     *)
(* best score.                                                              *)
PassedSearch(best) ==
    IF InitialSearch /\ search_pending THEN AtMost(best, SearchFitness)
    ELSE search_passed

(* full_resolution_acquisition_ok *)
FullResolutionOk(r) ==
    r.converged /\ (AtMost(r.raw, SearchFitness) \/ RobustOk(r))

(* acquisition_quality_ok *)
AcquisitionOk(best, r) ==
    have_ndt_pose \/ ~InitialSearch \/ PassedSearch(best) \/ FullResolutionOk(r)

Matched(best, r) ==
    /\ r.converged
    /\ AtMost(r.raw, MaxFitness) \/ RobustOk(r)
    /\ AcquisitionOk(best, r)

(* Mutant: the cell of the LiDAR body is tested. *)
BodyInRejectedCell(pose) == RejectedCell(pose.p)

(* isPoseInRejectedCell looks at the chassis centre. *)
InRejectedCell(pose) == RejectedCell(Mul(pose, Mount).p)

(* A candidate close to the one before, in position and heading. *)
Stable(pose) ==
    LET delta == Motion(pending_pose, pose)
    IN  Translation(delta) <= ConfirmTranslation /\ ~Turned(delta)

(* Mutant: a rejected scan keeps the confirmations gathered so far. *)
RejectScanKeepCount(t, r) ==
    /\ KeepPose
    /\ have_ndt_pose' = FALSE
    /\ last_fitness' = FitnessOf(r)
    /\ last_status' = "NDT_REJECTED"
    /\ Publish(map_t_body', t, FitnessOf(r), "NDT_REJECTED")
    /\ UNCHANGED <<pending_pose, confirm_count>>

(* cloudCallback, not ok: the pose is held, the score is published. *)
RejectScan(t, r) ==
    /\ KeepPose
    /\ have_ndt_pose' = FALSE
    /\ confirm_count' = 0
    /\ last_fitness' = FitnessOf(r)
    /\ last_status' = "NDT_REJECTED"
    /\ Publish(map_t_body', t, FitnessOf(r), "NDT_REJECTED")
    /\ UNCHANGED pending_pose

(* cloudCallback: the pose found is not one the chassis can have. *)
RejectCell(t, r) ==
    /\ KeepPose
    /\ have_ndt_pose' = FALSE
    /\ confirm_count' = 0
    /\ last_fitness' = Spoil(FitnessOf(r))
    /\ last_status' = "NDT_OCCUPIED"
    /\ Publish(map_t_body', t, Spoil(FitnessOf(r)), "NDT_OCCUPIED")
    /\ UNCHANGED pending_pose

ConfirmCount(pose) ==
    IF confirm_count > 0 /\ Stable(pose) THEN confirm_count + 1 ELSE 1

Confirming == ~have_ndt_pose /\ ConfirmFrames > 1

(* Mutant: one confirmation too many is waited for. *)
VerifyScanOneMore(t, r) ==
    /\ Confirming /\ ConfirmCount(r.pose) <= ConfirmFrames
    /\ confirm_count' = ConfirmCount(r.pose)
    /\ pending_pose' = r.pose
    /\ SetPose(r.pose)
    /\ last_fitness' = Spoil(FitnessOf(r))
    /\ last_status' = "NDT_VERIFYING"
    /\ Publish(IF initialized THEN map_t_body ELSE Identity, t,
               Spoil(FitnessOf(r)), "NDT_VERIFYING")
    /\ UNCHANGED have_ndt_pose

(* cloudCallback: one more confirmation, still the old pose published.      *)
VerifyScan(t, r) ==
    /\ Confirming /\ ConfirmCount(r.pose) < ConfirmFrames
    /\ confirm_count' = ConfirmCount(r.pose)
    /\ pending_pose' = r.pose
    /\ SetPose(r.pose)
    /\ last_fitness' = Spoil(FitnessOf(r))
    /\ last_status' = "NDT_VERIFYING"
    /\ Publish(IF initialized THEN map_t_body ELSE Identity, t,
               Spoil(FitnessOf(r)), "NDT_VERIFYING")
    /\ UNCHANGED have_ndt_pose

(* acceptPose and publishResult, with the last confirmation if one was due. *)
AcceptScan(t, r) ==
    /\ Confirming => ConfirmCount(r.pose) >= ConfirmFrames
    /\ confirm_count' = IF Confirming THEN ConfirmCount(r.pose) ELSE confirm_count
    /\ pending_pose' = IF Confirming THEN r.pose ELSE pending_pose
    /\ SetPose(r.pose)
    /\ have_ndt_pose' = TRUE
    /\ last_fitness' = FitnessOf(r)
    /\ last_status' = "LOCALIZED"
    /\ Publish(r.pose, t, FitnessOf(r), "LOCALIZED")

(* Instants whose scan may be at hand: the newest and the one before. *)
ScanStamps == {t \in {now - 1, now} : t >= 1}

(* Best scores of a bounded search, if one is due. *)
SearchScores == IF search_pending THEN Scores ELSE {NonFinite}

(* cloudCallback for the scan of instant t, searching with result best and  *)
(* registering with result r.                                               *)
CloudCallback(t, best, r) ==
    /\ initialized \/ ~RequireInitialPose
    /\ initialized' = TRUE
    /\ search_pending' = (search_pending /\ ~InitialSearch)
    /\ search_passed' = (PassedSearch(best) \/ (InitialSearch /\ FullResolutionOk(r)))
    /\ UNCHANGED current_odom
    /\ \/ ~Matched(best, r) /\ RejectScan(t, r)
       \/ Matched(best, r) /\ InRejectedCell(r.pose) /\ RejectCell(t, r)
       \/ /\ Matched(best, r) /\ ~InRejectedCell(r.pose)
          /\ VerifyScan(t, r) \/ AcceptScan(t, r)
=============================================================================
