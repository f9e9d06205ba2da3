---------------------------- MODULE AdapterChecks ----------------------------
(***************************************************************************)
(* What the goal adapter promises.  The observer counts the pose samples   *)
(* within tolerance since the robot was last moved (steady), and the       *)
(* movements started after the operator's cancel was accepted (late).      *)
(***************************************************************************)
EXTENDS GoalAdapter

VARIABLES steady, late

checkVars == <<vars, steady, late>>

ChecksInit == Init /\ steady = 0 /\ late = 0

Moving(a) == a.phase \in {"sending", "running", "turning"}

ChecksNext ==
    /\ Next
    /\ steady' = IF Moving(at) \/ Moving(at') \/ at'.phase = "heading" THEN 0
                 ELSE IF at.phase = "confirm"
                         /\ (at'.sample > at.sample \/ at'.phase = "finish")
                      THEN steady + 1
                 ELSE IF at'.phase = "idle" THEN 0 ELSE steady
    /\ late' = IF ~Canceled THEN 0
               ELSE IF Moving(at') /\ ~Moving(at) /\ late < 2 THEN late + 1
               ELSE late

ChecksSpec == ChecksInit /\ [][ChecksNext]_checkVars

FairChecksSpec == ChecksSpec /\ Fairness
-----------------------------------------------------------------------------
(* on_goal accepts a goal only when none is reserved or executing: between  *)
(* the acceptance and the start of execute() goal_reserved stands in.       *)
ExclusiveGoal == accepted <= 1

(* However a goal comes to its end (route, reverse, correction, child       *)
(* abort), it succeeds only after final_pose_confirmations measured poses   *)
(* in a row within tolerance, with no movement among them.                  *)
SuccessIsConfirmed ==
    at.result = "succeeded" => steady >= Confirmations

(* After a cancel was accepted at most one more movement is started (the    *)
(* check of is_cancel_requested comes after each child, not before it).     *)
CancelStartsAtMostOneMore == late <= 1

(* Every accepted goal ends: retries, rechecks, correction cycles and       *)
(* heading steps are all bounded ("permit a finite number of                *)
(* collision-checked corrections").                                         *)
GoalsEnd == accepted > 0 ~> accepted = 0

(* When no goal executes the lease is withdrawn in the end, whatever a      *)
(* delayed publication of the timer or a callback said meanwhile.           *)
LeaseConverges == ~active ~> (~lease \/ active)

(* "active safety watchdog canceled the drive": the watchdog that aborts a  *)
(* goal cancels the child that moves the robot.                             *)
WatchdogCancelsChild ==
    [][CheckPersistentMotionBlock /\ at.phase = "running" => child_cancel']_vars
=============================================================================
