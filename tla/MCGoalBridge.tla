---------------------------- MODULE MCGoalBridge ----------------------------
(* The goal bridge with a few clicks on two poses. *)
EXTENDS GoalBridgeChecks

=============================================================================
