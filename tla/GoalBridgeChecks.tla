-------------------------- MODULE GoalBridgeChecks --------------------------
(***************************************************************************)
(* What the RViz goal bridge promises the operator.  The observer counts,  *)
(* for each click, how often it was handed to the action server since the  *)
(* bridge last took one of its copies for a new goal.                      *)
(***************************************************************************)
EXTENDS GoalBridge

VARIABLE attempts

checkVars == <<vars, attempts>>

ChecksInit == Init /\ attempts = [c \in Clicks |-> 0]

ChecksNext ==
    \/ /\ Environment \/ DispatchPostponed \/ GoalAccepted \/ GoalRefused
          \/ GoalResult \/ \E m \in wire : GoalPoseRejected(m)
       /\ UNCHANGED attempts
    \/ \E m \in wire :
         /\ GoalPoseQueued(m) \/ GoalPoseSubmitted(m)
         /\ attempts' = [attempts EXCEPT ![m.click] = open' - open]
    \/ /\ DispatchQueuedGoal
       /\ attempts' = [attempts EXCEPT ![queued] = @ + (open' - open)]

ChecksSpec == ChecksInit /\ [][ChecksNext]_checkVars

(* The 100 ms timer of the bridge keeps running, clocks advance, and the   *)
(* action server answers, ends its goals and comes back when it was gone.  *)
BridgeFairness ==
    /\ WF_checkVars(HandoffDelayPasses /\ UNCHANGED attempts)
    /\ WF_checkVars(DispatchPostponed /\ UNCHANGED attempts)
    /\ WF_checkVars(DispatchQueuedGoal
                    /\ attempts' = [attempts EXCEPT ![queued] = @ + (open' - open)])
    /\ WF_checkVars((GoalAccepted \/ GoalRefused) /\ UNCHANGED attempts)
    /\ WF_checkVars(GoalResult /\ UNCHANGED attempts)
    /\ WF_checkVars(ServerReturns /\ UNCHANGED attempts)

FairChecksSpec == ChecksSpec /\ BridgeFairness
-----------------------------------------------------------------------------
(* One goal at a time: whatever copies arrive and however the server        *)
(* answers, submit_goal never hands the action server a second goal while   *)
(* one is unanswered or executing.                                          *)
OneGoalInFlight == open <= 1

(* "only a genuinely different click can replace it" (the comment in        *)
(* __init__): the goal under way and the click that waits to replace it     *)
(* never have the same pose, so no delayed copy cancels its own goal.       *)
NoDoubleBooking ==
    Busy /\ queued # NoGoal => sig[current] # sig[queued]

(* queued_retry_limit: through refusals, send failures, outages and goals   *)
(* that pass the queue, a click is handed to the server once and retried    *)
(* at most RetryLimit times.                                                *)
RetriesBounded == \A c \in Clicks : attempts[c] <= RetryLimit + 1

(* With no more clicks to take the bridge comes to rest: no click stays in  *)
(* the queue for ever and no retry goes on for ever.                        *)
ComesToRest == <>[](queued = NoGoal /\ ~Busy)
=============================================================================
