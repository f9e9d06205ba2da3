----------------------------- MODULE GoalBridge -----------------------------
(***************************************************************************)
(* The RViz goal bridge, class RvizGoalPoseBridge of                       *)
(* scripts/rviz_goal_pose_bridge.py: it turns clicks in RViz into goals of *)
(* the aligned_navigate_to_pose action, one at a time.                     *)
(*                                                                         *)
(* The node runs on one thread: every callback and timer is one action.    *)
(* A click reaches it as several copies, by DDS, by the SSH inbox and by   *)
(* the relay, which stamps its copies anew; copies are delayed, reordered  *)
(* and lost.  A click is its number; its signature (the rounded pose) is   *)
(* sig[click], BadPose for a wrong frame or orientation.  Time is what the *)
(* code compares it with: the order of source stamps, whether a duplicate  *)
(* window is open, whether the handoff delay of the queue has passed.      *)
(***************************************************************************)
EXTENDS Naturals, FiniteSets

CONSTANTS
    Signatures,   \* poses the operator clicks on
    BadPose,      \* the signature of a click that fails validation
    MaxClicks,    \* bounds the clicks of a model
    MaxStamp,     \* bounds the source stamps of a model
    RetryLimit,   \* queued_retry_limit
    MaxOutages    \* bounds the times the action server disappears

ASSUME BridgeAssumption ==
    /\ BadPose \notin Signatures
    /\ MaxClicks \in Nat /\ MaxStamp \in Nat
    /\ RetryLimit \in Nat /\ MaxOutages \in Nat

NoGoal == 0
NoSignature == "none"
Clicks == 1 .. MaxClicks

VARIABLES
    made, sig,          \* the operator's clicks
    stamp, wire,        \* the latest source stamp, the copies under way
    latest_src,         \* latest_source_created_at_ns
    pending, handle,    \* a send_goal is unanswered; active_goal_handle
    current, retries,   \* current_goal_message, current_retry_count
    queued, queued_retries, queue_due,
    last_sig, last_open,          \* last_signature, its window is open
    finished_sig, finished_open,  \* last_finished_signature, likewise
    open, canceling,    \* goals at the action server, cancel requested
    server_ready, outages

operatorVars == <<made, sig, stamp>>
goalVars     == <<pending, handle, current, retries, open, canceling>>
queueVars    == <<queued, queued_retries, queue_due>>
filterVars   == <<latest_src, last_sig, last_open, finished_sig, finished_open>>
serverVars   == <<server_ready, outages>>
vars == <<operatorVars, wire, goalVars, queueVars, filterVars, serverVars>>

Init ==
    /\ made = 0 /\ sig = [c \in Clicks |-> NoSignature]
    /\ stamp = 0 /\ wire = {} /\ latest_src = 0
    /\ pending = FALSE /\ handle = FALSE /\ current = NoGoal /\ retries = 0
    /\ queued = NoGoal /\ queued_retries = 0 /\ queue_due = FALSE
    /\ last_sig = NoSignature /\ last_open = FALSE
    /\ finished_sig = NoSignature /\ finished_open = FALSE
    /\ open = 0 /\ canceling = FALSE
    /\ server_ready = TRUE /\ outages = 0
-----------------------------------------------------------------------------
(* The operator and the network.                                            *)

Copy(c, src, via) == [click |-> c, src |-> src, via |-> via]

(* A click leaves for the bridge by DDS and by the SSH inbox. *)
OperatorClicks(s) ==
    /\ made < MaxClicks /\ stamp < MaxStamp
    /\ made' = made + 1 /\ stamp' = stamp + 1
    /\ sig' = [sig EXCEPT ![made'] = s]
    /\ wire' = wire \cup {Copy(made', stamp', "dds"), Copy(made', stamp', "ssh")}
    /\ UNCHANGED <<goalVars, queueVars, filterVars, serverVars>>

(* seeed_publish_goal_pose_relay.py repeats a click under a new stamp. *)
RelayRepeats(c) ==
    /\ c <= made /\ stamp < MaxStamp
    /\ stamp' = stamp + 1
    /\ wire' = wire \cup {Copy(c, stamp', "relay")}
    /\ UNCHANGED <<made, sig, goalVars, queueVars, filterVars, serverVars>>

(* A copy is lost, overwritten in the inbox, or too old when it arrives. *)
CopyDropped(m) ==
    /\ wire' = wire \ {m}
    /\ UNCHANGED <<operatorVars, goalVars, queueVars, filterVars, serverVars>>

ServerDisappears ==
    /\ server_ready /\ outages < MaxOutages
    /\ server_ready' = FALSE /\ outages' = outages + 1
    /\ UNCHANGED <<operatorVars, wire, goalVars, queueVars, filterVars>>

ServerReturns ==
    /\ ~server_ready /\ server_ready' = TRUE
    /\ UNCHANGED <<operatorVars, wire, goalVars, queueVars, filterVars, outages>>
-----------------------------------------------------------------------------
(* queue_goal and submit_goal                                               *)

Busy == pending \/ handle

QueueGoal(c, retry) ==
    queued' = c /\ queued_retries' = retry /\ queue_due' = FALSE

EmptyQueue ==
    queued' = NoGoal /\ queue_due' = FALSE /\ UNCHANGED queued_retries

(* submit_goal with a server that is ready *)
SendGoal(c, retry) ==
    /\ last_sig' = sig[c] /\ last_open' = TRUE
    /\ current' = c /\ retries' = retry /\ pending' = TRUE
    /\ open' = open + 1 /\ canceling' = FALSE
    /\ UNCHANGED <<handle, finished_sig, finished_open>>

(* submit_goal asks for the server again: it may have gone in between *)
SubmitDeferred(c, retry) ==
    /\ server_ready' = FALSE
    /\ outages < MaxOutages /\ outages' = outages + 1
    /\ QueueGoal(c, retry)
    /\ UNCHANGED <<goalVars, last_sig, last_open, finished_sig, finished_open>>
-----------------------------------------------------------------------------
(* on_goal_pose, for a copy that is not too old                             *)

(* Mutant: the queue is not searched for duplicates. *)
DuplicateUnqueued(s) ==
    \/ Busy /\ s = sig[current]
    \/ s = finished_sig /\ finished_open
    \/ s = last_sig /\ last_open

Duplicate(s) ==
    \/ Busy /\ s = sig[current]
    \/ queued # NoGoal /\ s = sig[queued]
    \/ s = finished_sig /\ finished_open
    \/ s = last_sig /\ last_open

Taken(m) == m.src >= latest_src

(* Out of order, invalid, duplicate, or no server: the copy is rejected. *)
GoalPoseRejected(m) ==
    /\ wire' = wire \ {m}
    /\ \/ ~Taken(m) /\ UNCHANGED latest_src
       \/ /\ Taken(m) /\ latest_src' = m.src
          /\ \/ sig[m.click] = BadPose
             \/ Duplicate(sig[m.click])
             \/ ~Busy /\ ~server_ready
    /\ UNCHANGED <<operatorVars, goalVars, queueVars, last_sig, last_open,
                   finished_sig, finished_open, serverVars>>

NewGoal(m) ==
    /\ Taken(m) /\ sig[m.click] # BadPose /\ ~Duplicate(sig[m.click])
    /\ wire' = wire \ {m} /\ latest_src' = m.src

(* Replacing: the click waits in the queue.  A goal that is executing is    *)
(* canceled, one that is not yet accepted is not.                           *)
GoalPoseQueued(m) ==
    /\ NewGoal(m) /\ Busy
    /\ QueueGoal(m.click, 0)
    /\ canceling' = (canceling \/ handle)
    /\ UNCHANGED <<operatorVars, pending, handle, current, retries, open,
                   last_sig, last_open, finished_sig, finished_open,
                   serverVars>>

(* Idle: the click is submitted at once, past whatever the queue holds.     *)
(* When the server went meanwhile, submit_goal queues it.                   *)
GoalPoseSubmitted(m) ==
    /\ NewGoal(m) /\ ~Busy /\ server_ready
    /\ \/ SendGoal(m.click, 0) /\ UNCHANGED <<queueVars, serverVars>>
       \/ SubmitDeferred(m.click, 0)
    /\ UNCHANGED operatorVars
-----------------------------------------------------------------------------
(* dispatch_queued_goal                                                     *)

(* Mutant: a goal that is executing does not hold the queue back. *)
DispatchableWhileActive == queued # NoGoal /\ ~pending /\ queue_due

Dispatchable == queued # NoGoal /\ ~Busy /\ queue_due

DispatchPostponed ==
    /\ Dispatchable /\ ~server_ready
    /\ queue_due' = FALSE
    /\ UNCHANGED <<operatorVars, wire, goalVars, queued, queued_retries,
                   filterVars, serverVars>>

DispatchQueuedGoal ==
    /\ Dispatchable /\ server_ready
    /\ \/ SendGoal(queued, queued_retries) /\ EmptyQueue /\ UNCHANGED serverVars
       \/ SubmitDeferred(queued, queued_retries)
    /\ UNCHANGED <<operatorVars, wire, latest_src>>
-----------------------------------------------------------------------------
(* on_goal_response and on_goal_result                                      *)

GoalAccepted ==
    /\ pending
    /\ pending' = FALSE /\ handle' = TRUE
    /\ UNCHANGED <<operatorVars, wire, current, retries, open, canceling,
                   queueVars, filterVars, serverVars>>

(* Mutant: one retry too many. *)
GoalRefusedLate ==
    /\ pending
    /\ pending' = FALSE /\ current' = NoGoal /\ open' = open - 1
    /\ IF retries <= RetryLimit THEN QueueGoal(current, retries + 1)
                                ELSE UNCHANGED queueVars
    /\ UNCHANGED <<operatorVars, wire, handle, retries, canceling, filterVars,
                   serverVars>>

(* Rejected, or the send failed: queued again, in place of whatever the     *)
(* queue holds, until the retries are used up.                              *)
GoalRefused ==
    /\ pending
    /\ pending' = FALSE /\ current' = NoGoal /\ open' = open - 1
    /\ IF retries + 1 <= RetryLimit THEN QueueGoal(current, retries + 1)
                                    ELSE UNCHANGED queueVars
    /\ UNCHANGED <<operatorVars, wire, handle, retries, canceling, filterVars,
                   serverVars>>

GoalResult ==
    /\ handle
    /\ handle' = FALSE /\ current' = NoGoal /\ retries' = 0
    /\ open' = open - 1 /\ canceling' = FALSE
    /\ finished_sig' = sig[current] /\ finished_open' = TRUE
    /\ queue_due' = FALSE
    /\ UNCHANGED <<operatorVars, wire, pending, queued, queued_retries,
                   latest_src, last_sig, last_open, serverVars>>
-----------------------------------------------------------------------------
(* Time passes: the handoff delay, the two duplicate windows.               *)

(* Mutant: a retry is queued with the dispatch time left at infinity. *)
HandoffDelayPassesOnce ==
    /\ queued # NoGoal /\ queued_retries = 0 /\ ~queue_due /\ queue_due' = TRUE
    /\ UNCHANGED <<operatorVars, wire, goalVars, queued, queued_retries,
                   filterVars, serverVars>>

HandoffDelayPasses ==
    /\ queued # NoGoal /\ ~queue_due /\ queue_due' = TRUE
    /\ UNCHANGED <<operatorVars, wire, goalVars, queued, queued_retries,
                   filterVars, serverVars>>

DuplicateWindowPasses ==
    /\ \/ last_open /\ last_open' = FALSE /\ UNCHANGED finished_open
       \/ finished_open /\ finished_open' = FALSE /\ UNCHANGED last_open
    /\ UNCHANGED <<operatorVars, wire, goalVars, queueVars, latest_src,
                   last_sig, finished_sig, serverVars>>

Environment ==
    \/ \E s \in Signatures \cup {BadPose} : OperatorClicks(s)
    \/ \E c \in Clicks : RelayRepeats(c)
    \/ \E m \in wire : CopyDropped(m)
    \/ ServerDisappears
    \/ ServerReturns
    \/ HandoffDelayPasses
    \/ DuplicateWindowPasses

Next ==
    \/ Environment
    \/ \E m \in wire : \/ GoalPoseRejected(m)
                       \/ GoalPoseQueued(m)
                       \/ GoalPoseSubmitted(m)
    \/ DispatchPostponed
    \/ DispatchQueuedGoal
    \/ GoalAccepted
    \/ GoalRefused
    \/ GoalResult

Spec == Init /\ [][Next]_vars
-----------------------------------------------------------------------------
ClickTypeOK ==
    /\ made \in 0 .. MaxClicks
    /\ sig \in [Clicks -> Signatures \cup {BadPose, NoSignature}]
    /\ stamp \in 0 .. MaxStamp /\ latest_src \in 0 .. MaxStamp
    /\ wire \subseteq [click : Clicks, src : 1 .. MaxStamp,
                       via : {"dds", "ssh", "relay"}]

SlotTypeOK ==
    /\ current \in 0 .. MaxClicks /\ queued \in 0 .. MaxClicks
    /\ retries \in 0 .. RetryLimit /\ queued_retries \in 0 .. RetryLimit
    /\ last_sig \in Signatures \cup {NoSignature}
    /\ finished_sig \in Signatures \cup {NoSignature}
    /\ open \in Nat /\ outages \in 0 .. MaxOutages

FlagTypeOK ==
    /\ pending \in BOOLEAN /\ handle \in BOOLEAN /\ canceling \in BOOLEAN
    /\ queue_due \in BOOLEAN /\ server_ready \in BOOLEAN
    /\ last_open \in BOOLEAN /\ finished_open \in BOOLEAN

(* The values the state takes: the retry counts stay within the limit and   *)
(* an invalid pose is never remembered as submitted or finished.            *)
TypeOK == ClickTypeOK /\ SlotTypeOK /\ FlagTypeOK
=============================================================================
