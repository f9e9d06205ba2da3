----------------------------- MODULE GoalAdapter -----------------------------
(***************************************************************************)
(* The goal adapter, class AlignedNavGoalAdapter of                        *)
(* scripts/aligned_nav_goal_adapter.py: it executes one outer goal at a    *)
(* time as a chain of child actions (NavigateThroughPoses, DriveOnHeading, *)
(* BackUp, Spin) and map-yaw rotations, until the measured pose is         *)
(* confirmed.                                                              *)
(*                                                                         *)
(* execute() is one coroutine: at is where it stands, with the counters    *)
(* and the return points of the coroutines it awaits.  Every await, every  *)
(* sleep and every decision is a step of its own, because the node runs in *)
(* a reentrant callback group on three threads: feedback, the watchdog,    *)
(* the lease timer, on_cancel and the gate's topics come in between.       *)
(*                                                                         *)
(* Geometry is abstracted to what the code compares: a measured position   *)
(* error is in one of the Zones, and every reading may differ from the     *)
(* previous one.  Clearance, bearings and turn angles are choices.         *)
(***************************************************************************)
EXTENDS Naturals

CONSTANTS
    UseMapYawSpin,    \* use_map_yaw_spin
    UseFinalApproach, \* use_final_approach_route
    UseHandoff,       \* use_terminal_handoff
    AutomaticReverse, \* automatic_reverse_enabled
    MicroReverse,     \* final_position_micro_reverse_enabled
    NdtStops,         \* terminal_ndt_brake_distance and overshoot are in reach
    RetryCount,       \* terminal_drive_retry_count
    RecheckCount,     \* terminal_alignment_recheck_count
    Cycles,           \* final_position_correction_cycles
    HeadingSteps,     \* planned_steps + 2 of run_final_alignment
    Confirmations,    \* final_pose_confirmations
    MaxGoals,         \* bounds the goals of a model
    Silent            \* topics and timers that do not act in a model

ASSUME AdapterAssumption ==
    /\ UseMapYawSpin \in BOOLEAN /\ UseFinalApproach \in BOOLEAN
    /\ UseHandoff \in BOOLEAN /\ AutomaticReverse \in BOOLEAN
    /\ MicroReverse \in BOOLEAN /\ NdtStops \in BOOLEAN
    /\ RetryCount \in Nat /\ RecheckCount \in Nat /\ Cycles \in Nat
    /\ HeadingSteps \in Nat \ {0} /\ Confirmations \in Nat \ {0}
    /\ MaxGoals \in Nat /\ Silent \subseteq {"lease", "status", "armed", "cancel"}

Children == {"inner", "spin", "backup", "drive"}
ReverseTurns == 3   \* alignment turns of run_final_position_micro_reverse
NoBlock == "none"
BlockKinds == {"reverse_policy", "other"}

(* strict: terminal_position_tolerance; aligned: the wider final alignment  *)
(* tolerance; near: final_position_correction_max_distance; unknown: no TF. *)
Zones == {"strict", "aligned", "near", "far", "unknown"}

VARIABLES
    at,                          \* where execute() stands
    active, reserved, accepted,  \* accepted: outer goals not yet finished
    cancel,                      \* "no", "called" (on_cancel ran), "requested"
    abort, abort_kind,           \* progress_abort_requested, abort_reason
    handle, child_cancel,        \* the four handles; the child is canceled
    drive_stop, handoff,         \* terminal_drive_cancel_reason, handoff requested
    auth,                        \* motion_authorized
    block, block_due,            \* motion_block_kind, its timeout has passed
    armed, ready,                \* motion_armed, motion_ready
    lease, inflight,             \* last lease published, leases read, not sent
    goals

goalVars  == <<active, reserved, accepted, goals>>
abortVars == <<abort, abort_kind>>
childVars == <<handle, child_cancel, drive_stop, handoff>>
gateVars  == <<block, block_due, armed, ready>>
leaseVars == <<lease, inflight>>
vars == <<at, goalVars, cancel, abortVars, childVars, auth, gateVars, leaseVars>>

NoHandles == [c \in Children |-> "none"]

Nowhere == [phase |-> "idle", child |-> "none", caller |-> "none",
            turning |-> "none", approach |-> FALSE, realign |-> FALSE,
            attempt |-> 0, recheck |-> 0, cycle |-> 0, step |-> 0,
            sample |-> 0, result |-> "none"]

Init ==
    /\ at = Nowhere
    /\ active = FALSE /\ reserved = FALSE /\ accepted = 0 /\ goals = 0
    /\ cancel = "no" /\ abort = FALSE /\ abort_kind = NoBlock
    /\ handle = NoHandles /\ child_cancel = FALSE
    /\ drive_stop = FALSE /\ handoff = FALSE /\ auth = FALSE
    /\ block = NoBlock /\ block_due = FALSE
    /\ armed = FALSE /\ ready = FALSE
    /\ lease = FALSE /\ inflight = {}
-----------------------------------------------------------------------------
(* Where execute() goes next.                                               *)

Canceled == cancel = "requested"

(* Every failure ends the goal: canceled() when a cancel was requested,     *)
(* abort() otherwise, also when canceled() raises because none was.         *)
Fail == [at EXCEPT !.phase = "finish",
                   !.result = IF Canceled THEN "canceled" ELSE "aborted"]

Succeed == [at EXCEPT !.phase = "finish", !.result = "succeeded"]

(* send_goal_async: until the answer comes there is no handle to cancel. *)
Send(c) == [at EXCEPT !.phase = "sending", !.child = c]

Route == [at EXCEPT !.phase = "route"]

Terminal(caller, attempt) ==
    [at EXCEPT !.phase = "terminal", !.caller = caller, !.recheck = 0,
               !.attempt = IF attempt > RetryCount THEN RetryCount + 1
                                                   ELSE attempt]

Reverse(realign) ==
    [at EXCEPT !.phase = "reverse", !.realign = realign, !.recheck = 0]

Converge(cycle) ==
    [at EXCEPT !.phase = "converge", !.cycle = cycle, !.step = 0, !.sample = 0,
               !.attempt = 0, !.recheck = 0, !.caller = "none"]

Heading(step) == [at EXCEPT !.phase = "heading", !.step = step, !.sample = 0]

Unaligned == [at EXCEPT !.phase = "unaligned", !.step = 0, !.sample = 0]

Turn(turning) ==
    [at EXCEPT !.phase = IF UseMapYawSpin THEN "turn" ELSE "spin",
               !.turning = turning]

(* run_terminal_forward or a micro reverse returns True to its caller. *)
MoveDone ==
    CASE at.caller = "clearance"  -> [Converge(0) EXCEPT !.phase = "cleared"]
      [] at.caller = "approach"   -> Converge(0)
      [] at.caller = "correction" -> Converge(at.cycle + 1)

(* Mutant: bearing turns are not counted. *)
SpinDoneUncounted ==
    CASE at.turning = "pre"     -> Route
      [] at.turning = "direct"  -> [at EXCEPT !.phase = "direct"]
      [] at.turning = "bearing" -> [at EXCEPT !.phase = "terminal"]
      [] at.turning = "reverse" -> [at EXCEPT !.phase = "reverse"]
      [] at.turning = "heading" -> Heading(at.step + 1)

SpinDone ==
    CASE at.turning = "pre"     -> Route
      [] at.turning = "direct"  -> [at EXCEPT !.phase = "direct"]
      [] at.turning = "bearing" -> [at EXCEPT !.phase = "terminal",
                                              !.recheck = @ + 1]
      [] at.turning = "reverse" -> [at EXCEPT !.phase = "reverse",
                                              !.recheck = @ + 1]
      [] at.turning = "heading" -> Heading(at.step + 1)

(* A blocked direct alignment falls back to the forward route, a blocked    *)
(* final turn to the position check, any other one fails.                   *)
SpinFailed ==
    CASE at.turning = "direct" /\ ~Canceled -> Route
      [] at.turning = "heading"             -> Unaligned
      [] OTHER                              -> Fail

(* choose_final_position_correction *)
Corrections(caller, attempt) ==
    {Terminal(caller, attempt)}
    \cup (IF MicroReverse THEN {[Reverse(r) EXCEPT !.caller = caller] :
                                  r \in BOOLEAN} ELSE {})

(* Mutant: one correction cycle too many. *)
CorrectedAgain(z) ==
    IF at.cycle <= Cycles /\ z \in {"aligned", "near"}
    THEN Corrections("correction", at.cycle + 1) ELSE {Fail}

(* A correction in a cycle of converge_final_pose that measured zone z. *)
Corrected(z) ==
    IF at.cycle < Cycles /\ z \in {"aligned", "near"}
    THEN Corrections("correction", at.cycle + 1) ELSE {Fail}
-----------------------------------------------------------------------------
(* publish_goal_active_lease reads active under the lock and publishes it   *)
(* after the lock is released: the lease read is in flight until then.      *)
LeaseRead == inflight' = IF "lease" \in Silent THEN inflight
                                               ELSE inflight \cup {active}

(* set_motion_authorized *)
SetMotionAuthorized(authorized) ==
    auth' = authorized /\ LeaseRead /\ UNCHANGED lease
-----------------------------------------------------------------------------
(* on_goal, execute and its finally block                                   *)

(* Mutant: a goal that is reserved but not yet executing is forgotten. *)
ExclusiveActive == ~active

Exclusive == ~active /\ ~reserved

OnGoal ==
    /\ goals < MaxGoals
    /\ armed /\ ready /\ Exclusive
    /\ reserved' = TRUE /\ accepted' = accepted + 1 /\ goals' = goals + 1
    /\ at' = [Nowhere EXCEPT !.phase = "reserved"]
    /\ SetMotionAuthorized(FALSE)
    /\ UNCHANGED <<active, cancel, abortVars, childVars, gateVars>>

Execute ==
    /\ at.phase = "reserved"
    /\ at' = [at EXCEPT !.phase = "start"]
    /\ active' = TRUE /\ reserved' = FALSE /\ auth' = FALSE
    /\ lease' = TRUE
    /\ handle' = NoHandles /\ drive_stop' = FALSE /\ handoff' = FALSE
    /\ abort' = FALSE /\ abort_kind' = NoBlock
    /\ block' = NoBlock /\ block_due' = FALSE
    /\ UNCHANGED <<accepted, goals, cancel, child_cancel, armed, ready, inflight>>

Finish ==
    /\ at.phase = "finish"
    /\ at' = Nowhere
    /\ handle' = NoHandles /\ drive_stop' = FALSE /\ handoff' = FALSE
    /\ active' = FALSE /\ reserved' = FALSE /\ auth' = FALSE
    /\ accepted' = accepted - 1 /\ cancel' = "no"
    /\ lease' = FALSE
    /\ UNCHANGED <<goals, child_cancel, abortVars, gateVars, inflight>>
-----------------------------------------------------------------------------
(* The steps of execute() that await nothing: they only move on.            *)

Moves(next) ==
    /\ at' \in next
    /\ UNCHANGED <<goalVars, cancel, abortVars, childVars, auth, gateVars,
                   leaseVars>>

(* No costmap, already there, or a route: direct reverse, forward after an  *)
(* optional lead-in and turn, or the planner's detour.                      *)
ChooseRoute ==
    /\ at.phase = "start"
    /\ \E a \in IF UseFinalApproach THEN BOOLEAN ELSE {FALSE} :
         Moves({Fail, Converge(0), [Route EXCEPT !.approach = a],
                [Turn("pre") EXCEPT !.approach = a],
                [at EXCEPT !.phase = "clearance", !.approach = a]}
               \cup IF AutomaticReverse THEN {Turn("direct"),
                                              [at EXCEPT !.phase = "direct"]}
                                        ELSE {})

(* run_forward_for_turn_clearance, up to the lead-in *)
TurnClearance ==
    at.phase = "clearance" /\ Moves({Fail, Route, Turn("pre"),
                                     Terminal("clearance", 1)})

(* ... and after it *)
TurnCleared == at.phase = "cleared" /\ Moves({Fail, Route, Turn("pre")})

SendRoute == at.phase = "route" /\ Moves({Fail, Send("inner")})

SendDirectReverse == at.phase = "direct" /\ Moves({Fail, Send("backup")})

(* run_terminal_forward, up to the drive: there already, refused (pose,     *)
(* growth, corridor, angle, server), a bearing turn, or the drive.          *)
TerminalForward ==
    /\ at.phase = "terminal"
    /\ Moves({MoveDone, Fail, Send("drive")}
             \cup IF at.recheck < RecheckCount THEN {Turn("bearing")} ELSE {})

(* run_final_position_micro_reverse, up to the reverse *)
FinalPositionMicroReverse ==
    /\ at.phase = "reverse"
    /\ Moves({Fail, Send("backup")}
             \cup IF at.realign /\ at.recheck < ReverseTurns
                  THEN {Turn("reverse")} ELSE {})

(* A cycle of converge_final_pose: position first, then the heading. *)
ConvergeFinalPose ==
    /\ at.phase = "converge"
    /\ \E z \in Zones : Moves(IF z = "strict" THEN {Heading(0), Unaligned}
                                              ELSE Corrected(z))

(* A step of run_final_alignment, and the check after the last one. *)
FinalAlignment ==
    /\ at.phase = "heading"
    /\ IF at.step = HeadingSteps
       THEN Moves({Unaligned, [at EXCEPT !.phase = "confirm"]})
       ELSE IF Canceled THEN Moves({Unaligned})
       ELSE Moves({Unaligned, [at EXCEPT !.phase = "confirm"], Turn("heading")})

(* The heading failed: correct the position if it was lost. *)
AlignmentFailed ==
    /\ at.phase = "unaligned"
    /\ IF Canceled THEN Moves({Fail})
       ELSE \E z \in Zones : Moves(IF z \in {"strict", "aligned"} THEN {Fail}
                                                              ELSE Corrected(z))

(* Mutant: one confirmation too few. *)
ConfirmFewer(good) ==
    /\ at.phase = "confirm"
    /\ IF good THEN Moves({IF at.sample + 2 >= Confirmations THEN Succeed
                           ELSE [at EXCEPT !.sample = @ + 1]})
       ELSE Moves({IF at.step = HeadingSteps THEN Unaligned
                                             ELSE Heading(at.step + 1)})

(* A sample of confirm_final_pose *)
ConfirmFinalPose(good) ==
    /\ at.phase = "confirm"
    /\ IF good THEN Moves({IF at.sample + 1 = Confirmations THEN Succeed
                           ELSE [at EXCEPT !.sample = @ + 1]})
       ELSE Moves({IF at.step = HeadingSteps THEN Unaligned
                                             ELSE Heading(at.step + 1)})
-----------------------------------------------------------------------------
(* run_map_yaw_segmented_spin publishes rotation commands itself.  Its      *)
(* segments are one rotation here.                                          *)

MapSpinBegins ==
    /\ at.phase = "turn"
    /\ \/ /\ at' \in {SpinDone, SpinFailed}  \* aligned already; canceled or no pose
          /\ UNCHANGED <<auth, leaseVars>>
       \/ /\ ~Canceled /\ at' = [at EXCEPT !.phase = "turning"]
          /\ SetMotionAuthorized(TRUE)
    /\ UNCHANGED <<goalVars, cancel, abortVars, childVars, gateVars>>

MapSpinStopped == Canceled \/ abort \/ ~armed

MapSpinEnds ==
    /\ at.phase = "turning"
    /\ \/ at' = SpinFailed                     \* stopped, drift or timeout
       \/ ~MapSpinStopped /\ at' = SpinDone
    /\ SetMotionAuthorized(FALSE)
    /\ UNCHANGED <<goalVars, cancel, abortVars, childVars, gateVars>>

(* run_segmented_spin by the /spin action *)
SendSpin == at.phase = "spin" /\ Moves({SpinDone, SpinFailed}
                                       \cup IF Canceled THEN {} ELSE {Send("spin")})
-----------------------------------------------------------------------------
(* Child actions: send_goal_async, then get_result_async.                   *)

ChildRejected ==
    /\ at.phase = "sending"
    /\ at' = [(IF at.child = "spin" THEN SpinFailed ELSE Fail)
              EXCEPT !.child = "none"]
    /\ UNCHANGED <<goalVars, cancel, abortVars, childVars, auth, gateVars,
                   leaseVars>>

(* The motion is authorized at once for spins, drives and micro reverses;   *)
(* a drive that the feedback already stopped is canceled.                   *)
ChildAccepted ==
    /\ at.phase = "sending"
    /\ at' = [at EXCEPT !.phase = "running"]
    /\ handle' = [handle EXCEPT ![at.child] = "held"]
    /\ SetMotionAuthorized(\/ at.child \in {"spin", "drive"}
                           \/ at.child = "backup" /\ at.caller # "none")
    /\ child_cancel' = (at.child = "drive" /\ drive_stop)
    /\ UNCHANGED <<goalVars, cancel, abortVars, drive_stop, handoff, gateVars>>

(* Get its result; the handle of the route is kept, the others are dropped. *)
ChildReturned(c) ==
    /\ at.phase = "running" /\ at.child = c
    /\ SetMotionAuthorized(FALSE) /\ child_cancel' = FALSE
    /\ UNCHANGED <<goalVars, cancel, armed, ready>>

(* A child ends canceled only when it was asked to. *)
Statuses == {"succeeded", "failed"} \cup IF child_cancel THEN {"canceled"} ELSE {}

Ended(next) == at' \in {[n EXCEPT !.child = "none"] : n \in next}

SpinEnds(status) ==
    /\ ChildReturned("spin")
    /\ handle' = [handle EXCEPT !["spin"] = "none"]
    /\ Ended({IF Canceled \/ status # "succeeded" THEN SpinFailed ELSE SpinDone})
    /\ UNCHANGED <<abortVars, block, block_due, drive_stop, handoff>>

(* Mutant: a cancel request is not looked at after a drive. *)
DriveNextUncanceled(status, z) ==
    CASE z = "strict" -> {MoveDone}
      [] z # "strict" /\ status # "succeeded" ->
           IF abort /\ ~drive_stop THEN {Fail}
           ELSE IF at.attempt <= RetryCount /\ z # "unknown"
                THEN {Fail, Terminal(at.caller, at.attempt + 1)} ELSE {Fail}
      [] OTHER -> {Fail}

(* After a drive in run_terminal_forward: arrived; canceled or aborted;     *)
(* stopped by the NDT check near the target, which is corrected however     *)
(* often; any other failure or a residual error, retried.                   *)
DriveNext(status, z) ==
    CASE Canceled -> {Fail}
      [] ~Canceled /\ z = "strict" -> {MoveDone}
      [] ~Canceled /\ z # "strict" /\ status # "succeeded" ->
           IF abort /\ ~drive_stop THEN {Fail}
           ELSE IF drive_stop /\ z \in {"aligned", "near"}
                THEN Corrections(at.caller, at.attempt + 1)
           ELSE IF at.attempt <= RetryCount /\ z # "unknown"
                THEN {Fail, Terminal(at.caller, at.attempt + 1)} ELSE {Fail}
      [] OTHER ->
           IF at.attempt <= RetryCount /\ z \in {"aligned", "near"}
           THEN {Fail} \cup Corrections(at.caller, at.attempt + 1) ELSE {Fail}

DriveEnds(status) ==
    /\ ChildReturned("drive")
    /\ \E z \in Zones : Ended(DriveNext(status, z))
    /\ handle' = [handle EXCEPT !["drive"] = "none"] /\ drive_stop' = FALSE
    /\ UNCHANGED <<abortVars, block, block_due, handoff>>

(* clear_recovered_terminal_reverse_abort *)
Recovered == abort /\ abort_kind = "reverse_policy"

MicroReverseEnds(status) ==
    /\ at.caller # "none" /\ ChildReturned("backup")
    /\ handle' = [handle EXCEPT !["backup"] = "none"]
    /\ \E z \in Zones :
         LET inside == ~Canceled /\ z \in {"strict", "aligned"} IN
         /\ Ended(CASE inside -> {MoveDone}
                    [] ~inside /\ ~Canceled /\ z = "near" /\ status = "succeeded"
                         -> {Fail, Terminal(at.caller, 1)}
                    [] OTHER -> {Fail})
         /\ IF inside /\ Recovered
            THEN /\ abort' = FALSE /\ abort_kind' = NoBlock
                 /\ block' = NoBlock /\ block_due' = FALSE
            ELSE UNCHANGED <<abortVars, block, block_due>>
    /\ UNCHANGED <<drive_stop, handoff>>

DirectReverseEnds(status) ==
    /\ at.caller = "none" /\ ChildReturned("backup")
    /\ handle' = [handle EXCEPT !["backup"] = "none"]
    /\ Ended(IF Canceled \/ (status = "canceled" /\ abort) THEN {Fail}
             ELSE {Fail, Converge(0)})
    /\ UNCHANGED <<abortVars, block, block_due, drive_stop, handoff>>

(* The route ended: canceled, aborted by a watchdog, handed over to the     *)
(* terminal drive, arrived, or failed within the tolerance or outside.      *)
RouteEnds(status) ==
    /\ ChildReturned("inner")
    /\ LET handed == ~Canceled /\ status = "canceled" /\ ~abort /\ handoff IN
       /\ handle' = [handle EXCEPT !["inner"] = IF handed THEN "none" ELSE "ended"]
       /\ Ended(CASE handed -> {Terminal("approach", 1)}
                  [] ~Canceled /\ status = "succeeded" ->
                       {IF at.approach THEN Terminal("approach", 1)
                                       ELSE Converge(0)}
                  [] ~Canceled /\ status = "failed" -> {Fail, Converge(0)}
                  [] OTHER -> {Fail})
    /\ UNCHANGED <<abortVars, block, block_due, drive_stop, handoff>>

ChildEnds ==
    \E status \in Statuses : \/ SpinEnds(status) \/ DriveEnds(status)
                             \/ MicroReverseEnds(status)
                             \/ DirectReverseEnds(status) \/ RouteEnds(status)
-----------------------------------------------------------------------------
(* Callbacks and timers of the other threads.                               *)

(* cancel_goal_async through whichever handles are set: it reaches the      *)
(* child only through a handle of a child that still runs.                  *)
CancelChild == child_cancel' = (child_cancel \/ \E c \in Children : handle[c] = "held")

RouteHandle == IF handle["inner"] # "none" THEN handle["inner"]
               ELSE IF handle["backup"] # "none" THEN handle["backup"]
               ELSE handle["drive"]

(* relay_feedback: the terminal handoff, the progress watchdog. *)
RelayFeedback(near, stuck) ==
    /\ at.child = "inner" /\ at.phase \in {"sending", "running"}
    /\ SetMotionAuthorized(TRUE)
    /\ LET hands == near /\ UseHandoff /\ ~handoff /\ ~abort /\ armed
           stops == stuck /\ ~abort
       IN  /\ handoff' = (handoff \/ hands)
           /\ abort' = (abort \/ stops)
           /\ abort_kind' = IF stops THEN "other" ELSE abort_kind
           /\ child_cancel' = (child_cancel \/ ((hands \/ stops)
                                               /\ handle["inner"] = "held"))
    /\ UNCHANGED <<at, goalVars, cancel, handle, drive_stop, gateVars>>

(* relay_drive_feedback: terminal_ndt_stop_reason stops the drive. *)
RelayDriveFeedback(stop) ==
    /\ at.child = "drive" /\ at.phase \in {"sending", "running"}
    /\ SetMotionAuthorized(TRUE)
    /\ drive_stop' = (drive_stop \/ (stop /\ NdtStops))
    /\ child_cancel' = (child_cancel \/ (drive_stop' /\ ~drive_stop
                                        /\ handle["drive"] = "held"))
    /\ UNCHANGED <<at, goalVars, cancel, abortVars, handle, handoff, gateVars>>

(* relay_backup_feedback, and feedback of any child that arrives late. *)
RelayLateFeedback ==
    /\ at.phase # "idle" /\ SetMotionAuthorized(TRUE)
    /\ UNCHANGED <<at, goalVars, cancel, abortVars, childVars, gateVars>>

(* check_persistent_motion_block, every 0.5 s *)
CheckPersistentMotionBlock ==
    /\ active /\ block # NoBlock /\ block_due /\ ~abort
    /\ RouteHandle # "none" \/ (UseMapYawSpin /\ auth)
    /\ abort' = TRUE /\ abort_kind' = block
    /\ child_cancel' = (child_cancel \/ RouteHandle = "held")
    /\ UNCHANGED <<at, goalVars, cancel, handle, drive_stop, handoff, auth,
                   gateVars, leaseVars>>

OnMotionStatus(kind, isReady) ==
    /\ isReady => kind = NoBlock
    /\ "status" \in Silent => isReady
    /\ ready' = isReady
    /\ IF active /\ kind # block THEN block' = kind /\ block_due' = FALSE
                                 ELSE UNCHANGED <<block, block_due>>
    /\ UNCHANGED <<at, goalVars, cancel, abortVars, childVars, auth, armed,
                   leaseVars>>

BlockTimeoutPasses ==
    /\ block # NoBlock /\ block_due' = TRUE
    /\ UNCHANGED <<at, goalVars, cancel, abortVars, childVars, auth, block, armed,
                   ready, leaseVars>>

OnMotionArmed(isArmed) ==
    /\ "armed" \in Silent => isArmed
    /\ armed' = isArmed
    /\ IF armed /\ ~isArmed /\ active /\ ~abort
       THEN abort' = TRUE /\ abort_kind' = "other" /\ CancelChild
       ELSE UNCHANGED <<abortVars, child_cancel>>
    /\ UNCHANGED <<at, goalVars, cancel, handle, drive_stop, handoff, auth, block,
                   block_due, ready, leaseVars>>

(* on_cancel runs first; the goal is canceling once it has returned. *)
OnCancel ==
    /\ "cancel" \notin Silent
    /\ accepted > 0 /\ cancel = "no" /\ at.phase # "finish"
    /\ cancel' = "called" /\ SetMotionAuthorized(FALSE) /\ CancelChild
    /\ UNCHANGED <<at, goalVars, abortVars, handle, drive_stop, handoff, gateVars>>

CancelAccepted ==
    /\ cancel = "called" /\ at.phase # "finish" /\ cancel' = "requested"
    /\ UNCHANGED <<at, goalVars, abortVars, childVars, auth, gateVars, leaseVars>>

(* Mutant: the timer publishes only while a goal executes. *)
ReadLeaseWhileActive ==
    /\ active /\ "lease" \notin Silent /\ LeaseRead
    /\ UNCHANGED <<at, goalVars, cancel, abortVars, childVars, auth, gateVars, lease>>

(* publish_goal_active_lease of the 0.2 s timer *)
ReadLease ==
    /\ "lease" \notin Silent /\ LeaseRead
    /\ UNCHANGED <<at, goalVars, cancel, abortVars, childVars, auth, gateVars, lease>>

PublishLease(v) ==
    /\ lease' = v /\ inflight' = inflight \ {v}
    /\ UNCHANGED <<at, goalVars, cancel, abortVars, childVars, auth, gateVars>>
-----------------------------------------------------------------------------
Coroutine ==
    \/ Execute \/ Finish
    \/ ChooseRoute \/ TurnClearance \/ TurnCleared \/ SendRoute
    \/ SendDirectReverse \/ TerminalForward \/ FinalPositionMicroReverse
    \/ ConvergeFinalPose \/ FinalAlignment \/ AlignmentFailed
    \/ \E good \in BOOLEAN : ConfirmFinalPose(good)
    \/ MapSpinBegins \/ MapSpinEnds \/ SendSpin

ChildAnswers == ChildRejected \/ ChildAccepted \/ ChildEnds

Callbacks ==
    \/ OnGoal \/ OnCancel \/ CancelAccepted
    \/ \E near, stuck \in BOOLEAN : RelayFeedback(near, stuck)
    \/ \E stop \in BOOLEAN : RelayDriveFeedback(stop)
    \/ RelayLateFeedback
    \/ CheckPersistentMotionBlock \/ BlockTimeoutPasses
    \/ \E kind \in BlockKinds \cup {NoBlock}, r \in BOOLEAN :
          OnMotionStatus(kind, r)
    \/ \E isArmed \in BOOLEAN : OnMotionArmed(isArmed)

Leases == ReadLease \/ \E v \in inflight : PublishLease(v)

Next == Coroutine \/ ChildAnswers \/ Callbacks \/ Leases

Spec == Init /\ [][Next]_vars

(* execute() is scheduled, child actions answer and end within their time   *)
(* allowance, and the 0.2 s lease timer runs.                               *)
Fairness ==
    /\ WF_vars(Coroutine) /\ WF_vars(ChildAnswers)
    /\ WF_vars(ReadLease)
    /\ WF_vars(PublishLease(TRUE) /\ TRUE \in inflight)
    /\ WF_vars(PublishLease(FALSE) /\ FALSE \in inflight)

FairSpec == Spec /\ Fairness
-----------------------------------------------------------------------------
Phases == {"idle", "reserved", "start", "clearance", "cleared", "route", "direct",
           "terminal", "reverse", "converge", "heading", "unaligned", "confirm",
           "turn", "turning", "spin", "sending", "running", "finish"}

(* Where execute() can stand, with the limits that run_terminal_forward,   *)
(* converge_final_pose, run_final_alignment and confirm_final_pose compare  *)
(* its counters with.                                                       *)
Cursor ==
    [phase : Phases, child : Children \cup {"none"},
     caller : {"none", "clearance", "approach", "correction"},
     turning : {"none", "pre", "direct", "bearing", "reverse", "heading"},
     approach : BOOLEAN, realign : BOOLEAN,
     attempt : 0 .. RetryCount + 1,
     recheck : 0 .. IF RecheckCount > ReverseTurns THEN RecheckCount
                                                   ELSE ReverseTurns,
     cycle : 0 .. Cycles, step : 0 .. HeadingSteps,
     sample : 0 .. Confirmations - 1,
     result : {"none", "succeeded", "canceled", "aborted"}]

(* The values the state takes: no retry, recheck, cycle, step or sample    *)
(* counter passes its limit.                                                *)
TypeOK ==
    /\ at \in Cursor
    /\ active \in BOOLEAN /\ reserved \in BOOLEAN
    /\ accepted \in Nat /\ goals \in 0 .. MaxGoals
    /\ cancel \in {"no", "called", "requested"}
    /\ abort \in BOOLEAN /\ abort_kind \in BlockKinds \cup {NoBlock}
    /\ handle \in [Children -> {"none", "held", "ended"}]
    /\ child_cancel \in BOOLEAN /\ drive_stop \in BOOLEAN /\ handoff \in BOOLEAN
    /\ auth \in BOOLEAN /\ armed \in BOOLEAN /\ ready \in BOOLEAN
    /\ block \in BlockKinds \cup {NoBlock} /\ block_due \in BOOLEAN
    /\ lease \in BOOLEAN /\ inflight \subseteq BOOLEAN
=============================================================================
