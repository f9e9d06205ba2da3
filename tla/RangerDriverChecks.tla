-------------------------- MODULE RangerDriverChecks --------------------------
(***************************************************************************)
(* What the chassis driver promises.  The observer counts the passes since *)
(* the last request in a time without command mode, and remembers what     *)
(* happened since the last pass.                                           *)
(***************************************************************************)
EXTENDS RangerDriver

VARIABLES
    silent,         \* passes without a request; Rate: one is due at once
    commanded,      \* a Twist came since the last pass
    reported        \* mode of the last pass

checkVars == <<vars, silent, commanded, reported>>

ChecksInit ==
    Init /\ silent = Rate /\ commanded = FALSE /\ reported = "dual_ackerman"

PassSeen ==
    /\ PublishStateToROS
    /\ silent' = IF seen.control = "CAN" THEN Rate
                 ELSE IF RetryDue THEN 0
                 ELSE IF silent > Rate THEN silent ELSE silent + 1
    /\ commanded' = FALSE
    /\ reported' = seen.mode

TwistSeen(t) ==
    TwistCmdCallback(t) /\ commanded' = TRUE /\ UNCHANGED <<silent, reported>>

ChecksNext ==
    \/ PassSeen
    \/ \E t \in Twists : TwistSeen(t)
    \/ /\ \/ \E connects \in BOOLEAN : Start(connects)
          \/ FirstPass \/ BrokenPass
          \/ DeliverRequest \/ LoseRequest \/ TakeOver \/ ChassisActs
          \/ \E kind \in {"control", "mode", "motion"} : Frame(kind)
       /\ UNCHANGED <<silent, commanded, reported>>

ChecksSpec == ChecksInit /\ [][ChecksNext]_checkVars /\ Fairness
-----------------------------------------------------------------------------
(* "Retry immediately and then about once per second": every time in which  *)
(* the chassis reports another mode than CAN begins with a request, and     *)
(* Rate passes never go by without one, over the wrap of the counter too.   *)
RequestsInTime == silent <= Rate

(* "until the controller confirms CONTROL_MODE_CAN": a connected driver     *)
(* gets the chassis back into command mode, however many requests are lost. *)
CommandModeRegained ==
    phase = "running" /\ chassis.control # "CAN" ~> chassis.control = "CAN"

(* The odometry integrates another motion than the reported one only in     *)
(* the pass after a command and in the pass that first sees a new mode:     *)
(* errors do not outlast the change of mode that causes them.               *)
OdometryErrsOnlyInTransitions ==
    [][PublishStateToROS /\ step' # Increment(seen.mode, seen.motion)
         => commanded \/ seen.mode # reported]_checkVars
=============================================================================
