-------------------------- MODULE GoalBridgeProofs --------------------------
(***************************************************************************)
(* The goal bridge, for any number of clicks, stamps, retries and outages: *)
(* one goal at a time, never the same pose under way and in the queue, and *)
(* bounded retries.  The three need each other: retries are counted per    *)
(* click, and a click keeps its count only because it is not at the same   *)
(* time under way and in the queue.                                        *)
(***************************************************************************)
EXTENDS GoalBridgeChecks, TLAPS

(* Copies are of clicks that were made, and so are the goals the bridge     *)
(* holds, whose poses are valid.                                            *)
GoalsAreClicks ==
    /\ \A m \in wire : m.click <= made
    /\ queued <= made /\ (queued # NoGoal => sig[queued] # BadPose)
    /\ Busy => current \in 1 .. made /\ sig[current] # BadPose

(* What is open at the action server is what the bridge waits for. *)
OpenIsAwaited ==
    /\ ~(pending /\ handle)
    /\ open = IF Busy THEN 1 ELSE 0

(* The retry counts of the two slots bound the attempts of their clicks. *)
CountsBoundAttempts ==
    /\ attempts \in [Clicks -> Nat]
    /\ RetriesBounded
    /\ pending => attempts[current] <= retries + 1
    /\ queued # NoGoal => attempts[queued] <= queued_retries

BridgeInv ==
    /\ TypeOK
    /\ GoalsAreClicks
    /\ OpenIsAwaited
    /\ NoDoubleBooking
    /\ CountsBoundAttempts

LEMMA BridgeInitially == ChecksInit => BridgeInv
<1> SUFFICES ASSUME ChecksInit PROVE BridgeInv
  OBVIOUS
<1> USE BridgeAssumption DEF ChecksInit, Init, NoGoal, Clicks
<1>1. ClickTypeOK /\ SlotTypeOK
  BY DEF ClickTypeOK, SlotTypeOK
<1>4. FlagTypeOK
  BY Zenon DEF FlagTypeOK
<1>2. GoalsAreClicks /\ OpenIsAwaited /\ NoDoubleBooking
  BY DEF GoalsAreClicks, OpenIsAwaited, NoDoubleBooking, Busy
<1>3. CountsBoundAttempts
  BY DEF CountsBoundAttempts, RetriesBounded
<1> QED  BY <1>1, <1>2, <1>3, <1>4 DEF BridgeInv, TypeOK

(* A copy under way names a click that was made. *)
LEMMA CopiesName ==
  ASSUME TypeOK, GoalsAreClicks, NEW m \in wire
  PROVE  /\ m.click \in 1 .. made /\ m.click \in Clicks
         /\ m.src \in 1 .. MaxStamp
  BY BridgeAssumption DEF TypeOK, GoalsAreClicks, Clicks, ClickTypeOK

LEMMA EnvironmentKeeps ==
  ASSUME BridgeInv, Environment, UNCHANGED attempts
  PROVE  BridgeInv'
<1> USE BridgeAssumption DEF BridgeInv, TypeOK, operatorVars, goalVars, queueVars,
        filterVars, serverVars, NoGoal
<1>1. CASE \E s \in Signatures \cup {BadPose} : OperatorClicks(s)
  <2>1. PICK s \in Signatures \cup {BadPose} : OperatorClicks(s)
    BY <1>1
  <2> USE <2>1 DEF OperatorClicks, Clicks
  <2>2. \A c \in 1 .. made : sig'[c] = sig[c]
    BY DEF ClickTypeOK
  <2>3. TypeOK'
    <3>1. ClickTypeOK'
      BY DEF ClickTypeOK, Copy
    <3> QED  BY <3>1 DEF SlotTypeOK, FlagTypeOK
  <2>4. GoalsAreClicks'
    BY <2>2 DEF ClickTypeOK, SlotTypeOK, GoalsAreClicks, Copy, Busy
  <2>5. NoDoubleBooking'
    BY <2>2 DEF SlotTypeOK, NoDoubleBooking, GoalsAreClicks, Busy
  <2>6. OpenIsAwaited' /\ CountsBoundAttempts'
    BY DEF OpenIsAwaited, CountsBoundAttempts, RetriesBounded, Busy
  <2> QED  BY <2>3, <2>4, <2>5, <2>6
<1>2. CASE \E c \in Clicks : RelayRepeats(c)
  <2>1. PICK c \in Clicks : RelayRepeats(c)
    BY <1>2
  <2> USE <2>1 DEF RelayRepeats, Clicks
  <2>2. TypeOK'
    <3>1. ClickTypeOK'
      BY DEF ClickTypeOK, Copy
    <3> QED  BY <3>1 DEF SlotTypeOK, FlagTypeOK
  <2>3. GoalsAreClicks'
    BY DEF GoalsAreClicks, Copy, Busy
  <2>4. NoDoubleBooking' /\ OpenIsAwaited' /\ CountsBoundAttempts'
    BY DEF NoDoubleBooking, OpenIsAwaited, CountsBoundAttempts,
           RetriesBounded, Busy
  <2> QED  BY <2>2, <2>3, <2>4
<1>3. CASE \E m \in wire : CopyDropped(m)
  BY <1>3 DEF CopyDropped, ClickTypeOK, SlotTypeOK, FlagTypeOK,
     GoalsAreClicks, NoDoubleBooking, OpenIsAwaited, CountsBoundAttempts,
     RetriesBounded, Busy, Clicks
<1>4. CASE \/ ServerDisappears \/ ServerReturns \/ HandoffDelayPasses
           \/ DuplicateWindowPasses
  <2> USE <1>4 DEF ServerDisappears, ServerReturns, HandoffDelayPasses,
          DuplicateWindowPasses
  <2>1. ClickTypeOK' /\ SlotTypeOK'
    BY DEF ClickTypeOK, SlotTypeOK
  <2>2. FlagTypeOK'
    BY DEF FlagTypeOK
  <2>3. GoalsAreClicks' /\ OpenIsAwaited' /\ NoDoubleBooking'
    BY DEF GoalsAreClicks, OpenIsAwaited, NoDoubleBooking, Busy
  <2>4. CountsBoundAttempts'
    BY DEF CountsBoundAttempts, RetriesBounded
  <2> QED  BY <2>1, <2>2, <2>3, <2>4
<1> QED  BY <1>1, <1>2, <1>3, <1>4 DEF Environment

LEMMA GoalPoseKeeps ==
  ASSUME BridgeInv, NEW m \in wire,
         GoalPoseQueued(m) \/ GoalPoseSubmitted(m),
         attempts' = [attempts EXCEPT ![m.click] = open' - open]
  PROVE  BridgeInv'
<1> USE BridgeAssumption DEF BridgeInv, TypeOK, operatorVars, goalVars, queueVars,
        filterVars, serverVars, NoGoal, NewGoal, QueueGoal, SendGoal,
        SubmitDeferred
<1>1. m.click \in 1 .. made /\ m.click \in Clicks /\ m.src \in 1 .. MaxStamp
  BY CopiesName
<1>2. sig[m.click] \in (Signatures \cup {NoSignature})
  BY <1>1 DEF GoalPoseQueued, GoalPoseSubmitted, ClickTypeOK
<1>3. TypeOK'
  <2>1. ClickTypeOK'
    BY <1>1 DEF GoalPoseQueued, GoalPoseSubmitted, ClickTypeOK
  <2>2. SlotTypeOK'
    BY <1>1, <1>2
    DEF GoalPoseQueued, GoalPoseSubmitted, SlotTypeOK, Clicks
  <2>3. FlagTypeOK'
    BY DEF GoalPoseQueued, GoalPoseSubmitted, FlagTypeOK
  <2> QED  BY <2>1, <2>2, <2>3
<1>4. GoalsAreClicks'
  BY <1>1 DEF GoalPoseQueued, GoalPoseSubmitted, GoalsAreClicks,
     ClickTypeOK, SlotTypeOK, Busy
<1>5. OpenIsAwaited'
  BY DEF GoalPoseQueued, GoalPoseSubmitted, OpenIsAwaited, SlotTypeOK, Busy
<1>6. NoDoubleBooking'
  BY DEF GoalPoseQueued, GoalPoseSubmitted, NoDoubleBooking, Duplicate, Busy
<1>7. CountsBoundAttempts'
  <2>1. open' - open \in {0, 1}
    BY DEF GoalPoseQueued, GoalPoseSubmitted, SlotTypeOK
  <2>2. Busy => m.click # current
    BY DEF GoalPoseQueued, GoalPoseSubmitted, Duplicate
  <2>3. queued # NoGoal => m.click # queued
    BY DEF GoalPoseQueued, GoalPoseSubmitted, Duplicate
  <2>4. attempts' \in [Clicks -> Nat] /\ RetriesBounded'
    BY <1>1, <2>1 DEF CountsBoundAttempts, RetriesBounded
  <2>5. CASE GoalPoseQueued(m)
    BY <1>1, <2>2, <2>4, <2>5
    DEF GoalPoseQueued, CountsBoundAttempts, GoalsAreClicks, SlotTypeOK, Busy, Clicks
  <2>6. CASE GoalPoseSubmitted(m) /\ SendGoal(m.click, 0)
                                  /\ UNCHANGED queueVars
    <3>1. attempts' = [attempts EXCEPT ![m.click] = 1]
      BY <2>6 DEF SlotTypeOK
    <3>2. queued # NoGoal => queued \in Clicks
      BY DEF SlotTypeOK, Clicks
    <3> QED
      BY <1>1, <2>3, <2>4, <2>6, <3>1, <3>2 DEF CountsBoundAttempts
  <2>7. CASE GoalPoseSubmitted(m) /\ SubmitDeferred(m.click, 0)
    <3>1. attempts' = [attempts EXCEPT ![m.click] = 0]
      BY <2>7 DEF SlotTypeOK
    <3>2. ~pending'
      BY <2>7 DEF GoalPoseSubmitted, Busy
    <3> QED
      BY <1>1, <2>4, <2>7, <3>1, <3>2 DEF CountsBoundAttempts
  <2> QED  BY <2>5, <2>6, <2>7 DEF GoalPoseSubmitted
<1> QED  BY <1>3, <1>4, <1>5, <1>6, <1>7

LEMMA DispatchKeeps ==
  ASSUME BridgeInv, DispatchQueuedGoal,
         attempts' = [attempts EXCEPT ![queued] = @ + (open' - open)]
  PROVE  BridgeInv'
<1> USE BridgeAssumption DEF BridgeInv, TypeOK, operatorVars, goalVars, queueVars,
        filterVars, serverVars, NoGoal, QueueGoal, SendGoal, EmptyQueue,
        SubmitDeferred, DispatchQueuedGoal, Dispatchable
<1>1. queued \in 1 .. made /\ queued \in Clicks
  BY DEF ClickTypeOK, SlotTypeOK, GoalsAreClicks, Clicks
<1>2. sig[queued] \in (Signatures \cup {NoSignature})
  BY <1>1 DEF ClickTypeOK, GoalsAreClicks
<1>3. TypeOK'
  <2>1. ClickTypeOK'
    BY DEF ClickTypeOK
  <2>2. SlotTypeOK'
    <3>1. CASE SendGoal(queued, queued_retries) /\ EmptyQueue
      <4>1. /\ current' = queued /\ retries' = queued_retries /\ queued' = 0
            /\ open' = open + 1 /\ last_sig' = sig[queued]
            /\ UNCHANGED <<queued_retries, finished_sig, outages>>
        BY <3>1
      <4> QED  BY <1>2, <4>1 DEF SlotTypeOK
    <3>2. CASE SubmitDeferred(queued, queued_retries)
      BY <3>2 DEF SlotTypeOK
    <3> QED  BY <3>1, <3>2
  <2>3. FlagTypeOK'
    BY DEF FlagTypeOK
  <2> QED  BY <2>1, <2>2, <2>3
<1>4. GoalsAreClicks' /\ OpenIsAwaited' /\ NoDoubleBooking'
  <2> USE DEF GoalsAreClicks, OpenIsAwaited, NoDoubleBooking, Busy
  <2>1. CASE SendGoal(queued, queued_retries) /\ EmptyQueue
    <3>1. pending' /\ ~handle' /\ open' = 1 /\ queued' = NoGoal
      BY <2>1
    <3>2. wire' = wire /\ made' = made /\ sig' = sig /\ current' = queued
      BY <2>1
    <3> QED  BY <1>1, <3>1, <3>2 DEF ClickTypeOK
  <2>2. CASE SubmitDeferred(queued, queued_retries)
    BY <2>2
  <2> QED  BY <2>1, <2>2
<1>5. CountsBoundAttempts'
  <2>1. CASE SendGoal(queued, queued_retries) /\ EmptyQueue
    <3>1. open' - open = 1
      BY <2>1 DEF SlotTypeOK
    <3>2. /\ attempts[queued] <= queued_retries /\ queued_retries <= RetryLimit
          /\ queued_retries \in Nat /\ attempts \in [Clicks -> Nat]
      BY <1>1 DEF CountsBoundAttempts, SlotTypeOK
    <3>3. attempts' = [attempts EXCEPT ![queued] = @ + 1]
      BY <3>1
    <3>4. attempts' \in [Clicks -> Nat] /\ RetriesBounded'
      BY <1>1, <3>2, <3>3 DEF CountsBoundAttempts, RetriesBounded
    <3> QED
      BY <1>1, <2>1, <3>2, <3>3, <3>4 DEF CountsBoundAttempts
  <2>2. CASE SubmitDeferred(queued, queued_retries)
    <3>1. attempts' = attempts
      BY <2>2 DEF SlotTypeOK, CountsBoundAttempts
    <3> QED
      BY <1>1, <2>2, <3>1 DEF CountsBoundAttempts, RetriesBounded
  <2> QED  BY <2>1, <2>2
<1> QED  BY <1>3, <1>4, <1>5

LEMMA AnswerKeeps ==
  ASSUME BridgeInv, UNCHANGED attempts,
         \/ DispatchPostponed \/ GoalAccepted \/ GoalRefused \/ GoalResult
         \/ \E m \in wire : GoalPoseRejected(m)
  PROVE  BridgeInv'
<1> USE BridgeAssumption DEF BridgeInv, TypeOK, operatorVars, goalVars,
        queueVars, filterVars, serverVars, NoGoal
<1>1. CASE DispatchPostponed \/ GoalAccepted
  <2> USE <1>1 DEF DispatchPostponed, GoalAccepted
  <2>1. TypeOK'
    BY DEF ClickTypeOK, SlotTypeOK, FlagTypeOK
  <2>2. GoalsAreClicks' /\ OpenIsAwaited' /\ NoDoubleBooking'
    BY DEF GoalsAreClicks, OpenIsAwaited, NoDoubleBooking, Busy
  <2>3. CountsBoundAttempts'
    BY DEF CountsBoundAttempts, RetriesBounded
  <2> QED  BY <2>1, <2>2, <2>3
<1>2. CASE GoalRefused
  <2> USE <1>2 DEF GoalRefused, QueueGoal
  <2>1. current \in 1 .. made /\ sig[current] # BadPose /\ open = 1 /\ ~handle
    BY DEF GoalsAreClicks, OpenIsAwaited, Busy
  <2>2. TypeOK'
    <3>1. ClickTypeOK'
      BY DEF ClickTypeOK
    <3>2. SlotTypeOK'
      BY <2>1 DEF SlotTypeOK
    <3>3. FlagTypeOK'
      BY DEF FlagTypeOK
    <3> QED  BY <3>1, <3>2, <3>3
  <2>3. GoalsAreClicks'
    BY <2>1 DEF GoalsAreClicks, ClickTypeOK, Busy
  <2>4. OpenIsAwaited' /\ NoDoubleBooking'
    BY <2>1 DEF OpenIsAwaited, NoDoubleBooking, Busy
  <2>5. CountsBoundAttempts'
    BY <2>1 DEF CountsBoundAttempts, RetriesBounded
  <2> QED  BY <2>2, <2>3, <2>4, <2>5
<1>3. CASE GoalResult
  <2> USE <1>3 DEF GoalResult
  <2>1. current \in 1 .. made /\ sig[current] # BadPose /\ open = 1 /\ ~pending
    BY DEF GoalsAreClicks, OpenIsAwaited, Busy
  <2>2. sig[current] \in (Signatures \cup {NoSignature})
    BY <2>1 DEF ClickTypeOK, Clicks
  <2>3. TypeOK'
    <3>1. ClickTypeOK'
      BY DEF ClickTypeOK
    <3>2. SlotTypeOK'
      BY <2>1, <2>2 DEF SlotTypeOK
    <3>3. FlagTypeOK'
      BY DEF FlagTypeOK
    <3> QED  BY <3>1, <3>2, <3>3
  <2>4. GoalsAreClicks' /\ OpenIsAwaited' /\ NoDoubleBooking'
    BY <2>1 DEF GoalsAreClicks, OpenIsAwaited, NoDoubleBooking, Busy
  <2>5. CountsBoundAttempts'
    BY <2>1 DEF CountsBoundAttempts, RetriesBounded
  <2> QED  BY <2>3, <2>4, <2>5
<1>4. CASE \E m \in wire : GoalPoseRejected(m)
  <2>1. PICK m \in wire : GoalPoseRejected(m)
    BY <1>4
  <2> USE <2>1 DEF GoalPoseRejected
  <2>2. m.src \in 1 .. MaxStamp
    BY CopiesName
  <2>3. ClickTypeOK'
    BY <2>2 DEF ClickTypeOK
  <2>4. SlotTypeOK' /\ FlagTypeOK'
    BY DEF SlotTypeOK, FlagTypeOK
  <2>5. GoalsAreClicks' /\ OpenIsAwaited' /\ NoDoubleBooking'
    BY DEF GoalsAreClicks, OpenIsAwaited, NoDoubleBooking, Busy
  <2>6. CountsBoundAttempts'
    BY DEF CountsBoundAttempts, RetriesBounded
  <2> QED  BY <2>3, <2>4, <2>5, <2>6
<1> QED  BY <1>1, <1>2, <1>3, <1>4

LEMMA BridgeInvHolds == ChecksSpec => []BridgeInv
<1>1. ASSUME BridgeInv, [ChecksNext]_checkVars PROVE BridgeInv'
  <2>1. CASE ChecksNext
    BY <1>1, <2>1, EnvironmentKeeps, AnswerKeeps, GoalPoseKeeps, DispatchKeeps
    DEF ChecksNext
  <2>2. CASE UNCHANGED checkVars
    BY <1>1, <2>2
    DEF checkVars, vars, operatorVars, goalVars, queueVars, filterVars,
        serverVars, BridgeInv, TypeOK, ClickTypeOK, SlotTypeOK, FlagTypeOK,
        GoalsAreClicks, OpenIsAwaited,
        NoDoubleBooking, CountsBoundAttempts, RetriesBounded, Busy
  <2> QED  BY <1>1, <2>1, <2>2
<1> QED  BY <1>1, BridgeInitially, PTL DEF ChecksSpec

(* The bridge's one-place slots, flags and counts keep their types.         *)
THEOREM BridgeTypeCorrect == ChecksSpec => []TypeOK
<1>1. BridgeInv => TypeOK
  BY DEF BridgeInv
<1> QED  BY <1>1, BridgeInvHolds, PTL

(* The action server never holds two goals of the bridge, for any number of *)
(* clicks, copies and refusals: submit_goal runs only when nothing is       *)
(* unanswered or executing.                                                 *)
THEOREM OneGoalInFlightHolds == ChecksSpec => []OneGoalInFlight
<1>1. BridgeInv => OneGoalInFlight
  BY DEF BridgeInv, OpenIsAwaited, OneGoalInFlight
<1> QED  BY <1>1, BridgeInvHolds, PTL

(* No copy of the goal under way ever waits to replace it, however late or  *)
(* often it arrives: the comment of __init__ on duplicate clicks.           *)
THEOREM NoDoubleBookingHolds == ChecksSpec => []NoDoubleBooking
<1>1. BridgeInv => NoDoubleBooking
  BY DEF BridgeInv
<1> QED  BY <1>1, BridgeInvHolds, PTL

(* queued_retry_limit bounds the attempts of every click, for every limit.  *)
THEOREM RetriesBoundedHolds == ChecksSpec => []RetriesBounded
<1>1. BridgeInv => RetriesBounded
  BY DEF BridgeInv, CountsBoundAttempts
<1> QED  BY <1>1, BridgeInvHolds, PTL
=============================================================================
