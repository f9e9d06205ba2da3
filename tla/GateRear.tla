------------------------------ MODULE GateRear ------------------------------
(***************************************************************************)
(* What the rear ultrasonic sensors guarantee about reversing.  An         *)
(* observer of MotionGate: clear_since[s] counts the clear readings of     *)
(* sensor s since its last obstacle reading, from the readings alone and   *)
(* not from the latches.                                                   *)
(***************************************************************************)
EXTENDS MotionGate

VARIABLE clear_since

ObstacleReading(value) ==
    \/ value = Invalid
    \/ value \in Nat /\ value <= StopDistance /\ ~IsSelfEcho(value)

ClearReading(value) == value = NoEcho \/ value >= ClearDistance

AfterReading(count, value) ==
    IF ObstacleReading(value) THEN 0
    ELSE IF ClearReading(value) THEN Saturate(count + 1, FiniteSamples)
    ELSE count

RearInit == Init /\ clear_since = [s \in Sides |-> FiniteSamples]

RearNext ==
    \/ \E s \in Sides, r \in RangeInputs :
         /\ OnUltrasonicRange(s, r)
         /\ clear_since' = [clear_since EXCEPT ![s] = AfterReading(@, r)]
    \/ /\ \/ \E v \in FitnessInputs : OnLocalization(v)
          \/ GoalStarts
          \/ Arm
          \/ OtherStep
       /\ UNCHANGED clear_since

rearVars == <<vars, clear_since>>

RearSpec == RearInit /\ [][RearNext]_rearVars

(* tick() never publishes reverse motion after an obstacle reading of      *)
(* either rear sensor until that sensor has given the configured number of *)
(* clear readings.  reason() alone does not give this: it judges a turning *)
(* reverse command by the turn latches only, and the command and the       *)
(* latches may change after it.  The taper in tick() closes the gap.       *)
NoReverseBeforeClear ==
    [][out'.lin < 0 /\ tick.pc = "publish" /\ tick'.pc = "idle"
         => \A s \in Sides : clear_since[s] >= FiniteSamples]_rearVars

(* A latch that never saw an obstacle, or saw enough clear readings, may   *)
(* be open; every other reverse latch is blocked.                           *)
OpenLatchHasEvidence ==
    \A s \in Sides : ~sonar[s].reverse.blocked
                       => clear_since[s] >= FiniteSamples
=============================================================================
