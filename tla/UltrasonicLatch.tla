--------------------------- MODULE UltrasonicLatch ---------------------------
(***************************************************************************)
(* The class UltrasonicLatch of scripts/nav_motion_safety_gate.py: the     *)
(* fail-safe hysteresis of one rear ultrasonic sensor.  MotionGate keeps   *)
(* two of them per sensor, one for reversing and one for turning.          *)
(*                                                                         *)
(* A range is a natural number, NoEcho (+inf) or Invalid (NaN or -inf).    *)
(* last_blocked_sec is abstracted to whether block_hold_sec has passed     *)
(* since the last blocking sample.                                         *)
(***************************************************************************)
EXTENDS Integers

Invalid == -1
NoEcho  == -2

(* last_blocked_sec starts at -inf: no hold is running. *)
InitLatch == [blocked |-> FALSE, holding |-> FALSE,
              clear_count |-> 0, clear_kind |-> "none"]

Latch(samples) ==
    [blocked : BOOLEAN, holding : BOOLEAN,
     clear_count : 0 .. samples, clear_kind : {"none", "finite", "no_echo"}]

(* What one sample says, given the stop and clear distances in force. *)
SampleKind(value, stop, clear) ==
    CASE value = NoEcho                       -> "no_echo"
      [] value = Invalid                      -> "obstacle"
      [] value >= 0 /\ value <= stop          -> "obstacle"
      [] value >= 0 /\ value > stop /\ value >= clear -> "finite"
      [] OTHER                                -> "between"

Uncounted(l) == [l EXCEPT !.clear_count = 0, !.clear_kind = "none"]

(* Mutant: off by one. *)
CountClearEarly(l, kind, required) ==
    LET count == IF l.clear_kind = kind THEN l.clear_count + 1 ELSE 1
    IN  IF count + 1 >= required
        THEN [Uncounted(l) EXCEPT !.blocked = FALSE]
        ELSE [l EXCEPT !.clear_count = count, !.clear_kind = kind]

(* A clear sample of a blocked latch whose hold has passed: samples of the  *)
(* two kinds are counted apart, and enough of one kind release the latch.   *)
CountClear(l, kind, required) ==
    LET count == IF l.clear_kind = kind THEN l.clear_count + 1 ELSE 1
    IN  IF count >= required
        THEN [Uncounted(l) EXCEPT !.blocked = FALSE]
        ELSE [l EXCEPT !.clear_count = count, !.clear_kind = kind]

(* UltrasonicLatch.update; finiteSamples <= noEchoSamples, both positive. *)
UpdateLatch(l, value, stop, clear, finiteSamples, noEchoSamples) ==
    LET kind == SampleKind(value, stop, clear)
    IN  CASE kind = "obstacle" ->
               [Uncounted(l) EXCEPT !.blocked = TRUE, !.holding = TRUE]
          [] kind = "between"  -> Uncounted(l)
          [] OTHER ->
               IF ~l.blocked THEN l
               ELSE IF l.holding THEN Uncounted(l)
               ELSE CountClear(l, kind, IF kind = "finite" THEN finiteSamples
                                                           ELSE noEchoSamples)

(* Time passes until block_hold_sec has elapsed since the last block. *)
LatchHoldOver(l) == [l EXCEPT !.holding = FALSE]
=============================================================================
