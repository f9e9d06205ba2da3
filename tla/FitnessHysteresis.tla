-------------------------- MODULE FitnessHysteresis --------------------------
(***************************************************************************)
(* The class FitnessHysteresis of scripts/nav_motion_safety_gate.py: the   *)
(* hysteresis over the NDT fitness score that decides whether localization *)
(* is good enough to move.  The operators are pure; MotionGate keeps one   *)
(* such record as state.                                                   *)
(*                                                                         *)
(* A fitness score is a natural number (small is good) or NonFinite.       *)
(* Wall-clock time is abstracted to what the class distinguishes: the hold *)
(* timer bad_since is absent, was started recently, or was started at      *)
(* least fitness_bad_hold_sec ago.  The environment ages it with HoldOver. *)
(***************************************************************************)
EXTENDS Integers

NonFinite == -1

IsFinite(value) == value # NonFinite

HoldTimer == {"none", "recent", "elapsed"}

(* blocked starts TRUE: no sample, no motion. *)
InitHysteresis == [blocked |-> TRUE, bad_since |-> "none", clear_count |-> 0]

Hysteresis(samples) ==
    [blocked : BOOLEAN, bad_since : HoldTimer, clear_count : 0 .. samples]

(* Mutant: a bad score does not restart the count. *)
UpdateBlockedTotal(h, value, clear, samples) ==
    LET count == IF value <= clear THEN h.clear_count + 1 ELSE h.clear_count
        freed == value <= clear /\ count >= samples
    IN  [blocked     |-> ~freed,
         bad_since   |-> "none",
         clear_count |-> IF freed THEN 0 ELSE count]

(* One sample while motion is blocked: only a run of `samples` consecutive  *)
(* scores within the clear threshold releases the block.                    *)
UpdateBlocked(h, value, clear, samples) ==
    LET count == IF value <= clear THEN h.clear_count + 1 ELSE 0
        freed == value <= clear /\ count >= samples
    IN  [blocked     |-> ~freed,
         bad_since   |-> "none",
         clear_count |-> IF freed THEN 0 ELSE count]

(* One sample while motion is allowed: a score beyond the block threshold   *)
(* starts the hold timer, and blocks once the timer has run its time.       *)
UpdateAllowed(h, value, block) ==
    LET bad == value > block
    IN  [blocked     |-> bad /\ h.bad_since = "elapsed",
         bad_since   |-> IF ~bad THEN "none"
                         ELSE IF h.bad_since = "none" THEN "recent"
                         ELSE h.bad_since,
         clear_count |-> 0]

(* FitnessHysteresis.update *)
UpdateFitness(h, value, block, clear, samples) ==
    IF ~IsFinite(value)
    THEN [blocked |-> TRUE, bad_since |-> "recent", clear_count |-> 0]
    ELSE IF h.blocked
         THEN UpdateBlocked(h, value, clear, samples)
         ELSE UpdateAllowed(h, value, block)

(* Time passes until fitness_bad_hold_sec has elapsed. *)
HoldOver(h) == [h EXCEPT !.bad_since = IF @ = "recent" THEN "elapsed" ELSE @]
=============================================================================
