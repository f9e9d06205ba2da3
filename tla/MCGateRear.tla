----------------------------- MODULE MCGateRear -----------------------------
(* Instances of GateRear for TLC. *)
EXTENDS GateRear

Reverse     == [lin |-> -2, ang |-> 0]
TurnReverse == [lin |-> -2, ang |-> 1]
ReverseCommands == {Reverse, TurnReverse}

AllRanges   == {1, 3, 5, 6, NoEcho, Invalid}

Standing == {[step |-> 0, turn |-> 0]}
=============================================================================
