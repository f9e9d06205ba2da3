--------------------------- MODULE MCGateRecovery ---------------------------
(* Instances of GateRecovery for TLC. *)
EXTENDS GateRecovery

Scores   == {1, 3, 5, NonFinite}
Drive    == {[lin |-> 3, ang |-> 2]}
Moves    == {[step |-> 1, turn |-> 0]}
=============================================================================
