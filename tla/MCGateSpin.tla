----------------------------- MODULE MCGateSpin -----------------------------
(* Instances of GateSpin for TLC. *)
EXTENDS GateSpin

RotateOnly      == {[lin |-> 0, ang |-> 2]}
TurnReverseOnly == {[lin |-> -1, ang |-> 1]}

Moves == {[step |-> 0, turn |-> 2], [step |-> 1, turn |-> 0]}
Turns == {[step |-> 0, turn |-> 1]}
=============================================================================
