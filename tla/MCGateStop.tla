----------------------------- MODULE MCGateStop -----------------------------
(* Instances of GateStop for TLC. *)
EXTENDS GateStop

ForwardOnly == {[lin |-> 2, ang |-> 0]}
Moves       == {[step |-> 1, turn |-> 1]}
=============================================================================
