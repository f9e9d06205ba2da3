---- MODULE MCLocalization ----
(* The robot stands still; the operator clicks twice, a wrong place and the *)
(* right one.                                                               *)
EXTENDS Localization

MCMount == [p |-> 1, s |-> 1]
MCSteps == {[p |-> 2, s |-> 1]}
MCClicks == {Identity, [p |-> 4, s |-> 1]}
MCScores == {1, NonFinite}
MCMapPoints == {[x |-> -3, z |-> 0], [x |-> 6, z |-> 0]}
====
