---- MODULE MCRanger ----
(* Commands to stop, to drive, to turn on the spot and to slide.            *)
EXTENDS RangerDriverChecks

MCTwists == {[x |-> 0, y |-> 0, w |-> 0], [x |-> 1, y |-> 0, w |-> 0],
             [x |-> 0, y |-> 0, w |-> 1], [x |-> 0, y |-> 1, w |-> 0]}
====
