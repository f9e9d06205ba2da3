---- MODULE MCLocalizer ----
(* A robot on a line, its LiDAR one unit behind the chassis centre, and a   *)
(* wall two cells thick where the operator may click.                       *)
EXTENDS LocalizerChecks

MCMount == [p |-> 1, s |-> 1]
MCSteps == {[p |-> 2, s |-> 1], [p |-> 0, s |-> -1]}
MCClicks == {Identity, [p |-> 3, s |-> 1]}
MCScores == {1, 2, NonFinite}
MCMapPoints == {[x |-> -3, z |-> 0], [x |-> 6, z |-> 0],
                [x |-> 3, z |-> 0], [x |-> 3, z |-> 1],
                [x |-> 4, z |-> 0], [x |-> 4, z |-> 1]}
====
