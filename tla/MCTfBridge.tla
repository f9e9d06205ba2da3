---- MODULE MCTfBridge ----
(* The LiDAR one unit behind the chassis centre, one outlier that is off    *)
(* by more than two corrections and one with the heading reversed.          *)
EXTENDS TfBridgeChecks

MCMount == [p |-> 1, s |-> 1]
MCSteps == {[p |-> 2, s |-> 1], [p |-> 0, s |-> -1]}
MCOutliers == {[p |-> 3, s |-> 1], [p |-> 0, s |-> -1]}
====
