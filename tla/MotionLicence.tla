--------------------------- MODULE MotionLicence ---------------------------
(***************************************************************************)
(* What the motion gate promises, without its sensors: a licence to move   *)
(* is granted only while motion is permitted, and one published Twist uses *)
(* it up.  Permission itself may come and go at any time.                  *)
(***************************************************************************)
VARIABLES permitted, licence, moving

vars == <<permitted, licence, moving>>

Init == permitted = FALSE /\ licence = FALSE /\ moving = FALSE

PermissionChanges ==
    /\ permitted' \in BOOLEAN
    /\ UNCHANGED <<licence, moving>>

Grant ==
    /\ permitted /\ ~licence
    /\ licence' = TRUE
    /\ UNCHANGED <<permitted, moving>>

Publish ==
    /\ moving' \in BOOLEAN
    /\ moving' => licence
    /\ licence' = FALSE
    /\ UNCHANGED permitted

Next == PermissionChanges \/ Grant \/ Publish

Spec == Init /\ [][Next]_vars
=============================================================================
