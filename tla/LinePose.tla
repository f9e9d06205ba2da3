------------------------------- MODULE LinePose -------------------------------
(***************************************************************************)
(* Rigid transforms restricted to a line: a position p and a heading s,    *)
(* which is 1 (along the line) or -1 (against it).  They keep what the     *)
(* localization code depends on in the plane: transforms do not commute,   *)
(* a turn swings whatever is mounted off the turning centre to the other   *)
(* side, and an error of heading turns into an error of position as soon   *)
(* as the robot travels.                                                   *)
(***************************************************************************)
EXTENDS Integers

Poses == [p : Int, s : {1, -1}]

Identity == [p |-> 0, s |-> 1]

(* a * b: the pose b given in the frame of a. *)
Mul(a, b) == [p |-> IF a.s = 1 THEN a.p + b.p ELSE a.p - b.p,
              s |-> IF a.s = b.s THEN 1 ELSE -1]

Inv(a) == [p |-> IF a.s = 1 THEN -a.p ELSE a.p, s |-> a.s]

(* a.inverse() * b, also written a.inverseTimes(b): the motion from a to b. *)
Motion(a, b) == Mul(Inv(a), b)

Magnitude(n) == IF n < 0 THEN -n ELSE n

Translation(m) == Magnitude(m.p)

Turned(m) == m.s = -1
=============================================================================
