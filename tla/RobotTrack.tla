------------------------------ MODULE RobotTrack ------------------------------
(***************************************************************************)
(* The robot as the sensors see it: track is the sequence of true poses of *)
(* the chassis in the map frame, one per instant, and its length is the    *)
(* clock that stamps scans and odometry.  Both odometries (wheels and      *)
(* FAST-LIO) are taken to be exact and to start at the map origin, so that *)
(* every error of the published frames is one of the localization code.    *)
(***************************************************************************)
EXTENDS LinePose, Sequences

CONSTANTS
    Mount,      \* localization_to_base: pose of base_link on the LiDAR body
    None,       \* no pose
    Steps,      \* motions of the chassis between two instants
    MaxTime     \* bound on the clock

ASSUME StepsAssumption == Steps \subseteq Poses
ASSUME MountAssumption == Mount \in Poses
ASSUME NoneAssumption == None \notin Poses
ASSUME MaxTimeAssumption == MaxTime \in Nat \ {0}

VARIABLE track

now == Len(track)

TrackType == track \in Seq(Poses) /\ now >= 1

TrackInit == track = <<Identity>>

(* The LiDAR body, which is what a scan locates. *)
BodyAt(t) == Mul(track[t], Inv(Mount))

(* The robot moves; the clock advances. *)
Move(step) ==
    /\ now < MaxTime
    /\ track' = Append(track, Mul(track[now], step))
=============================================================================
