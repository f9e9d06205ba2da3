---------------------------- MODULE OccupancyGrid ----------------------------
(***************************************************************************)
(* buildOccupancyGrid, inflateGrid and the cell test of                    *)
(* isPoseInRejectedCell in pcd_ndt_localizer.cpp, on the line: a cell is   *)
(* an integer (the resolution is 1), a map point a record [x, z].  The     *)
(* grid is computed once, when the map is loaded.                          *)
(***************************************************************************)
EXTENDS FiniteSetsExt, Integers

CONSTANTS
    RejectOccupied,         \* reject_occupied_pose
    MapPoints,              \* the loaded PCD map
    MinZ, MaxZ,             \* occupancy_min_z, occupancy_max_z
    Padding,                \* occupancy_padding_m
    MinPointsPerCell,       \* occupancy_min_points_per_cell
    MinZSpan,               \* occupancy_min_z_span
    InflateCells,           \* occupancy_inflate_cells
    CheckRadius,            \* occupancy_check_radius_cells
    RejectMinOccupied,      \* occupancy_reject_min_occupied_cells
    RejectOutside           \* reject_pose_outside_grid

ASSUME GridAssumption ==
    /\ IsFiniteSet(MapPoints) /\ MapPoints \subseteq [x : Int, z : Int]
    /\ MinZ \in Int /\ MaxZ \in Int /\ Padding \in Nat /\ MinZSpan \in Nat
    /\ MinPointsPerCell \in Int /\ InflateCells \in Int /\ CheckRadius \in Int
    /\ RejectMinOccupied \in Int /\ RejectOutside \in BOOLEAN
    /\ RejectOccupied \in BOOLEAN

AtLeast(n, m) == IF n < m THEN m ELSE n

(* Points between floor and ceiling. *)
Kept == {pt \in MapPoints : pt.z \in MinZ .. MaxZ}

(* The grid ends half-open: the point farthest along lies inside only with *)
(* padding.                                                                *)
Cells == Min({pt.x : pt \in Kept}) - Padding .. Max({pt.x : pt \in Kept}) + Padding - 1

grid_ready == MinZ < MaxZ /\ Kept # {} /\ Cells # {}

Heights(c) == {pt.z : pt \in {q \in Kept : q.x = c}}

(* A cell with enough points that are not all at one height. *)
OccupiedCell(c) ==
    /\ Cardinality(Heights(c)) >= AtLeast(MinPointsPerCell, 1)
    /\ MinZSpan > 0 => Max(Heights(c)) - Min(Heights(c)) >= MinZSpan

(* inflateGrid *)
OccupiedGrid ==
    LET reach == AtLeast(InflateCells, 0)
    IN  {c \in Cells : \E d \in -reach .. reach : c + d \in Cells /\ OccupiedCell(c + d)}

Neighbourhood(c) == {c + d : d \in -AtLeast(CheckRadius, 0) .. AtLeast(CheckRadius, 0)}

(* The verdict of isPoseInRejectedCell for the cell of the chassis centre. *)
RejectedCell(c) ==
    /\ RejectOccupied
    /\ \/ ~grid_ready
       \/ c \notin Cells /\ RejectOutside
       \/ /\ c \in Cells
          /\ Cardinality(Neighbourhood(c) \cap OccupiedGrid) >= AtLeast(RejectMinOccupied, 1)
=============================================================================
