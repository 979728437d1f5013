----------------------- MODULE MCSnapshotCoordinator -----------------------
(* SnapshotCoordinator on a small instance, checked by TLC: four requests, *)
(* without symmetry, which would not be sound for the temporal formulas.   *)
EXTENDS SnapshotCoordinator, TLC

=============================================================================
