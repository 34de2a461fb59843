--------------------------- MODULE MCSearchRebuild ---------------------------
(* Values of the constants of SearchRebuild for TLC. *)
EXTENDS SearchRebuild, TLC

CONSTANTS p1, p2, e1

ProjectSymmetry == Permutations(Projects)
=============================================================================
