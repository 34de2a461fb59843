---------------------------- MODULE MCSearchQueue ----------------------------
(* Values of the constants of SearchQueue for TLC. *)
EXTENDS SearchQueue, TLC

CONSTANTS p1, e1, e2
=============================================================================
