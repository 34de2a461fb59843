-------------------------- MODULE MCLockCoordinator --------------------------
(* Values of the constants of LockCoordinator for TLC. *)
EXTENDS LockCoordinator, TLC

CONSTANTS a, b, c, d

ThreeAndOne == (a :> 1) @@ (b :> 1) @@ (c :> 1) @@ (d :> 2)
=============================================================================
