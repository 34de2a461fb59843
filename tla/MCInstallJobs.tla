---------------------------- MODULE MCInstallJobs ----------------------------
(* Values of the constants of InstallJobs for TLC. *)
EXTENDS InstallJobs, TLC

CONSTANTS j1, j2, i1, i2, i3, t1, t2, t3

NewAndShared   == (j1 :> "new") @@ (j2 :> "shared")
OneShared      == (j1 :> "shared")
SharedAndRepair == (j1 :> "shared") @@ (j2 :> "repair")

TaskSymmetry == Permutations(Tasks)
=============================================================================
