-------------------------- MODULE InstallLifecycle --------------------------
(***************************************************************************)
(* What the statuses of install jobs promise, whoever changes them: the    *)
(* command handlers, the workers or the recovery.  InstallJobs implements  *)
(* this specification.                                                     *)
(***************************************************************************)
CONSTANT Jobs

VARIABLE status

Init == status = [j \in Jobs |-> "none"]

Move(j, from, to) ==
    /\ status[j] \in from
    /\ status' = [status EXCEPT ![j] = to]

Submit(j) == Move(j, {"none", "failed", "interrupted"}, "queued")

\* Running is where a job is worked on or canceled, by its one owner
Claim(j) == Move(j, {"queued"}, "running")

Succeed(j) == Move(j, {"running"}, "succeeded")

Cancel(j) == Move(j, {"running"}, "canceled")

\* A job can fail, or be found interrupted, before it runs
Fail(j) == \E s \in {"failed", "interrupted"} : Move(j, {"queued", "running"}, s)

Next == \E j \in Jobs : Submit(j) \/ Claim(j) \/ Succeed(j) \/ Cancel(j) \/ Fail(j)

Spec == Init /\ [][Next]_status
=============================================================================
