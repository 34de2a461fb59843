----------------------------- MODULE InstallJobs -----------------------------
(***************************************************************************)
(* Install jobs of the desktop app library (packages/app-lib/src/install). *)
(*                                                                         *)
(* A job creates a new instance or changes an existing one.  Its row in    *)
(* the install_jobs table (status and saved below) and the install stage   *)
(* of the instance survive a crash; so do the instance directory (content) *)
(* and the backup that an update of a shared instance takes of it.  The    *)
(* tokio tasks do not.  A task runs one command handler (start, retry,     *)
(* cancel) and then, in the same slot, the worker the handler spawned; the *)
(* recovery of interrupted jobs at start-up also runs in a task.  Every    *)
(* statement sent to SQLite and every change of the disk is one step.      *)
(***************************************************************************)
EXTENDS Naturals, FiniteSets

CONSTANTS
    Jobs,         \* install job ids
    Instances,    \* instance ids, those not created yet included
    Tasks,        \* slots for the tokio tasks alive at one time
    Kind,         \* what each job does, see Kinds
    Installed,    \* the instances the user starts with
    MaxRunning,   \* MAX_CONCURRENT_INSTALL_JOBS
    User,         \* when commands are issued, see Users
    None,         \* no instance
    \* Bounds on what the environment does
    MaxCrashes, MaxReloads, MaxFaults, MaxRemovals

(***************************************************************************)
(* "new": the five requests that create an instance.  "repair" is          *)
(* InstallExistingInstance, "pack" InstallPackToExistingInstance, "shared" *)
(* UpdateSharedInstance.                                                   *)
(***************************************************************************)
Kinds == {"new", "repair", "pack", "shared"}

(***************************************************************************)
(* "any": commands arrive at any time.  "serial": a command on a job waits *)
(* for the one before it to return, and existing instances are installed   *)
(* to only with the buttons that are off while the stage is not            *)
(* "installed".  "careful": besides, a command waits until nothing else    *)
(* works on its job or on its instance.                                    *)
(***************************************************************************)
Users == {"any", "serial", "careful"}

ASSUME ConstantsAssumption ==
    /\ Kind \in [Jobs -> Kinds]
    /\ Installed \subseteq Instances
    /\ None \notin Instances
    /\ User \in Users
    /\ MaxRunning \in Nat \ {0}
    /\ {MaxCrashes, MaxReloads, MaxFaults, MaxRemovals} \subseteq Nat

VARIABLES
    status,   \* install_jobs.status
    saved,    \* install_jobs.state, the part of it that control depends on
    stage,    \* instances.install_stage, with "unused" and "gone" for no row
    content,  \* the instance directory and content rows: absent, partial, whole
    backup,   \* the staging directory of each job
    task,     \* the tasks of the running process
    app,      \* "down", "init" until State::init has returned, "ready"
    todo,     \* jobs listed by the recovery and not reached yet
    spent     \* what the environment has used of its bounds

db    == <<status, saved>>
disk  == <<content, backup>>
boot  == <<app, todo>>
vars  == <<status, saved, stage, content, backup, task, app, todo, spent>>

----------------------------------------------------------------------------
(* Data *)

Statuses == {"none", "queued", "running", "succeeded", "failed",
             "interrupted", "canceled"}
ActiveStatuses == {"queued", "running"}

\* "installing" stands for pack_installing and minecraft_installing
LiveStages == {"not_installed", "installing", "installed"}
Stages     == LiveStages \cup {"unused", "gone"}
Contents   == {"absent", "partial", "whole"}

(***************************************************************************)
(* InstallJobState.  inst is the id shared by target and cleanup, rollback *)
(* the stage captured before the job, staged whether paths.staging_dir is  *)
(* set, rbErr whether rollback_error is.                                   *)
(***************************************************************************)
JobState == [inst     : Instances \cup {None},
             rollback : LiveStages \cup {"none"},
             staged   : BOOLEAN,
             rbErr    : BOOLEAN]

FreshState(i, rb) ==
    [inst |-> i, rollback |-> rb, staged |-> FALSE, rbErr |-> FALSE]

Idle    == [pc |-> "idle"]
Nothing == [inst |-> "nothing"]

WorkPcs  == {"relock", "backup", "persist", "begin", "apply"}
CleanPcs == {"clean", "rmdir", "copyback", "meta"}
BusyPcs  == {"queue", "lock", "wait", "claim", "done", "strand", "finish",
             "clear", "prepare", "cclaim"} \cup WorkPcs \cup CleanPcs

(***************************************************************************)
(* aim says why a cleanup runs: undo a job that could not be queued, end a *)
(* job whose setup failed, a failed worker, a stranded one, a cancel, the  *)
(* recovery, or the leftovers of a failed rollback before a retry.         *)
(***************************************************************************)
Aims == {"undo", "setup", "fail", "strand", "cancel", "recover", "reclean",
         "success"}

\* What the environment may do only a bounded number of times
Bounded == {"crashes", "reloads", "faults", "removals"}

BusyTasks == [pc : BusyPcs, aim : Aims, job : Jobs, js : JobState, ok : BOOLEAN]

Existing(j) == Kind[j] # "new"
Live(i)     == i # None /\ stage[i] \in LiveStages
Active(j)   == status[j] \in ActiveStatuses
Busy(t)     == task[t] # Idle
At(t, p)    == Busy(t) /\ task[t].pc = p

\* The foreign key install_jobs.instance_id -> instances.id
ForeignKeyHolds(js) == js.inst = None \/ Live(js.inst)

----------------------------------------------------------------------------
(* Where a task goes next *)

Become(t, k)  == task' = [task EXCEPT ![t] = k]
Goto(t, p)    == task' = [task EXCEPT ![t].pc = p]
Running(j, p, a, js) ==
    [pc |-> p, aim |-> a, job |-> j, js |-> js, ok |-> FALSE]

\* apply_cleanup returned Ok: clear_deleted_new_instance_id, then record it
CleanupDone(k) ==
    CASE k.aim = "undo"    -> Idle
      [] k.aim = "reclean" -> [k EXCEPT !.pc = "clear"]
      [] OTHER -> [k EXCEPT !.pc = "finish", !.ok = TRUE,
                            !.js.inst = IF Existing(k.job) THEN @ ELSE None]

\* Mutant of CleanupFailed: the failed rollback is not recorded
CleanupForgotten(k) ==
    IF k.aim \in {"undo", "reclean"} THEN Idle
    ELSE [k EXCEPT !.pc = "finish", !.ok = FALSE]

\* apply_cleanup returned Err: rollback_error is set, except where the error
\* is only logged or returned
CleanupFailed(k) ==
    IF k.aim \in {"undo", "reclean"} THEN Idle
    ELSE [k EXCEPT !.pc = "finish", !.ok = FALSE, !.js.rbErr = TRUE]

\* terminalize_failed_job of the state js, from its first line
Terminalize(k, js, a) ==
    [k EXCEPT !.pc = "clean", !.aim = a, !.js = [js EXCEPT !.rbErr = FALSE]]

\* Mutant of OnError: run_job passes the error of run_request on with `?` and
\* nobody catches it
WorkerDies(k) ==
    IF k.pc \in WorkPcs THEN Idle
    ELSE [k EXCEPT !.pc = "clean"]

\* The `?` of the call a task is at
OnError(k) ==
    CASE k.pc = "queue"   -> [k EXCEPT !.pc = "clean", !.aim = "undo"]
      [] k.pc = "lock"    -> Terminalize(k, k.js, "setup")
      [] k.pc \in {"wait", "claim", "done"} -> [k EXCEPT !.pc = "strand"]
      [] k.pc \in WorkPcs -> Terminalize(k, saved[k.job], "fail")
      [] k.pc \in CleanPcs -> CleanupFailed(k)
      [] k.pc = "finish" /\ k.aim = "fail" -> [k EXCEPT !.pc = "strand"]
      [] OTHER -> Idle

Fail(t) == Become(t, OnError(task[t]))

----------------------------------------------------------------------------
(* Commands *)

Free(t) == app = "ready" /\ ~Busy(t)

\* Nothing else works on job j or on instance i
Undisturbed(j, i) ==
    /\ \A u \in Tasks :
          Busy(u) => task[u].job # j /\ (i = None \/ task[u].js.inst # i)
    /\ \A k \in Jobs \ {j} : Active(k) => i = None \/ saved[k].inst # i

\* A command on job j has not returned yet; one that spawned a worker has
Handled(j) ==
    \E u \in Tasks : /\ Busy(u) /\ task[u].job = j
                    /\ task[u].aim \in {"setup", "undo", "reclean", "cancel"}
                    /\ task[u].pc \notin {"wait", "strand"}

MayStart(j, i) ==
    /\ User # "any" /\ Existing(j) => stage[i] = "installed"
    /\ User = "careful" => Undisturbed(j, i)

MayRetry(j) ==
    /\ User = "serial" => ~Handled(j)
    /\ User = "careful" => Undisturbed(j, saved[j].inst)

MayCancel(j) == User # "any" => ~Handled(j)

(***************************************************************************)
(* prepare_initial_instance: create the instance of a "new" job, or keep   *)
(* the stage of the existing one for the rollback.                         *)
(***************************************************************************)
Prepare(t, j, i) ==
    \/ /\ ~Existing(j)
       /\ stage[i] = "unused"
       /\ stage' = [stage EXCEPT ![i] = "not_installed"]
       /\ content' = [content EXCEPT ![i] = "partial"]
       /\ Become(t, Running(j, "queue", "setup", FreshState(i, "none")))
    \/ /\ Existing(j)
       /\ Live(i)
       /\ Become(t, Running(j, "queue", "setup", FreshState(i, stage[i])))
       /\ UNCHANGED <<stage, content>>

\* start; an error of prepare_initial_instance leaves nothing behind
Start(t, j, i) ==
    /\ Free(t)
    /\ status[j] = "none" /\ \A u \in Tasks : Busy(u) => task[u].job # j
    /\ MayStart(j, i)
    /\ Prepare(t, j, i)
    /\ UNCHANGED <<db, backup, boot, spent>>

\* retry_job up to its checks
Retry(t, j) ==
    /\ Free(t)
    /\ status[j] \in {"failed", "interrupted"}
    /\ MayRetry(j)
    /\ Become(t, Running(j, IF saved[j].rbErr THEN "clean" ELSE "prepare",
                         "reclean", saved[j]))
    /\ UNCHANGED <<db, stage, disk, boot, spent>>

\* Mutant of RetryPrepare: queue the state as it was reset
RetryBlank(t) ==
    LET k == task[t] IN
    /\ At(t, "prepare")
    /\ Become(t, Running(k.job, "queue", "setup", FreshState(k.js.inst, "none")))
    /\ UNCHANGED <<db, stage, disk, boot, spent>>

\* retry_job: the state is reset and the instance prepared again
RetryPrepare(t) ==
    LET k == task[t] IN
    /\ At(t, "prepare")
    /\ \/ \E i \in Instances : (Existing(k.job) => i = k.js.inst)
                               /\ Prepare(t, k.job, i)
       \/ /\ Existing(k.job) /\ ~Live(k.js.inst)
          /\ Become(t, Idle)
          /\ UNCHANGED <<stage, content>>
    /\ UNCHANGED <<db, backup, boot, spent>>

\* store::insert of start and store::update_status of retry_job
Queue(t) ==
    LET k == task[t] IN
    /\ At(t, "queue")
    /\ \/ /\ ForeignKeyHolds(k.js)
          /\ status' = [status EXCEPT ![k.job] = "queued"]
          /\ saved' = [saved EXCEPT ![k.job] = k.js]
          /\ Goto(t, IF Existing(k.job) THEN "lock" ELSE "wait")
       \/ /\ ~ForeignKeyHolds(k.js)
          /\ Fail(t)
          /\ UNCHANGED db
    /\ UNCHANGED <<stage, disk, boot, spent>>

SetStage(i, s) ==
    stage' = IF Live(i) THEN [stage EXCEPT ![i] = s] ELSE stage

\* lock_existing_instance: before the worker is spawned, and by the worker
Lock(t) ==
    LET k == task[t] IN
    /\ \/ At(t, "lock") /\ Goto(t, "wait")
       \/ At(t, "relock") /\ Goto(t, IF Kind[k.job] = "shared"
                                     THEN "backup" ELSE "begin")
    /\ SetStage(k.js.inst, "installing")
    /\ UNCHANGED <<db, disk, boot, spent>>

\* cancel_job up to its check
Cancel(t, j) ==
    /\ Free(t)
    /\ status[j] = "queued"
    /\ MayCancel(j)
    /\ Become(t, Running(j, "cclaim", "cancel", saved[j]))
    /\ UNCHANGED <<db, stage, disk, boot, spent>>

\* The cancel cleans up; a worker locks an existing instance once more
AfterClaim(k) ==
    IF k.pc = "cclaim" THEN "clean"
    ELSE IF Existing(k.job) THEN "relock" ELSE "begin"

\* Mutant of Claim: update_status, which does not ask for the old status
ClaimBlind(t) ==
    LET k == task[t] IN
    /\ At(t, "claim") \/ At(t, "cclaim")
    /\ status' = [status EXCEPT ![k.job] = "running"]
    /\ saved' = [saved EXCEPT ![k.job] = k.js]
    /\ Goto(t, AfterClaim(k))
    /\ UNCHANGED <<stage, disk, boot, spent>>

(***************************************************************************)
(* update_status_if(Queued, Running), by the worker and by cancel_job.     *)
(* Only one of them finds the job still queued.                            *)
(***************************************************************************)
Claim(t) ==
    LET k == task[t] IN
    /\ At(t, "claim") \/ At(t, "cclaim")
    /\ \/ /\ status[k.job] # "queued"
          /\ Become(t, Idle)
          /\ UNCHANGED db
       \/ /\ status[k.job] = "queued" /\ ForeignKeyHolds(k.js)
          /\ status' = [status EXCEPT ![k.job] = "running"]
          /\ saved' = [saved EXCEPT ![k.job] = k.js]
          /\ Goto(t, AfterClaim(k))
       \/ /\ status[k.job] = "queued" /\ ~ForeignKeyHolds(k.js)
          /\ Fail(t)
          /\ UNCHANGED db
    /\ UNCHANGED <<stage, disk, boot, spent>>

----------------------------------------------------------------------------
(* The worker: run_job *)

\* The semaphore permit lives as long as run_job
HoldsPermit(t) ==
    Busy(t) /\ task[t].aim \in {"fail", "success"} /\ ~At(t, "strand")

Permits == Cardinality({t \in Tasks : HoldsPermit(t)})

\* Wait for a permit while the job is queued, then read the job again
Permit(t) ==
    LET k == task[t] IN
    /\ At(t, "wait")
    /\ \/ /\ status[k.job] # "queued"
          /\ Become(t, Idle)
       \/ /\ status[k.job] = "queued"
          /\ Permits < MaxRunning
          /\ Become(t, Running(k.job, "claim", "fail", saved[k.job]))
    /\ UNCHANGED <<db, stage, disk, boot, spent>>

\* prepare_shared_instance_update_backup: of the directory as it is now
Backup(t) ==
    LET k == task[t] IN
    /\ At(t, "backup")
    /\ backup' = [backup EXCEPT ![k.job] = content[k.js.inst]]
    /\ Goto(t, "persist")
    /\ UNCHANGED <<db, stage, content, boot, spent>>

\* Writes of the job state while the worker runs: store::update_state
SaveState(t, js, p) ==
    LET k == task[t] IN
    \/ /\ ForeignKeyHolds(js)
       /\ saved' = [saved EXCEPT ![k.job] = js]
       /\ Become(t, [k EXCEPT !.pc = p, !.js = js])
    \/ /\ ~ForeignKeyHolds(js)
       /\ Fail(t)
       /\ UNCHANGED saved

\* Mutant of Persist: the staging directory is only written down with the
\* first progress report, after the directory was changed
PersistLate(t) ==
    /\ At(t, "persist")
    /\ SaveState(t, task[t].js, "begin")
    /\ UNCHANGED <<status, stage, disk, boot, spent>>

\* The staging directory is recorded before anything is changed
Persist(t) ==
    /\ At(t, "persist")
    /\ SaveState(t, [task[t].js EXCEPT !.staged = TRUE], "begin")
    /\ UNCHANGED <<status, stage, disk, boot, spent>>

\* The directory of a repaired instance keeps its content
SetContent(k, c) ==
    content' = IF Kind[k.job] # "repair" /\ Live(k.js.inst)
               THEN [content EXCEPT ![k.js.inst] = c] ELSE content

\* The first change of the instance, and a progress report
Begin(t) ==
    LET k == task[t] IN
    /\ At(t, "begin")
    /\ SetStage(k.js.inst, "installing")
    /\ SetContent(k, "partial")
    /\ SaveState(t, k.js, "apply")
    /\ UNCHANGED <<status, backup, boot, spent>>

\* The last change of the instance, and a progress report
Apply(t) ==
    LET k == task[t] IN
    /\ At(t, "apply")
    /\ SetContent(k, "whole")
    /\ SaveState(t, k.js, "done")
    /\ UNCHANGED <<status, stage, backup, boot, spent>>

\* run_request fails: a download, a file, the metadata of a pack.  The job is
\* read again and terminalize_failed_job runs
WorkError(t) ==
    /\ Busy(t) /\ task[t].pc \in WorkPcs
    /\ Fail(t)
    /\ UNCHANGED <<db, stage, disk, boot, spent>>

\* Mutants of Complete: the row alone is written; the stage goes back to what
\* it was before the job
CompleteRowOnly(t) ==
    LET k == task[t] IN
    /\ At(t, "done")
    /\ status' = [status EXCEPT ![k.job] = "succeeded"]
    /\ Become(t, [k EXCEPT !.pc = "clear", !.aim = "success"])
    /\ UNCHANGED <<saved, stage, disk, boot, spent>>

CompleteAsBefore(t) ==
    LET k == task[t] IN
    /\ At(t, "done")
    /\ status' = [status EXCEPT ![k.job] = "succeeded"]
    /\ SetStage(k.js.inst, k.js.rollback)
    /\ Become(t, [k EXCEPT !.pc = "clear", !.aim = "success"])
    /\ UNCHANGED <<saved, disk, boot, spent>>

\* store::complete_success of the job as it is read again: one transaction
Complete(t) ==
    LET k  == task[t]
        js == [saved[k.job] EXCEPT !.inst = k.js.inst, !.rbErr = FALSE]
    IN
    /\ At(t, "done")
    /\ \/ /\ status[k.job] # "running"
          /\ Become(t, Idle)
          /\ UNCHANGED <<db, stage>>
       \/ /\ status[k.job] = "running" /\ Live(js.inst)
          /\ status' = [status EXCEPT ![k.job] = "succeeded"]
          /\ saved' = [saved EXCEPT ![k.job] = js]
          /\ SetStage(js.inst, "installed")
          /\ Become(t, [k EXCEPT !.pc = "clear", !.aim = "success", !.js = js])
       \/ /\ status[k.job] = "running" /\ ~Live(js.inst)
          /\ Fail(t)
          /\ UNCHANGED <<db, stage>>
    /\ UNCHANGED <<disk, boot, spent>>

\* terminalize_stranded_job: the worker ended with an error
Strand(t) ==
    LET k == task[t] IN
    /\ At(t, "strand")
    /\ Become(t, IF Active(k.job)
                 THEN Terminalize(k, saved[k.job], "strand") ELSE Idle)
    /\ UNCHANGED <<db, stage, disk, boot, spent>>

----------------------------------------------------------------------------
(* Rollback: apply_cleanup *)

RestoresBackup(k) == Kind[k.job] = "shared" /\ k.js.staged

\* Mutant of Clean: the stage is given back before the directory is restored
CleanStageFirst(t) ==
    LET k == task[t] IN
    /\ At(t, "clean") /\ k.js.rollback # "none"
    /\ SetStage(k.js.inst, k.js.rollback)
    /\ IF RestoresBackup(k) THEN Goto(t, "copyback")
                            ELSE Become(t, CleanupDone(k))
    /\ UNCHANGED <<db, disk, boot, spent>>

(***************************************************************************)
(* The first statement of apply_cleanup.  A new instance that is still     *)
(* there is removed; an existing one gets its stage back or, when an       *)
(* update of a shared instance has a backup, its directory, its rows and   *)
(* then its stage.                                                         *)
(***************************************************************************)
Clean(t) ==
    LET k == task[t]
        i == k.js.inst
    IN
    /\ At(t, "clean")
    /\ \/ /\ ~Existing(k.job) /\ Live(i)
          /\ stage' = [stage EXCEPT ![i] = "gone"]
          /\ Goto(t, "rmdir")
          /\ UNCHANGED content
       \/ /\ ~Existing(k.job) /\ ~Live(i)
          /\ Become(t, CleanupDone(k))
          /\ UNCHANGED <<stage, content>>
       \/ /\ Existing(k.job) /\ k.js.rollback = "none"
          /\ Become(t, CleanupDone(k))
          /\ UNCHANGED <<stage, content>>
       \/ /\ Existing(k.job) /\ k.js.rollback # "none" /\ ~RestoresBackup(k)
          /\ SetStage(i, k.js.rollback)
          /\ Become(t, CleanupDone(k))
          /\ UNCHANGED content
       \/ /\ Existing(k.job) /\ k.js.rollback # "none" /\ RestoresBackup(k)
          /\ IF backup[k.job] = "absent"
             THEN Fail(t) /\ UNCHANGED content
             ELSE Goto(t, "copyback") /\ SetContent(k, "partial")
          /\ UNCHANGED stage
    /\ UNCHANGED <<db, backup, boot, spent>>

\* remove_instance: the directory goes after the row
RemoveDir(t) ==
    LET k == task[t] IN
    /\ At(t, "rmdir")
    /\ content' = [content EXCEPT ![k.js.inst] = "absent"]
    /\ Become(t, CleanupDone(k))
    /\ UNCHANGED <<db, stage, backup, boot, spent>>

\* restore_shared_instance_update: the directory and the content rows
CopyBack(t) ==
    LET k == task[t] IN
    /\ At(t, "copyback")
    /\ SetContent(k, backup[k.job])
    /\ IF Live(k.js.inst) THEN Goto(t, "meta") ELSE Fail(t)
    /\ UNCHANGED <<db, stage, backup, boot, spent>>

\* Mutant of RestoreMetadata: the stage is left to somebody else
RestoreWithoutStage(t) ==
    LET k == task[t] IN
    /\ At(t, "meta")
    /\ Become(t, CleanupDone(k))
    /\ UNCHANGED <<db, stage, disk, boot, spent>>

\* restore_instance_metadata: one transaction
RestoreMetadata(t) ==
    LET k == task[t] IN
    /\ At(t, "meta")
    /\ SetStage(k.js.inst, k.js.rollback)
    /\ IF Live(k.js.inst) THEN Become(t, CleanupDone(k)) ELSE Fail(t)
    /\ UNCHANGED <<db, disk, boot, spent>>

\* What a job is after its cleanup, by the code that ran it
EndStatus(k) ==
    CASE k.aim = "cancel"  -> IF k.ok THEN "canceled" ELSE "failed"
      [] k.aim = "recover" -> "interrupted"
      [] OTHER             -> "failed"

(***************************************************************************)
(* finish_active, or update_status for a cancel, which does not ask for    *)
(* the status it replaces.                                                 *)
(***************************************************************************)
Finish(t) ==
    LET k == task[t] IN
    /\ At(t, "finish")
    /\ \/ /\ k.aim # "cancel" /\ ~Active(k.job)
          /\ Become(t, Idle)
          /\ UNCHANGED db
       \/ /\ k.aim = "cancel" \/ Active(k.job)
          /\ ForeignKeyHolds(k.js)
          /\ status' = [status EXCEPT ![k.job] = EndStatus(k)]
          /\ saved' = [saved EXCEPT ![k.job] = k.js]
          /\ IF k.ok THEN Goto(t, "clear") ELSE Become(t, Idle)
       \/ /\ k.aim = "cancel" \/ Active(k.job)
          /\ ~ForeignKeyHolds(k.js)
          /\ Fail(t)
          /\ UNCHANGED db
    /\ UNCHANGED <<stage, disk, boot, spent>>

\* clear_staging_dir; errors are only logged
ClearStaging(t) ==
    LET k == task[t] IN
    /\ At(t, "clear")
    /\ backup' = IF k.js.staged THEN [backup EXCEPT ![k.job] = "absent"]
                 ELSE backup
    /\ IF k.aim = "reclean" THEN Goto(t, "prepare") ELSE Become(t, Idle)
    /\ UNCHANGED <<db, stage, content, boot, spent>>

----------------------------------------------------------------------------
(* Recovery: State::init and recover_interrupted_jobs *)

Candidates == [j \in Jobs |-> IF Active(j) THEN saved[j] ELSE Nothing]

Recovering(j) == \E t \in Tasks : Busy(t) /\ task[t].job = j
                                  /\ task[t].aim = "recover"

Spend(what, limit) ==
    /\ spent[what] < limit
    /\ spent' = [spent EXCEPT ![what] = @ + 1]

\* The process starts again after a crash and lists the active jobs
Restart ==
    /\ app = "down"
    /\ app' = "init"
    /\ todo' = Candidates
    /\ UNCHANGED <<db, stage, disk, task, spent>>

\* The web view is loaded again and calls State::init in the same process
Reload ==
    /\ app = "ready"
    /\ Spend("reloads", MaxReloads)
    /\ app' = "init"
    /\ todo' = Candidates
    /\ UNCHANGED <<db, stage, disk, task>>

\* Jobs are recovered one after the other, each as it was listed
Recover(t, j) ==
    /\ app = "init" /\ ~Busy(t)
    /\ todo[j] # Nothing /\ \A k \in Jobs : ~Recovering(k)
    /\ todo' = [todo EXCEPT ![j] = Nothing]
    /\ Become(t, Running(j, "clean", "recover", todo[j]))
    /\ UNCHANGED <<db, stage, disk, app, spent>>

\* Mutant of InitReturns: the recovery goes on in the background
InitDoesNotWait ==
    /\ app = "init"
    /\ \A j \in Jobs : todo[j] = Nothing
    /\ app' = "ready"
    /\ UNCHANGED <<db, stage, disk, task, todo, spent>>

InitReturns ==
    /\ app = "init"
    /\ \A j \in Jobs : todo[j] = Nothing /\ ~Recovering(j)
    /\ app' = "ready"
    /\ UNCHANGED <<db, stage, disk, task, todo, spent>>

----------------------------------------------------------------------------
(* The environment *)

\* The process dies between two steps of its tasks
Crash ==
    /\ app # "down"
    /\ Spend("crashes", MaxCrashes)
    /\ app' = "down"
    /\ task' = [t \in Tasks |-> Idle]
    /\ todo' = [j \in Jobs |-> Nothing]
    /\ UNCHANGED <<db, stage, disk>>

\* A statement or a change of the disk fails: the database is busy, a file is
\* locked, the disk is full
Fault(t) ==
    /\ Busy(t) /\ ~At(t, "clear")
    /\ Spend("faults", MaxFaults)
    /\ Fail(t)
    /\ UNCHANGED <<db, stage, disk, boot>>

\* The user deletes an instance; nothing asks whether a job works on it
RemoveInstance(i) ==
    /\ app = "ready" /\ Live(i)
    /\ Spend("removals", MaxRemovals)
    /\ stage' = [stage EXCEPT ![i] = "gone"]
    /\ content' = [content EXCEPT ![i] = "absent"]
    /\ UNCHANGED <<db, backup, task, boot>>

----------------------------------------------------------------------------
(* Specification *)

Init ==
    /\ status = [j \in Jobs |-> "none"]
    /\ saved = [j \in Jobs |-> FreshState(None, "none")]
    /\ stage = [i \in Instances |->
                    IF i \in Installed THEN "installed" ELSE "unused"]
    /\ content = [i \in Instances |->
                    IF i \in Installed THEN "whole" ELSE "absent"]
    /\ backup = [j \in Jobs |-> "absent"]
    /\ task = [t \in Tasks |-> Idle]
    /\ app = "ready"
    /\ todo = [j \in Jobs |-> Nothing]
    /\ spent = [what \in Bounded |-> 0]

\* What a task does by itself once it has been given something to do
Step(t) ==
    \/ RetryPrepare(t) \/ Queue(t) \/ Lock(t) \/ Claim(t)
    \/ Backup(t) \/ Persist(t) \/ Begin(t) \/ Apply(t) \/ Complete(t)
    \/ Strand(t) \/ Clean(t) \/ RemoveDir(t) \/ CopyBack(t)
    \/ RestoreMetadata(t) \/ Finish(t) \/ ClearStaging(t)

RecoverNext == \E t \in Tasks, j \in Jobs : Recover(t, j)

Next ==
    \/ \E t \in Tasks, j \in Jobs, i \in Instances : Start(t, j, i)
    \/ \E t \in Tasks, j \in Jobs : Retry(t, j) \/ Cancel(t, j)
    \/ \E t \in Tasks : Step(t) \/ Permit(t) \/ WorkError(t) \/ Fault(t)
    \/ Restart \/ Reload \/ RecoverNext \/ InitReturns
    \/ Crash \/ \E i \in Instances : RemoveInstance(i)

Spec == Init /\ [][Next]_vars

(***************************************************************************)
(* tokio polls every ready task, its semaphore serves waiters in order,    *)
(* and State::init is awaited by the app.                                  *)
(***************************************************************************)
Fairness ==
    /\ \A t \in Tasks : WF_vars(Step(t)) /\ SF_vars(Permit(t))
    /\ WF_vars(RecoverNext) /\ WF_vars(InitReturns)

FairSpec == Spec /\ Fairness

----------------------------------------------------------------------------
(* Properties *)

\* Every variable keeps its type
TypeOK ==
    /\ status \in [Jobs -> Statuses]
    /\ saved \in [Jobs -> JobState]
    /\ stage \in [Instances -> Stages]
    /\ content \in [Instances -> Contents]
    /\ backup \in [Jobs -> Contents]
    /\ task \in [Tasks -> BusyTasks \cup {Idle}]
    /\ app \in {"down", "init", "ready"}
    /\ todo \in [Jobs -> JobState \cup {Nothing}]
    /\ spent \in [Bounded -> Nat]

\* Somebody will still finish or undo the work on instance i: a job that is
\* active or knows that its rollback failed, or a task
AccountedFor(i) ==
    \/ \E j \in Jobs : saved[j].inst = i /\ (Active(j) \/ saved[j].rbErr)
    \/ \E t \in Tasks : Busy(t) /\ task[t].js.inst = i

(***************************************************************************)
(* No instance keeps the stage that shows it as installing and refuses to  *)
(* launch it (launcher/mod.rs) when no job will ever change it again.      *)
(***************************************************************************)
NoStuckInstance ==
    \A i \in Instances : stage[i] = "installing" => AccountedFor(i)

(***************************************************************************)
(* No instance is left half installed, half updated or half restored by a  *)
(* job that is over: a new one is removed, an existing one restored.       *)
(***************************************************************************)
NoBrokenInstance ==
    \A i \in Instances : Live(i) /\ content[i] = "partial" => AccountedFor(i)

(***************************************************************************)
(* At every moment at which the process may die, an update of a shared     *)
(* instance that has damaged the directory has on disk, and recorded in    *)
(* its row, the backup that the recovery or a retry restores.              *)
(***************************************************************************)
DamageIsRecorded ==
    \A i \in Installed :
        Live(i) /\ content[i] = "partial" =>
            \E j \in Jobs :
                /\ saved[j].inst = i /\ saved[j].staged
                /\ saved[j].rollback # "none"
                /\ backup[j] = "whole"
                /\ Active(j) \/ saved[j].rbErr

\* A task past the claim of its job and not yet at its end
Owns(t, j) ==
    /\ Busy(t) /\ task[t].job = j
    /\ \/ task[t].pc \in WorkPcs \cup {"done"}
       \/ task[t].pc \in CleanPcs \cup {"finish"}
          /\ task[t].aim \in {"fail", "strand", "cancel", "recover"}

(***************************************************************************)
(* One owner: a worker, a cancel and the recovery never act on one job at  *)
(* the same time, so no rollback runs under an install.                    *)
(***************************************************************************)
OneOwner ==
    \A t, u \in Tasks, j \in Jobs : Owns(t, j) /\ Owns(u, j) => t = u

\* The state js of job j says what to undo, and no rollback failed before
CanRollBack(j, js) ==
    /\ js.inst # None
    /\ Existing(j) => js.rollback # "none"
    /\ ~js.rbErr

\* Every active job can be rolled back by whoever finds it, at any moment the
\* process may die: retry_job resets the state only to fill it again before
\* it queues the job, and no later write of the row loses what to undo
ActiveCanRollBack ==
    \A j \in Jobs : Active(j) => CanRollBack(j, saved[j])

(***************************************************************************)
(* The launcher starts an instance whose stage is "installed"; whenever it *)
(* can be asked to, such an instance is whole.                             *)
(***************************************************************************)
LaunchableIsWhole ==
    \A i \in Instances :
        app = "ready" /\ stage[i] = "installed" => content[i] = "whole"

Lifecycle == INSTANCE InstallLifecycle

\* The jobs implement the life cycle their statuses promise: a finished job
\* is not revived except by a retry, a canceled one never runs
RefinesLifecycle == Lifecycle!Spec

\* Every queued or running job finishes, unless the app is closed first
JobsFinish ==
    \A j \in Jobs : Active(j) ~> (~Active(j) \/ app = "down")
=============================================================================
