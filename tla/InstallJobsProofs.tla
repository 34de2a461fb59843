-------------------------- MODULE InstallJobsProofs --------------------------
(***************************************************************************)
(* Theorems about InstallJobs, for every value of its constants.           *)
(***************************************************************************)
EXTENDS InstallJobs, TLAPS

(***************************************************************************)
(* What a task knows, besides its type: a task that is about to write the  *)
(* row of its job, or that works on its instance, carries a state that can *)
(* be rolled back; one that restores a backup knows the stage to restore.  *)
(* This is what makes ActiveCanRollBack inductive, and what gives a worker *)
(* an instance.                                                            *)
(***************************************************************************)
WriterPcs   == {"queue", "claim", "cclaim"} \cup WorkPcs
RestorerPcs == {"copyback", "meta"}

CarriesUndo(k) ==
    /\ k.pc \in WriterPcs => CanRollBack(k.job, k.js)
    /\ k.pc \in RestorerPcs => k.js.rollback # "none"

TasksCarryUndo == \A t \in Tasks : Busy(t) => CarriesUndo(task[t])

IInv == TypeOK /\ ActiveCanRollBack /\ TasksCarryUndo

----------------------------------------------------------------------------
(* Type correctness *)

\* Shapes of the values a task can become
LEMMA BusyIsTyped ==
    ASSUME TypeOK, NEW t \in Tasks, Busy(t)
    PROVE  task[t] \in BusyTasks
BY DEF TypeOK, Busy

LEMMA FreshIsTyped ==
    ASSUME NEW i \in Instances \cup {None}, NEW rb \in LiveStages \cup {"none"}
    PROVE  FreshState(i, rb) \in JobState
BY DEF FreshState, JobState

LEMMA RunningIsTyped ==
    ASSUME NEW j \in Jobs, NEW p \in BusyPcs, NEW a \in Aims, NEW js \in JobState
    PROVE  Running(j, p, a, js) \in BusyTasks
BY DEF Running, BusyTasks

LEMMA CleanupDoneIsTyped ==
    ASSUME NEW k \in BusyTasks
    PROVE  CleanupDone(k) \in BusyTasks \cup {Idle}
<1>1. CASE k.aim = "undo"
  BY <1>1 DEF CleanupDone
<1>2. CASE k.aim = "reclean"
  BY <1>2 DEF CleanupDone, BusyTasks, BusyPcs
<1>3. CASE k.aim \notin {"undo", "reclean"}
  <2>1. CleanupDone(k) =
            [k EXCEPT !.pc = "finish", !.ok = TRUE,
                      !.js.inst = IF Existing(k.job) THEN @ ELSE None]
    BY <1>3 DEF CleanupDone
  <2>2. k.js \in JobState
    BY DEF BusyTasks
  <2>3. [k.js EXCEPT !.inst = IF Existing(k.job) THEN @ ELSE None] \in JobState
    BY <2>2 DEF JobState
  <2> QED BY <2>1, <2>3 DEF BusyTasks, BusyPcs
<1> QED BY <1>1, <1>2, <1>3

LEMMA CleanupFailedIsTyped ==
    ASSUME NEW k \in BusyTasks
    PROVE  CleanupFailed(k) \in BusyTasks \cup {Idle}
<1>1. [k.js EXCEPT !.rbErr = TRUE] \in JobState
  BY DEF BusyTasks, JobState
<1> QED BY <1>1 DEF CleanupFailed, BusyTasks, BusyPcs

LEMMA TerminalizeIsTyped ==
    ASSUME NEW k \in BusyTasks, NEW js \in JobState, NEW a \in Aims
    PROVE  Terminalize(k, js, a) \in BusyTasks
<1>1. [js EXCEPT !.rbErr = FALSE] \in JobState
  BY DEF JobState
<1> QED BY <1>1 DEF Terminalize, BusyTasks, BusyPcs, CleanPcs

LEMMA OnErrorIsTyped ==
    ASSUME TypeOK, NEW k \in BusyTasks
    PROVE  OnError(k) \in BusyTasks \cup {Idle}
<1> k.job \in Jobs /\ k.js \in JobState /\ saved[k.job] \in JobState
  BY DEF TypeOK, BusyTasks
<1>1. Terminalize(k, k.js, "setup") \in BusyTasks
  BY TerminalizeIsTyped DEF Aims
<1>2. Terminalize(k, saved[k.job], "fail") \in BusyTasks
  BY TerminalizeIsTyped DEF Aims
<1>3. CleanupFailed(k) \in BusyTasks \cup {Idle}
  BY CleanupFailedIsTyped
<1>4. [k EXCEPT !.pc = "strand"] \in BusyTasks
  BY DEF BusyTasks, BusyPcs
<1>5. [k EXCEPT !.pc = "clean", !.aim = "undo"] \in BusyTasks
  BY DEF BusyTasks, BusyPcs, CleanPcs, Aims
<1> QED BY <1>1, <1>2, <1>3, <1>4, <1>5 DEF OnError

\* What a step may do to the variables that several actions share
TaskTyped == task' \in [Tasks -> BusyTasks \cup {Idle}]

LEMMA BecomeIsTyped ==
    ASSUME TypeOK, NEW t \in Tasks, NEW k \in BusyTasks \cup {Idle}, Become(t, k)
    PROVE  TaskTyped
BY DEF TypeOK, Become, TaskTyped

LEMMA GotoIsTyped ==
    ASSUME TypeOK, NEW t \in Tasks, Busy(t), NEW p \in BusyPcs, Goto(t, p)
    PROVE  TaskTyped
<1>1. [task[t] EXCEPT !.pc = p] \in BusyTasks
  BY BusyIsTyped DEF BusyTasks
<1> QED BY <1>1 DEF TypeOK, Goto, TaskTyped

LEMMA FailIsTyped ==
    ASSUME TypeOK, NEW t \in Tasks, Busy(t), Fail(t)
    PROVE  TaskTyped
BY BusyIsTyped, OnErrorIsTyped, BecomeIsTyped DEF Fail

LEMMA SetStageIsTyped ==
    ASSUME TypeOK, NEW i, NEW s \in Stages, SetStage(i, s)
    PROVE  stage' \in [Instances -> Stages]
BY DEF TypeOK, SetStage

LEMMA SetContentIsTyped ==
    ASSUME TypeOK, NEW k, NEW c \in Contents, SetContent(k, c)
    PROVE  content' \in [Instances -> Contents]
BY DEF TypeOK, SetContent

LEMMA SaveStateIsTyped ==
    ASSUME TypeOK, NEW t \in Tasks, Busy(t), NEW js \in JobState,
           NEW p \in BusyPcs, SaveState(t, js, p)
    PROVE  TaskTyped /\ saved' \in [Jobs -> JobState]
<1> DEFINE k == task[t]
<1>1. k \in BusyTasks /\ k.job \in Jobs
  BY BusyIsTyped DEF BusyTasks
<1>2. [k EXCEPT !.pc = p, !.js = js] \in BusyTasks
  BY <1>1 DEF BusyTasks
<1>3. CASE ForeignKeyHolds(js)
  BY <1>1, <1>2, <1>3, BecomeIsTyped DEF SaveState, TypeOK
<1>4. CASE ~ForeignKeyHolds(js)
  BY <1>1, <1>4, FailIsTyped DEF SaveState, TypeOK
<1> QED BY <1>3, <1>4

LEMMA PrepareIsTyped ==
    ASSUME TypeOK, NEW t \in Tasks, NEW j \in Jobs, NEW i \in Instances,
           Prepare(t, j, i)
    PROVE  /\ TaskTyped
           /\ stage' \in [Instances -> Stages]
           /\ content' \in [Instances -> Contents]
<1>1. CASE ~Existing(j)
  <2>1. FreshState(i, "none") \in JobState
    BY FreshIsTyped
  <2>2. Running(j, "queue", "setup", FreshState(i, "none")) \in BusyTasks
    BY <2>1, RunningIsTyped DEF BusyPcs, Aims
  <2> QED BY <1>1, <2>2, BecomeIsTyped
      DEF Prepare, TypeOK, Stages, LiveStages, Contents
<1>2. CASE Existing(j)
  <2>1. stage[i] \in LiveStages
    BY <1>2 DEF Prepare, Live
  <2>2. FreshState(i, stage[i]) \in JobState
    BY <2>1, FreshIsTyped
  <2>3. Running(j, "queue", "setup", FreshState(i, stage[i])) \in BusyTasks
    BY <2>2, RunningIsTyped DEF BusyPcs, Aims
  <2> QED BY <1>2, <2>3, BecomeIsTyped DEF Prepare, TypeOK
<1> QED BY <1>1, <1>2

LEMMA InitIsTyped == Init => TypeOK
<1> SUFFICES ASSUME Init PROVE TypeOK
  OBVIOUS
<1>1. saved \in [Jobs -> JobState]
  BY FreshIsTyped DEF Init
<1> QED BY <1>1, ConstantsAssumption
    DEF Init, TypeOK, Statuses, Stages, LiveStages, Contents, Bounded

\* The commands and the recovery give a task its work
LEMMA StartIsTyped ==
    ASSUME TypeOK, NEW t \in Tasks, NEW j \in Jobs, NEW i \in Instances,
           Start(t, j, i)
    PROVE  TypeOK'
BY PrepareIsTyped DEF Start, TypeOK, TaskTyped, db, boot

LEMMA CommandIsTyped ==
    ASSUME TypeOK, NEW t \in Tasks, NEW j \in Jobs,
           Retry(t, j) \/ Cancel(t, j) \/ Recover(t, j)
    PROVE  TypeOK'
<1>2. CASE Retry(t, j)
  <2>1. saved[j] \in JobState
    BY DEF TypeOK
  <2>2. Running(j, IF saved[j].rbErr THEN "clean" ELSE "prepare", "reclean",
                saved[j]) \in BusyTasks
    BY <2>1, RunningIsTyped DEF BusyPcs, CleanPcs, Aims
  <2> QED BY <1>2, <2>2, BecomeIsTyped
      DEF Retry, TypeOK, TaskTyped, db, disk, boot
<1>3. CASE Cancel(t, j)
  <2>1. saved[j] \in JobState
    BY DEF TypeOK
  <2>2. Running(j, "cclaim", "cancel", saved[j]) \in BusyTasks
    BY <2>1, RunningIsTyped DEF BusyPcs, Aims
  <2> QED BY <1>3, <2>2, BecomeIsTyped
      DEF Cancel, TypeOK, TaskTyped, db, disk, boot
<1>4. CASE Recover(t, j)
  <2>1. todo[j] \in JobState
    BY <1>4 DEF Recover, TypeOK
  <2>2. Running(j, "clean", "recover", todo[j]) \in BusyTasks
    BY <2>1, RunningIsTyped DEF BusyPcs, CleanPcs, Aims
  <2>3. TaskTyped
    BY <1>4, <2>2, BecomeIsTyped DEF Recover
  <2> QED BY <1>4, <2>3 DEF Recover, TypeOK, TaskTyped, db, disk
<1> QED BY <1>2, <1>3, <1>4

LEMMA StepIsTyped ==
    ASSUME TypeOK, TasksCarryUndo, NEW t \in Tasks,
           Step(t) \/ Permit(t) \/ WorkError(t)
    PROVE  TypeOK'
<1> DEFINE k == task[t]
<1>b. Busy(t)
  BY DEF Step, RetryPrepare, Queue, Lock, Claim, Backup, Persist, Begin, Apply,
         Complete, Strand, Clean, RemoveDir, CopyBack, RestoreMetadata, Finish,
         ClearStaging, Permit, WorkError, At
<1>k. k \in BusyTasks /\ k.job \in Jobs /\ k.js \in JobState
  BY <1>b, BusyIsTyped DEF BusyTasks
<1>s. saved[k.job] \in JobState
  BY <1>k DEF TypeOK
<1>i. Idle \in BusyTasks \cup {Idle}
  OBVIOUS
<1>1. CASE RetryPrepare(t)
  BY <1>1, <1>k, <1>i, PrepareIsTyped, BecomeIsTyped
     DEF RetryPrepare, TypeOK, TaskTyped, db, boot
<1>2. CASE Queue(t)
  <2>1. TaskTyped
    BY <1>2, <1>b, GotoIsTyped, FailIsTyped DEF Queue, BusyPcs
  <2> QED BY <1>2, <1>k, <2>1 DEF Queue, TypeOK, TaskTyped, db, disk, boot, Statuses
<1>3. CASE Lock(t)
  <2>1. TaskTyped
    BY <1>3, <1>b, GotoIsTyped DEF Lock, BusyPcs, WorkPcs
  <2>2. stage' \in [Instances -> Stages]
    BY <1>3, SetStageIsTyped DEF Lock, Stages, LiveStages
  <2> QED BY <1>3, <2>1, <2>2 DEF Lock, TypeOK, TaskTyped, db, disk, boot
<1>4. CASE Claim(t)
  <2>1. TaskTyped
    <3>1. CASE Goto(t, AfterClaim(k))
      <4>1. AfterClaim(k) \in BusyPcs
        BY DEF AfterClaim, BusyPcs, WorkPcs, CleanPcs
      <4> QED BY <1>b, <3>1, <4>1, GotoIsTyped
    <3> QED BY <1>4, <1>b, <1>i, <3>1, BecomeIsTyped, FailIsTyped DEF Claim
  <2> QED BY <1>4, <1>k, <2>1 DEF Claim, TypeOK, TaskTyped, db, disk, boot, Statuses
<1>5. CASE Backup(t)
  <2>1. TaskTyped
    BY <1>5, <1>b, GotoIsTyped DEF Backup, BusyPcs, WorkPcs
  <2>2. k.js.inst \in Instances
    BY <1>5, <1>b, <1>k
       DEF Backup, At, TasksCarryUndo, CarriesUndo, WriterPcs, WorkPcs, CanRollBack,
           JobState
  <2>3. backup' \in [Jobs -> Contents]
    BY <1>5, <1>k, <2>2 DEF Backup, TypeOK
  <2> QED BY <1>5, <2>1, <2>3 DEF Backup, TypeOK, TaskTyped, db, boot
<1>6. CASE Persist(t)
  <2>1. [k.js EXCEPT !.staged = TRUE] \in JobState
    BY <1>k DEF JobState
  <2> QED BY <1>6, <1>b, <2>1, SaveStateIsTyped
      DEF Persist, TypeOK, TaskTyped, disk, boot, BusyPcs, WorkPcs
<1>7. CASE Begin(t)
  <2>1. TaskTyped /\ saved' \in [Jobs -> JobState]
    BY <1>7, <1>b, <1>k, SaveStateIsTyped DEF Begin, BusyPcs, WorkPcs
  <2>2. stage' \in [Instances -> Stages]
    BY <1>7, SetStageIsTyped DEF Begin, Stages, LiveStages
  <2>3. content' \in [Instances -> Contents]
    BY <1>7, SetContentIsTyped DEF Begin, Contents
  <2> QED BY <1>7, <2>1, <2>2, <2>3 DEF Begin, TypeOK, TaskTyped, boot
<1>8. CASE Apply(t)
  <2>1. TaskTyped /\ saved' \in [Jobs -> JobState]
    BY <1>8, <1>b, <1>k, SaveStateIsTyped DEF Apply, BusyPcs
  <2>2. content' \in [Instances -> Contents]
    BY <1>8, SetContentIsTyped DEF Apply, Contents
  <2> QED BY <1>8, <2>1, <2>2 DEF Apply, TypeOK, TaskTyped, boot
<1>9. CASE Complete(t)
  <2> DEFINE js == [saved[k.job] EXCEPT !.inst = k.js.inst, !.rbErr = FALSE]
  <2>1. js \in JobState
    BY <1>k, <1>s DEF JobState
  <2>2. [k EXCEPT !.pc = "clear", !.aim = "success", !.js = js] \in BusyTasks
    BY <1>k, <2>1 DEF BusyTasks, BusyPcs, Aims
  <2>3. CASE status[k.job] = "running" /\ Live(js.inst)
    <3>1. stage' \in [Instances -> Stages]
      BY <1>9, <2>3, SetStageIsTyped DEF Complete, Stages, LiveStages
    <3>2. TaskTyped
      BY <1>9, <2>2, <2>3, BecomeIsTyped DEF Complete
    <3> QED BY <1>9, <1>k, <2>1, <2>3, <3>1, <3>2
        DEF Complete, TypeOK, TaskTyped, disk, boot, Statuses
  <2>4. CASE ~(status[k.job] = "running" /\ Live(js.inst))
    <3>1. TaskTyped
      BY <1>9, <1>b, <1>i, <2>4, BecomeIsTyped, FailIsTyped DEF Complete
    <3> QED BY <1>9, <2>4, <3>1 DEF Complete, TypeOK, TaskTyped, db, disk, boot
  <2> QED BY <2>3, <2>4
<1>10. CASE Strand(t)
  <2>1. Terminalize(k, saved[k.job], "strand") \in BusyTasks
    BY <1>k, <1>s, TerminalizeIsTyped DEF Aims
  <2>2. TaskTyped
    BY <1>10, <1>i, <2>1, BecomeIsTyped DEF Strand
  <2> QED BY <1>10, <2>2 DEF Strand, TypeOK, TaskTyped, db, disk, boot
<1>c. CleanupDone(k) \in BusyTasks \cup {Idle}
  BY <1>k, CleanupDoneIsTyped
<1>11. CASE Clean(t)
  <2>1. TaskTyped
    BY <1>11, <1>b, <1>c, GotoIsTyped, BecomeIsTyped, FailIsTyped
       DEF Clean, BusyPcs, CleanPcs
  <2>2. content' \in [Instances -> Contents]
    BY <1>11, SetContentIsTyped DEF Clean, TypeOK, Contents
  <2>3. k.js.rollback # "none" => k.js.rollback \in Stages
    BY <1>k DEF JobState, Stages
  <2>4. stage' \in [Instances -> Stages]
    BY <1>11, <2>3, SetStageIsTyped DEF Clean, TypeOK, Stages
  <2> QED BY <1>11, <2>1, <2>2, <2>4 DEF Clean, TypeOK, TaskTyped, db, boot
<1>12. CASE RemoveDir(t)
  <2>1. TaskTyped
    BY <1>12, <1>c, BecomeIsTyped DEF RemoveDir
  <2> QED BY <1>12, <2>1 DEF RemoveDir, TypeOK, TaskTyped, db, boot, Contents
<1>13. CASE CopyBack(t)
  <2>1. TaskTyped
    BY <1>13, <1>b, GotoIsTyped, FailIsTyped DEF CopyBack, BusyPcs, CleanPcs
  <2>2. content' \in [Instances -> Contents]
    BY <1>13, <1>k, SetContentIsTyped DEF CopyBack, TypeOK
  <2> QED BY <1>13, <2>1, <2>2 DEF CopyBack, TypeOK, TaskTyped, db, boot
<1>14. CASE RestoreMetadata(t)
  <2>1. TaskTyped
    BY <1>14, <1>b, <1>c, BecomeIsTyped, FailIsTyped DEF RestoreMetadata
  <2>2. k.js.rollback \in Stages
    BY <1>14, <1>b, <1>k
       DEF RestoreMetadata, At, TasksCarryUndo, CarriesUndo, RestorerPcs, JobState, Stages
  <2>3. stage' \in [Instances -> Stages]
    BY <1>14, <2>2, SetStageIsTyped DEF RestoreMetadata
  <2> QED BY <1>14, <2>1, <2>3 DEF RestoreMetadata, TypeOK, TaskTyped, db, disk, boot
<1>15. CASE Finish(t)
  <2>1. TaskTyped
    BY <1>15, <1>b, <1>i, GotoIsTyped, BecomeIsTyped, FailIsTyped
       DEF Finish, BusyPcs
  <2>2. EndStatus(k) \in Statuses
    BY DEF EndStatus, Statuses
  <2> QED BY <1>15, <1>k, <2>1, <2>2 DEF Finish, TypeOK, TaskTyped, db, disk, boot
<1>16. CASE ClearStaging(t)
  <2>1. TaskTyped
    BY <1>16, <1>b, <1>i, GotoIsTyped, BecomeIsTyped DEF ClearStaging, BusyPcs
  <2> QED BY <1>16, <2>1 DEF ClearStaging, TypeOK, TaskTyped, db, boot, Contents
<1>17. CASE Permit(t)
  <2>1. Running(k.job, "claim", "fail", saved[k.job]) \in BusyTasks
    BY <1>k, <1>s, RunningIsTyped DEF BusyPcs, Aims
  <2>2. TaskTyped
    BY <1>17, <1>i, <2>1, BecomeIsTyped DEF Permit
  <2> QED BY <1>17, <2>2 DEF Permit, TypeOK, TaskTyped, db, disk, boot
<1>18. CASE WorkError(t)
  BY <1>18, <1>b, FailIsTyped DEF WorkError, TypeOK, TaskTyped, db, disk, boot
<1> QED BY <1>1, <1>2, <1>3, <1>4, <1>5, <1>6, <1>7, <1>8, <1>9, <1>10, <1>11,
           <1>12, <1>13, <1>14, <1>15, <1>16, <1>17, <1>18 DEF Step

\* What happens to the process and to its instances from outside
LEMMA EnvironmentIsTyped ==
    ASSUME TypeOK,
           \/ Restart \/ Reload \/ InitReturns \/ Crash
           \/ \E t \in Tasks : Fault(t)
           \/ \E i \in Instances : RemoveInstance(i)
    PROVE  TypeOK'
<1>1. Candidates \in [Jobs -> JobState \cup {Nothing}]
  BY DEF TypeOK, Candidates
<1>2. ASSUME NEW what, NEW limit, what \in Bounded, Spend(what, limit)
      PROVE  spent' \in [Bounded -> Nat]
  BY <1>2 DEF TypeOK, Spend
<1>3. CASE Restart
  BY <1>1, <1>3 DEF Restart, TypeOK, db, disk
<1>4. CASE Reload
  BY <1>1, <1>2, <1>4 DEF Reload, TypeOK, db, disk, Bounded
<1>5. CASE InitReturns
  BY <1>5 DEF InitReturns, TypeOK, db, disk
<1>6. CASE Crash
  BY <1>2, <1>6 DEF Crash, TypeOK, db, disk, Bounded
<1>7. ASSUME NEW t \in Tasks, Fault(t) PROVE TypeOK'
  BY <1>2, <1>7, FailIsTyped DEF Fault, TypeOK, TaskTyped, db, disk, boot, Bounded
<1>8. ASSUME NEW i \in Instances, RemoveInstance(i) PROVE TypeOK'
  BY <1>2, <1>8 DEF RemoveInstance, TypeOK, db, boot, Bounded, Stages, Contents
<1> QED BY <1>3, <1>4, <1>5, <1>6, <1>7, <1>8

LEMMA NextIsTyped ==
    ASSUME TypeOK, TasksCarryUndo, [Next]_vars
    PROVE  TypeOK'
<1>1. CASE UNCHANGED vars
  BY <1>1 DEF vars, TypeOK
<1>2. CASE Next
  <2>1. ASSUME NEW t \in Tasks, NEW j \in Jobs, NEW i \in Instances, Start(t, j, i)
        PROVE  TypeOK'
    BY <2>1, StartIsTyped
  <2>2. ASSUME NEW t \in Tasks, NEW j \in Jobs,
               Retry(t, j) \/ Cancel(t, j) \/ Recover(t, j)
        PROVE  TypeOK'
    BY <2>2, CommandIsTyped
  <2>3. ASSUME NEW t \in Tasks, Step(t) \/ Permit(t) \/ WorkError(t)
        PROVE  TypeOK'
    BY <2>3, StepIsTyped
  <2>4. CASE \/ Restart \/ Reload \/ InitReturns \/ Crash
             \/ \E t \in Tasks : Fault(t)
             \/ \E i \in Instances : RemoveInstance(i)
    BY <2>4, EnvironmentIsTyped
  <2> QED BY <1>2, <2>1, <2>2, <2>3, <2>4 DEF Next, RecoverNext
<1> QED BY <1>1, <1>2

----------------------------------------------------------------------------
(* Every active job can be rolled back *)

\* A task that becomes idle or carries what it must leaves the others as they are
LEMMA BecomeCarries ==
    ASSUME TypeOK, TasksCarryUndo, NEW t \in Tasks, NEW k, Become(t, k),
           k = Idle \/ CarriesUndo(k)
    PROVE  TasksCarryUndo'
BY DEF TypeOK, Become, TasksCarryUndo, CarriesUndo, CanRollBack, Existing, Busy

\* After an error a task writes neither the row nor the instance
LEMMA FailCarries ==
    ASSUME TypeOK, TasksCarryUndo, NEW t \in Tasks, Busy(t), Fail(t)
    PROVE  TasksCarryUndo'
<1> DEFINE k == task[t]
<1>1. k \in BusyTasks
  BY BusyIsTyped
<1> QED BY <1>1, BecomeCarries
    DEF Fail, OnError, CleanupFailed, Terminalize, BusyTasks, BusyPcs, CarriesUndo,
        WriterPcs, RestorerPcs, WorkPcs, CleanPcs

\* A task that goes on carries the state it carried
LEMMA GotoCarries ==
    ASSUME TypeOK, TasksCarryUndo, NEW t \in Tasks, Busy(t), NEW p, Goto(t, p),
           p \in WriterPcs => CanRollBack(task[t].job, task[t].js),
           p \in RestorerPcs => task[t].js.rollback # "none"
    PROVE  TasksCarryUndo'
<1>1. task[t] \in BusyTasks
  BY BusyIsTyped
<1>2. Become(t, [task[t] EXCEPT !.pc = p])
  BY DEF Goto, Become
<1>3. CarriesUndo([task[t] EXCEPT !.pc = p])
  BY <1>1 DEF CarriesUndo, BusyTasks
<1> QED BY <1>2, <1>3, BecomeCarries

\* The instance is prepared with a state that says how to undo the job
LEMMA PrepareCarries ==
    ASSUME TypeOK, TasksCarryUndo, NEW t \in Tasks, NEW j \in Jobs,
           NEW i \in Instances, Prepare(t, j, i)
    PROVE  TasksCarryUndo'
<1>1. i # None
  BY ConstantsAssumption
<1>2. CASE ~Existing(j)
  <2>1. CarriesUndo(Running(j, "queue", "setup", FreshState(i, "none")))
    BY <1>1, <1>2
       DEF CarriesUndo, Running, FreshState, CanRollBack, RestorerPcs
  <2> QED BY <1>2, <2>1, BecomeCarries DEF Prepare
<1>3. CASE Existing(j)
  <2>1. stage[i] # "none"
    BY <1>3 DEF Prepare, Live, LiveStages
  <2>2. CarriesUndo(Running(j, "queue", "setup", FreshState(i, stage[i])))
    BY <1>1, <2>1 DEF CarriesUndo, Running, FreshState, CanRollBack, RestorerPcs
  <2> QED BY <1>3, <2>2, BecomeCarries DEF Prepare
<1> QED BY <1>2, <1>3

\* A write of the row by a worker
LEMMA SaveStateCarries ==
    ASSUME IInv, NEW t \in Tasks, Busy(t), NEW js, NEW p, SaveState(t, js, p),
           CanRollBack(task[t].job, js), p \notin RestorerPcs, UNCHANGED status
    PROVE  TasksCarryUndo' /\ ActiveCanRollBack'
<1> DEFINE k == task[t]
<1>1. k \in BusyTasks /\ k.job \in Jobs
  BY BusyIsTyped DEF BusyTasks, IInv
<1>2. CASE ForeignKeyHolds(js)
  <2>1. CarriesUndo([k EXCEPT !.pc = p, !.js = js])
    BY <1>1 DEF CarriesUndo, BusyTasks
  <2>2. TasksCarryUndo'
    BY <1>2, <2>1, BecomeCarries DEF SaveState, IInv
  <2>3. ActiveCanRollBack'
    BY <1>1, <1>2
       DEF SaveState, IInv, TypeOK, ActiveCanRollBack, Active, CanRollBack, Existing
  <2> QED BY <2>2, <2>3
<1>3. CASE ~ForeignKeyHolds(js)
  BY <1>3, FailCarries
     DEF SaveState, IInv, ActiveCanRollBack, Active, CanRollBack, Existing
<1> QED BY <1>2, <1>3

\* Steps that leave the rows of the jobs alone
LEMMA RowsKept ==
    ASSUME ActiveCanRollBack, UNCHANGED db
    PROVE  ActiveCanRollBack'
BY DEF ActiveCanRollBack, Active, CanRollBack, Existing, db

LEMMA TasksKept ==
    ASSUME TasksCarryUndo, UNCHANGED task
    PROVE  TasksCarryUndo'
BY DEF TasksCarryUndo, CarriesUndo, CanRollBack, Existing, Busy

\* The commands and the recovery.  A cancel reads the row of a queued job.
LEMMA CommandCarries ==
    ASSUME IInv, NEW t \in Tasks, NEW j \in Jobs,
           \/ \E i \in Instances : Start(t, j, i)
           \/ Retry(t, j) \/ Cancel(t, j) \/ Recover(t, j)
    PROVE  ActiveCanRollBack' /\ TasksCarryUndo'
<1> USE DEF IInv
<1>1. ActiveCanRollBack'
  BY RowsKept DEF Start, Retry, Cancel, Recover
<1>2. ASSUME NEW i \in Instances, Start(t, j, i) PROVE TasksCarryUndo'
  BY <1>2, PrepareCarries DEF Start
<1>3. CASE Retry(t, j)
  BY <1>1, <1>3, BecomeCarries
     DEF Retry, Running, CarriesUndo, WriterPcs, RestorerPcs, WorkPcs
<1>4. CASE Cancel(t, j)
  <2>1. CanRollBack(j, saved[j])
    BY <1>4 DEF Cancel, ActiveCanRollBack, Active, ActiveStatuses
  <2>2. CarriesUndo(Running(j, "cclaim", "cancel", saved[j]))
    BY <2>1 DEF Running, CarriesUndo, RestorerPcs
  <2> QED BY <1>1, <1>4, <2>2, BecomeCarries DEF Cancel
<1>5. CASE Recover(t, j)
  BY <1>1, <1>5, BecomeCarries
     DEF Recover, Running, CarriesUndo, WriterPcs, RestorerPcs, WorkPcs
<1> QED BY <1>1, <1>2, <1>3, <1>4, <1>5

LEMMA StepCarries ==
    ASSUME IInv, NEW t \in Tasks, Step(t) \/ Permit(t) \/ WorkError(t) \/ Fault(t)
    PROVE  ActiveCanRollBack' /\ TasksCarryUndo'
<1> USE DEF IInv
<1> DEFINE k == task[t]
<1>b. Busy(t)
  BY DEF Step, RetryPrepare, Queue, Lock, Claim, Backup, Persist, Begin, Apply,
         Complete, Strand, Clean, RemoveDir, CopyBack, RestoreMetadata, Finish,
         ClearStaging, Permit, WorkError, Fault, At
<1>k. k \in BusyTasks /\ k.job \in Jobs
  BY <1>b, BusyIsTyped DEF BusyTasks
<1>c. CarriesUndo(k)
  BY <1>b DEF TasksCarryUndo
<1>w. k.pc \in WriterPcs => CanRollBack(k.job, k.js)
  BY <1>c DEF CarriesUndo
<1>d. CarriesUndo(CleanupDone(k)) \/ CleanupDone(k) = Idle
  BY <1>k DEF CleanupDone, CarriesUndo, WriterPcs, WorkPcs, RestorerPcs, BusyTasks
<1>1. CASE RetryPrepare(t)
  <2>1. ActiveCanRollBack'
    BY <1>1, RowsKept DEF RetryPrepare
  <2> QED BY <1>1, <1>k, <2>1, PrepareCarries, BecomeCarries DEF RetryPrepare
<1>2. CASE Queue(t)
  <2>1. TasksCarryUndo'
    BY <1>2, <1>b, GotoCarries, FailCarries
       DEF Queue, WriterPcs, WorkPcs, RestorerPcs
  <2>2. CanRollBack(k.job, k.js)
    BY <1>2, <1>w DEF Queue, At, WriterPcs
  <2> QED BY <1>2, <1>k, <2>1, <2>2
      DEF Queue, TypeOK, db, ActiveCanRollBack, Active, CanRollBack, Existing
<1>3. CASE Lock(t)
  <2>1. ActiveCanRollBack'
    BY <1>3, RowsKept DEF Lock
  <2>2. CASE At(t, "lock")
    BY <1>3, <1>b, <2>1, <2>2, GotoCarries
       DEF Lock, At, WriterPcs, WorkPcs, RestorerPcs
  <2>3. CASE At(t, "relock")
    BY <1>3, <1>b, <1>w, <2>1, <2>3, GotoCarries
       DEF Lock, At, WriterPcs, WorkPcs, RestorerPcs
  <2> QED BY <1>3, <2>2, <2>3 DEF Lock
<1>4. CASE Claim(t)
  <2>1. CanRollBack(k.job, k.js)
    BY <1>4, <1>w DEF Claim, At, WriterPcs
  <2>2. ActiveCanRollBack'
    BY <1>4, <1>k, <2>1
       DEF Claim, TypeOK, db, ActiveCanRollBack, Active, ActiveStatuses, CanRollBack,
           Existing
  <2>3. CASE Become(t, Idle)
    BY <2>2, <2>3, BecomeCarries
  <2>4. CASE Goto(t, AfterClaim(k))
    BY <1>b, <2>1, <2>2, <2>4, GotoCarries DEF AfterClaim, RestorerPcs
  <2>5. CASE Fail(t)
    BY <1>b, <2>2, <2>5, FailCarries
  <2> QED BY <1>4, <2>3, <2>4, <2>5 DEF Claim
<1>5. CASE Backup(t)
  BY <1>5, <1>b, <1>w, RowsKept, GotoCarries
     DEF Backup, At, WriterPcs, WorkPcs, RestorerPcs
<1>6. CASE Persist(t)
  <2>1. CanRollBack(k.job, [k.js EXCEPT !.staged = TRUE])
    BY <1>6, <1>k, <1>w
       DEF Persist, At, WriterPcs, WorkPcs, CanRollBack, BusyTasks, JobState
  <2> QED BY <1>6, <1>b, <2>1, SaveStateCarries DEF Persist, RestorerPcs
<1>7. CASE Begin(t)
  BY <1>7, <1>b, <1>w, SaveStateCarries
     DEF Begin, At, WriterPcs, WorkPcs, RestorerPcs
<1>8. CASE Apply(t)
  BY <1>8, <1>b, <1>w, SaveStateCarries
     DEF Apply, At, WriterPcs, WorkPcs, RestorerPcs
<1>9. CASE Complete(t)
  <2> DEFINE js == [saved[k.job] EXCEPT !.inst = k.js.inst, !.rbErr = FALSE]
  <2>1. CarriesUndo([k EXCEPT !.pc = "clear", !.aim = "success", !.js = js])
    BY <1>k DEF CarriesUndo, WriterPcs, WorkPcs, RestorerPcs, BusyTasks
  <2>2. TasksCarryUndo'
    BY <1>9, <1>b, <2>1, BecomeCarries, FailCarries DEF Complete
  <2>3. ActiveCanRollBack'
    BY <1>9, <1>k
       DEF Complete, TypeOK, db, ActiveCanRollBack, Active, ActiveStatuses,
           CanRollBack, Existing
  <2> QED BY <2>2, <2>3
<1>10. CASE Strand(t)
  <2>1. CarriesUndo(Terminalize(k, saved[k.job], "strand"))
    BY <1>k DEF Terminalize, CarriesUndo, WriterPcs, WorkPcs, RestorerPcs, BusyTasks
  <2> QED BY <1>10, <2>1, RowsKept, BecomeCarries DEF Strand
<1>11. CASE Clean(t)
  BY <1>11, <1>b, <1>d, RowsKept, GotoCarries, BecomeCarries, FailCarries
     DEF Clean, WriterPcs, WorkPcs, RestorerPcs
<1>12. CASE RemoveDir(t)
  BY <1>12, <1>d, RowsKept, BecomeCarries DEF RemoveDir
<1>13. CASE CopyBack(t)
  BY <1>13, <1>b, <1>c, RowsKept, GotoCarries, FailCarries
     DEF CopyBack, At, CarriesUndo, WriterPcs, WorkPcs, RestorerPcs
<1>14. CASE RestoreMetadata(t)
  BY <1>14, <1>b, <1>d, RowsKept, BecomeCarries, FailCarries DEF RestoreMetadata
<1>15. CASE Finish(t)
  <2>1. TasksCarryUndo'
    BY <1>15, <1>b, GotoCarries, BecomeCarries, FailCarries
       DEF Finish, WriterPcs, WorkPcs, RestorerPcs
  <2>2. EndStatus(k) \notin ActiveStatuses
    BY DEF EndStatus, ActiveStatuses
  <2>3. ActiveCanRollBack'
    BY <1>15, <1>k, <2>2
       DEF Finish, TypeOK, db, ActiveCanRollBack, Active, CanRollBack, Existing
  <2> QED BY <2>1, <2>3
<1>16. CASE ClearStaging(t)
  BY <1>16, <1>b, RowsKept, GotoCarries, BecomeCarries
     DEF ClearStaging, WriterPcs, WorkPcs, RestorerPcs
<1>17. CASE Permit(t)
  <2>1. status[k.job] = "queued" => CanRollBack(k.job, saved[k.job])
    BY <1>k DEF ActiveCanRollBack, Active, ActiveStatuses
  <2>2. status[k.job] = "queued" =>
            CarriesUndo(Running(k.job, "claim", "fail", saved[k.job]))
    BY <2>1 DEF Running, CarriesUndo, RestorerPcs
  <2> QED BY <1>17, <2>2, RowsKept, BecomeCarries DEF Permit
<1>18. CASE WorkError(t) \/ Fault(t)
  BY <1>18, <1>b, RowsKept, FailCarries DEF WorkError, Fault
<1> QED BY <1>1, <1>2, <1>3, <1>4, <1>5, <1>6, <1>7, <1>8, <1>9, <1>10, <1>11,
           <1>12, <1>13, <1>14, <1>15, <1>16, <1>17, <1>18 DEF Step

\* A crash empties every task; the others touch neither rows nor tasks
LEMMA EnvironmentCarries ==
    ASSUME IInv,
           \/ Restart \/ Reload \/ InitReturns \/ Crash
           \/ \E i \in Instances : RemoveInstance(i)
    PROVE  ActiveCanRollBack' /\ TasksCarryUndo'
<1> USE DEF IInv
<1>1. ActiveCanRollBack'
  BY RowsKept DEF Restart, Reload, InitReturns, Crash, RemoveInstance
<1>2. CASE Crash
  BY <1>1, <1>2 DEF Crash, TasksCarryUndo, Busy
<1>3. CASE \/ Restart \/ Reload \/ InitReturns
           \/ \E i \in Instances : RemoveInstance(i)
  BY <1>1, <1>3, TasksKept DEF Restart, Reload, InitReturns, RemoveInstance
<1> QED BY <1>2, <1>3

\* IInv is inductive
LEMMA InvariantKept ==
    ASSUME IInv, [Next]_vars
    PROVE  IInv'
<1>1. TypeOK'
  BY NextIsTyped DEF IInv
<1>2. ActiveCanRollBack' /\ TasksCarryUndo'
  <2>1. CASE UNCHANGED vars
    BY <2>1, RowsKept, TasksKept DEF vars, db, IInv
  <2>2. ASSUME NEW t \in Tasks, NEW j \in Jobs,
               \/ \E i \in Instances : Start(t, j, i)
               \/ Retry(t, j) \/ Cancel(t, j) \/ Recover(t, j)
        PROVE  ActiveCanRollBack' /\ TasksCarryUndo'
    BY <2>2, CommandCarries
  <2>3. ASSUME NEW t \in Tasks, Step(t) \/ Permit(t) \/ WorkError(t) \/ Fault(t)
        PROVE  ActiveCanRollBack' /\ TasksCarryUndo'
    BY <2>3, StepCarries
  <2>4. CASE \/ Restart \/ Reload \/ InitReturns \/ Crash
             \/ \E i \in Instances : RemoveInstance(i)
    BY <2>4, EnvironmentCarries
  <2> QED BY <2>1, <2>2, <2>3, <2>4 DEF Next, RecoverNext
<1> QED BY <1>1, <1>2 DEF IInv

THEOREM InvariantHolds == Spec => []IInv
<1>1. Init => IInv
  <2> SUFFICES ASSUME Init PROVE IInv
    OBVIOUS
  <2>1. ActiveCanRollBack
    BY DEF Init, ActiveCanRollBack, Active, ActiveStatuses
  <2>2. TasksCarryUndo
    BY DEF Init, TasksCarryUndo, Busy
  <2> QED BY <2>1, <2>2, InitIsTyped DEF IInv
<1>2. IInv /\ [Next]_vars => IInv'
  BY InvariantKept
<1> QED BY <1>1, <1>2, PTL DEF Spec

(***************************************************************************)
(* Every variable keeps its type: in particular no step of a worker, a     *)
(* cancel or a recovery uses an instance the job does not have.            *)
(***************************************************************************)
THEOREM TypeCorrect == Spec => []TypeOK
BY InvariantHolds, PTL DEF IInv

(***************************************************************************)
(* Whatever the user, the crashes, the reloads, the faults and the         *)
(* removals, a job that is queued or running has in its row what the       *)
(* recovery needs to undo it.                                              *)
(***************************************************************************)
THEOREM ActiveJobsCanRollBack == Spec => []ActiveCanRollBack
BY InvariantHolds, PTL DEF IInv

----------------------------------------------------------------------------
(* Who may act on a job.  What follows holds for every number of jobs,      *)
(* instances and tasks, every kind of job, every crash and every removal of *)
(* an instance, but not for every use.                                      *)

(***************************************************************************)
(* The world the theorems are about.  Each part is needed: a command that  *)
(* does not wait for the one before it, a reload of the web view under a   *)
(* running worker and a failing statement each give a job two owners.      *)
(***************************************************************************)
Calm == User # "any" /\ MaxFaults = 0 /\ MaxReloads = 0

\* The task of a command that has not returned
Handling(k) ==
    k.aim \in {"setup", "undo", "reclean", "cancel"} /\ k.pc \notin {"wait", "strand"}

\* The setup of a job or its worker, as long as the job is not over
Line(k) == k.aim # "cancel" /\ (k.pc = "clear" => k.aim = "reclean")

\* The setup before it has written the row
Preparing(k) == k.aim \in {"undo", "reclean"} \/ k.pc = "queue"

\* Owns, and a worker that is about to be found stranded
Owner(k) ==
    \/ k.pc \in WorkPcs \cup {"done", "strand"}
    \/ k.pc \in CleanPcs \cup {"finish"} /\ k.aim \in {"fail", "strand", "cancel", "recover"}

Unsubmitted == {"none", "failed", "interrupted"}

\* The instance of the state js was deleted
Lost(js, sg) == js.inst # None /\ sg[js.inst] = "gone"

\* Which command or worker can be where
Placed(k) ==
    /\ k.pc = "prepare" => k.aim = "reclean"
    /\ k.pc \in {"queue", "lock", "wait"} <=> k.aim = "setup"
    /\ k.pc \in {"claim", "done", "strand"} \cup WorkPcs => k.aim = "fail"
    /\ k.pc = "finish" => k.aim \in {"fail", "strand", "cancel", "recover"}
    /\ k.aim = "success" => k.pc = "clear"
    /\ k.aim = "undo" => k.pc \in CleanPcs
    /\ k.pc = "cclaim" => k.aim = "cancel"
    /\ k.aim = "cancel" => /\ k.pc \in {"cclaim", "clean", "rmdir", "finish", "clear"}
                           /\ ~k.js.staged
                           /\ k.pc = "finish" => k.ok

(***************************************************************************)
(* What a task k knows of its job when the rows say st and sv, the stages  *)
(* are sg and the app is ap.                                               *)
(***************************************************************************)
Fits(k, st, sv, sg, ap) ==
    /\ Placed(k)
    /\ ap # "down" /\ (ap = "ready" <=> k.aim # "recover")
    /\ Preparing(k) => st[k.job] \in Unsubmitted
    /\ Line(k) /\ ~Preparing(k) /\ k.aim # "recover" => st[k.job] \notin Unsubmitted
    /\ Owner(k) /\ k.aim # "recover" =>
          \/ st[k.job] = "running"
          \/ /\ st[k.job] = "queued" /\ Lost(sv[k.job], sg)
             /\ k.pc = "strand" \/ k.aim = "strand"
    /\ k.pc \in {"claim", "cclaim"} /\ st[k.job] = "queued" =>
          k.js.inst = sv[k.job].inst
    /\ k.pc = "queue" => ~k.js.staged /\ sg[k.js.inst] # "unused"

\* Two tasks of one job: one command, one setup or worker, one owner
Apart(k, l) ==
    /\ ~(Handling(k) /\ Handling(l))
    /\ ~(Line(k) /\ Line(l))
    /\ ~(Owner(k) /\ Owner(l))

\* The row of a queued job has nothing to restore yet, and an instance that
\* was created
Ordered(js, sg) == ~js.staged /\ sg[js.inst] # "unused"

TasksFit == \A t \in Tasks : Busy(t) => Fits(task[t], status, saved, stage, app)

TasksApart ==
    \A t, u \in Tasks :
        Busy(t) /\ Busy(u) /\ t # u =>
            /\ app # "ready" => FALSE
            /\ task[t].job = task[u].job => Apart(task[t], task[u])

RowsOrdered == \A j \in Jobs : status[j] = "queued" => Ordered(saved[j], stage)

OwnersInv == IInv /\ TasksFit /\ TasksApart /\ RowsOrdered

----------------------------------------------------------------------------
(* The tasks and the rows a step does not write *)

\* No step takes an instance back to before it was created, or revives one
Forward(sg, sg2) ==
    \A i \in Instances : /\ sg[i] # "unused" => sg2[i] # "unused"
                         /\ sg[i] = "gone" => sg2[i] = "gone"

LEMMA PreparingIsHandling ==
    ASSUME NEW k, Placed(k), Preparing(k)
    PROVE  Handling(k) /\ Line(k)
BY DEF Placed, Preparing, Handling, Line, WorkPcs, CleanPcs

LEMMA SetStageForward ==
    ASSUME TypeOK, NEW i, NEW s \in LiveStages, SetStage(i, s)
    PROVE  Forward(stage, stage')
BY DEF TypeOK, SetStage, Live, LiveStages, Forward

LEMMA PrepareForward ==
    ASSUME TypeOK, NEW t, NEW j, NEW i, Prepare(t, j, i)
    PROVE  Forward(stage, stage')
BY DEF TypeOK, Prepare, Forward

\* What a task knows stays true when the row of its job keeps its status
LEMMA FitsKept ==
    ASSUME NEW k \in BusyTasks, NEW st, NEW sv \in [Jobs -> JobState],
           NEW sg, NEW ap, NEW st2, NEW sv2, NEW sg2,
           Fits(k, st, sv, sg, ap), CarriesUndo(k), Forward(sg, sg2),
           st2[k.job] = st[k.job],
           st[k.job] = "queued" => sv2[k.job] = sv[k.job]
    PROVE  Fits(k, st2, sv2, sg2, ap)
<1>1. k.job \in Jobs /\ k.js.inst \in Instances \cup {None}
  BY DEF BusyTasks, JobState
<1>2. sv[k.job].inst \in Instances \cup {None}
  BY <1>1 DEF JobState
<1>3. st[k.job] = "queued" /\ Lost(sv[k.job], sg) => Lost(sv2[k.job], sg2)
  BY <1>2 DEF Lost, Forward
<1>4. k.pc = "queue" => k.js.inst \in Instances
  BY <1>1 DEF CarriesUndo, WriterPcs, CanRollBack
<1>5. k.pc = "queue" /\ sg[k.js.inst] # "unused" => sg2[k.js.inst] # "unused"
  BY <1>4 DEF Forward
<1> QED BY <1>3, <1>5 DEF Fits

\* So the rows of queued jobs that are not written
LEMMA OrderedKept ==
    ASSUME TypeOK, ActiveCanRollBack, RowsOrdered, Forward(stage, stage'),
           \A j \in Jobs : status'[j] = "queued" =>
               status[j] = "queued" /\ saved'[j] = saved[j]
    PROVE  RowsOrdered'
<1> SUFFICES ASSUME NEW j \in Jobs, status'[j] = "queued"
             PROVE  Ordered(saved'[j], stage')
  BY DEF RowsOrdered
<1>1. status[j] = "queued" /\ saved'[j] = saved[j] /\ Ordered(saved[j], stage)
  BY DEF RowsOrdered
<1>2. saved[j].inst \in Instances
  BY <1>1 DEF TypeOK, JobState, ActiveCanRollBack, Active, ActiveStatuses, CanRollBack
<1> QED BY <1>1, <1>2 DEF Ordered, Forward

(***************************************************************************)
(* Task t becomes n and the others stay: what is left to show is what n    *)
(* knows, that the others still fit, and that n is apart from them.        *)
(***************************************************************************)
LEMMA TaskMoves ==
    ASSUME IInv, TasksFit, TasksApart, NEW t \in Tasks, NEW n, Become(t, n),
           app' = app,
           n # Idle => Fits(n, status', saved', stage', app),
           n # Idle => \A u \in Tasks \ {t} : Busy(u) =>
               /\ app = "ready"
               /\ n.job = task[u].job => Apart(n, task[u]),
           \A u \in Tasks \ {t} : Busy(u) => Fits(task[u], status', saved', stage', app)
    PROVE  TasksFit' /\ TasksApart'
<1>1. /\ task'[t] = n
      /\ \A u \in Tasks \ {t} : task'[u] = task[u]
  BY DEF IInv, TypeOK, Become
<1>2. TasksFit'
  BY <1>1 DEF TasksFit, Busy
<1>3. ASSUME NEW u \in Tasks, NEW v \in Tasks, Busy(u)', Busy(v)', u # v
      PROVE  /\ app' # "ready" => FALSE
             /\ task'[u].job = task'[v].job => Apart(task'[u], task'[v])
  <2>1. CASE u # t /\ v # t
    BY <1>1, <1>3, <2>1 DEF TasksApart, Busy
  <2>2. CASE u = t
    BY <1>1, <1>3, <2>2 DEF Busy
  <2>3. CASE v = t
    <3>1. n # Idle /\ u \in Tasks \ {t} /\ Busy(u)
      BY <1>1, <1>3, <2>3 DEF Busy
    <3>2. app = "ready" /\ (n.job = task[u].job => Apart(n, task[u]))
      BY <3>1
    <3>3. Apart(n, task[u]) => Apart(task[u], n)
      BY DEF Apart
    <3> QED BY <1>1, <2>3, <3>1, <3>2, <3>3
  <2> QED BY <2>1, <2>2, <2>3
<1>4. TasksApart'
  BY <1>3 DEF TasksApart
<1> QED BY <1>2, <1>4

\* What a task may become without getting closer to the others of its job
NoCloser(k, n) ==
    /\ n.job = k.job
    /\ Handling(n) => Handling(k)
    /\ Line(n) => Line(k)
    /\ Owner(n) => Owner(k)

\* A task that goes on without writing the row of its job
LEMMA QuietStep ==
    ASSUME OwnersInv, NEW t \in Tasks, Busy(t), NEW n, Become(t, n), app' = app,
           UNCHANGED status, Forward(stage, stage'),
           \A j \in Jobs : status[j] = "queued" => saved'[j] = saved[j],
           \/ n = Idle
           \/ Fits(n, status', saved', stage', app) /\ NoCloser(task[t], n)
    PROVE  TasksFit' /\ TasksApart' /\ RowsOrdered'
<1> USE DEF OwnersInv, IInv
<1>1. ASSUME NEW u \in Tasks, Busy(u)
      PROVE  Fits(task[u], status', saved', stage', app)
  <2>1. /\ task[u] \in BusyTasks /\ CarriesUndo(task[u])
        /\ Fits(task[u], status, saved, stage, app)
    BY <1>1, BusyIsTyped DEF TasksCarryUndo, TasksFit
  <2>2. task[u].job \in Jobs
    BY <2>1 DEF BusyTasks
  <2> QED BY <2>1, <2>2, FitsKept DEF TypeOK
<1>2. ASSUME n # Idle, NEW u \in Tasks \ {t}, Busy(u)
      PROVE  app = "ready" /\ (n.job = task[u].job => Apart(n, task[u]))
  <2>1. app = "ready" /\ (task[t].job = task[u].job => Apart(task[t], task[u]))
    BY <1>2 DEF TasksApart
  <2> QED BY <1>2, <2>1 DEF NoCloser, Apart
<1>3. RowsOrdered'
  BY OrderedKept
<1>4. n # Idle => Fits(n, status', saved', stage', app)
  OBVIOUS
<1> QED BY <1>1, <1>2, <1>3, <1>4, TaskMoves

----------------------------------------------------------------------------
(* Steps that do not write the row of the job *)

LEMMA GotoBecomes ==
    ASSUME NEW t \in Tasks, NEW p, Goto(t, p)
    PROVE  Become(t, [task[t] EXCEPT !.pc = p])
BY DEF Goto, Become

\* The task itself, seen after a step that keeps the status of its job
LEMMA StillFits ==
    ASSUME OwnersInv, NEW t \in Tasks, Busy(t), UNCHANGED status,
           Forward(stage, stage'),
           \A j \in Jobs : status[j] = "queued" => saved'[j] = saved[j]
    PROVE  /\ task[t] \in BusyTasks
           /\ Fits(task[t], status, saved, stage, app)
           /\ Fits(task[t], status', saved', stage', app)
<1>1. /\ task[t] \in BusyTasks /\ CarriesUndo(task[t])
      /\ Fits(task[t], status, saved, stage, app)
  BY BusyIsTyped DEF OwnersInv, IInv, TasksCarryUndo, TasksFit
<1>2. task[t].job \in Jobs
  BY <1>1 DEF BusyTasks
<1> QED BY <1>1, <1>2, FitsKept DEF OwnersInv, IInv, TypeOK

\* After an error the task that had a job still has it, or gives it up.  A cancel
\* has nothing to restore, so its cleanup does not fail.
LEMMA ErrorFits ==
    ASSUME NEW k \in BusyTasks, NEW st, NEW sv, NEW sg, NEW ap,
           Fits(k, st, sv, sg, ap),
           k.pc \in {"queue", "done", "finish"} \cup WorkPcs \cup CleanPcs,
           k.aim = "cancel" => k.pc = "finish"
    PROVE  \/ OnError(k) = Idle
           \/ Fits(OnError(k), st, sv, sg, ap) /\ NoCloser(k, OnError(k))
<1> USE DEF Fits, Placed, NoCloser, Handling, Line, Owner, Preparing, WorkPcs, CleanPcs
<1>1. CASE k.pc = "queue"
  <2>1. OnError(k) = [k EXCEPT !.pc = "clean", !.aim = "undo"]
    BY <1>1 DEF OnError
  <2> QED BY <1>1, <2>1 DEF BusyTasks
<1>2. CASE k.pc = "done"
  <2>1. OnError(k) = [k EXCEPT !.pc = "strand"]
    BY <1>2 DEF OnError
  <2> QED BY <1>2, <2>1 DEF BusyTasks
<1>3. CASE k.pc \in WorkPcs
  <2>1. OnError(k) = [k EXCEPT !.pc = "clean", !.aim = "fail",
                               !.js = [saved[k.job] EXCEPT !.rbErr = FALSE]]
    BY <1>3 DEF OnError, Terminalize
  <2> QED BY <1>3, <2>1 DEF BusyTasks
<1>4. CASE k.pc \in CleanPcs
  <2>1. OnError(k) = CleanupFailed(k)
    BY <1>4 DEF OnError
  <2>2. CASE k.aim \in {"undo", "reclean"}
    BY <2>1, <2>2 DEF CleanupFailed
  <2>3. CASE k.aim \notin {"undo", "reclean"}
    <3>1. OnError(k) = [k EXCEPT !.pc = "finish", !.ok = FALSE, !.js.rbErr = TRUE]
      BY <2>1, <2>3 DEF CleanupFailed
    <3>2. k.aim \in {"fail", "strand", "recover"}
      BY <1>4, <2>3 DEF BusyTasks, Aims
    <3> QED BY <1>4, <3>1, <3>2 DEF BusyTasks
  <2> QED BY <2>2, <2>3
<1>5. CASE k.pc = "finish"
  <2>1. CASE k.aim = "fail"
    <3>1. OnError(k) = [k EXCEPT !.pc = "strand"]
      BY <1>5, <2>1 DEF OnError
    <3> QED BY <1>5, <2>1, <3>1 DEF BusyTasks
  <2>2. CASE k.aim # "fail"
    BY <1>5, <2>2 DEF OnError
  <2> QED BY <2>1, <2>2
<1> QED BY <1>1, <1>2, <1>3, <1>4, <1>5

LEMMA QuietError ==
    ASSUME OwnersInv, NEW t \in Tasks, Busy(t), Fail(t), app' = app,
           UNCHANGED db, Forward(stage, stage'),
           task[t].pc \in {"queue", "done", "finish"} \cup WorkPcs \cup CleanPcs,
           task[t].aim = "cancel" => task[t].pc = "finish"
    PROVE  TasksFit' /\ TasksApart' /\ RowsOrdered'
<1>1. UNCHANGED status /\ UNCHANGED saved
  BY DEF db
<1>2. task[t] \in BusyTasks /\ Fits(task[t], status', saved', stage', app)
  BY <1>1, StillFits
<1>3. \/ OnError(task[t]) = Idle
      \/ /\ Fits(OnError(task[t]), status', saved', stage', app)
         /\ NoCloser(task[t], OnError(task[t]))
  BY <1>2, ErrorFits
<1> QED BY <1>1, <1>3, QuietStep DEF Fail

\* The cleanup is over: the row is written next, the retry goes on, or the job
\* that could not be queued is given up
LEMMA CleanupDoneFits ==
    ASSUME NEW k \in BusyTasks, NEW st, NEW sv, NEW sg, NEW ap,
           Fits(k, st, sv, sg, ap), k.pc \in CleanPcs
    PROVE  \/ CleanupDone(k) = Idle
           \/ Fits(CleanupDone(k), st, sv, sg, ap) /\ NoCloser(k, CleanupDone(k))
<1> USE DEF Fits, Placed, NoCloser, Handling, Line, Owner, Preparing, WorkPcs, CleanPcs
<1>1. CASE k.aim = "undo"
  BY <1>1 DEF CleanupDone
<1>2. CASE k.aim = "reclean"
  <2>1. CleanupDone(k) = [k EXCEPT !.pc = "clear"]
    BY <1>2 DEF CleanupDone
  <2> QED BY <1>2, <2>1 DEF BusyTasks
<1>3. CASE k.aim \notin {"undo", "reclean"}
  <2>1. CleanupDone(k) =
            [k EXCEPT !.pc = "finish", !.ok = TRUE,
                      !.js.inst = IF Existing(k.job) THEN @ ELSE None]
    BY <1>3 DEF CleanupDone
  <2>2. k.aim \in {"fail", "strand", "cancel", "recover"}
    BY <1>3 DEF BusyTasks, Aims
  <2> QED BY <2>1, <2>2 DEF BusyTasks, JobState
<1> QED BY <1>1, <1>2, <1>3

LEMMA QuietCleanupDone ==
    ASSUME OwnersInv, NEW t \in Tasks, Busy(t), Become(t, CleanupDone(task[t])),
           app' = app, UNCHANGED db, Forward(stage, stage'), task[t].pc \in CleanPcs
    PROVE  TasksFit' /\ TasksApart' /\ RowsOrdered'
<1>1. UNCHANGED status /\ UNCHANGED saved
  BY DEF db
<1>2. task[t] \in BusyTasks /\ Fits(task[t], status', saved', stage', app)
  BY <1>1, StillFits
<1>3. \/ CleanupDone(task[t]) = Idle
      \/ /\ Fits(CleanupDone(task[t]), status', saved', stage', app)
         /\ NoCloser(task[t], CleanupDone(task[t]))
  BY <1>2, CleanupDoneFits
<1> QED BY <1>1, <1>3, QuietStep

\* A task that goes on in its place
LEMMA QuietGoto ==
    ASSUME OwnersInv, NEW t \in Tasks, Busy(t), NEW p, Goto(t, p),
           app' = app, UNCHANGED db, Forward(stage, stage'),
           Fits([task[t] EXCEPT !.pc = p], status', saved', stage', app),
           NoCloser(task[t], [task[t] EXCEPT !.pc = p])
    PROVE  TasksFit' /\ TasksApart' /\ RowsOrdered'
<1>1. UNCHANGED status /\ UNCHANGED saved
  BY DEF db
<1> QED BY <1>1, GotoBecomes, QuietStep

\* What keeps the stages where they are or moves them on
LEMMA SameStageForward ==
    ASSUME UNCHANGED stage
    PROVE  Forward(stage, stage')
BY DEF Forward

LEMMA QuietActions ==
    ASSUME OwnersInv, NEW t \in Tasks,
           \/ RetryPrepare(t) \/ Lock(t) \/ Backup(t) \/ Strand(t) \/ Permit(t)
           \/ WorkError(t) \/ Clean(t) \/ RemoveDir(t) \/ CopyBack(t)
           \/ RestoreMetadata(t) \/ ClearStaging(t)
    PROVE  TasksFit' /\ TasksApart' /\ RowsOrdered'
<1> DEFINE k == task[t]
<1> USE DEF OwnersInv, IInv
<1>b. Busy(t)
  BY DEF RetryPrepare, Lock, Backup, Strand, Clean, RemoveDir, CopyBack,
         RestoreMetadata, ClearStaging, Permit, WorkError, At
<1>k. k \in BusyTasks /\ k.job \in Jobs /\ k.js \in JobState /\ CarriesUndo(k)
  BY <1>b, BusyIsTyped DEF BusyTasks, TasksCarryUndo
<1>u. UNCHANGED db /\ app' = app
  BY DEF RetryPrepare, Lock, Backup, Strand, Clean, RemoveDir, CopyBack,
         RestoreMetadata, ClearStaging, Permit, WorkError, boot
<1>v. UNCHANGED status /\ UNCHANGED saved
  BY <1>u DEF db
<1>s. ASSUME Forward(stage, stage')
      PROVE  /\ Fits(k, status, saved, stage, app)
             /\ Fits(k, status', saved', stage', app)
  BY <1>b, <1>v, <1>s, StillFits
<1>1. CASE RetryPrepare(t)
  <2>1. Forward(stage, stage')
    BY <1>1, PrepareForward, SameStageForward DEF RetryPrepare
  <2>2. Fits(k, status, saved, stage, app)
    BY <2>1, <1>s
  <2>3. k.pc = "prepare" /\ k.aim = "reclean"
    BY <1>1, <2>2 DEF RetryPrepare, At, Fits, Placed
  <2>4. ASSUME NEW i \in Instances, NEW rb,
               Become(t, Running(k.job, "queue", "setup", FreshState(i, rb))),
               stage'[i] # "unused"
        PROVE  TasksFit' /\ TasksApart' /\ RowsOrdered'
    <3> DEFINE n == Running(k.job, "queue", "setup", FreshState(i, rb))
    <3>1. n.pc = "queue" /\ n.aim = "setup" /\ n.job = k.job /\ ~n.js.staged
          /\ n.js.inst = i
      BY DEF Running, FreshState
    <3>2. NoCloser(k, n)
      BY <2>3, <3>1 DEF NoCloser, Handling, Line, Owner, WorkPcs, CleanPcs
    <3>3. status[k.job] \in Unsubmitted /\ app = "ready"
      BY <2>2, <2>3 DEF Fits, Preparing
    <3>4. Fits(n, status', saved', stage', app)
      BY <1>v, <2>4, <3>1, <3>3 DEF Fits, Placed, Preparing, Owner, WorkPcs, CleanPcs
    <3> QED BY <1>b, <1>u, <1>v, <2>1, <2>4, <3>2, <3>4, QuietStep
  <2>5. CASE Become(t, Idle)
    BY <1>b, <1>u, <1>v, <2>1, <2>5, QuietStep
  <2>6. ASSUME NEW i \in Instances, Prepare(t, k.job, i)
        PROVE  \E rb : /\ Become(t, Running(k.job, "queue", "setup", FreshState(i, rb)))
                       /\ stage'[i] # "unused"
    BY <2>6 DEF Prepare, TypeOK, Live, LiveStages
  <2> QED BY <1>1, <2>4, <2>5, <2>6 DEF RetryPrepare
<1>2. CASE Lock(t)
  <2>1. Forward(stage, stage')
    BY <1>2, SetStageForward DEF Lock, LiveStages
  <2>2. CASE At(t, "lock")
    <3>1. Goto(t, "wait")
      BY <1>2, <2>2 DEF Lock, At
    <3>2. /\ Fits([k EXCEPT !.pc = "wait"], status', saved', stage', app)
          /\ NoCloser(k, [k EXCEPT !.pc = "wait"])
      BY <1>k, <1>s, <2>1, <2>2
         DEF At, BusyTasks, Fits, Placed, Preparing, NoCloser, Handling, Line, Owner,
             WorkPcs, CleanPcs
    <3> QED BY <1>b, <1>u, <2>1, <3>1, <3>2, QuietGoto
  <2>3. CASE At(t, "relock")
    <3>1. PICK p \in {"backup", "begin"} : Goto(t, p)
      BY <1>2, <2>3 DEF Lock, At
    <3>2. /\ Fits([k EXCEPT !.pc = p], status', saved', stage', app)
          /\ NoCloser(k, [k EXCEPT !.pc = p])
      BY <1>k, <1>s, <2>1, <2>3
         DEF At, BusyTasks, Fits, Placed, Preparing, NoCloser, Handling, Line, Owner,
             WorkPcs, CleanPcs
    <3> QED BY <1>b, <1>u, <2>1, <3>1, <3>2, QuietGoto
  <2> QED BY <1>2, <2>2, <2>3 DEF Lock
<1>3. CASE Backup(t)
  <2>1. Forward(stage, stage')
    BY <1>3, SameStageForward DEF Backup
  <2>2. /\ Fits([k EXCEPT !.pc = "persist"], status', saved', stage', app)
        /\ NoCloser(k, [k EXCEPT !.pc = "persist"])
    BY <1>3, <1>k, <1>s, <2>1
       DEF Backup, At, BusyTasks, Fits, Placed, Preparing, NoCloser, Handling, Line,
           Owner, WorkPcs, CleanPcs
  <2> QED BY <1>3, <1>b, <1>u, <2>1, <2>2, QuietGoto DEF Backup
<1>4. CASE Strand(t)
  <2>1. Forward(stage, stage')
    BY <1>4, SameStageForward DEF Strand
  <2> DEFINE n == Terminalize(k, saved[k.job], "strand")
  <2>2. n = [k EXCEPT !.pc = "clean", !.aim = "strand",
                      !.js = [saved[k.job] EXCEPT !.rbErr = FALSE]]
    BY DEF Terminalize
  <2>3. Fits(n, status', saved', stage', app) /\ NoCloser(k, n)
    BY <1>4, <1>k, <1>s, <2>1, <2>2
       DEF Strand, At, BusyTasks, Fits, Placed, Preparing, NoCloser, Handling, Line,
           Owner, WorkPcs, CleanPcs
  <2>4. Become(t, n) \/ Become(t, Idle)
    BY <1>4 DEF Strand
  <2> QED BY <1>b, <1>u, <1>v, <2>1, <2>3, <2>4, QuietStep
<1>5. CASE Permit(t)
  <2>1. Forward(stage, stage')
    BY <1>5, SameStageForward DEF Permit
  <2> DEFINE n == Running(k.job, "claim", "fail", saved[k.job])
  <2>2. n.pc = "claim" /\ n.aim = "fail" /\ n.job = k.job /\ n.js = saved[k.job]
    BY DEF Running
  <2>3. Fits(n, status', saved', stage', app) /\ NoCloser(k, n)
    BY <1>5, <1>k, <1>s, <1>v, <2>1, <2>2
       DEF Permit, At, BusyTasks, Fits, Placed, Preparing, NoCloser, Handling, Line,
           Owner, WorkPcs, CleanPcs
  <2>4. Become(t, n) \/ Become(t, Idle)
    BY <1>5 DEF Permit
  <2> QED BY <1>b, <1>u, <1>v, <2>1, <2>3, <2>4, QuietStep
<1>6. CASE WorkError(t)
  <2>1. Forward(stage, stage')
    BY <1>6, SameStageForward DEF WorkError
  <2>2. k.aim # "cancel"
    BY <1>6, <1>s, <2>1 DEF WorkError, Fits, Placed, WorkPcs
  <2> QED BY <1>6, <1>b, <1>u, <2>1, <2>2, QuietError DEF WorkError
<1>7. CASE Clean(t)
  <2>1. Forward(stage, stage')
    <3>1. \/ UNCHANGED stage
          \/ k.js.rollback \in LiveStages /\ SetStage(k.js.inst, k.js.rollback)
          \/ stage' = [stage EXCEPT ![k.js.inst] = "gone"]
      BY <1>7, <1>k DEF Clean, JobState
    <3> QED BY <3>1, SameStageForward, SetStageForward DEF Forward, TypeOK
  <2>2. Fits(k, status, saved, stage, app) /\ Fits(k, status', saved', stage', app)
    BY <1>s, <2>1
  <2>3. k.pc = "clean"
    BY <1>7 DEF Clean, At
  <2>4. CASE Goto(t, "rmdir")
    <3>1. /\ Fits([k EXCEPT !.pc = "rmdir"], status', saved', stage', app)
          /\ NoCloser(k, [k EXCEPT !.pc = "rmdir"])
      BY <1>k, <2>2, <2>3
         DEF BusyTasks, Fits, Placed, Preparing, NoCloser, Handling, Line, Owner,
             WorkPcs, CleanPcs
    <3> QED BY <1>b, <1>u, <2>1, <2>4, <3>1, QuietGoto
  <2>5. CASE RestoresBackup(k) /\ Goto(t, "copyback")
    <3>1. k.aim # "cancel"
      BY <2>2, <2>5 DEF RestoresBackup, Fits, Placed
    <3>2. /\ Fits([k EXCEPT !.pc = "copyback"], status', saved', stage', app)
          /\ NoCloser(k, [k EXCEPT !.pc = "copyback"])
      BY <1>k, <2>2, <2>3, <3>1
         DEF BusyTasks, Fits, Placed, Preparing, NoCloser, Handling, Line, Owner,
             WorkPcs, CleanPcs
    <3> QED BY <1>b, <1>u, <2>1, <2>5, <3>2, QuietGoto
  <2>6. CASE RestoresBackup(k) /\ Fail(t)
    <3>1. k.aim # "cancel"
      BY <2>2, <2>6 DEF RestoresBackup, Fits, Placed
    <3> QED BY <1>b, <1>u, <2>1, <2>3, <2>6, <3>1, QuietError DEF CleanPcs
  <2>7. CASE Become(t, CleanupDone(k))
    BY <1>b, <1>u, <2>1, <2>3, <2>7, QuietCleanupDone DEF CleanPcs
  <2> QED BY <1>7, <2>4, <2>5, <2>6, <2>7 DEF Clean
<1>8. CASE RemoveDir(t)
  <2>1. Forward(stage, stage') /\ k.pc = "rmdir"
    BY <1>8, SameStageForward DEF RemoveDir, At
  <2> QED BY <1>8, <1>b, <1>u, <2>1, QuietCleanupDone DEF RemoveDir, CleanPcs
<1>9. CASE CopyBack(t)
  <2>1. Forward(stage, stage') /\ k.pc = "copyback"
    BY <1>9, SameStageForward DEF CopyBack, At
  <2>2. Fits(k, status, saved, stage, app) /\ Fits(k, status', saved', stage', app)
    BY <1>s, <2>1
  <2>3. CASE Goto(t, "meta")
    <3>1. /\ Fits([k EXCEPT !.pc = "meta"], status', saved', stage', app)
          /\ NoCloser(k, [k EXCEPT !.pc = "meta"])
      BY <1>k, <2>1, <2>2
         DEF BusyTasks, Fits, Placed, Preparing, NoCloser, Handling, Line, Owner,
             WorkPcs, CleanPcs
    <3> QED BY <1>b, <1>u, <2>1, <2>3, <3>1, QuietGoto
  <2>4. CASE Fail(t)
    <3>1. k.aim # "cancel"
      BY <2>1, <2>2 DEF Fits, Placed
    <3> QED BY <1>b, <1>u, <2>1, <2>4, <3>1, QuietError DEF CleanPcs
  <2> QED BY <1>9, <2>3, <2>4 DEF CopyBack
<1>10. CASE RestoreMetadata(t)
  <2>1. k.pc = "meta" /\ k.js.rollback \in LiveStages
    BY <1>10, <1>k DEF RestoreMetadata, At, CarriesUndo, RestorerPcs, JobState
  <2>2. Forward(stage, stage')
    BY <1>10, <2>1, SetStageForward DEF RestoreMetadata
  <2>3. CASE Become(t, CleanupDone(k))
    BY <1>b, <1>u, <2>1, <2>2, <2>3, QuietCleanupDone DEF CleanPcs
  <2>4. CASE Fail(t)
    <3>1. k.aim # "cancel"
      BY <1>s, <2>1, <2>2 DEF Fits, Placed
    <3> QED BY <1>b, <1>u, <2>1, <2>2, <2>4, <3>1, QuietError DEF CleanPcs
  <2> QED BY <1>10, <2>3, <2>4 DEF RestoreMetadata
<1>11. CASE ClearStaging(t)
  <2>1. Forward(stage, stage') /\ k.pc = "clear"
    BY <1>11, SameStageForward DEF ClearStaging, At
  <2>2. CASE k.aim = "reclean" /\ Goto(t, "prepare")
    <3>1. /\ Fits([k EXCEPT !.pc = "prepare"], status', saved', stage', app)
          /\ NoCloser(k, [k EXCEPT !.pc = "prepare"])
      BY <1>k, <1>s, <2>1, <2>2
         DEF BusyTasks, Fits, Placed, Preparing, NoCloser, Handling, Line, Owner,
             WorkPcs, CleanPcs
    <3> QED BY <1>b, <1>u, <2>1, <2>2, <3>1, QuietGoto
  <2>3. CASE Become(t, Idle)
    BY <1>b, <1>u, <1>v, <2>1, <2>3, QuietStep
  <2> QED BY <1>11, <2>2, <2>3 DEF ClearStaging
<1> QED BY <1>1, <1>2, <1>3, <1>4, <1>5, <1>6, <1>7, <1>8, <1>9, <1>10, <1>11

----------------------------------------------------------------------------
(* Steps that write the row of the job *)

\* What two tasks of one job know of each other
LEMMA OthersOfJob ==
    ASSUME OwnersInv, NEW t \in Tasks, Busy(t), NEW u \in Tasks \ {t}, Busy(u)
    PROVE  /\ app = "ready"
           /\ task[u] \in BusyTasks /\ Fits(task[u], status, saved, stage, app)
           /\ task[t].job = task[u].job => Apart(task[t], task[u])
BY BusyIsTyped DEF OwnersInv, IInv, TasksFit, TasksApart

(***************************************************************************)
(* Task t writes the row of its job and becomes n: what the other tasks of *)
(* the same job know is left to show, and that n is apart from them.       *)
(***************************************************************************)
LEMMA RowStep ==
    ASSUME OwnersInv, NEW t \in Tasks, Busy(t), NEW n, Become(t, n), app' = app,
           Forward(stage, stage'),
           \A j \in Jobs \ {task[t].job} : status'[j] = status[j] /\ saved'[j] = saved[j],
           status'[task[t].job] = "queued" => Ordered(saved'[task[t].job], stage'),
           n # Idle => Fits(n, status', saved', stage', app) /\ n.job = task[t].job,
           \A u \in Tasks \ {t} : Busy(u) /\ task[u].job = task[t].job =>
               /\ Fits(task[u], status', saved', stage', app)
               /\ n # Idle => Apart(n, task[u])
    PROVE  TasksFit' /\ TasksApart' /\ RowsOrdered'
<1> USE DEF OwnersInv, IInv
<1>1. ASSUME NEW u \in Tasks \ {t}, Busy(u)
      PROVE  Fits(task[u], status', saved', stage', app)
  <2>1. CASE task[u].job = task[t].job
    BY <1>1, <2>1
  <2>2. CASE task[u].job # task[t].job
    <3>1. /\ task[u] \in BusyTasks /\ CarriesUndo(task[u])
          /\ Fits(task[u], status, saved, stage, app)
      BY <1>1, BusyIsTyped DEF TasksCarryUndo, TasksFit
    <3>2. task[u].job \in Jobs \ {task[t].job}
      BY <2>2, <3>1 DEF BusyTasks
    <3> QED BY <3>1, <3>2, FitsKept DEF TypeOK
  <2> QED BY <2>1, <2>2
<1>2. ASSUME n # Idle, NEW u \in Tasks \ {t}, Busy(u)
      PROVE  app = "ready" /\ (n.job = task[u].job => Apart(n, task[u]))
  BY <1>2, OthersOfJob
<1>3. TasksFit' /\ TasksApart'
  BY <1>1, <1>2, TaskMoves
<1>4. RowsOrdered'
  <2> SUFFICES ASSUME NEW j \in Jobs, status'[j] = "queued"
               PROVE  Ordered(saved'[j], stage')
    BY DEF RowsOrdered
  <2>1. CASE j = task[t].job
    BY <2>1
  <2>2. CASE j # task[t].job
    <3>1. status[j] = "queued" /\ saved'[j] = saved[j] /\ Ordered(saved[j], stage)
      BY <2>2 DEF RowsOrdered
    <3>2. saved[j].inst \in Instances
      BY <3>1 DEF TypeOK, JobState, ActiveCanRollBack, Active, ActiveStatuses, CanRollBack
    <3> QED BY <3>1, <3>2 DEF Ordered, Forward
  <2> QED BY <2>1, <2>2
<1> QED BY <1>3, <1>4

\* The row is written first by the setup, when nothing else works on the job
LEMMA QueueApart ==
    ASSUME OwnersInv, NEW t \in Tasks, Queue(t)
    PROVE  TasksFit' /\ TasksApart' /\ RowsOrdered'
<1> DEFINE k == task[t]
<1> USE DEF OwnersInv, IInv
<1>b. Busy(t) /\ k.pc = "queue"
  BY DEF Queue, At
<1>f. Forward(stage, stage') /\ app' = app
  BY SameStageForward DEF Queue, boot
<1>k. k \in BusyTasks /\ k.job \in Jobs /\ Fits(k, status, saved, stage, app)
  BY <1>b, BusyIsTyped DEF BusyTasks, TasksFit
<1>1. CASE ~ForeignKeyHolds(k.js)
  BY <1>1, <1>b, <1>f, <1>k, QuietError DEF Queue, Fits, Placed
<1>2. CASE ForeignKeyHolds(k.js)
  <2>1. /\ status' = [status EXCEPT ![k.job] = "queued"]
        /\ saved' = [saved EXCEPT ![k.job] = k.js]
        /\ UNCHANGED stage
    BY <1>2 DEF Queue
  <2>2. PICK p \in {"lock", "wait"} : Goto(t, p)
    BY <1>2 DEF Queue
  <2> DEFINE n == [k EXCEPT !.pc = p]
  <2>3. n.job = k.job /\ n.pc = p /\ n.aim = k.aim /\ n.js = k.js
    BY <1>k DEF BusyTasks
  <2>4. status'[k.job] = "queued" /\ saved'[k.job] = k.js
    BY <1>k, <2>1 DEF TypeOK
  <2>5. Fits(n, status', saved', stage', app)
    BY <1>b, <1>k, <2>3, <2>4
       DEF Fits, Placed, Preparing, Line, Owner, Unsubmitted, WorkPcs, CleanPcs
  <2>6. Ordered(saved'[k.job], stage')
    BY <1>b, <1>k, <2>1, <2>4 DEF Fits, Ordered
  <2>7. ASSUME NEW u \in Tasks \ {t}, Busy(u), task[u].job = k.job
        PROVE  Fits(task[u], status', saved', stage', app) /\ Apart(n, task[u])
    <3>1. /\ task[u] \in BusyTasks /\ Fits(task[u], status, saved, stage, app)
          /\ Apart(k, task[u])
      BY <1>b, <2>7, OthersOfJob
    <3>2. Handling(k) /\ Line(k)
      BY <1>b, <1>k, PreparingIsHandling DEF Fits, Preparing
    <3>3. ~Handling(task[u]) /\ ~Line(task[u])
      BY <3>1, <3>2 DEF Apart
    <3>4. ~Preparing(task[u])
      BY <3>1, <3>3, PreparingIsHandling DEF Fits
    <3>5. task[u].pc = "clear"
      BY <3>1, <3>3
         DEF Fits, Placed, Handling, Line, BusyTasks, Aims, BusyPcs, WorkPcs, CleanPcs
    <3>6. Fits(task[u], status', saved', stage', app)
      BY <2>3, <2>4, <2>7, <3>1, <3>3, <3>4, <3>5
         DEF Fits, Owner, WorkPcs, CleanPcs
    <3>7. Apart(n, task[u])
      BY <1>b, <2>2, <2>3, <3>3 DEF Apart, Owner, WorkPcs, CleanPcs
    <3> QED BY <3>6, <3>7
  <2> HIDE DEF n
  <2>8. Become(t, n)
    BY <2>2, GotoBecomes DEF n
  <2>9. \A j \in Jobs \ {k.job} : status'[j] = status[j] /\ saved'[j] = saved[j]
    BY <2>1 DEF TypeOK
  <2> QED BY <1>b, <1>f, <2>3, <2>5, <2>6, <2>7, <2>8, <2>9, RowStep
<1> QED BY <1>1, <1>2

\* A stranded worker that waits for a job whose instance is gone is the only one
\* to own a job that is queued; a claim of that job fails
LEMMA NoOwnerWhileQueued ==
    ASSUME OwnersInv, NEW t \in Tasks, Busy(t), task[t].pc \in {"claim", "cclaim"},
           status[task[t].job] = "queued",
           NEW u \in Tasks \ {t}, Busy(u), task[u].job = task[t].job, Owner(task[u])
    PROVE  ~ForeignKeyHolds(task[t].js) /\ task[t].pc = "cclaim"
<1>1. /\ task[t] \in BusyTasks /\ Fits(task[t], status, saved, stage, app)
      /\ task[u] \in BusyTasks /\ Fits(task[u], status, saved, stage, app)
      /\ Apart(task[t], task[u]) /\ app = "ready"
  BY OthersOfJob, BusyIsTyped DEF OwnersInv, IInv, TasksFit
<1>2. task[u].aim # "recover"
  BY <1>1 DEF Fits
<1>3. /\ Lost(saved[task[t].job], stage)
      /\ task[u].pc = "strand" \/ task[u].aim = "strand"
  BY <1>1, <1>2 DEF Fits
<1>4. task[t].js.inst = saved[task[t].job].inst
  BY <1>1 DEF Fits
<1>5. ~ForeignKeyHolds(task[t].js)
  BY <1>3, <1>4 DEF Lost, ForeignKeyHolds, Live, LiveStages
<1>6. task[u].pc # "clear" /\ task[u].aim # "cancel"
  BY <1>1, <1>3 DEF Owner, WorkPcs, CleanPcs, Fits, Placed
<1>7. Line(task[u])
  BY <1>6 DEF Line
<1>8. ~Line(task[t])
  BY <1>1, <1>7 DEF Apart
<1>9. task[t].pc = "cclaim"
  BY <1>1, <1>8 DEF Line, Fits, Placed
<1> QED BY <1>5, <1>9

LEMMA ClaimApart ==
    ASSUME OwnersInv, NEW t \in Tasks, Claim(t)
    PROVE  TasksFit' /\ TasksApart' /\ RowsOrdered'
<1> DEFINE k == task[t]
<1> USE DEF OwnersInv, IInv
<1>b. Busy(t) /\ k.pc \in {"claim", "cclaim"}
  BY DEF Claim, At
<1>f. Forward(stage, stage') /\ app' = app
  BY SameStageForward DEF Claim, boot
<1>k. k \in BusyTasks /\ k.job \in Jobs /\ CarriesUndo(k)
      /\ Fits(k, status, saved, stage, app)
  BY <1>b, BusyIsTyped DEF BusyTasks, TasksFit, TasksCarryUndo
<1>1. CASE status[k.job] # "queued"
  <2>1. Become(t, Idle) /\ UNCHANGED status /\ UNCHANGED saved
    BY <1>1 DEF Claim, db
  <2> QED BY <1>b, <1>f, <2>1, QuietStep
<1>2. CASE status[k.job] = "queued" /\ ~ForeignKeyHolds(k.js)
  <2>1. Become(t, OnError(k)) /\ UNCHANGED status /\ UNCHANGED saved
    BY <1>2 DEF Claim, Fail, db
  <2>2. CASE k.pc = "cclaim"
    <3>1. OnError(k) = Idle
      BY <2>2 DEF OnError, WorkPcs, CleanPcs
    <3> QED BY <1>b, <1>f, <2>1, <3>1, QuietStep
  <2>3. CASE k.pc = "claim"
    <3> DEFINE n == [k EXCEPT !.pc = "strand"]
    <3>1. OnError(k) = n
      BY <2>3 DEF OnError, WorkPcs, CleanPcs
    <3>2. n.job = k.job /\ n.pc = "strand" /\ n.aim = "fail"
      BY <1>k, <2>3 DEF BusyTasks, Fits, Placed
    <3>3. Lost(saved[k.job], stage)
      <4>1. Ordered(saved[k.job], stage) /\ saved[k.job].inst # None
        BY <1>2, <1>k
           DEF RowsOrdered, ActiveCanRollBack, Active, ActiveStatuses, CanRollBack
      <4>2. k.js.inst = saved[k.job].inst
        BY <1>2, <1>b, <1>k DEF Fits
      <4>3. saved[k.job].inst \in Instances
        BY <1>k, <4>1 DEF TypeOK, JobState
      <4> QED BY <1>2, <4>1, <4>2, <4>3
          DEF Ordered, Lost, ForeignKeyHolds, Live, TypeOK, Stages
    <3>4. Fits(n, status', saved', stage', app)
      BY <1>2, <1>k, <2>1, <2>3, <3>2, <3>3
         DEF Claim, Fits, Placed, Preparing, Line, Owner, Unsubmitted, WorkPcs, CleanPcs
    <3>5. ASSUME NEW u \in Tasks \ {t}, Busy(u), task[u].job = k.job
          PROVE  Fits(task[u], status', saved', stage', app) /\ Apart(n, task[u])
      <4>1. /\ task[u] \in BusyTasks /\ Fits(task[u], status, saved, stage, app)
            /\ Apart(k, task[u])
        BY <1>b, <3>5, OthersOfJob
      <4>2. Fits(task[u], status', saved', stage', app)
        BY <2>1, <4>1 DEF Claim
      <4>3. ~Owner(task[u])
        BY <1>2, <1>b, <2>3, <3>5, NoOwnerWhileQueued
      <4>4. ~Handling(n) /\ (Line(n) => Line(k))
        BY <1>k, <2>3, <3>2 DEF Handling, Line
      <4> QED BY <4>1, <4>2, <4>3, <4>4 DEF Apart
    <3> HIDE DEF n
    <3>6. status'[k.job] = "queued" => Ordered(saved'[k.job], stage')
      BY <1>k, <2>1 DEF Claim, RowsOrdered
    <3> QED BY <1>b, <1>f, <2>1, <3>1, <3>2, <3>4, <3>5, <3>6, RowStep
  <2> QED BY <1>b, <2>2, <2>3
<1>3. CASE status[k.job] = "queued" /\ ForeignKeyHolds(k.js)
  <2>1. /\ status' = [status EXCEPT ![k.job] = "running"]
        /\ saved' = [saved EXCEPT ![k.job] = k.js]
        /\ UNCHANGED stage
    BY <1>3 DEF Claim
  <2>2. PICK p \in {"clean", "relock", "begin"} :
            Goto(t, p) /\ (p = "clean" <=> k.pc = "cclaim")
    <3>1. Goto(t, AfterClaim(k))
      BY <1>3 DEF Claim
    <3> QED BY <3>1 DEF AfterClaim
  <2> DEFINE n == [k EXCEPT !.pc = p]
  <2>3. n.job = k.job /\ n.pc = p /\ n.aim = k.aim /\ n.js = k.js
    BY <1>k DEF BusyTasks
  <2>4. status'[k.job] = "running" /\ saved'[k.job] = k.js
    BY <1>k, <2>1 DEF TypeOK
  <2>5. \/ k.pc = "cclaim" /\ k.aim = "cancel"
        \/ k.pc = "claim" /\ k.aim = "fail"
    BY <1>b, <1>k DEF Fits, Placed
  <2>6. Fits(n, status', saved', stage', app)
    BY <1>k, <2>2, <2>3, <2>4, <2>5
       DEF Fits, Placed, Preparing, Line, Owner, Unsubmitted, WorkPcs, CleanPcs
  <2>7. ASSUME NEW u \in Tasks \ {t}, Busy(u), task[u].job = k.job
        PROVE  Fits(task[u], status', saved', stage', app) /\ Apart(n, task[u])
    <3>1. /\ task[u] \in BusyTasks /\ Fits(task[u], status, saved, stage, app)
          /\ Apart(k, task[u])
      BY <1>b, <2>7, OthersOfJob
    <3>2. ~Owner(task[u])
      BY <1>3, <1>b, <2>7, NoOwnerWhileQueued
    <3>3. ~Preparing(task[u])
      BY <1>3, <2>7, <3>1 DEF Fits, Unsubmitted
    <3>4. Fits(task[u], status', saved', stage', app)
      BY <2>3, <2>4, <2>7, <3>1, <3>2, <3>3 DEF Fits, Preparing, Unsubmitted
    <3>5. (Handling(n) => Handling(k)) /\ (Line(n) => Line(k))
      BY <2>2, <2>3, <2>5 DEF Handling, Line
    <3> QED BY <3>1, <3>2, <3>4, <3>5 DEF Apart
  <2> HIDE DEF n
  <2>8. Become(t, n)
    BY <2>2, GotoBecomes DEF n
  <2>9. \A j \in Jobs \ {k.job} : status'[j] = status[j] /\ saved'[j] = saved[j]
    BY <2>1 DEF TypeOK
  <2> QED BY <1>b, <1>f, <2>3, <2>4, <2>6, <2>7, <2>8, <2>9, RowStep
<1> QED BY <1>1, <1>2, <1>3

\* Only a worker that owns a running job writes progress into its row
LEMMA SaveApart ==
    ASSUME OwnersInv, NEW t \in Tasks, Persist(t) \/ Begin(t) \/ Apply(t)
    PROVE  TasksFit' /\ TasksApart' /\ RowsOrdered'
<1> DEFINE k == task[t]
<1> USE DEF OwnersInv, IInv
<1>b. Busy(t) /\ k.pc \in {"persist", "begin", "apply"}
  BY DEF Persist, Begin, Apply, At
<1>f. Forward(stage, stage')
  BY SameStageForward, SetStageForward DEF Persist, Begin, Apply, LiveStages
<1>a. app' = app /\ UNCHANGED status
  BY DEF Persist, Begin, Apply, boot
<1>k. k \in BusyTasks /\ k.job \in Jobs /\ Fits(k, status, saved, stage, app)
  BY <1>b, BusyIsTyped DEF BusyTasks, TasksFit
<1>1. k.aim = "fail" /\ status[k.job] = "running"
  BY <1>b, <1>k DEF Fits, Placed, Owner, WorkPcs
<1>2. \E js : \E p \in {"begin", "apply", "done"} : SaveState(t, js, p)
  BY DEF Persist, Begin, Apply
<1>p. PICK js : \E p \in {"begin", "apply", "done"} : SaveState(t, js, p)
  BY <1>2
<1>q. PICK p \in {"begin", "apply", "done"} : SaveState(t, js, p)
  BY <1>p
<1>3. CASE ForeignKeyHolds(js)
  <2> DEFINE n == [k EXCEPT !.pc = p, !.js = js]
  <2>1. saved' = [saved EXCEPT ![k.job] = js] /\ Become(t, n)
    BY <1>q, <1>3 DEF SaveState
  <2>2. n.job = k.job /\ n.pc = p /\ n.aim = "fail"
    BY <1>1, <1>k DEF BusyTasks
  <2>3. \A j \in Jobs : status[j] = "queued" => saved'[j] = saved[j]
    BY <1>1, <2>1 DEF TypeOK
  <2>4. Fits(n, status', saved', stage', app)
    BY <1>1, <1>a, <1>k, <2>2
       DEF Fits, Placed, Preparing, Line, Owner, Unsubmitted, WorkPcs, CleanPcs
  <2>5. NoCloser(k, n)
    BY <1>1, <1>b, <2>2 DEF NoCloser, Handling, Line, Owner, WorkPcs
  <2> HIDE DEF n
  <2> QED BY <1>a, <1>b, <1>f, <2>1, <2>3, <2>4, <2>5, QuietStep
<1>4. CASE ~ForeignKeyHolds(js)
  <2>1. Fail(t) /\ UNCHANGED db
    BY <1>q, <1>4, <1>a DEF SaveState, db
  <2> QED BY <1>1, <1>a, <1>b, <1>f, <2>1, QuietError DEF WorkPcs
<1> QED BY <1>3, <1>4

\* Whoever is neither the setup, nor the worker, nor a command, nor an owner has
\* nothing left to do but to clear its staging directory
LEMMA BystanderFits ==
    ASSUME NEW k \in BusyTasks, NEW st, NEW sv, NEW sg, NEW ap, NEW st2, NEW sv2, NEW sg2,
           Fits(k, st, sv, sg, ap), ~Line(k), ~Owner(k), st2[k.job] # "queued"
    PROVE  Fits(k, st2, sv2, sg2, ap)
<1>1. ~Preparing(k)
  BY PreparingIsHandling DEF Fits
<1>2. k.pc # "queue"
  BY <1>1 DEF Preparing
<1> QED BY <1>1, <1>2 DEF Fits

LEMMA CompleteApart ==
    ASSUME OwnersInv, NEW t \in Tasks, Complete(t)
    PROVE  TasksFit' /\ TasksApart' /\ RowsOrdered'
<1> DEFINE k  == task[t]
           js == [saved[k.job] EXCEPT !.inst = k.js.inst, !.rbErr = FALSE]
<1> USE DEF OwnersInv, IInv
<1>b. Busy(t) /\ k.pc = "done" /\ app' = app
  BY DEF Complete, At, boot
<1>k. k \in BusyTasks /\ k.job \in Jobs /\ Fits(k, status, saved, stage, app)
  BY <1>b, BusyIsTyped DEF BusyTasks, TasksFit
<1>a. k.aim = "fail"
  BY <1>b, <1>k DEF Fits, Placed
<1>1. CASE status[k.job] # "running"
  <2>1. Become(t, Idle) /\ UNCHANGED status /\ UNCHANGED saved /\ UNCHANGED stage
    BY <1>1 DEF Complete, db
  <2> QED BY <1>b, <2>1, SameStageForward, QuietStep
<1>2. CASE status[k.job] = "running" /\ ~Live(js.inst)
  <2>1. Fail(t) /\ UNCHANGED db /\ UNCHANGED stage
    BY <1>2 DEF Complete
  <2> QED BY <1>a, <1>b, <2>1, SameStageForward, QuietError
<1>3. CASE status[k.job] = "running" /\ Live(js.inst)
  <2> DEFINE n == [k EXCEPT !.pc = "clear", !.aim = "success", !.js = js]
  <2>1. /\ status' = [status EXCEPT ![k.job] = "succeeded"]
        /\ saved' = [saved EXCEPT ![k.job] = js]
        /\ SetStage(js.inst, "installed") /\ Become(t, n)
    BY <1>3 DEF Complete
  <2>2. Forward(stage, stage')
    BY <2>1, SetStageForward DEF LiveStages
  <2>3. n.job = k.job /\ n.pc = "clear" /\ n.aim = "success"
    BY <1>k DEF BusyTasks
  <2>4. status'[k.job] = "succeeded"
    BY <1>k, <2>1 DEF TypeOK
  <2>5. Fits(n, status', saved', stage', app)
    BY <1>a, <1>k, <2>3
       DEF Fits, Placed, Preparing, Line, Owner, WorkPcs, CleanPcs
  <2>6. ASSUME NEW u \in Tasks \ {t}, Busy(u), task[u].job = k.job
        PROVE  Fits(task[u], status', saved', stage', app) /\ Apart(n, task[u])
    <3>1. /\ task[u] \in BusyTasks /\ Fits(task[u], status, saved, stage, app)
          /\ Apart(k, task[u])
      BY <1>b, <2>6, OthersOfJob
    <3>2. ~Line(task[u]) /\ ~Owner(task[u])
      BY <1>a, <1>b, <3>1 DEF Apart, Line, Owner
    <3>3. Fits(task[u], status', saved', stage', app)
      BY <2>4, <2>6, <3>1, <3>2, BystanderFits
    <3> QED BY <2>3, <3>2, <3>3 DEF Apart, Handling
  <2> HIDE DEF n
  <2>7. \A j \in Jobs \ {k.job} : status'[j] = status[j] /\ saved'[j] = saved[j]
    BY <2>1 DEF TypeOK
  <2> QED BY <1>b, <2>1, <2>2, <2>3, <2>4, <2>5, <2>6, <2>7, RowStep
<1> QED BY <1>1, <1>2, <1>3

\* The end of a rollback: of the worker, of the recovery, or of a cancel, which
\* alone writes its row whatever it says
LEMMA FinishApart ==
    ASSUME OwnersInv, NEW t \in Tasks, Finish(t)
    PROVE  TasksFit' /\ TasksApart' /\ RowsOrdered'
<1> DEFINE k == task[t]
<1> USE DEF OwnersInv, IInv
<1>b. Busy(t) /\ k.pc = "finish" /\ app' = app
  BY DEF Finish, At, boot
<1>f. UNCHANGED stage /\ Forward(stage, stage')
  BY SameStageForward DEF Finish
<1>k. k \in BusyTasks /\ k.job \in Jobs /\ Fits(k, status, saved, stage, app)
  BY <1>b, BusyIsTyped DEF BusyTasks, TasksFit
<1>a. k.aim \in {"fail", "strand", "cancel", "recover"} /\ Owner(k)
  BY <1>b, <1>k DEF Fits, Placed, Owner
<1>1. CASE k.aim # "cancel" /\ ~Active(k.job)
  <2>1. Become(t, Idle) /\ UNCHANGED status /\ UNCHANGED saved
    BY <1>1 DEF Finish, db
  <2> QED BY <1>b, <1>f, <2>1, QuietStep
<1>2. CASE (k.aim = "cancel" \/ Active(k.job)) /\ ~ForeignKeyHolds(k.js)
  BY <1>2, <1>b, <1>f, QuietError DEF Finish
<1>3. CASE (k.aim = "cancel" \/ Active(k.job)) /\ ForeignKeyHolds(k.js)
  <2> DEFINE n == IF k.ok THEN [k EXCEPT !.pc = "clear"] ELSE Idle
  <2>1. /\ status' = [status EXCEPT ![k.job] = EndStatus(k)]
        /\ saved' = [saved EXCEPT ![k.job] = k.js]
        /\ Become(t, n)
    BY <1>3, GotoBecomes DEF Finish
  <2>2. n # Idle => n.job = k.job /\ n.pc = "clear" /\ n.aim = k.aim
    BY <1>k DEF BusyTasks
  <2>3. /\ status'[k.job] = EndStatus(k) /\ EndStatus(k) # "queued"
        /\ k.aim = "cancel" => EndStatus(k) = "canceled"
    BY <1>b, <1>k, <2>1 DEF TypeOK, EndStatus, Fits, Placed
  <2>4. n # Idle => Fits(n, status', saved', stage', app)
    <3>1. n # Idle => n = [k EXCEPT !.pc = "clear"]
      OBVIOUS
    <3> QED BY <1>a, <1>k, <2>2, <3>1
        DEF Fits, Placed, Preparing, Line, Owner, WorkPcs, CleanPcs, BusyTasks
  <2>5. ASSUME NEW u \in Tasks \ {t}, Busy(u), task[u].job = k.job
        PROVE  /\ Fits(task[u], status', saved', stage', app)
               /\ n # Idle => Apart(n, task[u])
    <3>1. /\ task[u] \in BusyTasks /\ Fits(task[u], status, saved, stage, app)
          /\ Apart(k, task[u])
      BY <1>b, <2>5, OthersOfJob
    <3>2. ~Owner(task[u])
      BY <1>a, <3>1 DEF Apart
    <3>3. CASE k.aim # "cancel"
      <4>1. ~Line(task[u])
        BY <1>b, <3>1, <3>3 DEF Apart, Line
      <4>2. n # Idle => ~Handling(n)
        BY <1>a, <2>2, <3>3 DEF Handling
      <4>3. Fits(task[u], status', saved', stage', app)
        BY <2>3, <2>5, <3>1, <3>2, <4>1, BystanderFits
      <4> QED BY <3>2, <4>1, <4>2, <4>3 DEF Apart
    <3>4. CASE k.aim = "cancel"
      <4>1. ~Handling(task[u])
        BY <1>b, <3>1, <3>4 DEF Apart, Handling
      <4>2. ~Preparing(task[u])
        BY <3>1, <4>1, PreparingIsHandling DEF Fits
      <4>3. Fits(task[u], status', saved', stage', app)
        BY <2>3, <2>5, <3>1, <3>2, <3>4, <4>2 DEF Fits, Preparing, Unsubmitted
      <4>4. n # Idle => ~Line(n)
        BY <2>2, <3>4 DEF Line
      <4> QED BY <3>2, <4>1, <4>3, <4>4 DEF Apart
    <3> QED BY <3>3, <3>4
  <2> HIDE DEF n
  <2>6. \A j \in Jobs \ {k.job} : status'[j] = status[j] /\ saved'[j] = saved[j]
    BY <2>1 DEF TypeOK
  <2> QED BY <1>b, <1>f, <2>1, <2>2, <2>3, <2>4, <2>5, <2>6, RowStep
<1> QED BY <1>1, <1>2, <1>3

----------------------------------------------------------------------------
(* The commands, the recovery and the environment *)

\* A task that gets its work
LEMMA TaskStarts ==
    ASSUME OwnersInv, NEW t \in Tasks, ~Busy(t), NEW n \in BusyTasks, Become(t, n),
           app' = app, UNCHANGED db, Forward(stage, stage'),
           Fits(n, status', saved', stage', app),
           \A u \in Tasks \ {t} : Busy(u) =>
               /\ app = "ready"
               /\ n.job = task[u].job => Apart(n, task[u])
    PROVE  TasksFit' /\ TasksApart' /\ RowsOrdered'
<1> USE DEF OwnersInv, IInv
<1>1. ASSUME NEW u \in Tasks \ {t}, Busy(u)
      PROVE  Fits(task[u], status', saved', stage', app)
  BY <1>1, StillFits DEF db
<1>2. RowsOrdered'
  BY OrderedKept DEF db
<1> QED BY <1>1, <1>2, TaskMoves

LEMMA CommandsApart ==
    ASSUME OwnersInv, Calm, NEW t \in Tasks, NEW j \in Jobs,
           \/ \E i \in Instances : Start(t, j, i)
           \/ Retry(t, j) \/ Cancel(t, j) \/ Recover(t, j)
    PROVE  TasksFit' /\ TasksApart' /\ RowsOrdered'
<1> USE DEF OwnersInv, IInv
<1>b. ~Busy(t) /\ app' = app /\ UNCHANGED db
  BY DEF Start, Retry, Cancel, Recover, Free, boot
<1>v. UNCHANGED status /\ UNCHANGED saved
  BY <1>b DEF db
<1>o. ASSUME NEW u \in Tasks, Busy(u)
      PROVE  task[u] \in BusyTasks /\ Fits(task[u], status, saved, stage, app)
  BY <1>o, BusyIsTyped DEF TasksFit
<1>1. ASSUME NEW i \in Instances, Start(t, j, i)
      PROVE  TasksFit' /\ TasksApart' /\ RowsOrdered'
  <2>1. app = "ready" /\ status[j] = "none" /\ Prepare(t, j, i)
        /\ \A u \in Tasks : Busy(u) => task[u].job # j
    BY <1>1 DEF Start, Free
  <2>2. Forward(stage, stage')
    BY <2>1, PrepareForward
  <2>3. PICK rb \in LiveStages \cup {"none"} :
            Become(t, Running(j, "queue", "setup", FreshState(i, rb)))
    BY <2>1 DEF Prepare, Live
  <2> DEFINE n == Running(j, "queue", "setup", FreshState(i, rb))
  <2>4. n \in BusyTasks
    BY FreshIsTyped, RunningIsTyped DEF BusyPcs, Aims
  <2>5. n.pc = "queue" /\ n.aim = "setup" /\ n.job = j /\ ~n.js.staged /\ n.js.inst = i
    BY DEF Running, FreshState
  <2>6. stage'[i] # "unused"
    BY <2>1 DEF Prepare, TypeOK, Live, LiveStages
  <2>7. Fits(n, status', saved', stage', app)
    BY <1>v, <2>1, <2>5, <2>6
       DEF Fits, Placed, Preparing, Owner, Unsubmitted, WorkPcs, CleanPcs
  <2> HIDE DEF n
  <2> QED BY <1>b, <2>1, <2>2, <2>3, <2>4, <2>5, <2>7, TaskStarts DEF n
<1>2. CASE Retry(t, j)
  <2>1. /\ app = "ready" /\ status[j] \in {"failed", "interrupted"} /\ MayRetry(j)
        /\ UNCHANGED stage
    BY <1>2 DEF Retry, Free
  <2>2. PICK p \in {"clean", "prepare"} : Become(t, Running(j, p, "reclean", saved[j]))
    BY <1>2 DEF Retry
  <2> DEFINE n == Running(j, p, "reclean", saved[j])
  <2>3. n \in BusyTasks
    BY RunningIsTyped DEF TypeOK, BusyPcs, CleanPcs, Aims
  <2>4. n.pc = p /\ n.aim = "reclean" /\ n.job = j
    BY DEF Running
  <2>5. Fits(n, status', saved', stage', app)
    BY <1>v, <2>1, <2>2, <2>4
       DEF Fits, Placed, Preparing, Owner, Unsubmitted, WorkPcs, CleanPcs
  <2>6. ASSUME NEW u \in Tasks, Busy(u), task[u].job = j PROVE Apart(n, task[u])
    <3>1. User \in {"serial", "careful"}
      BY ConstantsAssumption DEF Calm, Users
    <3>2. ~Handling(task[u])
      BY <2>1, <2>6, <3>1 DEF MayRetry, Handled, Undisturbed, Handling
    <3>3. ~Line(task[u])
      BY <1>o, <2>1, <2>6, <3>2, PreparingIsHandling DEF Fits, Unsubmitted
    <3>4. ~Owner(n)
      BY <2>2, <2>4 DEF Owner, WorkPcs, CleanPcs
    <3> QED BY <3>2, <3>3, <3>4 DEF Apart
  <2> HIDE DEF n
  <2> QED BY <1>b, <2>1, <2>2, <2>3, <2>4, <2>5, <2>6, SameStageForward, TaskStarts DEF n
<1>3. CASE Cancel(t, j)
  <2>1. app = "ready" /\ status[j] = "queued" /\ ~Handled(j) /\ UNCHANGED stage
    BY <1>3 DEF Cancel, Free, MayCancel, Calm
  <2> DEFINE n == Running(j, "cclaim", "cancel", saved[j])
  <2>2. n \in BusyTasks
    BY RunningIsTyped DEF TypeOK, BusyPcs, Aims
  <2>3. n.pc = "cclaim" /\ n.aim = "cancel" /\ n.job = j /\ n.js = saved[j]
    BY DEF Running
  <2>4. ~saved[j].staged
    BY <2>1 DEF RowsOrdered, Ordered
  <2>5. Fits(n, status', saved', stage', app)
    BY <1>v, <2>1, <2>3, <2>4
       DEF Fits, Placed, Preparing, Line, Owner, WorkPcs, CleanPcs
  <2>6. ASSUME NEW u \in Tasks, Busy(u), task[u].job = j PROVE Apart(n, task[u])
    <3>1. ~Handling(task[u])
      BY <2>1, <2>6 DEF Handled, Handling
    <3> QED BY <2>3, <3>1 DEF Apart, Line, Owner, WorkPcs, CleanPcs
  <2>7. Become(t, n)
    BY <1>3 DEF Cancel
  <2> HIDE DEF n
  <2> QED BY <1>b, <2>1, <2>2, <2>3, <2>5, <2>6, <2>7, SameStageForward, TaskStarts
<1>4. CASE Recover(t, j)
  <2>1. /\ app = "init" /\ todo[j] \in JobState /\ UNCHANGED stage
        /\ \A k \in Jobs : ~Recovering(k)
    BY <1>4 DEF Recover, TypeOK
  <2> DEFINE n == Running(j, "clean", "recover", todo[j])
  <2>2. n \in BusyTasks
    BY <2>1, RunningIsTyped DEF BusyPcs, CleanPcs, Aims
  <2>3. n.pc = "clean" /\ n.aim = "recover" /\ n.job = j
    BY DEF Running
  <2>4. Fits(n, status', saved', stage', app)
    BY <2>1, <2>3 DEF Fits, Placed, Preparing, WorkPcs, CleanPcs
  <2>5. ASSUME NEW u \in Tasks, Busy(u) PROVE FALSE
    <3>1. task[u].aim = "recover" /\ task[u].job \in Jobs
      BY <1>o, <2>1, <2>5 DEF Fits, BusyTasks
    <3> QED BY <2>1, <2>5, <3>1 DEF Recovering
  <2>6. Become(t, n)
    BY <1>4 DEF Recover
  <2> HIDE DEF n
  <2> QED BY <1>b, <2>1, <2>2, <2>4, <2>5, <2>6, SameStageForward, TaskStarts
<1> QED BY <1>1, <1>2, <1>3, <1>4

LEMMA EnvironmentApart ==
    ASSUME OwnersInv, Calm,
           \/ Restart \/ Reload \/ InitReturns \/ Crash \/ UNCHANGED vars
           \/ \E i \in Instances : RemoveInstance(i)
    PROVE  TasksFit' /\ TasksApart' /\ RowsOrdered'
<1> USE DEF OwnersInv, IInv
<1>v. UNCHANGED status /\ UNCHANGED saved
  BY DEF Restart, Reload, InitReturns, Crash, RemoveInstance, vars, db
<1>f. Forward(stage, stage')
  BY SameStageForward
     DEF Restart, Reload, InitReturns, Crash, RemoveInstance, vars, Forward, TypeOK
<1>r. RowsOrdered'
  BY <1>v, <1>f, OrderedKept
<1>1. CASE Crash
  <2>1. \A t \in Tasks : ~Busy(t)'
    BY <1>1 DEF Crash, Busy
  <2> QED BY <1>r, <2>1 DEF TasksFit, TasksApart
<1>2. CASE Restart \/ InitReturns
  <2>1. \A t \in Tasks : ~Busy(t)
    <3> SUFFICES ASSUME NEW t \in Tasks, Busy(t) PROVE FALSE
      OBVIOUS
    <3>1. task[t].job \in Jobs /\ Fits(task[t], status, saved, stage, app)
      BY BusyIsTyped DEF BusyTasks, TasksFit
    <3> QED BY <1>2, <3>1 DEF Restart, InitReturns, Fits, Recovering
  <2>2. \A t \in Tasks : ~Busy(t)'
    BY <1>2, <2>1 DEF Restart, InitReturns, Busy
  <2> QED BY <1>r, <2>2 DEF TasksFit, TasksApart
<1>3. CASE UNCHANGED vars \/ \E i \in Instances : RemoveInstance(i)
  <2>1. UNCHANGED task /\ UNCHANGED app
    BY <1>3 DEF RemoveInstance, boot, vars
  <2>2. ASSUME NEW t \in Tasks, Busy(t)
        PROVE  Fits(task[t], status', saved', stage', app)
    BY <1>v, <1>f, <2>2, StillFits
  <2> QED BY <1>r, <2>1, <2>2 DEF TasksFit, TasksApart, Busy
<1>4. CASE Reload
  BY <1>4, ConstantsAssumption DEF Reload, Spend, Calm, TypeOK, Bounded
<1> QED BY <1>1, <1>2, <1>3, <1>4

----------------------------------------------------------------------------
(* The invariant and what follows from it *)

LEMMA OwnersKept ==
    ASSUME OwnersInv, Calm, [Next]_vars
    PROVE  OwnersInv'
<1>1. IInv'
  BY InvariantKept DEF OwnersInv
<1>2. TasksFit' /\ TasksApart' /\ RowsOrdered'
  <2>1. ASSUME NEW t \in Tasks, NEW j \in Jobs,
               \/ \E i \in Instances : Start(t, j, i)
               \/ Retry(t, j) \/ Cancel(t, j) \/ Recover(t, j)
        PROVE  TasksFit' /\ TasksApart' /\ RowsOrdered'
    BY <2>1, CommandsApart
  <2>2. ASSUME NEW t \in Tasks, Step(t) \/ Permit(t) \/ WorkError(t) \/ Fault(t)
        PROVE  TasksFit' /\ TasksApart' /\ RowsOrdered'
    <3>1. ~Fault(t)
      BY ConstantsAssumption DEF OwnersInv, IInv, Fault, Spend, Calm, TypeOK, Bounded
    <3> QED BY <2>2, <3>1, QuietActions, QueueApart, ClaimApart, SaveApart,
               CompleteApart, FinishApart DEF Step
  <2>3. CASE \/ Restart \/ Reload \/ InitReturns \/ Crash \/ UNCHANGED vars
             \/ \E i \in Instances : RemoveInstance(i)
    BY <2>3, EnvironmentApart
  <2> QED BY <2>1, <2>2, <2>3 DEF Next, RecoverNext
<1> QED BY <1>1, <1>2 DEF OwnersInv

(***************************************************************************)
(* What every task of a job knows of its row and of the other tasks of the *)
(* job holds at every moment, crashes and removals of instances included.  *)
(***************************************************************************)
THEOREM OwnersHold == ASSUME Calm PROVE Spec => []OwnersInv
<1>1. Init => OwnersInv
  <2> SUFFICES ASSUME Init PROVE OwnersInv
    OBVIOUS
  <2>1. ActiveCanRollBack /\ TasksCarryUndo
    BY DEF Init, ActiveCanRollBack, Active, ActiveStatuses, TasksCarryUndo, Busy
  <2>2. TasksFit /\ TasksApart
    BY DEF Init, TasksFit, TasksApart, Busy
  <2>3. RowsOrdered
    BY DEF Init, RowsOrdered
  <2> QED BY <2>1, <2>2, <2>3, InitIsTyped DEF OwnersInv, IInv
<1>2. OwnersInv /\ [Next]_vars => OwnersInv'
  BY OwnersKept
<1> QED BY <1>1, <1>2, PTL DEF Spec

(***************************************************************************)
(* A worker, a cancel and the recovery of one job never act at the same    *)
(* time: the install of run_job never goes on under a rollback.            *)
(***************************************************************************)
THEOREM OneOwnerHolds == ASSUME Calm PROVE Spec => []OneOwner
<1>1. OwnersInv => OneOwner
  <2> SUFFICES ASSUME OwnersInv, NEW t \in Tasks, NEW u \in Tasks, NEW j \in Jobs,
                      Owns(t, j), Owns(u, j), t # u
               PROVE  FALSE
    BY DEF OneOwner
  <2>1. Owner(task[t]) /\ Owner(task[u])
    BY DEF Owns, Owner
  <2> QED BY <2>1 DEF OwnersInv, TasksApart, Owns, Apart
<1> QED BY <1>1, OwnersHold, PTL

(***************************************************************************)
(* The statements that write install_jobs.status implement the life cycle  *)
(* of a job: a job is queued when it is new or over with an error, claimed *)
(* once, and only a claimed job succeeds or is canceled.                   *)
(***************************************************************************)
THEOREM ImplementsLifecycle == ASSUME Calm PROVE Spec => RefinesLifecycle
<1>1. Init => Lifecycle!Init
  BY DEF Init, Lifecycle!Init
<1>2. OwnersInv /\ [Next]_vars => [Lifecycle!Next]_status
  <2> SUFFICES ASSUME OwnersInv, [Next]_vars, ~UNCHANGED status
               PROVE  \E j \in Jobs : \/ Lifecycle!Submit(j) \/ Lifecycle!Claim(j)
                                      \/ Lifecycle!Succeed(j) \/ Lifecycle!Cancel(j)
                                      \/ Lifecycle!Fail(j)
    BY DEF Lifecycle!Next
  <2>1. PICK t \in Tasks : Queue(t) \/ Claim(t) \/ Complete(t) \/ Finish(t)
    BY DEF Next, RecoverNext, Step, Start, Retry, Cancel, Recover, Restart, Reload,
           InitReturns, Crash, RemoveInstance, RetryPrepare, Lock, Backup, Persist,
           Begin, Apply, Strand, Clean, RemoveDir, CopyBack, RestoreMetadata,
           ClearStaging, Permit, WorkError, Fault, vars, db
  <2> DEFINE k == task[t]
  <2>2. Busy(t) /\ k.job \in Jobs /\ Fits(k, status, saved, stage, app)
    BY <2>1, BusyIsTyped
       DEF Queue, Claim, Complete, Finish, At, OwnersInv, IInv, TasksFit, BusyTasks
  <2>3. CASE Queue(t)
    <3>1. status[k.job] \in {"none", "failed", "interrupted"}
      BY <2>2, <2>3 DEF Queue, At, Fits, Preparing, Unsubmitted
    <3>2. Lifecycle!Submit(k.job)
      BY <2>3, <3>1 DEF Queue, db, Lifecycle!Submit, Lifecycle!Move
    <3> QED BY <2>2, <3>2
  <2>4. CASE Claim(t)
    <3>1. Lifecycle!Claim(k.job)
      BY <2>4 DEF Claim, db, Lifecycle!Claim, Lifecycle!Move
    <3> QED BY <2>2, <3>1
  <2>5. CASE Complete(t)
    <3>1. Lifecycle!Succeed(k.job)
      BY <2>5 DEF Complete, db, Lifecycle!Succeed, Lifecycle!Move
    <3> QED BY <2>2, <3>1
  <2>6. CASE Finish(t)
    <3>1. /\ status' = [status EXCEPT ![k.job] = EndStatus(k)]
          /\ k.aim = "cancel" \/ Active(k.job)
          /\ k.pc = "finish"
      BY <2>6 DEF Finish, At, db
    <3>2. CASE k.aim = "cancel"
      <4>1. k.ok /\ status[k.job] = "running"
        BY <2>2, <3>1, <3>2 DEF Fits, Placed, Owner
      <4>2. Lifecycle!Cancel(k.job)
        BY <3>1, <3>2, <4>1 DEF EndStatus, Lifecycle!Cancel, Lifecycle!Move
      <4> QED BY <2>2, <4>2
    <3>3. CASE k.aim # "cancel"
      <4>1. status[k.job] \in {"queued", "running"}
        BY <3>1, <3>3 DEF Active, ActiveStatuses
      <4>2. EndStatus(k) \in {"failed", "interrupted"}
        BY <3>3 DEF EndStatus
      <4>3. Lifecycle!Fail(k.job)
        BY <3>1, <4>1, <4>2 DEF Lifecycle!Fail, Lifecycle!Move
      <4> QED BY <2>2, <4>3
    <3> QED BY <3>2, <3>3
  <2> QED BY <2>1, <2>3, <2>4, <2>5, <2>6
<1> QED BY <1>1, <1>2, OwnersHold, PTL DEF Spec, RefinesLifecycle, Lifecycle!Spec
=============================================================================
