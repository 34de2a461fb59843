-------------------------- MODULE InstallSitesProofs --------------------------
(***************************************************************************)
(* What the jobs do to the instances: theorems about InstallJobs for every *)
(* number of jobs, instances and tasks, every crash and every removal of   *)
(* an instance.                                                            *)
(*                                                                         *)
(* The invariant says of every active job how far its instance may be      *)
(* damaged, given what its row and its backup hold (Undoable), and of the  *)
(* task that owns it what the next of its steps relies on (Leaves).  It    *)
(* rests on one job being active on an instance at a time (SitesApart).    *)
(***************************************************************************)
EXTENDS InstallJobsProofs

(***************************************************************************)
(* The world these theorems are about: a command waits until nothing else  *)
(* works on its job or on its instance.  A failing statement can make a    *)
(* rollback fail and leave the damage to a retry, a reload can start a     *)
(* second rollback: TLC checks those on small instances.                   *)
(***************************************************************************)
Careful == User = "careful" /\ MaxFaults = 0 /\ MaxReloads = 0

\* The content of an instance that is not damaged; a pack may leave a half of one
Good(c) == \/ c = "whole"
           \/ c = "partial" /\ \E j \in Jobs : Kind[j] = "pack"

\* The instance a setup is about to write into the row of its job
Site(k) == IF Existing(k.job) \/ k.pc = "queue" THEN k.js.inst ELSE None

\* The instance of an existing job was installed once
Settled(j, js, sg) ==
    Existing(j) /\ js.inst # None => sg[js.inst] \in {"installed", "installing", "gone"}

\* Nothing is to be done about instance i
Quiet(i, sg, ct) ==
    \/ sg[i] = "gone"
    \/ sg[i] = "unused" /\ i \notin Installed
    \/ sg[i] = "not_installed" /\ i \notin Installed /\ \E j \in Jobs : ~Existing(j)
    \/ sg[i] = "installed" /\ Good(ct[i])

(***************************************************************************)
(* What the row js of an active job j says of its instance, when b is the  *)
(* backup: damage that the rollback cannot see is not done.                *)
(***************************************************************************)
Undoable(j, js, sg, ct, b, ap) ==
    \/ Lost(js, sg)
    \/ /\ Existing(j) /\ js.rollback = "installed"
       /\ sg[js.inst] \in {"installed", "installing"}
       /\ js.staged => Kind[j] = "shared" /\ Good(b)
       /\ ~Good(ct[js.inst]) => js.staged /\ (ap = "ready" => sg[js.inst] = "installing")
    \/ /\ ~Existing(j) /\ js.inst \notin Installed
       /\ sg[js.inst] \in {"not_installed", "installing"}

\* What a setup that has not written the row yet knows of the instance
SetupKnows(k, sg, ct) ==
    /\ Settled(k.job, k.js, sg)
    /\ k.aim = "reclean" => k.pc = "prepare"
    /\ k.aim = "undo" => k.pc = "clean" /\ ~k.js.staged /\ Lost(k.js, sg)
    /\ k.pc = "queue" =>
          \/ Lost(k.js, sg)
          \/ Existing(k.job) /\ k.js.rollback = "installed"
             /\ sg[k.js.inst] = "installed" /\ Good(ct[k.js.inst])
          \/ ~Existing(k.job) /\ sg[k.js.inst] = "not_installed" /\ k.js.inst \notin Installed

\* How the state an owner carries is related to the row js of its job
Carries(k, js) ==
    /\ k.pc \in WorkPcs \cup CleanPcs \cup {"done"} => k.js = js
    /\ k.pc = "relock" => Existing(k.job)
    /\ k.pc \in {"backup", "persist"} => Kind[k.job] = "shared"
    /\ k.pc \in {"relock", "backup", "persist"} => ~js.staged
    /\ k.pc \in {"begin", "apply"} /\ Kind[k.job] = "shared" => js.staged
    /\ k.pc \in {"copyback", "meta"} => Kind[k.job] = "shared" /\ js.staged
    /\ k.pc = "rmdir" => ~Existing(k.job)
    /\ k.pc = "finish" => IF ~k.ok THEN Existing(k.job) /\ k.js.inst = js.inst
                          ELSE IF Existing(k.job) THEN k.js = js
                          ELSE k.js = [js EXCEPT !.inst = None]

\* What an owner knows of the instance, as long as nobody has deleted it
Leaves(k, js, sg, ct, b, ap) ==
    /\ k.pc = "persist" => Good(b)
    /\ k.pc \in {"backup", "persist", "begin", "apply", "done"} /\ Existing(k.job) =>
          sg[js.inst] = "installing"
    /\ k.pc \in {"done", "meta"} => Good(ct[js.inst])
    /\ k.pc \in {"clean", "copyback"} /\ RestoresBackup(k) /\ ap = "ready" =>
          sg[js.inst] = "installing"
    /\ k.pc = "finish" => sg[js.inst] = "installed" /\ Good(ct[js.inst]) /\ Existing(k.job) /\ k.ok
    /\ k.pc \notin {"strand", "rmdir"} /\ k.aim # "strand"

Knows(k, st, sv, sg, ct, b, ap) ==
    /\ Preparing(k) => SetupKnows(k, sg, ct)
    /\ k.pc = "lock" => Existing(k.job) /\ st = "queued" /\ k.js = sv
    /\ k.pc \in {"claim", "cclaim"} /\ st = "queued" => k.js = sv
    /\ k.pc = "clear" => st \notin ActiveStatuses
    /\ Owner(k) => /\ st \in ActiveStatuses
                   /\ Carries(k, sv)
                   /\ Lost(sv, sg) \/ Leaves(k, sv, sg, ct, b, ap)

TasksKnow ==
    \A t \in Tasks : Busy(t) =>
        LET k == task[t] IN
        Knows(k, status[k.job], saved[k.job], stage, content, backup[k.job], app)

RowsKnow ==
    \A j \in Jobs :
        /\ Settled(j, saved[j], stage)
        /\ ~saved[j].rbErr
        /\ Active(j) => Undoable(j, saved[j], stage, content, backup[j], app)

SitesApart ==
    /\ \A j, l \in Jobs :
          Active(j) /\ Active(l) /\ saved[j].inst = saved[l].inst => j = l
    /\ \A t \in Tasks, j \in Jobs :
          Busy(t) /\ Preparing(task[t]) /\ Active(j) => saved[j].inst # Site(task[t])
    /\ \A t, u \in Tasks :
          Busy(t) /\ Busy(u) /\ t # u /\ Preparing(task[t]) =>
              /\ task[u].job # task[t].job
              /\ Preparing(task[u]) /\ Site(task[t]) # None => Site(task[t]) # Site(task[u])

\* The recovery has every active job on its list or in hand
Listed ==
    /\ \A j \in Jobs :
          /\ todo[j] # Nothing => app = "init" /\ Active(j) /\ todo[j] = saved[j]
          /\ app = "init" /\ Active(j) =>
                todo[j] # Nothing \/ Recovering(j) \/ Lost(saved[j], stage)
    /\ \A t \in Tasks :
          Busy(t) /\ task[t].aim = "recover" => todo[task[t].job] = Nothing

\* An instance that no active job works on needs nothing
Rested ==
    \A i \in Instances :
        (\A j \in Jobs : Active(j) => saved[j].inst # i) => Quiet(i, stage, content)

\* The inductive invariant of the theorems below
SitesInv == OwnersInv /\ TasksKnow /\ RowsKnow /\ SitesApart /\ Listed /\ Rested

----------------------------------------------------------------------------
(* What a step at one instance leaves alone *)

\* No step makes an instance that was installed once look as if it never was
Steady(sg, sg2) ==
    \A i \in Instances : sg[i] \in {"installed", "installing", "gone"} =>
        sg2[i] \in {"installed", "installing", "gone"}

LEMMA LostKept ==
    ASSUME NEW sg, NEW sg2, Forward(sg, sg2), NEW js \in JobState, Lost(js, sg)
    PROVE  Lost(js, sg2)
BY DEF Lost, Forward, JobState

LEMMA SettledKept ==
    ASSUME NEW sg, NEW sg2, Steady(sg, sg2), NEW j, NEW js \in JobState, Settled(j, js, sg)
    PROVE  Settled(j, js, sg2)
BY DEF Settled, Steady, JobState

\* What a task knows stays true when its row and its instance stay as they are
LEMMA KnowsKept ==
    ASSUME NEW k \in BusyTasks, NEW st, NEW sv \in JobState, NEW b, NEW ap,
           NEW sg, NEW sg2, NEW ct, NEW ct2,
           Knows(k, st, sv, sg, ct, b, ap), Forward(sg, sg2), Steady(sg, sg2),
           k.pc = "queue" /\ ~Lost(k.js, sg) =>
               sg2[k.js.inst] = sg[k.js.inst] /\ ct2[k.js.inst] = ct[k.js.inst],
           Owner(k) /\ ~Lost(sv, sg) =>
               sg2[sv.inst] = sg[sv.inst] /\ ct2[sv.inst] = ct[sv.inst]
    PROVE  Knows(k, st, sv, sg2, ct2, b, ap)
<1>1. k.js \in JobState
  BY DEF BusyTasks
<1>2. Preparing(k) => SetupKnows(k, sg2, ct2)
  <2> HAVE Preparing(k)
  <2>1. SetupKnows(k, sg, ct)
    BY DEF Knows
  <2>2. Settled(k.job, k.js, sg2) /\ (Lost(k.js, sg) => Lost(k.js, sg2))
    BY <1>1, <2>1, SettledKept, LostKept DEF SetupKnows
  <2> QED BY <2>1, <2>2 DEF SetupKnows
<1>3. Owner(k) => Lost(sv, sg2) \/ Leaves(k, sv, sg2, ct2, b, ap)
  <2> HAVE Owner(k)
  <2>1. CASE Lost(sv, sg)
    BY <2>1, LostKept
  <2>2. CASE ~Lost(sv, sg)
    BY <2>2 DEF Knows, Leaves
  <2> QED BY <2>1, <2>2
<1> QED BY <1>2, <1>3 DEF Knows

\* The same of the row of an active job
LEMMA UndoableKept ==
    ASSUME NEW j \in Jobs, NEW js \in JobState, NEW b, NEW ap,
           NEW sg, NEW sg2, NEW ct, NEW ct2, Forward(sg, sg2),
           Undoable(j, js, sg, ct, b, ap),
           ~Lost(js, sg) => sg2[js.inst] = sg[js.inst] /\ ct2[js.inst] = ct[js.inst]
    PROVE  Undoable(j, js, sg2, ct2, b, ap)
<1>1. CASE Lost(js, sg)
  BY <1>1, LostKept DEF Undoable
<1>2. CASE ~Lost(js, sg)
  BY <1>2 DEF Undoable
<1> QED BY <1>1, <1>2

\* Every active job has an instance that was created
LEMMA ActiveSite ==
    ASSUME SitesInv, NEW j \in Jobs, Active(j)
    PROVE  /\ saved[j] \in JobState /\ saved[j].inst \in Instances
           /\ stage[saved[j].inst] # "unused"
           /\ ~Live(saved[j].inst) => Lost(saved[j], stage)
           /\ Existing(j) => saved[j].rollback # "none"
           /\ ~saved[j].rbErr
<1>1. saved[j] \in JobState /\ CanRollBack(j, saved[j])
  BY DEF SitesInv, OwnersInv, IInv, TypeOK, ActiveCanRollBack
<1>2. Undoable(j, saved[j], stage, content, backup[j], app)
  BY DEF SitesInv, RowsKnow
<1> QED BY <1>1, <1>2 DEF CanRollBack, JobState, Undoable, Lost, Live, LiveStages

----------------------------------------------------------------------------
(* A step of one task, for one job *)

\* The instances that a step for job j may change: its own while it is active,
\* and one that was not created yet
Touches(j) ==
    /\ \A i \in Instances :
          stage[i] # "unused" /\ (Active(j) => saved[j].inst # i) =>
              stage'[i] = stage[i] /\ content'[i] = content[i]
    /\ \A i \in Instances : stage[i] = "unused" => Quiet(i, stage', content')
    /\ Forward(stage, stage') /\ Steady(stage, stage')

\* The rows of the other jobs
SameRows(j) ==
    \A l \in Jobs \ {j} : /\ status'[l] = status[l] /\ saved'[l] = saved[l]
                          /\ backup'[l] = backup[l] /\ todo'[l] = todo[l]

\* What a step has to show of the row of its job j
RowKnows(j) ==
    /\ Settled(j, saved'[j], stage') /\ ~saved'[j].rbErr
    /\ status'[j] \in ActiveStatuses =>
           Undoable(j, saved'[j], stage', content', backup'[j], app')

Apart2(j) ==
    status'[j] \in ActiveStatuses =>
        /\ \A l \in Jobs \ {j} : Active(l) => saved[l].inst # saved'[j].inst
        /\ \A u \in Tasks : Busy(u) /\ Preparing(task[u]) /\ task[u].job # j =>
              saved'[j].inst # Site(task[u])

\* The tasks of other jobs know what they knew
LEMMA OthersKnow ==
    ASSUME SitesInv, NEW j \in Jobs, Touches(j), SameRows(j), app' = app,
           NEW u \in Tasks, Busy(u), task[u].job # j
    PROVE  LET k == task[u] IN
           Knows(k, status'[k.job], saved'[k.job], stage', content', backup'[k.job], app')
<1> DEFINE k == task[u]
<1>1. k \in BusyTasks /\ k.job \in Jobs \ {j} /\ k.js \in JobState
  BY BusyIsTyped DEF SitesInv, OwnersInv, IInv, BusyTasks
<1>2. Knows(k, status[k.job], saved[k.job], stage, content, backup[k.job], app)
  BY DEF SitesInv, TasksKnow
<1>3. saved[k.job] \in JobState
  BY <1>1 DEF SitesInv, OwnersInv, IInv, TypeOK
<1>4. Forward(stage, stage') /\ Steady(stage, stage')
  BY DEF Touches
<1>5. ASSUME k.pc = "queue", ~Lost(k.js, stage)
      PROVE  stage'[k.js.inst] = stage[k.js.inst] /\ content'[k.js.inst] = content[k.js.inst]
  <2>1. Preparing(k) /\ Site(k) = k.js.inst
    BY <1>5 DEF Preparing, Site
  <2>2. k.js.inst \in Instances /\ stage[k.js.inst] # "unused"
    <3>1. k.js.inst # None
      BY <1>5 DEF SitesInv, OwnersInv, IInv, TasksCarryUndo, CarriesUndo, CanRollBack, WriterPcs
    <3>2. SetupKnows(k, stage, content)
      BY <1>2, <2>1 DEF Knows
    <3> QED BY <1>1, <1>5, <3>1, <3>2 DEF SetupKnows, JobState
  <2>3. Active(j) => saved[j].inst # k.js.inst
    BY <2>1 DEF SitesInv, SitesApart
  <2> QED BY <2>2, <2>3 DEF Touches
<1>6. ASSUME Owner(k), ~Lost(saved[k.job], stage)
      PROVE  /\ stage'[saved[k.job].inst] = stage[saved[k.job].inst]
             /\ content'[saved[k.job].inst] = content[saved[k.job].inst]
  <2>1. Active(k.job)
    BY <1>2, <1>6 DEF Knows, Active
  <2>2. saved[k.job].inst \in Instances /\ stage[saved[k.job].inst] # "unused"
    BY <1>1, <2>1, ActiveSite
  <2>3. Active(j) => saved[j].inst # saved[k.job].inst
    BY <1>1, <2>1 DEF SitesInv, SitesApart
  <2> QED BY <2>2, <2>3 DEF Touches
<1>7. Knows(k, status[k.job], saved[k.job], stage', content', backup[k.job], app)
  BY <1>1, <1>2, <1>3, <1>4, <1>5, <1>6, KnowsKept
<1> QED BY <1>1, <1>7 DEF SameRows

\* So do the rows of other jobs
LEMMA OthersRows ==
    ASSUME SitesInv, NEW j \in Jobs, Touches(j), SameRows(j), RowKnows(j), app' = app
    PROVE  RowsKnow'
<1> SUFFICES ASSUME NEW l \in Jobs, l # j
             PROVE  /\ Settled(l, saved'[l], stage') /\ ~saved'[l].rbErr
                    /\ Active(l)' => Undoable(l, saved'[l], stage', content', backup'[l], app')
  BY DEF RowsKnow, RowKnows, Active
<1>1. /\ status'[l] = status[l] /\ saved'[l] = saved[l] /\ backup'[l] = backup[l]
      /\ Forward(stage, stage') /\ Steady(stage, stage')
  BY DEF SameRows, Touches
<1>2. saved[l] \in JobState
  BY DEF SitesInv, OwnersInv, IInv, TypeOK
<1>3. Settled(l, saved[l], stage') /\ ~saved[l].rbErr
  BY <1>1, <1>2, SettledKept DEF SitesInv, RowsKnow
<1>4. ASSUME Active(l)
      PROVE  Undoable(l, saved[l], stage', content', backup[l], app)
  <2>1. Undoable(l, saved[l], stage, content, backup[l], app)
    BY <1>4 DEF SitesInv, RowsKnow
  <2>2. saved[l].inst \in Instances /\ stage[saved[l].inst] # "unused"
    BY <1>4, ActiveSite
  <2>3. Active(j) => saved[j].inst # saved[l].inst
    BY <1>4 DEF SitesInv, SitesApart
  <2>4. /\ stage'[saved[l].inst] = stage[saved[l].inst]
        /\ content'[saved[l].inst] = content[saved[l].inst]
    BY <2>2, <2>3 DEF Touches
  <2> QED BY <1>1, <1>2, <2>1, <2>4, UndoableKept
<1> QED BY <1>1, <1>3, <1>4 DEF Active

(***************************************************************************)
(* Task t takes a step for job j and becomes n.                            *)
(***************************************************************************)
LEMMA Moves ==
    ASSUME SitesInv, NEW t \in Tasks, NEW j \in Jobs, NEW n, Become(t, n), app' = app,
           Busy(t) => task[t].job = j,
           n # Idle => n.job = j,
           Touches(j), SameRows(j), RowKnows(j), Apart2(j),
           n # Idle => Knows(n, status'[j], saved'[j], stage', content', backup'[j], app'),
           \A u \in Tasks \ {t} : Busy(u) /\ task[u].job = j =>
               Knows(task[u], status'[j], saved'[j], stage', content', backup'[j], app'),
           \* the setups
           n # Idle => \A u \in Tasks \ {t} : Busy(u) =>
               /\ Preparing(n) \/ Preparing(task[u]) => task[u].job # j
               /\ Preparing(n) /\ Preparing(task[u]) /\ Site(n) # None => Site(n) # Site(task[u]),
           n # Idle /\ Preparing(n) =>
               /\ status'[j] \notin ActiveStatuses
               /\ \A l \in Jobs \ {j} : Active(l) => saved[l].inst # Site(n),
           \A u \in Tasks \ {t} : Busy(u) /\ Preparing(task[u]) /\ task[u].job = j =>
               status'[j] \notin ActiveStatuses,
           \* the recovery
           todo'[j] # Nothing =>
               app = "init" /\ status'[j] \in ActiveStatuses /\ todo'[j] = saved'[j],
           app = "init" /\ status'[j] \in ActiveStatuses =>
               \/ todo'[j] # Nothing \/ Lost(saved'[j], stage')
               \/ n # Idle /\ n.aim = "recover",
           n # Idle /\ n.aim = "recover" => todo'[j] = Nothing,
           \A u \in Tasks \ {t} : Busy(u) /\ task[u].aim = "recover" /\ task[u].job = j =>
               todo'[j] = Nothing,
           \* the instance that nobody works on any more
           Active(j) /\ ~(status'[j] \in ActiveStatuses /\ saved'[j].inst = saved[j].inst) =>
               Quiet(saved[j].inst, stage', content')
    PROVE  TasksKnow' /\ RowsKnow' /\ SitesApart' /\ Listed' /\ Rested'
<1>t. \A u \in Tasks : task'[u] = IF u = t THEN n ELSE task[u]
  BY DEF Become, SitesInv, OwnersInv, IInv, TypeOK
<1>b. \A u \in Tasks : Busy(u)' <=> (IF u = t THEN n # Idle ELSE Busy(u))
  BY <1>t DEF Busy
<1>o. ASSUME NEW u \in Tasks, Busy(u)
      PROVE  task[u].job \in Jobs
  BY <1>o, BusyIsTyped DEF SitesInv, OwnersInv, IInv, BusyTasks
<1>a. \A l \in Jobs \ {j} : Active(l)' <=> Active(l)
  BY DEF SameRows, Active
<1>1. TasksKnow'
  <2> SUFFICES ASSUME NEW u \in Tasks, Busy(u)'
               PROVE  LET k == task[u] IN
                      Knows(k', status'[k.job'], saved'[k.job'], stage', content',
                            backup'[k.job'], app')
    BY DEF TasksKnow
  <2>1. CASE u = t
    <3>1. task'[u] = n /\ n # Idle /\ n.job = j
      BY <1>t, <1>b, <2>1
    <3> QED BY <3>1
  <2>2. CASE u # t /\ task[u].job = j
    <3>1. Busy(u) /\ task'[u] = task[u]
      BY <1>t, <1>b, <2>2
    <3> QED BY <2>2, <3>1
  <2>3. CASE u # t /\ task[u].job # j
    <3>1. Busy(u) /\ task'[u] = task[u]
      BY <1>t, <1>b, <2>3
    <3> QED BY <2>3, <3>1, OthersKnow
  <2> QED BY <2>1, <2>2, <2>3
<1>2. RowsKnow'
  BY OthersRows
<1>3. SitesApart'
  <2>1. ASSUME NEW l \in Jobs, NEW m \in Jobs, Active(l)', Active(m)',
               saved'[l].inst = saved'[m].inst
        PROVE  l = m
    <3>1. CASE l # j /\ m # j
      BY <1>a, <2>1, <3>1 DEF SameRows, SitesInv, SitesApart
    <3>2. CASE l = j /\ m # j
      BY <1>a, <2>1, <3>2 DEF SameRows, Apart2, Active
    <3>3. CASE l # j /\ m = j
      BY <1>a, <2>1, <3>3 DEF SameRows, Apart2, Active
    <3> QED BY <3>1, <3>2, <3>3
  <2>2. ASSUME NEW u \in Tasks, NEW l \in Jobs, Busy(u)', Preparing(task'[u]), Active(l)'
        PROVE  saved'[l].inst # Site(task'[u])
    <3>1. CASE u = t /\ l # j
      BY <1>t, <1>b, <1>a, <2>2, <3>1 DEF SameRows
    <3>2. CASE u = t /\ l = j
      BY <1>t, <1>b, <2>2, <3>2 DEF Active
    <3>3. CASE u # t /\ l # j
      BY <1>t, <1>b, <1>a, <2>2, <3>3 DEF SameRows, SitesInv, SitesApart
    <3>4. CASE u # t /\ l = j
      BY <1>t, <1>b, <2>2, <3>4 DEF Apart2, Active
    <3> QED BY <3>1, <3>2, <3>3, <3>4
  <2>3. ASSUME NEW u \in Tasks, NEW v \in Tasks, Busy(u)', Busy(v)', u # v, Preparing(task'[u])
        PROVE  /\ task'[v].job # task'[u].job
               /\ Preparing(task'[v]) /\ Site(task'[u]) # None =>
                      Site(task'[u]) # Site(task'[v])
    <3>1. CASE u # t /\ v # t
      BY <1>t, <1>b, <2>3, <3>1 DEF SitesInv, SitesApart
    <3>2. CASE u = t
      BY <1>t, <1>b, <2>3, <3>2
    <3>3. CASE v = t
      BY <1>t, <1>b, <2>3, <3>3
    <3> QED BY <3>1, <3>2, <3>3
  <2> QED BY <2>1, <2>2, <2>3 DEF SitesApart
<1>4. Listed'
  <2>1. ASSUME NEW l \in Jobs, todo'[l] # Nothing
        PROVE  app' = "init" /\ Active(l)' /\ todo'[l] = saved'[l]
    BY <1>a, <2>1 DEF SameRows, SitesInv, Listed, Active
  <2>2. ASSUME NEW l \in Jobs, app' = "init", Active(l)'
        PROVE  todo'[l] # Nothing \/ Recovering(l)' \/ Lost(saved'[l], stage')
    <3>1. CASE l = j
      <4>1. n # Idle /\ n.aim = "recover" => Recovering(j)'
        BY <1>t, <1>b DEF Recovering
      <4> QED BY <2>2, <3>1, <4>1 DEF Active
    <3>2. CASE l # j
      <4>1. todo[l] # Nothing \/ Recovering(l) \/ Lost(saved[l], stage)
        BY <1>a, <2>2, <3>2 DEF SitesInv, Listed
      <4>2. CASE Recovering(l)
        <5>1. PICK u \in Tasks : Busy(u) /\ task[u].job = l /\ task[u].aim = "recover"
          BY <4>2 DEF Recovering
        <5>2. u # t
          BY <3>2, <5>1
        <5> QED BY <1>t, <1>b, <5>1, <5>2 DEF Recovering
      <4>3. CASE Lost(saved[l], stage)
        BY <3>2, <4>3, LostKept DEF SameRows, Touches, SitesInv, OwnersInv, IInv, TypeOK
      <4> QED BY <3>2, <4>1, <4>2, <4>3 DEF SameRows
    <3> QED BY <3>1, <3>2
  <2>3. ASSUME NEW u \in Tasks, Busy(u)', task'[u].aim = "recover"
        PROVE  todo'[task'[u].job] = Nothing
    <3>1. CASE u = t
      BY <1>t, <1>b, <2>3, <3>1
    <3>2. CASE u # t
      BY <1>t, <1>b, <1>o, <2>3, <3>2 DEF SameRows, SitesInv, Listed
    <3> QED BY <3>1, <3>2
  <2> QED BY <2>1, <2>2, <2>3 DEF Listed
<1>5. Rested'
  <2> SUFFICES ASSUME NEW i \in Instances, \A l \in Jobs : Active(l)' => saved'[l].inst # i
               PROVE  Quiet(i, stage', content')
    BY DEF Rested
  <2>1. \A l \in Jobs \ {j} : Active(l) => saved[l].inst # i
    BY <1>a DEF SameRows
  <2>2. CASE Active(j) /\ saved[j].inst = i
    <3>1. ~(status'[j] \in ActiveStatuses /\ saved'[j].inst = i)
      BY DEF Active
    <3> QED BY <2>2, <3>1
  <2>3. CASE ~(Active(j) /\ saved[j].inst = i)
    <3>1. \A l \in Jobs : Active(l) => saved[l].inst # i
      BY <2>1, <2>3
    <3>2. Quiet(i, stage, content)
      BY <3>1 DEF SitesInv, Rested
    <3>3. CASE stage[i] = "unused"
      BY <3>3 DEF Touches
    <3>4. CASE stage[i] # "unused"
      <4>1. stage'[i] = stage[i] /\ content'[i] = content[i]
        BY <2>3, <3>4 DEF Touches
      <4> QED BY <3>2, <4>1 DEF Quiet
    <3> QED BY <3>3, <3>4
  <2> QED BY <2>2, <2>3
<1> QED BY <1>1, <1>2, <1>3, <1>4, <1>5

\* What follows of the invariant for a task that is at work
LEMMA AtWork ==
    ASSUME SitesInv, NEW t \in Tasks, Busy(t)
    PROVE  LET k == task[t] IN
           /\ k \in BusyTasks /\ k.job \in Jobs /\ k.js \in JobState
           /\ saved[k.job] \in JobState /\ CarriesUndo(k)
           /\ Fits(k, status, saved, stage, app)
           /\ Knows(k, status[k.job], saved[k.job], stage, content, backup[k.job], app)
           /\ app = "ready" <=> k.aim # "recover"
BY BusyIsTyped
   DEF SitesInv, OwnersInv, IInv, TypeOK, TasksKnow, TasksFit, TasksCarryUndo, BusyTasks, Fits

\* Another task of the job of a task
LEMMA Mates ==
    ASSUME SitesInv, NEW t \in Tasks, Busy(t), NEW u \in Tasks \ {t}, Busy(u),
           task[u].job = task[t].job
    PROVE  /\ app = "ready" /\ Apart(task[t], task[u])
           /\ task[t].aim # "recover" /\ task[u].aim # "recover"
           /\ ~Preparing(task[t]) /\ ~Preparing(task[u])
<1>1. app = "ready" /\ Apart(task[t], task[u])
  BY OthersOfJob DEF SitesInv
<1>2. task[t].aim # "recover" /\ task[u].aim # "recover"
  BY <1>1, AtWork
<1> QED BY <1>1, <1>2 DEF SitesInv, SitesApart

(***************************************************************************)
(* Task t, at work for job j, becomes n; the row of j may change, but j    *)
(* does not become active, nor does n begin to prepare an instance.        *)
(***************************************************************************)
LEMMA Goes ==
    ASSUME SitesInv, NEW t \in Tasks, Busy(t), NEW n, Become(t, n), UNCHANGED boot,
           NEW j \in Jobs, j = task[t].job,
           Touches(j), SameRows(j), RowKnows(j),
           status'[j] \in ActiveStatuses => Active(j) /\ saved'[j].inst = saved[j].inst,
           Active(j) /\ status'[j] \notin ActiveStatuses => Quiet(saved[j].inst, stage', content'),
           n # Idle =>
               /\ n.job = j /\ (n.aim = "recover" => task[t].aim = "recover")
               /\ Knows(n, status'[j], saved'[j], stage', content', backup'[j], app)
               /\ Preparing(n) => Preparing(task[t]) /\ Site(n) \in {None, Site(task[t])},
           \A u \in Tasks \ {t} : Busy(u) /\ task[u].job = j =>
               Knows(task[u], status'[j], saved'[j], stage', content', backup'[j], app),
           app = "init" /\ status'[j] \in ActiveStatuses =>
               (n # Idle /\ n.aim = "recover") \/ Lost(saved'[j], stage')
    PROVE  TasksKnow' /\ RowsKnow' /\ SitesApart' /\ Listed' /\ Rested'
<1> DEFINE k == task[t]
<1>0. app' = app /\ todo' = todo
  BY DEF boot
<1>w. /\ k \in BusyTasks /\ Fits(k, status, saved, stage, app)
      /\ Knows(k, status[j], saved[j], stage, content, backup[j], app)
      /\ app = "ready" <=> k.aim # "recover"
  BY AtWork
<1>1. Apart2(j)
  BY DEF Apart2, SitesInv, SitesApart
<1>2. n # Idle => \A u \in Tasks \ {t} : Busy(u) =>
         /\ Preparing(n) \/ Preparing(task[u]) => task[u].job # j
         /\ Preparing(n) /\ Preparing(task[u]) /\ Site(n) # None => Site(n) # Site(task[u])
  BY DEF SitesInv, SitesApart
<1>3. n # Idle /\ Preparing(n) =>
         /\ status'[j] \notin ActiveStatuses
         /\ \A l \in Jobs \ {j} : Active(l) => saved[l].inst # Site(n)
  <2> SUFFICES ASSUME n # Idle, Preparing(n)
               PROVE  /\ status'[j] \notin ActiveStatuses
                      /\ \A l \in Jobs \ {j} : Active(l) => saved[l].inst # Site(n)
    OBVIOUS
  <2>1. Preparing(k) /\ Site(n) \in {None, Site(k)}
    OBVIOUS
  <2>2. ~Active(j)
    BY <1>w, <2>1 DEF Fits, Unsubmitted, Active, ActiveStatuses
  <2>3. ASSUME NEW l \in Jobs, Active(l) PROVE saved[l].inst # Site(n)
    <3>1. saved[l].inst # Site(k) /\ saved[l].inst # None
      BY <2>1, <2>3, ActiveSite, ConstantsAssumption DEF SitesInv, SitesApart
    <3> QED BY <2>1, <3>1
  <2> QED BY <2>2, <2>3
<1>4. \A u \in Tasks \ {t} : ~(Busy(u) /\ Preparing(task[u]) /\ task[u].job = j)
  BY Mates
<1>5. \A u \in Tasks \ {t} : ~(Busy(u) /\ task[u].aim = "recover" /\ task[u].job = j)
  BY Mates
<1>6. k.aim = "recover" => todo[j] = Nothing
  BY DEF SitesInv, Listed
<1>7. todo[j] = Nothing
  BY <1>w, <1>6 DEF SitesInv, Listed
<1> QED BY <1>0, <1>1, <1>2, <1>3, <1>4, <1>5, <1>7, Moves

\* The other tasks of a job under a step of its owner
LEMMA OwnersMates ==
    ASSUME SitesInv, NEW t \in Tasks, Busy(t), NEW j \in Jobs, j = task[t].job,
           Owner(task[t]), Touches(j),
           status'[j] = "queued" => status[j] = "queued" /\ saved'[j] = saved[j],
           NEW u \in Tasks \ {t}, Busy(u), task[u].job = j
    PROVE  Knows(task[u], status'[j], saved'[j], stage', content', backup'[j], app)
<1> DEFINE k == task[t]
           l == task[u]
<1>1. /\ Apart(k, l) /\ ~Preparing(k) /\ ~Preparing(l)
      /\ k.aim # "recover" /\ l.aim # "recover"
  BY Mates
<1>2. /\ k \in BusyTasks /\ l \in BusyTasks /\ Placed(k) /\ Placed(l)
      /\ Knows(k, status[j], saved[j], stage, content, backup[j], app)
      /\ Knows(l, status[j], saved[j], stage, content, backup[j], app)
  BY AtWork DEF Fits
<1>3. ~Owner(l)
  BY <1>1 DEF Apart
<1>4. l.pc # "clear"
  BY <1>2 DEF Knows
<1>5. l.pc # "lock"
  BY <1>1, <1>2 DEF Apart, Owner, Line, Handling, Placed, WorkPcs, CleanPcs
<1> QED BY <1>1, <1>2, <1>3, <1>4, <1>5 DEF Knows

\* The other tasks of a job whose row stays as it is
LEMMA RowsMates ==
    ASSUME SitesInv, NEW t \in Tasks, Busy(t), NEW j \in Jobs, j = task[t].job,
           Touches(j), status'[j] = status[j], saved'[j] = saved[j],
           \/ ~Active(j)
           \/ status[j] = "queued" /\ backup'[j] = backup[j]
           \/ UNCHANGED <<stage, content, backup>>,
           NEW u \in Tasks \ {t}, Busy(u), task[u].job = j
    PROVE  Knows(task[u], status'[j], saved'[j], stage', content', backup'[j], app)
<1> DEFINE l == task[u]
<1>1. ~Preparing(l) /\ l.aim # "recover"
  BY Mates
<1>2. /\ l \in BusyTasks /\ Fits(l, status, saved, stage, app)
      /\ Knows(l, status[j], saved[j], stage, content, backup[j], app)
      /\ saved[j] \in JobState
  BY AtWork
<1>3. CASE ~Active(j)
  BY <1>1, <1>2, <1>3 DEF Knows, Active
<1>4. CASE UNCHANGED <<stage, content, backup>>
  BY <1>2, <1>4
<1>5. CASE status[j] = "queued" /\ backup'[j] = backup[j]
  <2>1. l.pc # "queue"
    BY <1>1 DEF Preparing
  <2>2. Owner(l) => Lost(saved[j], stage)
    BY <1>1, <1>2, <1>5 DEF Fits
  <2> QED BY <1>2, <1>5, <2>1, <2>2, KnowsKept DEF Touches
<1> QED BY <1>3, <1>4, <1>5

\* A step that changes no row and no instance
LEMMA Stays ==
    ASSUME SitesInv, UNCHANGED stage, UNCHANGED content, NEW j \in Jobs
    PROVE  Touches(j)
<1>1. ASSUME NEW i \in Instances, stage[i] = "unused"
      PROVE  Quiet(i, stage, content)
  <2>1. \A l \in Jobs : Active(l) => saved[l].inst # i
    BY <1>1, ActiveSite
  <2> QED BY <2>1 DEF SitesInv, Rested
<1> QED BY <1>1 DEF Touches, Forward, Steady

\* A task that only goes on to n
LEMMA Thinks ==
    ASSUME SitesInv, NEW t \in Tasks, Busy(t), NEW n, Become(t, n), UNCHANGED boot,
           UNCHANGED status, UNCHANGED saved, UNCHANGED stage, UNCHANGED content,
           UNCHANGED backup,
           n # Idle =>
               LET j == task[t].job IN
               /\ n.job = j /\ (n.aim = "recover" <=> task[t].aim = "recover")
               /\ Knows(n, status[j], saved[j], stage, content, backup[j], app)
               /\ Preparing(n) => Preparing(task[t]) /\ Site(n) \in {None, Site(task[t])},
           n = Idle /\ task[t].aim = "recover" /\ Active(task[t].job) =>
               Lost(saved[task[t].job], stage)
    PROVE  TasksKnow' /\ RowsKnow' /\ SitesApart' /\ Listed' /\ Rested'
<1> DEFINE j == task[t].job
<1>1. j \in Jobs /\ (app = "ready" <=> task[t].aim # "recover")
  BY AtWork
<1>2. Touches(j) /\ SameRows(j)
  BY <1>1, Stays DEF SameRows, boot
<1>3. RowKnows(j)
  BY <1>1 DEF RowKnows, SitesInv, RowsKnow, Active, boot
<1>4. \A u \in Tasks \ {t} : Busy(u) /\ task[u].job = j =>
          Knows(task[u], status'[j], saved'[j], stage', content', backup'[j], app)
  BY <1>1, <1>2, RowsMates
<1>5. Active(j) /\ status'[j] \notin ActiveStatuses => FALSE
  BY DEF Active
<1>6. app = "init" /\ status'[j] \in ActiveStatuses =>
               (n # Idle /\ n.aim = "recover") \/ Lost(saved'[j], stage')
  BY <1>1 DEF Active
<1>7. status'[j] \in ActiveStatuses => Active(j) /\ saved'[j].inst = saved[j].inst
  BY DEF Active
<1> HIDE DEF j
<1> QED BY <1>1, <1>2, <1>3, <1>4, <1>5, <1>6, <1>7, Goes DEF j

----------------------------------------------------------------------------
(* Steps that write nothing *)

LEMMA SameState ==
    ASSUME NEW js \in JobState, ~js.rbErr
    PROVE  /\ [js EXCEPT !.rbErr = FALSE] = js
           /\ \A i : i = js.inst => [js EXCEPT !.inst = i, !.rbErr = FALSE] = js
BY DEF JobState

\* A job whose instance is gone: whatever its owner does to it
LEMMA OwnerOfLost ==
    ASSUME NEW n, NEW st \in ActiveStatuses, NEW sv, NEW sg, NEW ct, NEW b, NEW ap,
           ~Preparing(n), Owner(n), Carries(n, sv), Lost(sv, sg)
    PROVE  Knows(n, st, sv, sg, ct, b, ap)
<1>1. n.pc \notin {"lock", "claim", "cclaim", "clear"}
  BY DEF Owner, WorkPcs, CleanPcs
<1> QED BY <1>1 DEF Knows

\* The job of an owner
LEMMA OwnersJob ==
    ASSUME SitesInv, NEW t \in Tasks, Busy(t), Owner(task[t])
    PROVE  LET k == task[t] IN
           /\ Active(k.job) /\ Carries(k, saved[k.job])
           /\ saved[k.job].inst \in Instances
           /\ stage[saved[k.job].inst] # "unused" /\ ~saved[k.job].rbErr
           /\ Existing(k.job) => saved[k.job].rollback # "none"
           /\ ~Live(saved[k.job].inst) => Lost(saved[k.job], stage)
           /\ Undoable(k.job, saved[k.job], stage, content, backup[k.job], app)
           /\ Lost(saved[k.job], stage) \/
                  Leaves(k, saved[k.job], stage, content, backup[k.job], app)
           /\ ForeignKeyHolds(saved[k.job]) <=> ~Lost(saved[k.job], stage)
<1> DEFINE k == task[t]
<1>1. /\ k.job \in Jobs /\ k.pc # "queue"
      /\ Knows(k, status[k.job], saved[k.job], stage, content, backup[k.job], app)
  BY AtWork DEF Owner, WorkPcs, CleanPcs
<1>2. Active(k.job) /\ Carries(k, saved[k.job])
  BY <1>1 DEF Knows, Active
<1>3. Undoable(k.job, saved[k.job], stage, content, backup[k.job], app)
  BY <1>1, <1>2 DEF SitesInv, RowsKnow
<1>4. ForeignKeyHolds(saved[k.job]) <=> ~Lost(saved[k.job], stage)
  BY <1>1, <1>2, ActiveSite, ConstantsAssumption DEF ForeignKeyHolds, Lost, Live, LiveStages
<1> QED BY <1>1, <1>2, <1>3, <1>4, ActiveSite DEF Knows

\* run_request fails
LEMMA WorkFails ==
    ASSUME SitesInv, NEW t \in Tasks, Busy(t), task[t].pc \in WorkPcs, Fail(t),
           UNCHANGED boot, UNCHANGED status, UNCHANGED saved, UNCHANGED stage,
           UNCHANGED content, UNCHANGED backup
    PROVE  TasksKnow' /\ RowsKnow' /\ SitesApart' /\ Listed' /\ Rested'
<1> DEFINE k == task[t]
           j == k.job
<1>b. /\ Busy(t) /\ UNCHANGED boot /\ UNCHANGED status /\ UNCHANGED saved /\ UNCHANGED stage
      /\ UNCHANGED content /\ UNCHANGED backup
  OBVIOUS
<1>w. /\ k \in BusyTasks /\ j \in Jobs /\ saved[j] \in JobState
      /\ Fits(k, status, saved, stage, app)
      /\ Knows(k, status[j], saved[j], stage, content, backup[j], app)
  BY <1>b, AtWork
<1> DEFINE n == [k EXCEPT !.pc = "clean", !.aim = "fail",
                          !.js = [saved[j] EXCEPT !.rbErr = FALSE]]
<1>1. k.pc \in WorkPcs /\ k.aim = "fail" /\ Owner(k) /\ ~Preparing(k)
  BY <1>w DEF Fits, Placed, Owner, Preparing, WorkPcs
<1>2. Become(t, n)
  <2>1. OnError(k) = n
    BY <1>1 DEF OnError, Terminalize, WorkPcs, CleanPcs
  <2> QED BY <2>1 DEF Fail
<1>3. ~saved[j].rbErr
  BY <1>b, <1>1, OwnersJob
<1>4. n.job = j /\ n.pc = "clean" /\ n.aim = "fail" /\ n.js = saved[j]
  BY <1>w, <1>3, SameState DEF BusyTasks
<1>5. Owner(n) /\ ~Preparing(n) /\ Carries(n, saved[j])
  BY <1>4 DEF Owner, Preparing, Carries, WorkPcs, CleanPcs
<1>6. Active(j) /\ Carries(k, saved[j])
  BY <1>b, <1>1, OwnersJob
<1>7. ~Lost(saved[j], stage) => Leaves(n, saved[j], stage, content, backup[j], app)
  BY <1>b, <1>1, <1>4, <1>6, OwnersJob
     DEF Leaves, RestoresBackup, Carries, Existing, WorkPcs
<1>8. Knows(n, status[j], saved[j], stage, content, backup[j], app)
  BY <1>4, <1>5, <1>6, <1>7 DEF Knows, Active
<1> HIDE DEF n
<1> QED BY <1>b, <1>1, <1>2, <1>4, <1>5, <1>8, Thinks DEF Idle

LEMMA ErrorSites ==
    ASSUME SitesInv, NEW t \in Tasks, Permit(t) \/ WorkError(t) \/ Strand(t)
    PROVE  TasksKnow' /\ RowsKnow' /\ SitesApart' /\ Listed' /\ Rested'
<1> DEFINE k == task[t]
           j == k.job
<1>b. /\ Busy(t) /\ UNCHANGED boot /\ UNCHANGED status /\ UNCHANGED saved /\ UNCHANGED stage
      /\ UNCHANGED content /\ UNCHANGED backup
  BY DEF Permit, WorkError, Strand, At, db, disk
<1>w. /\ k \in BusyTasks /\ j \in Jobs /\ saved[j] \in JobState
      /\ Fits(k, status, saved, stage, app)
      /\ Knows(k, status[j], saved[j], stage, content, backup[j], app)
  BY <1>b, AtWork
<1>1. CASE Permit(t)
  <2> DEFINE n == Running(j, "claim", "fail", saved[j])
  <2>1. n.job = j /\ n.aim = "fail" /\ n.pc = "claim" /\ n.js = saved[j]
    BY DEF Running
  <2>2. Knows(n, status[j], saved[j], stage, content, backup[j], app) /\ ~Preparing(n)
    BY <2>1 DEF Knows, Preparing, Owner, WorkPcs, CleanPcs
  <2>3. k.aim = "setup"
    BY <1>1, <1>w DEF Permit, At, Fits, Placed
  <2>4. Become(t, n) \/ Become(t, Idle)
    BY <1>1 DEF Permit
  <2> HIDE DEF n
  <2> QED BY <1>b, <2>1, <2>2, <2>3, <2>4, Thinks
<1>2. CASE WorkError(t)
  BY <1>b, <1>2, WorkFails DEF WorkError
<1>3. CASE Strand(t)
  <2> DEFINE n == Terminalize(k, saved[j], "strand")
  <2>1. k.pc = "strand" /\ k.aim = "fail" /\ Owner(k)
    BY <1>3, <1>w DEF Strand, At, Fits, Placed, Owner
  <2>2. Active(j) /\ ~saved[j].rbErr /\ Lost(saved[j], stage)
    BY <1>b, <2>1, OwnersJob DEF Leaves
  <2>3. n.job = j /\ n.pc = "clean" /\ n.aim = "strand" /\ n.js = saved[j]
    BY <1>w, <2>2, SameState DEF BusyTasks, Terminalize
  <2>4. Owner(n) /\ ~Preparing(n) /\ Carries(n, saved[j])
    BY <2>3 DEF Owner, Preparing, Carries, WorkPcs, CleanPcs
  <2>5. Knows(n, status[j], saved[j], stage, content, backup[j], app)
    BY <2>2, <2>4, OwnerOfLost DEF Active
  <2>6. Become(t, n) \/ Become(t, Idle)
    BY <1>3 DEF Strand
  <2> HIDE DEF n
  <2> QED BY <1>b, <2>1, <2>3, <2>4, <2>5, <2>6, Thinks
<1> QED BY <1>1, <1>2, <1>3

----------------------------------------------------------------------------
(* Steps of the owner of a job *)

\* A step at the instance of an active job
LEMMA TouchesSite ==
    ASSUME SitesInv, NEW j \in Jobs, Active(j), NEW i, i = saved[j].inst,
           \/ UNCHANGED stage
           \/ \E s \in {"installed", "installing"} : SetStage(i, s)
           \/ stage' = [stage EXCEPT ![i] = "gone"],
           \A x \in Instances \ {i} : content'[x] = content[x]
    PROVE  Touches(j)
<1>1. i \in Instances /\ stage[i] # "unused" /\ TypeOK
  BY ActiveSite DEF SitesInv, OwnersInv, IInv
<1>2. \A x \in Instances \ {i} : stage'[x] = stage[x]
  BY <1>1 DEF SetStage, TypeOK
<1>3. stage[i] = "gone" => stage'[i] = "gone"
  BY <1>1 DEF SetStage, TypeOK, Live, LiveStages
<1>4. stage'[i] = stage[i] \/ stage'[i] \in {"installed", "installing", "gone"}
  BY <1>1 DEF SetStage, TypeOK
<1>5. Forward(stage, stage') /\ Steady(stage, stage')
  BY <1>1, <1>2, <1>3, <1>4 DEF Forward, Steady
<1>6. ASSUME NEW x \in Instances, stage[x] = "unused"
      PROVE  Quiet(x, stage', content')
  <2>1. \A l \in Jobs : Active(l) => saved[l].inst # x
    BY <1>6, ActiveSite
  <2>2. Quiet(x, stage, content)
    BY <2>1 DEF SitesInv, Rested
  <2>3. x # i
    BY <1>1, <1>6
  <2> QED BY <1>2, <1>6, <2>2, <2>3 DEF Quiet
<1> QED BY <1>2, <1>5, <1>6 DEF Touches

LEMMA SetContentElsewhere ==
    ASSUME TypeOK, NEW k, NEW c, SetContent(k, c)
    PROVE  /\ \A x \in Instances \ {k.js.inst} : content'[x] = content[x]
           /\ Kind[k.job] = "repair" => content' = content
           /\ Kind[k.job] # "repair" /\ Live(k.js.inst) /\ k.js.inst \in Instances =>
                  content'[k.js.inst] = c
           /\ ~Live(k.js.inst) => content' = content
BY DEF SetContent, TypeOK

\* The owner t of job j becomes n.
LEMMA OwnerGoes ==
    ASSUME SitesInv, NEW t \in Tasks, Busy(t), NEW n, Become(t, n), UNCHANGED boot,
           NEW j \in Jobs, j = task[t].job, Owner(task[t]),
           Touches(j), SameRows(j), RowKnows(j),
           status'[j] \in ActiveStatuses => saved'[j].inst = saved[j].inst,
           status'[j] = "queued" => status[j] = "queued" /\ saved'[j] = saved[j],
           status'[j] \notin ActiveStatuses => Quiet(saved[j].inst, stage', content'),
           n # Idle =>
               /\ n.job = j /\ (n.aim = "recover" <=> task[t].aim = "recover")
               /\ Knows(n, status'[j], saved'[j], stage', content', backup'[j], app)
               /\ ~Preparing(n),
           n = Idle /\ task[t].aim = "recover" /\ status'[j] \in ActiveStatuses =>
               Lost(saved'[j], stage')
    PROVE  TasksKnow' /\ RowsKnow' /\ SitesApart' /\ Listed' /\ Rested'
<1>1. Active(j)
  BY OwnersJob
<1>2. app = "ready" <=> task[t].aim # "recover"
  BY AtWork
<1>3. \A u \in Tasks \ {t} : Busy(u) /\ task[u].job = j =>
          Knows(task[u], status'[j], saved'[j], stage', content', backup'[j], app)
  BY OwnersMates
<1> QED BY <1>1, <1>2, <1>3, Goes

\* The same when the row of the job stays as it is
LEMMA OwnerWorks ==
    ASSUME SitesInv, NEW t \in Tasks, Busy(t), NEW n, Become(t, n), UNCHANGED boot,
           UNCHANGED status, UNCHANGED saved,
           NEW j \in Jobs, j = task[t].job, Owner(task[t]), Touches(j),
           \A l \in Jobs \ {j} : backup'[l] = backup[l],
           Undoable(j, saved[j], stage', content', backup'[j], app),
           n.pc # "idle", n.job = j, n.aim = task[t].aim, ~Preparing(n),
           Knows(n, status[j], saved[j], stage', content', backup'[j], app)
    PROVE  TasksKnow' /\ RowsKnow' /\ SitesApart' /\ Listed' /\ Rested'
<1>2. SameRows(j)
  BY DEF SameRows, boot
<1>3. Settled(j, saved[j], stage')
  BY SettledKept, AtWork DEF Touches, SitesInv, RowsKnow
<1>4. Active(j) /\ ~saved[j].rbErr
  BY OwnersJob
<1>5. RowKnows(j)
  BY <1>3, <1>4 DEF RowKnows, boot
<1>6. n # Idle
  BY DEF Idle
<1> QED BY <1>2, <1>4, <1>5, <1>6, OwnerGoes DEF Active

\* The owner of a job whose instance is gone takes a step that changes no row
LEMMA LostWorks ==
    ASSUME SitesInv, NEW t \in Tasks, Busy(t), NEW n, Become(t, n), UNCHANGED boot,
           UNCHANGED status, UNCHANGED saved,
           NEW j \in Jobs, j = task[t].job, Owner(task[t]), Touches(j),
           \A l \in Jobs \ {j} : backup'[l] = backup[l], Lost(saved[j], stage'),
           n.pc # "idle", n.job = j, n.aim = task[t].aim, ~Preparing(n), Owner(n),
           Carries(n, saved[j])
    PROVE  TasksKnow' /\ RowsKnow' /\ SitesApart' /\ Listed' /\ Rested'
<1>1. Undoable(j, saved[j], stage', content', backup'[j], app)
  BY DEF Undoable
<1>2. status[j] \in ActiveStatuses
  BY OwnersJob DEF Active
<1>3. Knows(n, status[j], saved[j], stage', content', backup'[j], app)
  BY <1>2, OwnerOfLost
<1> QED BY <1>1, <1>3, OwnerWorks

LEMMA LockSites ==
    ASSUME SitesInv, NEW t \in Tasks, Lock(t)
    PROVE  TasksKnow' /\ RowsKnow' /\ SitesApart' /\ Listed' /\ Rested'
<1> DEFINE k == task[t]
           j == k.job
           i == saved[j].inst
<1>b. /\ Busy(t) /\ UNCHANGED boot /\ UNCHANGED status /\ UNCHANGED saved
      /\ UNCHANGED content /\ UNCHANGED backup /\ SetStage(k.js.inst, "installing")
  BY DEF Lock, At, db, disk
<1>w. /\ k \in BusyTasks /\ j \in Jobs /\ saved[j] \in JobState /\ TypeOK
      /\ Fits(k, status, saved, stage, app)
      /\ Knows(k, status[j], saved[j], stage, content, backup[j], app)
  BY <1>b, AtWork DEF SitesInv, OwnersInv, IInv
<1>r. SameRows(j)
  BY <1>b DEF SameRows, boot
<1>1. CASE At(t, "lock")
  <2> DEFINE n == [k EXCEPT !.pc = "wait"]
  <2>1. Existing(j) /\ status[j] = "queued" /\ k.js = saved[j]
    BY <1>1, <1>w DEF At, Knows
  <2>2. Active(j) /\ ~saved[j].staged /\ i \in Instances
    BY <1>w, <2>1, ActiveSite DEF Active, ActiveStatuses, SitesInv, OwnersInv, RowsOrdered, Ordered
  <2>3. Touches(j)
    BY <1>b, <1>w, <2>1, <2>2, TouchesSite
  <2>4. Become(t, n)
    BY <1>1, GotoBecomes DEF Lock, At
  <2>5. n.pc = "wait" /\ n.job = j /\ n.aim = "setup"
    BY <1>1, <1>w DEF At, Fits, Placed, BusyTasks
  <2>6. ~Preparing(n) /\ Knows(n, status'[j], saved'[j], stage', content', backup'[j], app)
    BY <2>5 DEF Knows, Preparing, Owner, WorkPcs, CleanPcs
  <2>7. Undoable(j, saved[j], stage, content, backup[j], app)
    BY <1>w, <2>2 DEF SitesInv, RowsKnow
  <2>8. Undoable(j, saved[j], stage', content, backup[j], app)
    <3>1. CASE Lost(saved[j], stage)
      BY <1>w, <2>3, <2>7, <3>1, LostKept DEF Undoable, Touches
    <3>2. CASE ~Lost(saved[j], stage)
      <4>1. stage'[i] = "installing"
        BY <1>b, <1>w, <2>1, <2>2, <2>7, <3>2, ConstantsAssumption
           DEF Undoable, SetStage, Live, LiveStages, TypeOK
      <4> QED BY <2>1, <2>2, <2>7, <3>2, <4>1 DEF Undoable
    <3> QED BY <3>1, <3>2
  <2>9. RowKnows(j)
    <3>1. Settled(j, saved[j], stage')
      BY <1>w, <2>3, SettledKept DEF Touches, SitesInv, RowsKnow
    <3> QED BY <1>b, <1>w, <2>8, <3>1 DEF RowKnows, SitesInv, RowsKnow, boot
  <2>10. \A u \in Tasks \ {t} : Busy(u) /\ task[u].job = j =>
             Knows(task[u], status'[j], saved'[j], stage', content', backup'[j], app)
    BY <1>b, <1>w, <2>1, <2>3, RowsMates
  <2>11. app = "ready"
    BY <1>b, <2>5, AtWork DEF BusyTasks
  <2> HIDE DEF n, j
  <2> QED BY <1>b, <1>r, <1>w, <2>1, <2>2, <2>3, <2>4, <2>5, <2>6, <2>9, <2>10, <2>11,
             Goes DEF j, Active
<1>2. CASE At(t, "relock")
  <2>0. Owner(k) /\ k.pc = "relock" /\ ~Preparing(k)
    BY <1>2, <1>w DEF At, Owner, WorkPcs, Fits, Placed, Preparing
  <2>1. /\ Active(j) /\ Carries(k, saved[j]) /\ k.js = saved[j]
        /\ Existing(j) /\ ~saved[j].staged
    BY <1>b, <2>0, OwnersJob DEF Carries, WorkPcs
  <2>2. Touches(j)
    BY <1>b, <1>w, <2>1, TouchesSite
  <2>3. PICK p \in {"backup", "begin"} :
            Goto(t, p) /\ (p = "backup" <=> Kind[j] = "shared")
    BY <1>2, <2>0 DEF Lock, At
  <2> DEFINE n == [k EXCEPT !.pc = p]
  <2>4. Become(t, n)
    BY <2>3, GotoBecomes
  <2>5. n.pc = p /\ n.job = j /\ n.aim = k.aim /\ n.js = saved[j]
    BY <1>w, <2>1 DEF BusyTasks
  <2>6. ~Preparing(n) /\ Owner(n) /\ Carries(n, saved[j])
    BY <2>0, <2>1, <2>3, <2>5 DEF Preparing, Owner, Carries, WorkPcs, CleanPcs
  <2>7. CASE Lost(saved[j], stage')
    BY <1>b, <1>w, <2>0, <2>2, <2>4, <2>5, <2>6, <2>7, LostWorks
  <2>8. CASE ~Lost(saved[j], stage')
    <3>1. ~Lost(saved[j], stage)
      BY <1>w, <2>2, <2>8, LostKept DEF Touches
    <3>2. stage'[i] = "installing"
      BY <1>b, <1>w, <2>0, <2>1, <3>1, OwnersJob, ConstantsAssumption
         DEF Undoable, SetStage, Live, LiveStages, TypeOK
    <3>3. Undoable(j, saved[j], stage', content', backup'[j], app)
      BY <1>b, <2>0, <2>1, <3>1, <3>2, OwnersJob DEF Undoable
    <3>4. Leaves(n, saved[j], stage', content', backup'[j], app)
      BY <1>w, <2>0, <2>3, <2>5, <3>2 DEF Leaves, Fits, Placed, WorkPcs
    <3>5. Knows(n, status[j], saved[j], stage', content', backup'[j], app)
      BY <2>1, <2>3, <2>5, <2>6, <3>4 DEF Knows, Active
    <3> HIDE DEF n, j
    <3> QED BY <1>b, <1>w, <2>0, <2>2, <2>3, <2>4, <2>5, <2>6, <3>3, <3>5, OwnerWorks DEF j
  <2> QED BY <2>7, <2>8
<1> QED BY <1>1, <1>2 DEF Lock

LEMMA BackupSites ==
    ASSUME SitesInv, NEW t \in Tasks, Backup(t)
    PROVE  TasksKnow' /\ RowsKnow' /\ SitesApart' /\ Listed' /\ Rested'
<1> DEFINE k == task[t]
           j == k.job
           i == saved[j].inst
           n == [k EXCEPT !.pc = "persist"]
<1>b. /\ Busy(t) /\ k.pc = "backup" /\ UNCHANGED boot /\ UNCHANGED status /\ UNCHANGED saved
      /\ UNCHANGED stage /\ UNCHANGED content
      /\ backup' = [backup EXCEPT ![j] = content[k.js.inst]] /\ Become(t, n)
  BY GotoBecomes DEF Backup, At, db
<1>w. /\ k \in BusyTasks /\ j \in Jobs /\ saved[j] \in JobState /\ TypeOK
      /\ Fits(k, status, saved, stage, app)
  BY <1>b, AtWork DEF SitesInv, OwnersInv, IInv
<1>0. Owner(k) /\ k.aim = "fail"
  BY <1>b, <1>w DEF Owner, WorkPcs, Fits, Placed
<1>1. /\ Active(j) /\ Carries(k, saved[j]) /\ k.js = saved[j]
      /\ Kind[j] = "shared" /\ ~saved[j].staged
  BY <1>b, <1>0, OwnersJob DEF Carries, WorkPcs
<1>2. Touches(j)
  BY <1>b, <1>w, <1>1, TouchesSite
<1>3. n.pc = "persist" /\ n.job = j /\ n.aim = k.aim /\ n.js = saved[j]
  BY <1>w, <1>1 DEF BusyTasks
<1>4. ~Preparing(n) /\ Owner(n) /\ Carries(n, saved[j])
  BY <1>0, <1>1, <1>3 DEF Preparing, Owner, Carries, WorkPcs, CleanPcs
<1>5. \A l \in Jobs \ {j} : backup'[l] = backup[l]
  BY <1>b, <1>w DEF TypeOK
<1>6. CASE Lost(saved[j], stage)
  BY <1>b, <1>w, <1>0, <1>2, <1>3, <1>4, <1>5, <1>6, LostWorks
<1>7. CASE ~Lost(saved[j], stage)
  <2>1. Undoable(j, saved[j], stage, content, backup[j], app) /\ Existing(j)
    BY <1>b, <1>0, <1>1, OwnersJob DEF Existing
  <2>2. Good(content[i])
    BY <1>1, <1>7, <2>1 DEF Undoable
  <2>3. Undoable(j, saved[j], stage', content', backup'[j], app)
    BY <1>b, <1>1, <1>7, <2>1 DEF Undoable
  <2>4. Leaves(n, saved[j], stage', content', backup'[j], app)
    <3>1. stage[i] = "installing"
      BY <1>b, <1>0, <1>7, <2>1, OwnersJob DEF Leaves
    <3>2. Good(backup'[j])
      BY <1>b, <1>w, <1>1, <2>2 DEF TypeOK
    <3> QED BY <1>b, <1>0, <1>3, <3>1, <3>2 DEF Leaves
  <2>5. Knows(n, status[j], saved[j], stage', content', backup'[j], app)
    BY <1>1, <1>3, <1>4, <2>4 DEF Knows, Active
  <2> HIDE DEF n
  <2> QED BY <1>b, <1>w, <1>0, <1>2, <1>3, <1>4, <1>5, <2>3, <2>5, OwnerWorks
<1> QED BY <1>6, <1>7

LEMMA PersistSites ==
    ASSUME SitesInv, NEW t \in Tasks, Persist(t)
    PROVE  TasksKnow' /\ RowsKnow' /\ SitesApart' /\ Listed' /\ Rested'
<1> DEFINE k  == task[t]
           j  == k.job
           i  == saved[j].inst
           js == [k.js EXCEPT !.staged = TRUE]
           n  == [k EXCEPT !.pc = "begin", !.js = js]
<1>b. /\ Busy(t) /\ k.pc = "persist" /\ UNCHANGED boot /\ UNCHANGED status
      /\ UNCHANGED stage /\ UNCHANGED content /\ UNCHANGED backup /\ SaveState(t, js, "begin")
  BY DEF Persist, At, disk
<1>w. /\ k \in BusyTasks /\ j \in Jobs /\ saved[j] \in JobState /\ TypeOK
      /\ Fits(k, status, saved, stage, app)
  BY <1>b, AtWork DEF SitesInv, OwnersInv, IInv
<1>0. Owner(k) /\ k.aim = "fail" /\ status[j] = "running"
  BY <1>b, <1>w DEF Owner, WorkPcs, Fits, Placed
<1>1. /\ Active(j) /\ Carries(k, saved[j]) /\ k.js = saved[j] /\ ~saved[j].rbErr
      /\ Kind[j] = "shared" /\ Existing(j)
  BY <1>b, <1>0, OwnersJob DEF Carries, WorkPcs, Existing
<1>2. CASE ~ForeignKeyHolds(js)
  BY <1>b, <1>2, WorkFails DEF SaveState, WorkPcs
<1>3. CASE ForeignKeyHolds(js)
  <2>1. saved' = [saved EXCEPT ![j] = js] /\ Become(t, n)
    BY <1>b, <1>3 DEF SaveState
  <2>2. /\ js.inst = i /\ js.staged /\ js.rollback = saved[j].rollback /\ ~js.rbErr
        /\ saved'[j] = js
    BY <1>w, <1>1, <2>1 DEF JobState, TypeOK
  <2>3. ~Lost(saved[j], stage) /\ ~Lost(js, stage)
    BY <1>3, <2>2 DEF ForeignKeyHolds, Lost, Live, LiveStages
  <2>4. Undoable(j, saved[j], stage, content, backup[j], app)
        /\ Leaves(k, saved[j], stage, content, backup[j], app)
    BY <1>b, <1>0, <2>3, OwnersJob
  <2>5. Good(backup[j]) /\ stage[i] = "installing"
    BY <1>b, <1>1, <2>4 DEF Leaves
  <2>6. Touches(j) /\ SameRows(j)
    BY <1>b, <1>w, <1>1, <2>1, TouchesSite DEF SameRows, boot, TypeOK
  <2>7. Undoable(j, saved'[j], stage', content', backup'[j], app')
    BY <1>b, <1>1, <2>2, <2>3, <2>4, <2>5 DEF Undoable, boot
  <2>8. RowKnows(j)
    BY <2>2, <2>7, <1>b, <1>w DEF RowKnows, Settled, SitesInv, RowsKnow
  <2>9. n.pc = "begin" /\ n.job = j /\ n.aim = k.aim /\ n.js = js
    BY <1>w DEF BusyTasks
  <2>10. ~Preparing(n) /\ Owner(n) /\ Carries(n, saved'[j])
    BY <1>0, <1>1, <2>2, <2>9 DEF Preparing, Owner, Carries, WorkPcs, CleanPcs
  <2>11. Leaves(n, saved'[j], stage', content', backup'[j], app)
    BY <1>b, <1>0, <2>2, <2>5, <2>9 DEF Leaves
  <2>12. Knows(n, status'[j], saved'[j], stage', content', backup'[j], app)
    BY <1>b, <1>1, <2>9, <2>10, <2>11 DEF Knows, Active
  <2> HIDE DEF n, js
  <2> QED BY <1>b, <1>w, <1>0, <1>1, <2>1, <2>2, <2>6, <2>8, <2>9, <2>10, <2>12, OwnerGoes
          DEF ActiveStatuses, Idle
<1> QED BY <1>2, <1>3

LEMMA InstallSites ==
    ASSUME SitesInv, NEW t \in Tasks, Begin(t) \/ Apply(t)
    PROVE  TasksKnow' /\ RowsKnow' /\ SitesApart' /\ Listed' /\ Rested'
<1> DEFINE k  == task[t]
           j  == k.job
           i  == saved[j].inst
<1>b. /\ Busy(t) /\ k.pc \in {"begin", "apply"} /\ UNCHANGED boot /\ UNCHANGED status
      /\ UNCHANGED backup
  BY DEF Begin, Apply, At
<1>w. /\ k \in BusyTasks /\ j \in Jobs /\ saved[j] \in JobState /\ TypeOK
      /\ Fits(k, status, saved, stage, app)
  BY <1>b, AtWork DEF SitesInv, OwnersInv, IInv
<1>0. Owner(k) /\ k.aim = "fail"
  BY <1>b, <1>w DEF Owner, WorkPcs, Fits, Placed
<1>1. /\ Active(j) /\ Carries(k, saved[j]) /\ k.js = saved[j] /\ i \in Instances
      /\ Kind[j] = "shared" => saved[j].staged
  BY <1>b, <1>0, OwnersJob DEF Carries, WorkPcs
<1>p. PICK p \in {"apply", "done"} :
          /\ SaveState(t, k.js, p)
          /\ p = "apply" => SetStage(i, "installing") /\ SetContent(k, "partial")
          /\ p = "done" => SetContent(k, "whole") /\ UNCHANGED stage /\ k.pc = "apply"
  BY <1>1 DEF Begin, Apply, At
<1>2. Touches(j)
  BY <1>p, <1>w, <1>1, TouchesSite, SetContentElsewhere
<1>3. CASE ~ForeignKeyHolds(saved[j])
  <2>1. ~Live(i)
    BY <1>3 DEF ForeignKeyHolds
  <2>2. UNCHANGED stage /\ UNCHANGED content
    BY <1>p, <1>1, <2>1 DEF SetStage, SetContent
  <2>3. Fail(t) /\ UNCHANGED saved
    BY <1>p, <1>1, <1>3 DEF SaveState
  <2> QED BY <1>b, <2>2, <2>3, WorkFails DEF WorkPcs
<1>4. CASE ForeignKeyHolds(saved[j])
  <2> DEFINE n == [k EXCEPT !.pc = p, !.js = k.js]
  <2>0. saved' = [saved EXCEPT ![j] = k.js] /\ Become(t, n)
    BY <1>p, <1>1, <1>4 DEF SaveState
  <2>1. UNCHANGED saved /\ Become(t, n)
    <3>1. [saved EXCEPT ![j] = saved[j]] = saved
      BY <1>w DEF TypeOK
    <3> QED BY <2>0, <3>1, <1>1
  <2>2. ~Lost(saved[j], stage) /\ Live(i)
    BY <1>1, <1>4, ConstantsAssumption DEF ForeignKeyHolds, Lost, Live, LiveStages
  <2>3. Undoable(j, saved[j], stage, content, backup[j], app)
        /\ Leaves(k, saved[j], stage, content, backup[j], app)
    BY <1>b, <1>0, <2>2, OwnersJob
  <2>4. \/ stage'[i] = "installing"
        \/ ~Existing(j) /\ stage'[i] \in {"not_installed", "installing"}
    BY <1>b, <1>p, <1>w, <1>1, <2>2, <2>3 DEF SetStage, Leaves, Undoable, TypeOK
  <2>5. /\ content'[i] # content[i] => Kind[j] # "repair"
        /\ p = "done" /\ Kind[j] # "repair" => content'[i] = "whole"
        /\ p = "apply" /\ Kind[j] # "repair" => content'[i] = "partial"
    BY <1>p, <1>w, <1>1, <2>2, SetContentElsewhere
  <2>6. Existing(j) /\ ~Good(content'[i]) => saved[j].staged
    <3> SUFFICES ASSUME Existing(j), ~Good(content'[i]) PROVE saved[j].staged
      OBVIOUS
    <3>1. CASE content'[i] = content[i]
      BY <2>2, <2>3, <3>1 DEF Undoable
    <3>2. CASE content'[i] # content[i]
      <4>1. content'[i] = "partial"
        BY <1>p, <2>5, <3>2 DEF Good
      <4>2. Kind[j] # "pack"
        BY <1>w, <4>1 DEF Good
      <4>3. Kind[j] = "shared"
        BY <1>w, <2>5, <3>2, <4>2, ConstantsAssumption DEF Existing, Kinds
      <4> QED BY <1>1, <4>3
    <3> QED BY <3>1, <3>2
  <2>7. Undoable(j, saved[j], stage', content', backup'[j], app)
    BY <1>b, <2>2, <2>3, <2>4, <2>6 DEF Undoable
  <2>8. p = "done" => Good(content'[i])
    <3>1. CASE Kind[j] # "repair"
      BY <2>5, <3>1 DEF Good
    <3>2. CASE Kind[j] = "repair"
      BY <2>2, <2>3, <2>5, <3>2 DEF Undoable, Existing
    <3> QED BY <3>1, <3>2
  <2>9. n.pc = p /\ n.job = j /\ n.aim = k.aim /\ n.js = saved[j]
    BY <1>w, <1>1 DEF BusyTasks
  <2>10. ~Preparing(n) /\ Owner(n) /\ Carries(n, saved[j])
    BY <1>0, <1>1, <2>9 DEF Preparing, Owner, Carries, WorkPcs, CleanPcs
  <2>11. Leaves(n, saved[j], stage', content', backup'[j], app)
    BY <1>0, <2>4, <2>8, <2>9 DEF Leaves
  <2>12. Knows(n, status[j], saved[j], stage', content', backup'[j], app)
    BY <1>1, <2>9, <2>10, <2>11 DEF Knows, Active
  <2> HIDE DEF n
  <2> QED BY <1>b, <1>w, <1>0, <1>2, <2>1, <2>7, <2>9, <2>10, <2>12, OwnerWorks
<1> QED BY <1>1, <1>3, <1>4

----------------------------------------------------------------------------
(* The rollback *)

LEMMA Cleaner ==
    ASSUME SitesInv, NEW t \in Tasks, Busy(t), task[t].pc \in CleanPcs
    PROVE  LET k == task[t] IN
           \/ /\ Preparing(k) /\ k.aim = "undo" /\ k.pc = "clean" /\ ~k.js.staged
              /\ Lost(k.js, stage)
           \/ /\ ~Preparing(k) /\ Owner(k) /\ k.js = saved[k.job]
              /\ k.aim \in {"fail", "strand", "cancel", "recover"}
<1> DEFINE k == task[t]
<1>1. /\ k \in BusyTasks /\ Placed(k)
      /\ Knows(k, status[k.job], saved[k.job], stage, content, backup[k.job], app)
  BY AtWork DEF Fits
<1>2. CASE k.aim \in {"undo", "reclean"}
  BY <1>1, <1>2 DEF Knows, SetupKnows, Preparing, CleanPcs
<1>3. CASE k.aim \notin {"undo", "reclean"}
  <2>1. k.aim \in {"fail", "strand", "cancel", "recover"}
    BY <1>1, <1>3 DEF BusyTasks, Aims, Placed, CleanPcs
  <2>2. ~Preparing(k) /\ Owner(k)
    BY <1>3, <2>1 DEF Preparing, Owner, CleanPcs
  <2> QED BY <1>1, <2>1, <2>2 DEF Knows, Carries
<1> QED BY <1>2, <1>3

\* The cleanup is over, and its instance is gone or as it was before the job
LEMMA CleanupEnds ==
    ASSUME SitesInv, NEW t \in Tasks, Busy(t), task[t].pc \in CleanPcs, ~Preparing(task[t]),
           Become(t, CleanupDone(task[t])), UNCHANGED boot,
           UNCHANGED status, UNCHANGED saved, UNCHANGED backup,
           NEW j \in Jobs, j = task[t].job, Touches(j),
           \/ Lost(saved[j], stage')
           \/ /\ Existing(j) /\ ~Lost(saved[j], stage)
              /\ stage'[saved[j].inst] = "installed" /\ Good(content'[saved[j].inst])
    PROVE  TasksKnow' /\ RowsKnow' /\ SitesApart' /\ Listed' /\ Rested'
<1> DEFINE k == task[t]
           n == [k EXCEPT !.pc = "finish", !.ok = TRUE,
                          !.js.inst = IF Existing(j) THEN @ ELSE None]
<1>1. /\ Owner(k) /\ k.js = saved[j] /\ k.aim \in {"fail", "strand", "cancel", "recover"}
      /\ k \in BusyTasks /\ saved[j] \in JobState
  BY Cleaner, AtWork
<1>2. Become(t, n)
  BY <1>1 DEF CleanupDone
<1>3. /\ n.pc = "finish" /\ n.ok = TRUE /\ n.job = j /\ n.aim = k.aim
      /\ n.js = IF Existing(j) THEN saved[j] ELSE [saved[j] EXCEPT !.inst = None]
  BY <1>1 DEF BusyTasks, JobState
<1>4. ~Preparing(n) /\ Owner(n)
  BY <1>1, <1>3 DEF Preparing, Owner
<1>5. Carries(n, saved[j])
  BY <1>3 DEF Carries, WorkPcs, CleanPcs
<1>6. \A l \in Jobs \ {j} : backup'[l] = backup[l]
  OBVIOUS
<1>7. CASE Lost(saved[j], stage')
  <2> HIDE DEF n
  <2> QED BY <1>1, <1>2, <1>3, <1>4, <1>5, <1>6, <1>7, LostWorks
<1>8. CASE /\ Existing(j) /\ ~Lost(saved[j], stage)
           /\ stage'[saved[j].inst] = "installed" /\ Good(content'[saved[j].inst])
  <2>1. /\ Undoable(j, saved[j], stage, content, backup[j], app) /\ Active(j)
        /\ Leaves(k, saved[j], stage, content, backup[j], app)
    BY <1>1, <1>8, OwnersJob
  <2>2. Undoable(j, saved[j], stage', content', backup'[j], app)
    BY <1>8, <2>1 DEF Undoable
  <2>3. Leaves(n, saved[j], stage', content', backup'[j], app)
    BY <1>3, <1>8, <2>1 DEF Leaves
  <2>4. Knows(n, status[j], saved[j], stage', content', backup'[j], app)
    BY <1>3, <1>4, <1>5, <2>1, <2>3 DEF Knows, Active
  <2> HIDE DEF n
  <2> QED BY <1>1, <1>2, <1>3, <1>4, <1>6, <2>2, <2>4, OwnerWorks
<1> QED BY <1>7, <1>8

\* The cleanup of an existing instance that is gone fails
LEMMA CleanupFails ==
    ASSUME SitesInv, NEW t \in Tasks, Busy(t), task[t].pc \in CleanPcs, ~Preparing(task[t]),
           Fail(t), UNCHANGED boot, UNCHANGED status, UNCHANGED saved, UNCHANGED stage,
           UNCHANGED content, UNCHANGED backup,
           Existing(task[t].job), Lost(saved[task[t].job], stage)
    PROVE  TasksKnow' /\ RowsKnow' /\ SitesApart' /\ Listed' /\ Rested'
<1> DEFINE k == task[t]
           j == k.job
           n == [k EXCEPT !.pc = "finish", !.ok = FALSE, !.js.rbErr = TRUE]
<1>1. /\ Owner(k) /\ k.js = saved[j] /\ k.aim \in {"fail", "strand", "cancel", "recover"}
      /\ k \in BusyTasks /\ saved[j] \in JobState /\ j \in Jobs
  BY Cleaner, AtWork
<1>2. Become(t, n)
  <2>1. OnError(k) = n
    BY <1>1 DEF OnError, CleanupFailed, WorkPcs, CleanPcs
  <2> QED BY <2>1 DEF Fail
<1>3. /\ n.pc = "finish" /\ n.ok = FALSE /\ n.job = j /\ n.aim = k.aim
      /\ n.js.inst = saved[j].inst
  BY <1>1 DEF BusyTasks, JobState
<1>4. ~Preparing(n) /\ Owner(n)
  BY <1>1, <1>3 DEF Preparing, Owner
<1>5. Carries(n, saved[j])
  BY <1>3 DEF Carries, WorkPcs, CleanPcs
<1>6. \A l \in Jobs \ {j} : backup'[l] = backup[l]
  OBVIOUS
<1>7. Touches(j)
  BY <1>1, Stays
<1> HIDE DEF n
<1> QED BY <1>1, <1>2, <1>3, <1>4, <1>5, <1>6, <1>7, LostWorks

LEMMA CleanSites ==
    ASSUME SitesInv, NEW t \in Tasks, Clean(t)
    PROVE  TasksKnow' /\ RowsKnow' /\ SitesApart' /\ Listed' /\ Rested'
<1> DEFINE k == task[t]
           j == k.job
           i == saved[j].inst
<1>b. /\ Busy(t) /\ k.pc = "clean" /\ k.pc \in CleanPcs /\ UNCHANGED boot /\ UNCHANGED status
      /\ UNCHANGED saved /\ UNCHANGED backup
  BY DEF Clean, At, db, CleanPcs
<1>w. /\ k \in BusyTasks /\ j \in Jobs /\ k.js \in JobState /\ saved[j] \in JobState /\ TypeOK
      /\ CarriesUndo(k)
  BY <1>b, AtWork DEF SitesInv, OwnersInv, IInv
<1>1. CASE Preparing(k)
  <2>1. k.aim = "undo" /\ ~k.js.staged /\ Lost(k.js, stage)
    BY <1>b, <1>1, Cleaner DEF Preparing
  <2>2. ~Live(k.js.inst) /\ ~RestoresBackup(k)
    BY <2>1 DEF Lost, Live, LiveStages, RestoresBackup
  <2>3. Become(t, Idle) /\ UNCHANGED stage /\ UNCHANGED content
    BY <2>1, <2>2 DEF Clean, SetStage, CleanupDone
  <2> QED BY <1>b, <2>1, <2>3, Thinks
<1>2. CASE ~Preparing(k)
  <2>1. /\ Owner(k) /\ k.js = saved[j] /\ k.aim \in {"fail", "strand", "cancel", "recover"}
        /\ Active(j) /\ i \in Instances /\ (~Live(i) => Lost(saved[j], stage))
        /\ Existing(j) => saved[j].rollback # "none"
        /\ Undoable(j, saved[j], stage, content, backup[j], app)
        /\ Lost(saved[j], stage) \/ Leaves(k, saved[j], stage, content, backup[j], app)
    BY <1>b, <1>2, Cleaner, OwnersJob
  <2>2. CASE ~Existing(j) /\ Live(i)
    <3> DEFINE n == [k EXCEPT !.pc = "rmdir"]
    <3>1. stage' = [stage EXCEPT ![i] = "gone"] /\ Become(t, n) /\ UNCHANGED content
      BY <2>1, <2>2, GotoBecomes DEF Clean
    <3>2. Touches(j)
      BY <1>w, <2>1, <3>1, TouchesSite
    <3>3. Lost(saved[j], stage')
      BY <1>w, <2>1, <3>1, ConstantsAssumption DEF Lost, TypeOK
    <3>4. n.pc = "rmdir" /\ n.job = j /\ n.aim = k.aim /\ n.js = saved[j]
      BY <1>w, <2>1 DEF BusyTasks
    <3>5. ~Preparing(n) /\ Owner(n) /\ Carries(n, saved[j])
      BY <2>1, <2>2, <3>4 DEF Preparing, Owner, Carries, WorkPcs, CleanPcs
    <3> HIDE DEF n
    <3> QED BY <1>b, <1>w, <2>1, <3>1, <3>2, <3>3, <3>4, <3>5, LostWorks
  <2>3. CASE ~Existing(j) /\ ~Live(i)
    <3>1. UNCHANGED stage /\ UNCHANGED content /\ Become(t, CleanupDone(k))
      BY <2>1, <2>3 DEF Clean
    <3>2. Touches(j)
      BY <1>w, <3>1, Stays
    <3> QED BY <1>b, <1>w, <1>2, <2>1, <2>3, <3>1, <3>2, CleanupEnds
  <2>4. CASE Existing(j) /\ ~RestoresBackup(k)
    <3>1. /\ SetStage(i, saved[j].rollback) /\ UNCHANGED content
          /\ Become(t, CleanupDone(k))
      BY <2>1, <2>4 DEF Clean
    <3>2. CASE Lost(saved[j], stage)
      <4>1. UNCHANGED stage
        BY <3>1, <3>2 DEF SetStage, Lost, Live, LiveStages
      <4>2. Touches(j)
        BY <1>w, <3>1, <4>1, Stays
      <4> QED BY <1>b, <1>w, <1>2, <3>1, <3>2, <4>1, <4>2, CleanupEnds
    <3>3. CASE ~Lost(saved[j], stage)
      <4>1. saved[j].rollback = "installed" /\ Live(i)
        BY <2>1, <2>4, <3>3 DEF Undoable
      <4>2. stage'[i] = "installed"
        BY <1>w, <2>1, <3>1, <4>1 DEF SetStage, TypeOK
      <4>3. Good(content'[i])
        BY <2>1, <2>4, <3>1, <3>3 DEF Undoable, RestoresBackup
      <4>4. Touches(j)
        BY <1>w, <2>1, <3>1, <4>1, TouchesSite
      <4> QED BY <1>b, <1>w, <1>2, <2>4, <3>1, <3>3, <4>2, <4>3, <4>4, CleanupEnds
    <3> QED BY <3>2, <3>3
  <2>5. CASE Existing(j) /\ RestoresBackup(k) /\ backup[j] = "absent"
    <3>1. Fail(t) /\ UNCHANGED content /\ UNCHANGED stage
      BY <2>1, <2>5 DEF Clean
    <3>2. Lost(saved[j], stage)
      BY <2>1, <2>5 DEF Undoable, RestoresBackup, Good
    <3> QED BY <1>b, <1>w, <1>2, <2>5, <3>1, <3>2, CleanupFails
  <2>6. CASE Existing(j) /\ RestoresBackup(k) /\ backup[j] # "absent"
    <3> DEFINE n == [k EXCEPT !.pc = "copyback"]
    <3>1. Become(t, n) /\ SetContent(k, "partial") /\ UNCHANGED stage
      BY <2>1, <2>6, GotoBecomes DEF Clean
    <3>2. Touches(j)
      BY <1>w, <2>1, <3>1, TouchesSite, SetContentElsewhere
    <3>3. n.pc = "copyback" /\ n.job = j /\ n.aim = k.aim /\ n.js = saved[j]
      BY <1>w, <2>1 DEF BusyTasks
    <3>4. Kind[j] = "shared" /\ saved[j].staged
      BY <2>1, <2>6 DEF RestoresBackup
    <3>5. ~Preparing(n) /\ Owner(n) /\ Carries(n, saved[j])
      BY <2>1, <3>3, <3>4 DEF Preparing, Owner, Carries, WorkPcs, CleanPcs
    <3>6. CASE Lost(saved[j], stage)
      <4> HIDE DEF n
      <4> QED BY <1>b, <1>w, <2>1, <3>1, <3>2, <3>3, <3>5, <3>6, LostWorks
    <3>7. CASE ~Lost(saved[j], stage)
      <4>1. app = "ready" => stage[i] = "installing"
        BY <1>b, <2>1, <2>6, <3>7 DEF Leaves
      <4>2. Undoable(j, saved[j], stage', content', backup'[j], app)
        BY <1>b, <2>1, <3>1, <3>4, <3>7, <4>1 DEF Undoable
      <4>3. Leaves(n, saved[j], stage', content', backup'[j], app)
        BY <2>1, <3>1, <3>3, <3>7, <4>1 DEF Leaves
      <4>4. Knows(n, status[j], saved[j], stage', content', backup'[j], app)
        BY <2>1, <3>3, <3>5, <4>3 DEF Knows, Active
      <4> HIDE DEF n
      <4> QED BY <1>b, <1>w, <2>1, <3>1, <3>2, <3>3, <3>5, <4>2, <4>4, OwnerWorks
    <3> QED BY <3>6, <3>7
  <2> QED BY <2>2, <2>3, <2>4, <2>5, <2>6
<1> QED BY <1>1, <1>2

LEMMA RestoreSites ==
    ASSUME SitesInv, NEW t \in Tasks, RemoveDir(t) \/ CopyBack(t) \/ RestoreMetadata(t)
    PROVE  TasksKnow' /\ RowsKnow' /\ SitesApart' /\ Listed' /\ Rested'
<1> DEFINE k == task[t]
           j == k.job
           i == saved[j].inst
<1>b. /\ Busy(t) /\ k.pc \in {"rmdir", "copyback", "meta"} /\ k.pc \in CleanPcs
      /\ UNCHANGED boot /\ UNCHANGED status /\ UNCHANGED saved /\ UNCHANGED backup
  BY DEF RemoveDir, CopyBack, RestoreMetadata, At, db, disk, CleanPcs
<1>w. /\ k \in BusyTasks /\ j \in Jobs /\ saved[j] \in JobState /\ TypeOK
  BY <1>b, AtWork DEF SitesInv, OwnersInv, IInv
<1>1. ~Preparing(k) /\ Owner(k) /\ k.js = saved[j]
      /\ k.aim \in {"fail", "strand", "cancel", "recover"}
  BY <1>b, Cleaner
<1>2. /\ Active(j) /\ i \in Instances /\ (~Live(i) => Lost(saved[j], stage))
      /\ Carries(k, saved[j])
      /\ Existing(j) => saved[j].rollback # "none"
      /\ Undoable(j, saved[j], stage, content, backup[j], app)
      /\ Lost(saved[j], stage) \/ Leaves(k, saved[j], stage, content, backup[j], app)
  BY <1>b, <1>1, OwnersJob
<1>3. CASE RemoveDir(t)
  <2>1. /\ k.pc = "rmdir" /\ UNCHANGED stage /\ Become(t, CleanupDone(k))
        /\ content' = [content EXCEPT ![i] = "absent"]
    BY <1>1, <1>3 DEF RemoveDir, At
  <2>2. Lost(saved[j], stage)
    BY <1>2, <2>1 DEF Leaves
  <2>3. Touches(j)
    BY <1>w, <1>2, <2>1, TouchesSite DEF TypeOK
  <2> QED BY <1>b, <1>w, <1>1, <2>1, <2>2, <2>3, CleanupEnds
<1>4. CASE CopyBack(t)
  <2>1. /\ k.pc = "copyback" /\ UNCHANGED stage /\ SetContent(k, backup[j])
        /\ Kind[j] = "shared" /\ Existing(j) /\ saved[j].staged
    BY <1>2, <1>4 DEF CopyBack, At, Carries, Existing
  <2>2. Touches(j)
    BY <1>w, <1>1, <1>2, <2>1, TouchesSite, SetContentElsewhere
  <2>3. CASE ~Live(i)
    <3>1. Fail(t) /\ UNCHANGED content
      BY <1>1, <1>4, <2>3 DEF CopyBack, SetContent
    <3> QED BY <1>b, <1>1, <1>2, <2>1, <2>3, <3>1, CleanupFails
  <2>4. CASE Live(i)
    <3> DEFINE n == [k EXCEPT !.pc = "meta"]
    <3>1. Become(t, n)
      BY <1>1, <1>4, <2>4, GotoBecomes DEF CopyBack
    <3>2. ~Lost(saved[j], stage)
      BY <2>4 DEF Lost, Live, LiveStages
    <3>3. content'[i] = backup[j] /\ Good(content'[i])
      BY <1>w, <1>1, <1>2, <2>1, <2>4, <3>2, SetContentElsewhere DEF Undoable
    <3>4. n.pc = "meta" /\ n.job = j /\ n.aim = k.aim /\ n.js = saved[j]
      BY <1>w, <1>1 DEF BusyTasks
    <3>5. ~Preparing(n) /\ Owner(n) /\ Carries(n, saved[j])
      BY <1>1, <2>1, <3>4 DEF Preparing, Owner, Carries, WorkPcs, CleanPcs
    <3>6. Undoable(j, saved[j], stage', content', backup'[j], app)
      BY <1>b, <1>2, <2>1, <3>2, <3>3 DEF Undoable
    <3>7. Leaves(n, saved[j], stage', content', backup'[j], app)
      BY <1>2, <3>2, <3>3, <3>4 DEF Leaves
    <3>8. Knows(n, status[j], saved[j], stage', content', backup'[j], app)
      BY <1>2, <3>4, <3>5, <3>7 DEF Knows, Active
    <3> HIDE DEF n
    <3> QED BY <1>b, <1>w, <1>1, <2>2, <3>1, <3>4, <3>5, <3>6, <3>8, OwnerWorks
  <2> QED BY <2>3, <2>4
<1>5. CASE RestoreMetadata(t)
  <2>1. /\ k.pc = "meta" /\ UNCHANGED content /\ SetStage(i, saved[j].rollback)
        /\ Kind[j] = "shared" /\ Existing(j)
    BY <1>1, <1>2, <1>5 DEF RestoreMetadata, At, Carries, Existing, disk
  <2>2. CASE ~Live(i)
    <3>1. Fail(t) /\ UNCHANGED stage
      BY <1>1, <1>5, <2>1, <2>2 DEF RestoreMetadata, SetStage
    <3> QED BY <1>b, <1>1, <1>2, <2>1, <2>2, <3>1, CleanupFails
  <2>3. CASE Live(i)
    <3>1. Become(t, CleanupDone(k))
      BY <1>1, <1>5, <2>3 DEF RestoreMetadata
    <3>2. ~Lost(saved[j], stage)
      BY <2>3 DEF Lost, Live, LiveStages
    <3>3. saved[j].rollback = "installed" /\ Good(content[i])
      BY <1>2, <2>1, <3>2 DEF Undoable, Leaves
    <3>4. stage'[i] = "installed"
      BY <1>w, <1>2, <2>1, <2>3, <3>3 DEF SetStage, TypeOK
    <3>5. Touches(j)
      BY <1>w, <1>2, <2>1, <3>3, TouchesSite
    <3> QED BY <1>b, <1>w, <1>1, <2>1, <3>1, <3>2, <3>3, <3>4, <3>5, CleanupEnds
  <2> QED BY <2>2, <2>3
<1> QED BY <1>3, <1>4, <1>5

----------------------------------------------------------------------------
(* The end of a job *)

\* The owner t writes that job j is over, with the state js, and becomes n
LEMMA JobEnds ==
    ASSUME SitesInv, NEW t \in Tasks, Busy(t), NEW n, Become(t, n), UNCHANGED boot,
           UNCHANGED content, UNCHANGED backup,
           NEW j \in Jobs, j = task[t].job, Owner(task[t]),
           NEW st \in Statuses \ ActiveStatuses, status' = [status EXCEPT ![j] = st],
           NEW js \in JobState, saved' = [saved EXCEPT ![j] = js],
           ~js.rbErr, js.inst \in {None, saved[j].inst},
           UNCHANGED stage \/ SetStage(saved[j].inst, "installed"),
           Quiet(saved[j].inst, stage', content'),
           n # Idle => n.pc = "clear" /\ n.job = j
                       /\ (n.aim = "recover" <=> task[t].aim = "recover")
                       /\ n.aim \notin {"undo", "reclean"}
    PROVE  TasksKnow' /\ RowsKnow' /\ SitesApart' /\ Listed' /\ Rested'
<1>w. TypeOK /\ Active(j)
  BY OwnersJob DEF SitesInv, OwnersInv, IInv
<1>1. status'[j] = st /\ saved'[j] = js
  BY <1>w DEF TypeOK
<1>2. Touches(j)
  BY <1>w, TouchesSite
<1>3. SameRows(j)
  BY <1>w DEF SameRows, TypeOK, boot
<1>4. Settled(j, js, stage')
  <2>1. Settled(j, saved[j], stage')
    BY <1>2, SettledKept, <1>w DEF Touches, SitesInv, RowsKnow, TypeOK
  <2> QED BY <2>1 DEF Settled
<1>5. RowKnows(j)
  BY <1>1, <1>4 DEF RowKnows
<1>6. n # Idle => /\ ~Preparing(n)
                  /\ Knows(n, status'[j], saved'[j], stage', content', backup'[j], app)
  BY <1>1 DEF Knows, Preparing, Owner, WorkPcs, CleanPcs
<1> QED BY <1>1, <1>2, <1>3, <1>5, <1>6, OwnerGoes DEF ActiveStatuses

LEMMA CompleteSites ==
    ASSUME SitesInv, NEW t \in Tasks, Complete(t)
    PROVE  TasksKnow' /\ RowsKnow' /\ SitesApart' /\ Listed' /\ Rested'
<1> DEFINE k == task[t]
           j == k.job
           js == [saved[j] EXCEPT !.inst = k.js.inst, !.rbErr = FALSE]
<1>b. /\ Busy(t) /\ k.pc = "done" /\ UNCHANGED boot /\ UNCHANGED content /\ UNCHANGED backup
  BY DEF Complete, At, disk
<1>w. /\ k \in BusyTasks /\ j \in Jobs /\ saved[j] \in JobState /\ TypeOK
      /\ Fits(k, status, saved, stage, app)
  BY <1>b, AtWork DEF SitesInv, OwnersInv, IInv
<1>1. Owner(k) /\ ~Preparing(k) /\ k.aim = "fail" /\ status[j] = "running"
  BY <1>b, <1>w DEF Owner, WorkPcs, Fits, Placed, Preparing
<1>2. /\ Carries(k, saved[j]) /\ k.js = saved[j] /\ ~saved[j].rbErr
      /\ saved[j].inst \in Instances
      /\ ~Live(saved[j].inst) => Lost(saved[j], stage)
      /\ Lost(saved[j], stage) \/ Leaves(k, saved[j], stage, content, backup[j], app)
  BY <1>b, <1>1, OwnersJob DEF Carries
<1>3. js = saved[j]
  BY <1>w, <1>2, SameState
<1>4. CASE Live(saved[j].inst)
  <2> DEFINE n == [k EXCEPT !.pc = "clear", !.aim = "success", !.js = js]
  <2>1. /\ status' = [status EXCEPT ![j] = "succeeded"]
        /\ saved' = [saved EXCEPT ![j] = saved[j]]
        /\ SetStage(saved[j].inst, "installed") /\ Become(t, n)
    BY <1>1, <1>3, <1>4 DEF Complete
  <2>2. Good(content[saved[j].inst])
    BY <1>b, <1>2, <1>4 DEF Leaves, Lost, Live, LiveStages
  <2>3. stage'[saved[j].inst] = "installed"
    BY <1>w, <1>2, <1>4, <2>1 DEF SetStage, TypeOK
  <2>4. Quiet(saved[j].inst, stage', content')
    BY <1>b, <2>2, <2>3 DEF Quiet
  <2>5. n.pc = "clear" /\ n.job = j /\ n.aim = "success"
    BY <1>w DEF BusyTasks
  <2>6. "succeeded" \in Statuses \ ActiveStatuses
    BY DEF Statuses, ActiveStatuses
  <2> HIDE DEF n
  <2> QED BY <1>b, <1>w, <1>1, <1>2, <2>1, <2>4, <2>5, <2>6, JobEnds
<1>5. CASE ~Live(saved[j].inst)
  <2> DEFINE n == [k EXCEPT !.pc = "strand"]
  <2>1. Fail(t) /\ UNCHANGED status /\ UNCHANGED saved /\ UNCHANGED stage
    BY <1>1, <1>3, <1>5 DEF Complete, db
  <2>2. Become(t, n)
    <3>1. OnError(k) = n
      BY <1>b DEF OnError, WorkPcs, CleanPcs
    <3> QED BY <2>1, <3>1 DEF Fail
  <2>3. n.pc = "strand" /\ n.job = j /\ n.aim = k.aim
    BY <1>w DEF BusyTasks
  <2>4. ~Preparing(n) /\ Owner(n) /\ Carries(n, saved[j])
    BY <1>1, <2>3 DEF Preparing, Owner, Carries, WorkPcs, CleanPcs
  <2>5. Touches(j)
    BY <1>b, <1>w, <2>1, Stays
  <2> HIDE DEF n
  <2> QED BY <1>b, <1>w, <1>1, <1>2, <1>5, <2>1, <2>2, <2>3, <2>4, <2>5, LostWorks
<1> QED BY <1>4, <1>5

LEMMA FinishSites ==
    ASSUME SitesInv, NEW t \in Tasks, Finish(t)
    PROVE  TasksKnow' /\ RowsKnow' /\ SitesApart' /\ Listed' /\ Rested'
<1> DEFINE k == task[t]
           j == k.job
           i == saved[j].inst
<1>b. /\ Busy(t) /\ k.pc = "finish" /\ UNCHANGED boot /\ UNCHANGED content /\ UNCHANGED backup
      /\ UNCHANGED stage
  BY DEF Finish, At, disk
<1>w. /\ k \in BusyTasks /\ j \in Jobs /\ saved[j] \in JobState /\ TypeOK
      /\ Fits(k, status, saved, stage, app)
  BY <1>b, AtWork DEF SitesInv, OwnersInv, IInv
<1>1. Owner(k) /\ ~Preparing(k) /\ k.aim \in {"fail", "strand", "cancel", "recover"}
  BY <1>b, <1>w DEF Owner, Fits, Placed, Preparing
<1>2. /\ Active(j) /\ Carries(k, saved[j]) /\ ~saved[j].rbErr /\ i \in Instances
      /\ ~Live(i) => Lost(saved[j], stage)
      /\ Lost(saved[j], stage) \/ Leaves(k, saved[j], stage, content, backup[j], app)
      /\ ForeignKeyHolds(saved[j]) <=> ~Lost(saved[j], stage)
  BY <1>b, <1>1, OwnersJob
<1>3. Quiet(i, stage, content)
  BY <1>b, <1>2 DEF Leaves, Quiet, Lost
<1>4. CASE ForeignKeyHolds(k.js)
  <2>1. /\ status' = [status EXCEPT ![j] = EndStatus(k)]
        /\ saved' = [saved EXCEPT ![j] = k.js]
        /\ IF k.ok THEN Goto(t, "clear") ELSE Become(t, Idle)
    BY <1>2, <1>4 DEF Finish
  <2>2. EndStatus(k) \in Statuses \ ActiveStatuses
    BY DEF EndStatus, Statuses, ActiveStatuses
  <2>3. k.ok
    <3> SUFFICES ASSUME ~k.ok PROVE FALSE
      OBVIOUS
    <3>1. k.js.inst = i
      BY <1>b, <1>2 DEF Carries
    <3>2. Lost(saved[j], stage)
      BY <1>b, <1>2 DEF Leaves
    <3> QED BY <1>2, <1>4, <3>1, <3>2 DEF ForeignKeyHolds
  <2>4. k.js \in JobState /\ ~k.js.rbErr /\ k.js.inst \in {None, i}
    <3>1. k.js = IF Existing(j) THEN saved[j] ELSE [saved[j] EXCEPT !.inst = None]
      BY <1>b, <1>2, <2>3 DEF Carries
    <3> QED BY <1>w, <1>2, <3>1 DEF JobState
  <2> DEFINE n == [k EXCEPT !.pc = "clear"]
  <2>5. Become(t, n)
    BY <2>1, <2>3, GotoBecomes
  <2>6. n.pc = "clear" /\ n.job = j /\ n.aim = k.aim
    BY <1>w DEF BusyTasks
  <2> HIDE DEF n
  <2> QED BY <1>b, <1>w, <1>1, <1>3, <2>1, <2>2, <2>4, <2>5, <2>6, JobEnds
<1>5. CASE ~ForeignKeyHolds(k.js)
  <2>1. Fail(t) /\ UNCHANGED status /\ UNCHANGED saved
    BY <1>2, <1>5 DEF Finish, db
  <2>2. Lost(saved[j], stage)
    <3>1. k.js.inst \in {None, i}
      BY <1>b, <1>w, <1>2 DEF Carries, JobState
    <3> QED BY <1>2, <1>5, <3>1 DEF ForeignKeyHolds
  <2>3. CASE k.aim = "fail"
    <3> DEFINE n == [k EXCEPT !.pc = "strand"]
    <3>1. Become(t, n)
      <4>1. OnError(k) = n
        BY <1>b, <2>3 DEF OnError, WorkPcs, CleanPcs
      <4> QED BY <2>1, <4>1 DEF Fail
    <3>2. n.pc = "strand" /\ n.job = j /\ n.aim = k.aim
      BY <1>w DEF BusyTasks
    <3>3. ~Preparing(n) /\ Owner(n) /\ Carries(n, saved[j])
      BY <1>1, <3>2 DEF Preparing, Owner, Carries, WorkPcs, CleanPcs
    <3>4. Touches(j)
      BY <1>b, <1>w, <2>1, Stays
    <3> HIDE DEF n
    <3> QED BY <1>b, <1>w, <1>1, <2>1, <2>2, <3>1, <3>2, <3>3, <3>4, LostWorks
  <2>4. CASE k.aim # "fail"
    <3>1. Become(t, Idle)
      <4>1. OnError(k) = Idle
        BY <1>b, <2>4 DEF OnError, WorkPcs, CleanPcs
      <4> QED BY <2>1, <4>1 DEF Fail
    <3> QED BY <1>b, <2>1, <2>2, <3>1, Thinks
  <2> QED BY <2>3, <2>4
<1> QED BY <1>4, <1>5

----------------------------------------------------------------------------
(* Setups and claims *)

\* A setup has no instance that was not created yet
LEMMA SetupsSite ==
    ASSUME SitesInv, NEW u \in Tasks, Busy(u), Preparing(task[u]),
           NEW i \in Instances, stage[i] = "unused"
    PROVE  Site(task[u]) # i
<1>1. SetupKnows(task[u], stage, content)
  BY AtWork DEF Knows
<1> QED BY <1>1, ConstantsAssumption DEF SetupKnows, Settled, Site, Lost

\* prepare_initial_instance creates an instance
LEMMA NewInstance ==
    ASSUME SitesInv, NEW j \in Jobs, ~Existing(j), NEW i \in Instances, stage[i] = "unused",
           stage' = [stage EXCEPT ![i] = "not_installed"],
           content' = [content EXCEPT ![i] = "partial"]
    PROVE  /\ Touches(j) /\ i \notin Installed /\ stage'[i] = "not_installed"
           /\ \A l \in Jobs : Active(l) => saved[l].inst # i
<1>w. TypeOK
  BY DEF SitesInv, OwnersInv, IInv
<1>1. ASSUME NEW x \in Instances, stage[x] = "unused"
      PROVE  x \notin Installed /\ (\A l \in Jobs : Active(l) => saved[l].inst # x)
  <2>1. \A l \in Jobs : Active(l) => saved[l].inst # x
    BY <1>1, ActiveSite
  <2>2. Quiet(x, stage, content)
    BY <2>1 DEF SitesInv, Rested
  <2> QED BY <1>1, <2>1, <2>2 DEF Quiet
<1>2. /\ \A x \in Instances \ {i} : stage'[x] = stage[x] /\ content'[x] = content[x]
      /\ stage'[i] = "not_installed"
  BY <1>w DEF TypeOK
<1>3. \A x \in Instances : stage[x] = "unused" => Quiet(x, stage', content')
  BY <1>1, <1>2 DEF Quiet
<1>4. Forward(stage, stage') /\ Steady(stage, stage')
  BY <1>2 DEF Forward, Steady
<1>5. Touches(j)
  BY <1>2, <1>3, <1>4 DEF Touches
<1> QED BY <1>1, <1>2, <1>5

(***************************************************************************)
(* prepare_initial_instance for a job that nothing else works on, and for  *)
(* an instance that nothing else works on.                                 *)
(***************************************************************************)
LEMMA PrepareSites ==
    ASSUME SitesInv, NEW t \in Tasks, NEW j \in Jobs, NEW i \in Instances, Prepare(t, j, i),
           app = "ready", UNCHANGED db, UNCHANGED backup, UNCHANGED boot,
           Busy(t) => task[t].job = j, status[j] \notin ActiveStatuses,
           \A u \in Tasks \ {t} : Busy(u) => task[u].job # j,
           Existing(j) =>
               /\ stage[i] \in {"installed", "installing"}
               /\ \A l \in Jobs : Active(l) => saved[l].inst # i
               /\ \A u \in Tasks \ {t} : Busy(u) /\ Preparing(task[u]) => Site(task[u]) # i
    PROVE  TasksKnow' /\ RowsKnow' /\ SitesApart' /\ Listed' /\ Rested'
<1>b. app' = app /\ todo' = todo /\ status' = status /\ saved' = saved
  BY DEF db, boot
<1>w. TypeOK /\ todo[j] = Nothing /\ saved[j] \in JobState
  BY DEF SitesInv, OwnersInv, IInv, Listed, TypeOK
<1>r. SameRows(j) /\ Apart2(j) /\ ~Active(j)
  BY <1>b DEF SameRows, Apart2, Active
<1> DEFINE rb == IF Existing(j) THEN "installed" ELSE "none"
           n  == Running(j, "queue", "setup", FreshState(i, rb))
<1>n. /\ n # Idle /\ n.job = j /\ n.pc = "queue" /\ n.aim = "setup"
      /\ n.js.inst = i /\ n.js.rollback = rb
  BY DEF Running, FreshState, Idle
<1>p. Preparing(n) /\ Site(n) = i /\ ~Owner(n)
  BY <1>n DEF Preparing, Site, Owner, WorkPcs, CleanPcs
<1>1. /\ Become(t, n) /\ Touches(j) /\ SetupKnows(n, stage', content')
      /\ \A l \in Jobs : Active(l) => saved[l].inst # i
      /\ \A u \in Tasks \ {t} : Busy(u) /\ Preparing(task[u]) => Site(task[u]) # i
  <2>1. CASE ~Existing(j)
    <3>1. /\ stage[i] = "unused" /\ Become(t, n)
          /\ stage' = [stage EXCEPT ![i] = "not_installed"]
          /\ content' = [content EXCEPT ![i] = "partial"]
      BY <2>1 DEF Prepare
    <3>2. /\ Touches(j) /\ i \notin Installed /\ stage'[i] = "not_installed"
          /\ \A l \in Jobs : Active(l) => saved[l].inst # i
      BY <2>1, <3>1, NewInstance
    <3>3. \A u \in Tasks \ {t} : Busy(u) /\ Preparing(task[u]) => Site(task[u]) # i
      BY <3>1, SetupsSite
    <3>4. SetupKnows(n, stage', content')
      BY <1>n, <2>1, <3>2 DEF SetupKnows, Settled
    <3> QED BY <3>1, <3>2, <3>3, <3>4
  <2>2. CASE Existing(j)
    <3>1. Quiet(i, stage, content)
      BY <2>2 DEF SitesInv, Rested
    <3>2. stage[i] = "installed" /\ Good(content[i])
      BY <2>2, <3>1 DEF Quiet
    <3>3. Become(t, n) /\ UNCHANGED stage /\ UNCHANGED content
      BY <2>2, <3>2 DEF Prepare
    <3>4. SetupKnows(n, stage', content')
      BY <1>n, <2>2, <3>2, <3>3 DEF SetupKnows, Settled
    <3> QED BY <2>2, <3>3, <3>4, Stays
  <2> QED BY <2>1, <2>2
<1>2. Knows(n, status'[j], saved'[j], stage', content', backup'[j], app')
  BY <1>n, <1>p, <1>1 DEF Knows
<1>3. RowKnows(j)
  <2>1. Settled(j, saved[j], stage')
    BY <1>w, <1>1, SettledKept DEF Touches, SitesInv, RowsKnow
  <2> QED BY <1>b, <2>1 DEF RowKnows, SitesInv, RowsKnow
<1> HIDE DEF n
<1> QED BY <1>b, <1>w, <1>r, <1>n, <1>p, <1>1, <1>2, <1>3, Moves

LEMMA RetryPrepareSites ==
    ASSUME SitesInv, NEW t \in Tasks, RetryPrepare(t)
    PROVE  TasksKnow' /\ RowsKnow' /\ SitesApart' /\ Listed' /\ Rested'
<1> DEFINE k == task[t]
           j == k.job
<1>b. /\ Busy(t) /\ k.pc = "prepare" /\ UNCHANGED boot /\ UNCHANGED db /\ UNCHANGED backup
      /\ UNCHANGED status /\ UNCHANGED saved
  BY DEF RetryPrepare, At, db
<1>w. /\ j \in Jobs /\ k.js \in JobState /\ Fits(k, status, saved, stage, app)
      /\ Knows(k, status[j], saved[j], stage, content, backup[j], app)
  BY <1>b, AtWork
<1>0. k.aim = "reclean" /\ Preparing(k) /\ app = "ready" /\ status[j] \notin ActiveStatuses
  BY <1>b, <1>w DEF Fits, Placed, Preparing, Unsubmitted, ActiveStatuses
<1>1. ASSUME NEW i \in Instances, Existing(j) => i = k.js.inst, Prepare(t, j, i)
      PROVE  TasksKnow' /\ RowsKnow' /\ SitesApart' /\ Listed' /\ Rested'
  <2>1. \A u \in Tasks \ {t} : Busy(u) => task[u].job # j
    BY <1>b, <1>0 DEF SitesInv, SitesApart
  <2>2. ASSUME Existing(j)
        PROVE  /\ stage[i] \in {"installed", "installing"}
               /\ \A l \in Jobs : Active(l) => saved[l].inst # i
               /\ \A u \in Tasks \ {t} : Busy(u) /\ Preparing(task[u]) => Site(task[u]) # i
    <3>1. Site(k) = i /\ i # None
      BY <1>1, <2>2, ConstantsAssumption DEF Site
    <3>2. stage[i] \in {"installed", "installing"}
      BY <1>w, <1>0, <1>1, <2>2, <3>1
         DEF Knows, SetupKnows, Settled, Prepare, Live, LiveStages
    <3> QED BY <1>b, <1>0, <3>1, <3>2 DEF SitesInv, SitesApart
  <2> QED BY <1>b, <1>w, <1>0, <1>1, <2>1, <2>2, PrepareSites
<1>2. CASE Become(t, Idle) /\ UNCHANGED stage /\ UNCHANGED content
  BY <1>b, <1>0, <1>2, Thinks
<1> QED BY <1>1, <1>2 DEF RetryPrepare

LEMMA QueueSites ==
    ASSUME SitesInv, NEW t \in Tasks, Queue(t)
    PROVE  TasksKnow' /\ RowsKnow' /\ SitesApart' /\ Listed' /\ Rested'
<1> DEFINE k == task[t]
           j == k.job
<1>b. /\ Busy(t) /\ k.pc = "queue" /\ UNCHANGED boot /\ UNCHANGED backup /\ UNCHANGED stage
      /\ UNCHANGED content
  BY DEF Queue, At, disk
<1>w. /\ k \in BusyTasks /\ j \in Jobs /\ k.js \in JobState /\ TypeOK
      /\ Fits(k, status, saved, stage, app) /\ CarriesUndo(k)
      /\ Knows(k, status[j], saved[j], stage, content, backup[j], app)
  BY <1>b, AtWork DEF SitesInv, OwnersInv, IInv
<1>0. /\ k.aim = "setup" /\ Preparing(k) /\ app = "ready" /\ ~Active(j) /\ ~k.js.staged
      /\ Site(k) = k.js.inst /\ k.js.inst # None /\ ~k.js.rbErr
      /\ SetupKnows(k, stage, content)
  BY <1>b, <1>w DEF Fits, Placed, Preparing, Unsubmitted, Active, ActiveStatuses, Site,
                    CarriesUndo, CanRollBack, WriterPcs, Knows
<1>1. CASE ~ForeignKeyHolds(k.js)
  <2> DEFINE n == [k EXCEPT !.pc = "clean", !.aim = "undo"]
  <2>1. Become(t, n) /\ UNCHANGED status /\ UNCHANGED saved
    <3>1. OnError(k) = n
      BY <1>b DEF OnError, WorkPcs, CleanPcs
    <3> QED BY <1>1, <3>1 DEF Queue, Fail, db
  <2>2. n.pc = "clean" /\ n.aim = "undo" /\ n.job = j /\ n.js = k.js
    BY <1>w DEF BusyTasks
  <2>3. Lost(k.js, stage)
    BY <1>b, <1>0, <1>1 DEF SetupKnows, ForeignKeyHolds, Live, LiveStages
  <2>4. Preparing(n) /\ Site(n) \in {None, Site(k)} /\ ~Owner(n)
    BY <1>0, <2>2 DEF Preparing, Site, Owner, WorkPcs
  <2>5. SetupKnows(n, stage, content)
    BY <1>0, <2>2, <2>3 DEF SetupKnows
  <2>6. Knows(n, status[j], saved[j], stage, content, backup[j], app)
    BY <2>2, <2>4, <2>5 DEF Knows
  <2> HIDE DEF n
  <2> QED BY <1>b, <1>0, <2>1, <2>2, <2>4, <2>6, Thinks DEF Idle
<1>2. CASE ForeignKeyHolds(k.js)
  <2>1. PICK p \in {"lock", "wait"} :
            /\ Goto(t, p) /\ (p = "lock" <=> Existing(j))
            /\ status' = [status EXCEPT ![j] = "queued"]
            /\ saved' = [saved EXCEPT ![j] = k.js]
    BY <1>2 DEF Queue
  <2> DEFINE n == [k EXCEPT !.pc = p]
  <2>2. Become(t, n) /\ n # Idle
    BY <2>1, GotoBecomes, <1>w DEF Idle, BusyTasks
  <2>3. n.pc = p /\ n.aim = "setup" /\ n.job = j /\ n.js = k.js
    BY <1>w, <1>0 DEF BusyTasks
  <2>4. status'[j] = "queued" /\ saved'[j] = k.js
    BY <1>w, <2>1 DEF TypeOK
  <2>5. Touches(j) /\ SameRows(j)
    BY <1>b, <1>w, <2>1, Stays DEF SameRows, boot, TypeOK
  <2>6. RowKnows(j)
    <3>1. Undoable(j, k.js, stage, content, backup[j], app)
      BY <1>b, <1>0 DEF SetupKnows, Undoable
    <3> QED BY <1>b, <1>0, <2>4, <3>1 DEF RowKnows, SetupKnows, boot
  <2>7. \A u \in Tasks \ {t} : Busy(u) => task[u].job # j
    BY <1>b, <1>0 DEF SitesInv, SitesApart
  <2>8. Apart2(j)
    BY <1>b, <1>0, <2>4, <2>7 DEF Apart2, SitesInv, SitesApart
  <2>9. ~Preparing(n) /\ ~Owner(n)
    BY <2>3 DEF Preparing, Owner, WorkPcs, CleanPcs
  <2>10. Knows(n, status'[j], saved'[j], stage', content', backup'[j], app')
    BY <2>1, <2>3, <2>4, <2>9 DEF Knows
  <2>11. todo'[j] = Nothing /\ app' = app
    BY <1>b, <1>w, <1>0 DEF boot, SitesInv, Listed
  <2> HIDE DEF n
  <2> QED BY <1>b, <1>w, <1>0, <2>2, <2>3, <2>5, <2>6, <2>7, <2>8, <2>9, <2>10, <2>11, Moves
<1> QED BY <1>1, <1>2

LEMMA ClaimSites ==
    ASSUME SitesInv, NEW t \in Tasks, Claim(t)
    PROVE  TasksKnow' /\ RowsKnow' /\ SitesApart' /\ Listed' /\ Rested'
<1> DEFINE k == task[t]
           j == k.job
<1>b. /\ Busy(t) /\ k.pc \in {"claim", "cclaim"} /\ UNCHANGED boot /\ UNCHANGED backup
      /\ UNCHANGED stage /\ UNCHANGED content
  BY DEF Claim, At, disk
<1>w. /\ k \in BusyTasks /\ j \in Jobs /\ saved[j] \in JobState /\ TypeOK
      /\ Fits(k, status, saved, stage, app)
      /\ Knows(k, status[j], saved[j], stage, content, backup[j], app)
  BY <1>b, AtWork DEF SitesInv, OwnersInv, IInv
<1>0. /\ \/ k.pc = "cclaim" /\ k.aim = "cancel"
         \/ k.pc = "claim" /\ k.aim = "fail"
      /\ app = "ready"
  BY <1>b, <1>w DEF Fits, Placed
<1>q. ASSUME status[j] = "queued"
      PROVE  /\ Active(j) /\ k.js = saved[j] /\ ~saved[j].staged /\ saved[j].inst # None
             /\ ~Live(saved[j].inst) => Lost(saved[j], stage)
  <2>1. Active(j)
    BY <1>q DEF Active, ActiveStatuses
  <2>2. ~Live(saved[j].inst) => Lost(saved[j], stage)
    BY <1>w, <2>1, ActiveSite
  <2>3. saved[j].inst # None
    BY <1>w, <2>1, ActiveSite, ConstantsAssumption
  <2> QED BY <1>b, <1>w, <1>q, <2>1, <2>2, <2>3
          DEF Knows, SitesInv, OwnersInv, RowsOrdered, Ordered
<1>1. CASE status[j] # "queued"
  <2>1. Become(t, Idle) /\ UNCHANGED status /\ UNCHANGED saved
    BY <1>1 DEF Claim, db
  <2> QED BY <1>b, <1>0, <2>1, Thinks
<1>2. CASE status[j] = "queued" /\ ~ForeignKeyHolds(k.js)
  <2>1. Become(t, OnError(k)) /\ UNCHANGED status /\ UNCHANGED saved
    BY <1>2 DEF Claim, Fail, db
  <2>2. CASE k.pc = "cclaim"
    <3>1. OnError(k) = Idle
      BY <2>2 DEF OnError, WorkPcs, CleanPcs
    <3> QED BY <1>b, <1>0, <2>1, <3>1, Thinks
  <2>3. CASE k.pc = "claim"
    <3> DEFINE n == [k EXCEPT !.pc = "strand"]
    <3>1. OnError(k) = n
      BY <2>3 DEF OnError, WorkPcs, CleanPcs
    <3>2. n.job = j /\ n.pc = "strand" /\ n.aim = "fail"
      BY <1>w, <1>0, <2>3 DEF BusyTasks
    <3>3. Lost(saved[j], stage) /\ status[j] \in ActiveStatuses
      BY <1>2, <1>q DEF ForeignKeyHolds, Active
    <3>4. Owner(n) /\ ~Preparing(n) /\ Carries(n, saved[j])
      BY <3>2 DEF Owner, Preparing, Carries, WorkPcs, CleanPcs
    <3>5. Knows(n, status[j], saved[j], stage, content, backup[j], app)
      BY <3>3, <3>4, OwnerOfLost
    <3> HIDE DEF n
    <3> QED BY <1>b, <1>0, <2>1, <3>1, <3>2, <3>4, <3>5, Thinks
  <2> QED BY <1>b, <2>2, <2>3
<1>3. CASE status[j] = "queued" /\ ForeignKeyHolds(k.js)
  <2>1. /\ status' = [status EXCEPT ![j] = "running"]
        /\ saved' = [saved EXCEPT ![j] = saved[j]]
    BY <1>3, <1>q DEF Claim
  <2>2. PICK p \in {"clean", "relock", "begin"} :
            /\ Goto(t, p) /\ (p = "clean" <=> k.pc = "cclaim")
            /\ p # "clean" => (p = "relock" <=> Existing(j))
    <3>1. Goto(t, AfterClaim(k))
      BY <1>3 DEF Claim
    <3> QED BY <3>1 DEF AfterClaim
  <2> DEFINE n == [k EXCEPT !.pc = p]
  <2>3. n.pc = p /\ n.aim = k.aim /\ n.job = j /\ n.js = saved[j]
    BY <1>w, <1>3, <1>q DEF BusyTasks
  <2>4. status'[j] = "running" /\ saved'[j] = saved[j]
    BY <1>w, <2>1 DEF TypeOK
  <2>5. Touches(j) /\ SameRows(j)
    BY <1>b, <1>w, <2>1, Stays DEF SameRows, boot, TypeOK
  <2>6. RowKnows(j)
    BY <1>b, <1>w, <1>3, <1>q, <2>4 DEF RowKnows, SitesInv, RowsKnow, boot
  <2>7. ~Preparing(n) /\ Owner(n) /\ Carries(n, saved[j])
    BY <1>0, <1>3, <1>q, <2>2, <2>3
       DEF Preparing, Owner, Carries, Existing, WorkPcs, CleanPcs
  <2>8. Leaves(n, saved[j], stage, content, backup[j], app)
    BY <1>0, <1>3, <1>q, <2>2, <2>3 DEF Leaves, RestoresBackup, Existing
  <2>9. Knows(n, status'[j], saved'[j], stage', content', backup'[j], app)
    BY <1>b, <2>2, <2>3, <2>4, <2>7, <2>8 DEF Knows, ActiveStatuses
  <2>10. ASSUME NEW u \in Tasks \ {t}, Busy(u), task[u].job = j
         PROVE  Knows(task[u], status'[j], saved'[j], stage', content', backup'[j], app)
    <3> DEFINE l == task[u]
    <3>1. ~Preparing(l) /\ Apart(k, l)
      BY <1>b, <2>10, Mates
    <3>2. /\ Knows(l, status[j], saved[j], stage, content, backup[j], app)
          /\ Fits(l, status, saved, stage, app)
      BY <2>10, AtWork
    <3>3. ~Owner(l)
      BY <1>b, <1>3, <2>10, NoOwnerWhileQueued DEF SitesInv
    <3>4. l.pc # "clear"
      BY <1>3, <3>2 DEF Knows, ActiveStatuses
    <3>5. l.pc # "lock"
      BY <1>0, <3>1, <3>2 DEF Apart, Line, Handling, Fits, Placed
    <3> QED BY <2>4, <3>1, <3>3, <3>4, <3>5 DEF Knows
  <2>11. Become(t, n)
    BY <2>2, GotoBecomes
  <2>12. status'[j] \in ActiveStatuses /\ Active(j)
    BY <1>3, <1>q, <2>4 DEF ActiveStatuses
  <2> HIDE DEF n, j
  <2> QED BY <1>b, <1>w, <1>0, <2>3, <2>4, <2>5, <2>6, <2>7, <2>9, <2>10, <2>11, <2>12, Goes
          DEF j
<1> QED BY <1>b, <1>1, <1>2, <1>3

LEMMA ClearSites ==
    ASSUME SitesInv, NEW t \in Tasks, ClearStaging(t)
    PROVE  TasksKnow' /\ RowsKnow' /\ SitesApart' /\ Listed' /\ Rested'
<1> DEFINE k == task[t]
           j == k.job
<1>b. /\ Busy(t) /\ k.pc = "clear" /\ UNCHANGED boot /\ UNCHANGED status /\ UNCHANGED saved
      /\ UNCHANGED stage /\ UNCHANGED content
  BY DEF ClearStaging, At, db
<1>w. /\ j \in Jobs /\ TypeOK /\ Fits(k, status, saved, stage, app)
      /\ Knows(k, status[j], saved[j], stage, content, backup[j], app)
  BY <1>b, AtWork DEF SitesInv, OwnersInv, IInv
<1>1. k.aim # "reclean" /\ ~Active(j)
  BY <1>b, <1>w DEF Knows, SetupKnows, Preparing, Active
<1>2. Become(t, Idle)
  BY <1>1 DEF ClearStaging
<1>3. \A l \in Jobs \ {j} : backup'[l] = backup[l]
  BY <1>w DEF ClearStaging, TypeOK
<1>4. Touches(j) /\ SameRows(j)
  BY <1>b, <1>w, <1>3, Stays DEF SameRows, boot
<1>5. RowKnows(j)
  BY <1>b, <1>w, <1>1 DEF RowKnows, SitesInv, RowsKnow, Active
<1>6. ASSUME NEW u \in Tasks \ {t}, Busy(u), task[u].job = j
      PROVE  Knows(task[u], status'[j], saved'[j], stage', content', backup'[j], app)
  BY <1>b, <1>w, <1>1, <1>4, <1>6, RowsMates
<1>7. status'[j] \notin ActiveStatuses
  BY <1>b, <1>1 DEF Active
<1> HIDE DEF j
<1> QED BY <1>b, <1>w, <1>1, <1>2, <1>4, <1>5, <1>6, <1>7, Goes DEF j

----------------------------------------------------------------------------
(* The commands, the recovery and the environment *)

LEMMA StartSites ==
    ASSUME SitesInv, Careful, NEW t \in Tasks, NEW j \in Jobs, NEW i \in Instances,
           Start(t, j, i)
    PROVE  TasksKnow' /\ RowsKnow' /\ SitesApart' /\ Listed' /\ Rested'
<1>1. /\ ~Busy(t) /\ app = "ready" /\ status[j] = "none" /\ Prepare(t, j, i) /\ MayStart(j, i)
      /\ \A u \in Tasks : Busy(u) => task[u].job # j
      /\ UNCHANGED db /\ UNCHANGED backup /\ UNCHANGED boot
  BY DEF Start, Free
<1>2. status[j] \notin ActiveStatuses
  BY <1>1 DEF ActiveStatuses
<1>3. ASSUME Existing(j)
      PROVE  /\ stage[i] \in {"installed", "installing"}
             /\ \A l \in Jobs : Active(l) => saved[l].inst # i
             /\ \A u \in Tasks \ {t} : Busy(u) /\ Preparing(task[u]) => Site(task[u]) # i
  <2>1. stage[i] = "installed" /\ Undisturbed(j, i) /\ i # None
    BY <1>1, <1>3, ConstantsAssumption DEF MayStart, Careful
  <2> QED BY <1>2, <2>1 DEF Undisturbed, Active, Site
<1> QED BY <1>1, <1>2, <1>3, PrepareSites

\* A task that gets its work, for a job whose row stays as it is
LEMMA TaskGetsWork ==
    ASSUME SitesInv, NEW t \in Tasks, ~Busy(t), NEW j \in Jobs, NEW n, Become(t, n),
           n # Idle, n.job = j, app' = app, UNCHANGED db, UNCHANGED stage,
           UNCHANGED content, UNCHANGED backup,
           todo' = [todo EXCEPT ![j] = Nothing],
           Knows(n, status[j], saved[j], stage, content, backup[j], app),
           \A u \in Tasks \ {t} : Busy(u) =>
               /\ Preparing(n) \/ Preparing(task[u]) => task[u].job # j
               /\ Preparing(n) /\ Preparing(task[u]) /\ Site(n) # None =>
                      Site(n) # Site(task[u]),
           Preparing(n) => ~Active(j) /\ \A l \in Jobs \ {j} : Active(l) => saved[l].inst # Site(n),
           app = "init" => n.aim = "recover"
    PROVE  TasksKnow' /\ RowsKnow' /\ SitesApart' /\ Listed' /\ Rested'
<1>w. TypeOK
  BY DEF SitesInv, OwnersInv, IInv
<1>b. status' = status /\ saved' = saved
  BY DEF db
<1>1. Touches(j)
  BY Stays
<1>2. SameRows(j) /\ todo'[j] = Nothing
  BY <1>b, <1>w DEF SameRows, TypeOK
<1>3. RowKnows(j)
  BY <1>b DEF RowKnows, SitesInv, RowsKnow, Active
<1>4. Apart2(j)
  BY <1>b DEF Apart2, SitesInv, SitesApart, Active
<1>5. \A u \in Tasks \ {t} : Busy(u) /\ task[u].job = j =>
          Knows(task[u], status'[j], saved'[j], stage', content', backup'[j], app')
  BY <1>b DEF SitesInv, TasksKnow
<1> QED BY <1>b, <1>1, <1>2, <1>3, <1>4, <1>5, Moves DEF Active

LEMMA RetrySites ==
    ASSUME SitesInv, Careful, NEW t \in Tasks, NEW j \in Jobs, Retry(t, j)
    PROVE  TasksKnow' /\ RowsKnow' /\ SitesApart' /\ Listed' /\ Rested'
<1> DEFINE n == Running(j, "prepare", "reclean", saved[j])
<1>b. /\ ~Busy(t) /\ app = "ready" /\ ~Active(j) /\ Undisturbed(j, saved[j].inst)
      /\ UNCHANGED db /\ UNCHANGED stage /\ UNCHANGED content /\ UNCHANGED backup
      /\ app' = app /\ todo' = todo
  BY DEF Retry, Free, Active, ActiveStatuses, MayRetry, Careful, disk, boot
<1>w. /\ TypeOK /\ saved[j] \in JobState /\ ~saved[j].rbErr /\ todo[j] = Nothing
      /\ Settled(j, saved[j], stage)
  BY <1>b DEF SitesInv, OwnersInv, IInv, TypeOK, RowsKnow, Listed
<1>1. Become(t, n)
  BY <1>w DEF Retry
<1>2. /\ n # Idle /\ n.job = j /\ n.pc = "prepare" /\ n.aim = "reclean" /\ n.js = saved[j]
  BY DEF Running, Idle
<1>3. Preparing(n) /\ ~Owner(n) /\ Site(n) \in {None, saved[j].inst}
  BY <1>2 DEF Preparing, Owner, Site, WorkPcs, CleanPcs
<1>4. Knows(n, status[j], saved[j], stage, content, backup[j], app)
  BY <1>w, <1>2, <1>3 DEF Knows, SetupKnows
<1>5. ASSUME NEW u \in Tasks \ {t}, Busy(u)
      PROVE  task[u].job # j /\ (Site(n) # None => Site(n) # Site(task[u]))
  BY <1>b, <1>3, <1>5 DEF Undisturbed, Site
<1>6. ASSUME NEW l \in Jobs \ {j}, Active(l) PROVE saved[l].inst # Site(n)
  <2>1. saved[l].inst # None
    BY <1>6, ActiveSite, ConstantsAssumption
  <2> QED BY <1>b, <1>3, <1>6, <2>1 DEF Undisturbed
<1>7. todo' = [todo EXCEPT ![j] = Nothing]
  BY <1>b, <1>w DEF TypeOK
<1> HIDE DEF n
<1> QED BY <1>b, <1>1, <1>2, <1>4, <1>5, <1>6, <1>7, TaskGetsWork

LEMMA CancelSites ==
    ASSUME SitesInv, NEW t \in Tasks, NEW j \in Jobs, Cancel(t, j)
    PROVE  TasksKnow' /\ RowsKnow' /\ SitesApart' /\ Listed' /\ Rested'
<1> DEFINE n == Running(j, "cclaim", "cancel", saved[j])
<1>b. /\ ~Busy(t) /\ app = "ready" /\ status[j] = "queued" /\ Become(t, n)
      /\ UNCHANGED db /\ UNCHANGED stage /\ UNCHANGED content /\ UNCHANGED backup
      /\ app' = app /\ todo' = todo
  BY DEF Cancel, Free, disk, boot
<1>w. TypeOK /\ todo[j] = Nothing
  BY <1>b DEF SitesInv, OwnersInv, IInv, Listed
<1>1. n # Idle /\ n.job = j /\ n.pc = "cclaim" /\ n.aim = "cancel" /\ n.js = saved[j]
  BY DEF Running, Idle
<1>2. ~Preparing(n) /\ ~Owner(n)
  BY <1>1 DEF Preparing, Owner, WorkPcs, CleanPcs
<1>3. Knows(n, status[j], saved[j], stage, content, backup[j], app)
  BY <1>1, <1>2 DEF Knows
<1>4. ASSUME NEW u \in Tasks \ {t}, Busy(u), Preparing(task[u]) PROVE task[u].job # j
  BY <1>b, <1>4, AtWork DEF Fits, Unsubmitted
<1>5. todo' = [todo EXCEPT ![j] = Nothing]
  BY <1>b, <1>w DEF TypeOK
<1> HIDE DEF n
<1> QED BY <1>b, <1>1, <1>2, <1>3, <1>4, <1>5, TaskGetsWork

LEMMA RecoverSites ==
    ASSUME SitesInv, NEW t \in Tasks, NEW j \in Jobs, Recover(t, j)
    PROVE  TasksKnow' /\ RowsKnow' /\ SitesApart' /\ Listed' /\ Rested'
<1> DEFINE n == Running(j, "clean", "recover", saved[j])
<1>b. /\ ~Busy(t) /\ app = "init" /\ todo[j] # Nothing
      /\ \A l \in Jobs : ~Recovering(l)
      /\ UNCHANGED db /\ UNCHANGED stage /\ UNCHANGED content /\ UNCHANGED backup
      /\ app' = app /\ todo' = [todo EXCEPT ![j] = Nothing]
  BY DEF Recover, disk
<1>1. Active(j) /\ todo[j] = saved[j] /\ status[j] \in ActiveStatuses
  BY <1>b DEF SitesInv, Listed, Active
<1>2. Become(t, n)
  BY <1>1 DEF Recover
<1>3. n # Idle /\ n.job = j /\ n.pc = "clean" /\ n.aim = "recover" /\ n.js = saved[j]
  BY DEF Running, Idle
<1>4. ~Preparing(n) /\ Owner(n) /\ Carries(n, saved[j])
  BY <1>3 DEF Preparing, Owner, Carries, WorkPcs, CleanPcs
<1>5. Leaves(n, saved[j], stage, content, backup[j], app)
  BY <1>b, <1>3 DEF Leaves
<1>6. Knows(n, status[j], saved[j], stage, content, backup[j], app)
  BY <1>1, <1>3, <1>4, <1>5 DEF Knows
<1>7. ASSUME NEW u \in Tasks, Busy(u) PROVE FALSE
  BY <1>b, <1>7, AtWork DEF Recovering
<1> HIDE DEF n
<1> QED BY <1>b, <1>2, <1>3, <1>4, <1>6, <1>7, TaskGetsWork

\* The process dies, starts again, or has recovered every job: no task is left
LEMMA BootSites ==
    ASSUME SitesInv, Restart \/ InitReturns \/ Crash
    PROVE  TasksKnow' /\ RowsKnow' /\ SitesApart' /\ Listed' /\ Rested'
<1>b. /\ status' = status /\ saved' = saved /\ stage' = stage /\ content' = content
      /\ backup' = backup
  BY DEF Restart, InitReturns, Crash, db, disk
<1>a. \A j \in Jobs : Active(j)' <=> Active(j)
  BY <1>b DEF Active
<1>1. \A t \in Tasks : ~Busy(t)'
  <2>1. CASE Crash
    BY <2>1 DEF Crash, Busy
  <2>2. CASE Restart \/ InitReturns
    <3>1. ASSUME NEW t \in Tasks, Busy(t) PROVE FALSE
      <4>1. /\ task[t].job \in Jobs /\ Fits(task[t], status, saved, stage, app)
            /\ app = "ready" <=> task[t].aim # "recover"
        BY <3>1, AtWork
      <4> QED BY <2>2, <3>1, <4>1 DEF Restart, InitReturns, Recovering, Fits
    <3> QED BY <2>2, <3>1 DEF Restart, InitReturns, Busy
  <2> QED BY <2>1, <2>2
<1>2. TasksKnow'
  BY <1>1 DEF TasksKnow
<1>3. ASSUME NEW j \in Jobs, Active(j), app' = "ready" PROVE Lost(saved[j], stage)
  <2>1. InitReturns
    BY <1>3 DEF Restart, Crash
  <2> QED BY <1>3, <2>1 DEF InitReturns, SitesInv, Listed
<1>4. RowsKnow'
  <2> SUFFICES ASSUME NEW j \in Jobs
               PROVE  /\ Settled(j, saved'[j], stage') /\ ~saved'[j].rbErr
                      /\ Active(j)' =>
                             Undoable(j, saved'[j], stage', content', backup'[j], app')
    BY DEF RowsKnow
  <2>1. Settled(j, saved[j], stage) /\ ~saved[j].rbErr
    BY DEF SitesInv, RowsKnow
  <2>2. ASSUME Active(j) PROVE Undoable(j, saved[j], stage, content, backup[j], app')
    <3>1. Undoable(j, saved[j], stage, content, backup[j], app)
      BY <2>2 DEF SitesInv, RowsKnow
    <3> QED BY <1>3, <2>2, <3>1 DEF Undoable
  <2> QED BY <1>a, <1>b, <2>1, <2>2
<1>5. SitesApart'
  <2>1. \A j, l \in Jobs : Active(j) /\ Active(l) /\ saved[j].inst = saved[l].inst => j = l
    BY DEF SitesInv, SitesApart
  <2> QED BY <1>a, <1>b, <1>1, <2>1 DEF SitesApart
<1>6. Listed'
  <2>1. CASE Crash
    BY <1>1, <2>1 DEF Crash, Listed
  <2>2. CASE Restart
    <3>1. ASSUME NEW j \in Jobs
          PROVE  IF Active(j) THEN todo'[j] = saved[j] /\ saved[j] # Nothing
                 ELSE todo'[j] = Nothing
      <4>1. ASSUME Active(j) PROVE saved[j] # Nothing
        BY <4>1, ActiveSite DEF JobState, Nothing
      <4> QED BY <2>2, <4>1 DEF Restart, Candidates
    <3> QED BY <1>a, <1>b, <1>1, <2>2, <3>1 DEF Restart, Listed
  <2>3. CASE InitReturns
    BY <1>1, <2>3 DEF InitReturns, Listed
  <2> QED BY <2>1, <2>2, <2>3
<1>7. Rested'
  BY <1>a, <1>b DEF SitesInv, Rested
<1> QED BY <1>2, <1>4, <1>5, <1>6, <1>7

LEMMA RemovalSites ==
    ASSUME SitesInv, NEW i \in Instances, RemoveInstance(i)
    PROVE  TasksKnow' /\ RowsKnow' /\ SitesApart' /\ Listed' /\ Rested'
<1>b. /\ app = "ready" /\ Live(i) /\ status' = status /\ saved' = saved /\ task' = task
      /\ backup' = backup /\ app' = app /\ todo' = todo
      /\ stage' = [stage EXCEPT ![i] = "gone"] /\ content' = [content EXCEPT ![i] = "absent"]
  BY DEF RemoveInstance, db, boot
<1>w. TypeOK
  BY DEF SitesInv, OwnersInv, IInv
<1>a. /\ \A j \in Jobs : Active(j)' <=> Active(j)
      /\ \A t \in Tasks : Busy(t)' <=> Busy(t)
  BY <1>b DEF Active, Busy
<1>s. /\ stage'[i] = "gone"
      /\ \A x : x \in Instances \ {i} => stage'[x] = stage[x] /\ content'[x] = content[x]
      /\ Forward(stage, stage') /\ Steady(stage, stage')
  BY <1>b, <1>w DEF TypeOK, Forward, Steady
<1>l. ASSUME NEW js \in JobState, ~Lost(js, stage'), js.inst # None
      PROVE  stage'[js.inst] = stage[js.inst] /\ content'[js.inst] = content[js.inst]
  BY <1>s, <1>l DEF Lost, JobState
<1>1. TasksKnow'
  <2> SUFFICES ASSUME NEW t \in Tasks, Busy(t)
               PROVE  LET k == task[t] IN
                      Knows(k, status[k.job], saved[k.job], stage', content', backup[k.job], app)
    BY <1>a, <1>b DEF TasksKnow
  <2> DEFINE k == task[t]
             j == k.job
  <2>1. /\ k.js \in JobState /\ j \in Jobs /\ saved[j] \in JobState /\ CarriesUndo(k)
        /\ Knows(k, status[j], saved[j], stage, content, backup[j], app)
    BY AtWork
  <2>2. ASSUME Preparing(k) PROVE SetupKnows(k, stage', content')
    <3>1. SetupKnows(k, stage, content)
      BY <2>1, <2>2 DEF Knows
    <3>2. Settled(j, k.js, stage') /\ (Lost(k.js, stage) => Lost(k.js, stage'))
      BY <1>s, <2>1, <3>1, SettledKept, LostKept DEF SetupKnows
    <3>3. k.pc = "queue" => k.js.inst # None
      BY <2>1 DEF CarriesUndo, CanRollBack, WriterPcs
    <3> QED BY <1>l, <2>1, <3>1, <3>2, <3>3 DEF SetupKnows
  <2>3. ASSUME Owner(k) PROVE Lost(saved[j], stage')
                              \/ Leaves(k, saved[j], stage', content', backup[j], app)
    <3>1. saved[j].inst # None
      BY <2>3, OwnersJob, ConstantsAssumption
    <3>2. CASE Lost(saved[j], stage)
      BY <1>s, <2>1, <3>2, LostKept
    <3>3. CASE ~Lost(saved[j], stage')
      <4>1. stage'[saved[j].inst] = stage[saved[j].inst]
            /\ content'[saved[j].inst] = content[saved[j].inst]
        BY <1>l, <2>1, <3>1, <3>3
      <4>2. Leaves(k, saved[j], stage, content, backup[j], app)
        BY <2>3, <3>3, <4>1, OwnersJob DEF Lost
      <4> QED BY <4>1, <4>2 DEF Leaves
    <3> QED BY <3>2, <3>3
  <2> QED BY <2>1, <2>2, <2>3 DEF Knows
<1>2. RowsKnow'
  <2> SUFFICES ASSUME NEW j \in Jobs
               PROVE  /\ Settled(j, saved[j], stage') /\ ~saved[j].rbErr
                      /\ Active(j) => Undoable(j, saved[j], stage', content', backup[j], app)
    BY <1>a, <1>b DEF RowsKnow
  <2>1. saved[j] \in JobState
    BY <1>w DEF TypeOK
  <2>2. Settled(j, saved[j], stage') /\ ~saved[j].rbErr
    BY <1>s, <2>1, SettledKept DEF SitesInv, RowsKnow
  <2>3. ASSUME Active(j), ~Lost(saved[j], stage')
        PROVE  Undoable(j, saved[j], stage', content', backup[j], app)
    <3>1. saved[j].inst # None
      BY <2>3, ActiveSite, ConstantsAssumption
    <3>2. stage'[saved[j].inst] = stage[saved[j].inst]
          /\ content'[saved[j].inst] = content[saved[j].inst]
      BY <1>l, <2>1, <2>3, <3>1
    <3>3. Undoable(j, saved[j], stage, content, backup[j], app)
      BY <2>3 DEF SitesInv, RowsKnow
    <3> QED BY <1>s, <2>1, <3>2, <3>3, UndoableKept
  <2> QED BY <2>2, <2>3 DEF Undoable
<1>3. SitesApart'
  BY <1>a, <1>b DEF SitesInv, SitesApart
<1>4. Listed'
  BY <1>a, <1>b DEF SitesInv, Listed
<1>5. Rested'
  BY <1>a, <1>b, <1>s DEF SitesInv, Rested, Quiet
<1> QED BY <1>1, <1>2, <1>3, <1>4, <1>5

----------------------------------------------------------------------------
(* The invariant and what follows from it *)

LEMMA SitesKept ==
    ASSUME SitesInv, Careful, [Next]_vars
    PROVE  SitesInv'
<1>0. Calm
  BY DEF Careful, Calm
<1>1. OwnersInv'
  BY <1>0, OwnersKept DEF SitesInv
<1>2. TasksKnow' /\ RowsKnow' /\ SitesApart' /\ Listed' /\ Rested'
  <2>1. ASSUME NEW t \in Tasks, NEW j \in Jobs,
               \/ \E i \in Instances : Start(t, j, i)
               \/ Retry(t, j) \/ Cancel(t, j) \/ Recover(t, j)
        PROVE  TasksKnow' /\ RowsKnow' /\ SitesApart' /\ Listed' /\ Rested'
    BY <2>1, StartSites, RetrySites, CancelSites, RecoverSites
  <2>2. ASSUME NEW t \in Tasks, Step(t) \/ Permit(t) \/ WorkError(t) \/ Fault(t)
        PROVE  TasksKnow' /\ RowsKnow' /\ SitesApart' /\ Listed' /\ Rested'
    <3>1. ~Fault(t)
      BY ConstantsAssumption
         DEF SitesInv, OwnersInv, IInv, Fault, Spend, Careful, TypeOK, Bounded
    <3> QED BY <2>2, <3>1, RetryPrepareSites, QueueSites, LockSites, ClaimSites, BackupSites,
               PersistSites, InstallSites, CompleteSites, ErrorSites, CleanSites,
               RestoreSites, FinishSites, ClearSites DEF Step
  <2>3. ASSUME NEW i \in Instances, RemoveInstance(i)
        PROVE  TasksKnow' /\ RowsKnow' /\ SitesApart' /\ Listed' /\ Rested'
    BY <2>3, RemovalSites
  <2>4. CASE Restart \/ InitReturns \/ Crash
    BY <2>4, BootSites
  <2>5. ~Reload
    BY ConstantsAssumption
       DEF SitesInv, OwnersInv, IInv, Reload, Spend, Careful, TypeOK, Bounded
  <2>6. CASE UNCHANGED vars
    BY <2>6 DEF vars, SitesInv, TasksKnow, RowsKnow, SitesApart, Listed, Rested,
                Busy, Active, Recovering
  <2> QED BY <2>1, <2>2, <2>3, <2>4, <2>5, <2>6 DEF Next, RecoverNext
<1> QED BY <1>1, <1>2 DEF SitesInv

LEMMA InitSites ==
    ASSUME Init
    PROVE  SitesInv
<1>1. OwnersInv
  <2>1. ActiveCanRollBack /\ TasksCarryUndo /\ TasksFit /\ TasksApart /\ RowsOrdered
    BY DEF Init, ActiveCanRollBack, Active, ActiveStatuses, TasksCarryUndo, TasksFit,
           TasksApart, RowsOrdered, Busy
  <2> QED BY <2>1, InitIsTyped DEF OwnersInv, IInv
<1>2. \A t \in Tasks : ~Busy(t)
  BY DEF Init, Busy
<1>3. \A j \in Jobs : ~Active(j) /\ todo[j] = Nothing
  BY DEF Init, Active, ActiveStatuses
<1>4. RowsKnow
  <2>1. \A j \in Jobs : Settled(j, saved[j], stage) /\ ~saved[j].rbErr
    BY DEF Init, Settled, FreshState
  <2> QED BY <1>3, <2>1 DEF RowsKnow
<1>5. Rested
  BY DEF Init, Rested, Quiet, Good
<1> QED BY <1>1, <1>2, <1>3, <1>4, <1>5 DEF SitesInv, TasksKnow, SitesApart, Listed

(***************************************************************************)
(* Damage that a job does to an instance is always within reach of what    *)
(* undoes it: holds at every moment, through any number of crashes and     *)
(* removals of instances.                                                  *)
(***************************************************************************)
THEOREM SitesHold == ASSUME Careful PROVE Spec => []SitesInv
<1>1. Init => SitesInv
  BY InitSites
<1>2. SitesInv /\ [Next]_vars => SitesInv'
  BY SitesKept
<1> QED BY <1>1, <1>2, PTL DEF Spec

\* The instance that an active job works on
LEMMA WorkedOn ==
    ASSUME SitesInv, NEW i \in Instances, ~Quiet(i, stage, content)
    PROVE  \E j \in Jobs : /\ Active(j) /\ saved[j].inst = i
                           /\ Undoable(j, saved[j], stage, content, backup[j], app)
BY DEF SitesInv, Rested, RowsKnow

(***************************************************************************)
(* No instance stays "installing" without a job that will change it: the   *)
(* worker, the cleanup that follows its error, or the recovery.            *)
(***************************************************************************)
THEOREM NoStuck == ASSUME Careful PROVE Spec => []NoStuckInstance
<1>1. SitesInv => NoStuckInstance
  <2> SUFFICES ASSUME SitesInv, NEW i \in Instances, stage[i] = "installing"
               PROVE  AccountedFor(i)
    BY DEF NoStuckInstance
  <2>1. ~Quiet(i, stage, content)
    BY DEF Quiet
  <2> QED BY <2>1, WorkedOn DEF AccountedFor
<1> QED BY <1>1, SitesHold, PTL

\* No job puts the content of a pack into an existing instance: the rollback of
\* such a job restores the stage alone
NoPack == \A j \in Jobs : Kind[j] # "pack"

(***************************************************************************)
(* An instance that the launcher may start is whole: a job has taken the   *)
(* stage away before its first change and gives it back after the last     *)
(* one, or after the backup is restored.                                   *)
(***************************************************************************)
THEOREM LaunchesWhole == ASSUME Careful, NoPack PROVE Spec => []LaunchableIsWhole
<1>1. SitesInv => LaunchableIsWhole
  <2> SUFFICES ASSUME SitesInv, NEW i \in Instances, app = "ready", stage[i] = "installed"
               PROVE  Good(content[i])
    BY DEF LaunchableIsWhole, Good, NoPack
  <2>1. CASE Quiet(i, stage, content)
    BY <2>1 DEF Quiet
  <2>2. CASE ~Quiet(i, stage, content)
    BY <2>2, WorkedOn DEF Undoable, Lost
  <2> QED BY <2>1, <2>2
<1> QED BY <1>1, SitesHold, PTL

(***************************************************************************)
(* Damage of an update of a shared instance is on record, with a backup,   *)
(* at every moment at which the process may die.                           *)
(***************************************************************************)
THEOREM DamageOnRecord == ASSUME Careful, NoPack PROVE Spec => []DamageIsRecorded
<1>1. SitesInv => DamageIsRecorded
  <2> SUFFICES ASSUME SitesInv, NEW i \in Installed, Live(i), content[i] = "partial"
               PROVE  \E j \in Jobs : /\ saved[j].inst = i /\ saved[j].staged
                                      /\ saved[j].rollback # "none"
                                      /\ backup[j] = "whole" /\ Active(j)
    BY DEF DamageIsRecorded
  <2>1. i \in Instances /\ ~Good(content[i])
    BY ConstantsAssumption DEF Good, NoPack
  <2>2. ~Quiet(i, stage, content)
    BY <2>1 DEF Quiet, Live, LiveStages
  <2>3. PICK j \in Jobs : /\ Active(j) /\ saved[j].inst = i
                          /\ Undoable(j, saved[j], stage, content, backup[j], app)
    BY <2>1, <2>2, WorkedOn
  <2>4. ~Lost(saved[j], stage)
    BY <2>3 DEF Lost, Live, LiveStages
  <2>5. saved[j].staged /\ saved[j].rollback = "installed" /\ Good(backup[j])
    BY <2>1, <2>3, <2>4 DEF Undoable
  <2> QED BY <2>3, <2>5 DEF Good, NoPack
<1> QED BY <1>1, SitesHold, PTL

----------------------------------------------------------------------------
(* The instances of new jobs *)

(***************************************************************************)
(* An instance that a new job has created is in the hands of its setup     *)
(* until the row of the job names it.  A crash in between leaves it there. *)
(***************************************************************************)
Born ==
    \A i \in Instances : stage[i] = "not_installed" =>
        \/ \E j \in Jobs : Active(j) /\ saved[j].inst = i
        \/ \E t \in Tasks : At(t, "queue") /\ task[t].js.inst = i

\* A step of task t, which becomes n
LEMMA BornStays ==
    ASSUME TypeOK, Born, NEW t \in Tasks, NEW n, Become(t, n),
           \A i \in Instances :
               stage'[i] = "not_installed" =>
                   /\ \A j \in Jobs : Active(j) /\ saved[j].inst = i =>
                          Active(j)' /\ saved'[j].inst = i
                   /\ \/ stage[i] = "not_installed"
                         /\ ~(At(t, "queue") /\ task[t].js.inst = i)
                      \/ \E j \in Jobs : Active(j)' /\ saved'[j].inst = i
                      \/ n # Idle /\ n.pc = "queue" /\ n.js.inst = i
    PROVE  Born'
<1>t. \A u \in Tasks : task'[u] = IF u = t THEN n ELSE task[u]
  BY DEF Become, TypeOK
<1> SUFFICES ASSUME NEW i \in Instances, stage'[i] = "not_installed"
             PROVE  \/ \E j \in Jobs : Active(j)' /\ saved'[j].inst = i
                    \/ \E u \in Tasks : At(u, "queue")' /\ task'[u].js.inst = i
  BY DEF Born
<1>1. CASE n # Idle /\ n.pc = "queue" /\ n.js.inst = i
  BY <1>t, <1>1 DEF At, Busy
<1>2. CASE stage[i] = "not_installed" /\ ~(At(t, "queue") /\ task[t].js.inst = i)
  <2>1. CASE \E j \in Jobs : Active(j) /\ saved[j].inst = i
    BY <2>1
  <2>2. CASE \E u \in Tasks : At(u, "queue") /\ task[u].js.inst = i
    <3>1. PICK u \in Tasks \ {t} : At(u, "queue") /\ task[u].js.inst = i
      BY <1>2, <2>2
    <3>2. At(u, "queue")' /\ task'[u].js.inst = i
      BY <1>t, <3>1 DEF At, Busy
    <3> QED BY <3>2
  <2> QED BY <1>2, <2>1, <2>2 DEF Born
<1> QED BY <1>1, <1>2

\* Steps that write neither the rows nor a stage
LEMMA BornRests ==
    ASSUME TypeOK, Born, NEW t \in Tasks, NEW n, Become(t, n), ~At(t, "queue"),
           UNCHANGED db, UNCHANGED stage
    PROVE  Born'
BY BornStays DEF db, Active

LEMMA BornCommands ==
    ASSUME SitesInv, Born, NEW t \in Tasks, NEW j \in Jobs,
           \/ \E i \in Instances : Start(t, j, i)
           \/ Retry(t, j) \/ Cancel(t, j) \/ Recover(t, j) \/ RetryPrepare(t)
    PROVE  Born'
<1>w. TypeOK /\ UNCHANGED db /\ ~At(t, "queue")
  BY DEF SitesInv, OwnersInv, IInv, Start, Retry, Cancel, Recover, RetryPrepare, Free, At
<1>1. ASSUME NEW l \in Jobs, NEW x \in Instances, Prepare(t, l, x) PROVE Born'
  <2>1. PICK rb : Become(t, Running(l, "queue", "setup", FreshState(x, rb)))
    BY <1>1 DEF Prepare
  <2> DEFINE n == Running(l, "queue", "setup", FreshState(x, rb))
  <2>2. n # Idle /\ n.pc = "queue" /\ n.js.inst = x
    BY DEF Running, FreshState, Idle
  <2>3. \A i \in Instances : i # x => stage'[i] = stage[i]
    BY <1>1, <1>w DEF Prepare, TypeOK
  <2> HIDE DEF n
  <2> QED BY <1>w, <2>1, <2>2, <2>3, BornStays DEF n, db, Active
<1>2. ASSUME NEW n, Become(t, n), UNCHANGED stage PROVE Born'
  BY <1>w, <1>2, BornRests
<1>3. RetryPrepare(t) => task[t].job \in Jobs
  BY AtWork DEF RetryPrepare, At
<1> QED BY <1>1, <1>2, <1>3 DEF Start, Retry, Cancel, Recover, RetryPrepare

LEMMA BornSteps ==
    ASSUME SitesInv, Born, NEW t \in Tasks,
           \/ Queue(t) \/ Lock(t) \/ Claim(t) \/ Backup(t) \/ Persist(t) \/ Begin(t)
           \/ Apply(t) \/ Complete(t) \/ Strand(t) \/ Clean(t) \/ RemoveDir(t)
           \/ CopyBack(t) \/ RestoreMetadata(t) \/ Finish(t) \/ ClearStaging(t)
           \/ Permit(t) \/ WorkError(t)
    PROVE  Born'
<1> DEFINE k == task[t]
           j == k.job
<1>b. Busy(t)
  BY DEF Queue, Lock, Claim, Backup, Persist, Begin, Apply, Complete, Strand, Clean, RemoveDir,
         CopyBack, RestoreMetadata, Finish, ClearStaging, Permit, WorkError, At
<1>w. /\ k \in BusyTasks /\ j \in Jobs /\ k.js \in JobState /\ saved[j] \in JobState /\ TypeOK
      /\ Fits(k, status, saved, stage, app)
      /\ Knows(k, status[j], saved[j], stage, content, backup[j], app)
  BY <1>b, AtWork DEF SitesInv, OwnersInv, IInv
<1>1. CASE Queue(t)
  <2>1. At(t, "queue") /\ UNCHANGED stage /\ ~Active(j)
    BY <1>1, <1>w DEF Queue, At, Fits, Preparing, Unsubmitted, Active, ActiveStatuses
  <2>2. \E n : Become(t, n)
    BY <1>1 DEF Queue, Fail, Goto, Become
  <2>3. CASE ForeignKeyHolds(k.js)
    <3>1. status' = [status EXCEPT ![j] = "queued"] /\ saved' = [saved EXCEPT ![j] = k.js]
      BY <1>1, <2>3 DEF Queue
    <3>2. status'[j] \in ActiveStatuses /\ saved'[j].inst = k.js.inst
      BY <1>w, <3>1 DEF TypeOK, ActiveStatuses
    <3>3. \A l \in Jobs \ {j} : Active(l) => Active(l)' /\ saved'[l] = saved[l]
      BY <1>w, <3>1 DEF TypeOK, Active
    <3> QED BY <1>w, <2>1, <2>2, <3>2, <3>3, BornStays DEF Active
  <2>4. CASE ~ForeignKeyHolds(k.js)
    <3>1. UNCHANGED status /\ UNCHANGED saved
      BY <1>1, <2>4 DEF Queue, db
    <3>2. k.js.inst # None /\ ~Live(k.js.inst)
      BY <2>4 DEF ForeignKeyHolds
    <3>3. \A i \in Instances : stage[i] = "not_installed" => i # k.js.inst
      BY <3>2, ConstantsAssumption DEF Live, LiveStages
    <3> QED BY <1>w, <2>1, <2>2, <3>1, <3>3, BornStays DEF Active
  <2> QED BY <2>3, <2>4
<1>2. CASE Backup(t) \/ Strand(t) \/ RemoveDir(t) \/ CopyBack(t) \/ ClearStaging(t)
           \/ Permit(t) \/ WorkError(t)
  <2>1. ~At(t, "queue") /\ UNCHANGED db /\ UNCHANGED stage
    BY <1>2 DEF Backup, Strand, RemoveDir, CopyBack, ClearStaging, Permit, WorkError, At, WorkPcs
  <2>2. \E n : Become(t, n)
    BY <1>2 DEF Backup, Strand, RemoveDir, CopyBack, ClearStaging, Permit, WorkError, Fail, Goto,
                Become
  <2> QED BY <1>w, <2>1, <2>2, BornRests
<1>3. CASE Lock(t)
  <2>1. ~At(t, "queue") /\ UNCHANGED db /\ SetStage(k.js.inst, "installing")
    BY <1>3 DEF Lock, At
  <2>2. \E n : Become(t, n)
    BY <1>3 DEF Lock, Goto, Become
  <2>3. \A i \in Instances : stage'[i] = "not_installed" => stage[i] = "not_installed"
    BY <1>w, <2>1 DEF SetStage, TypeOK
  <2> QED BY <1>w, <2>1, <2>2, <2>3, BornStays DEF db, Active
<1>4. CASE Clean(t) \/ RestoreMetadata(t)
  <2>1. ~At(t, "queue") /\ UNCHANGED db /\ k.pc \in CleanPcs
    BY <1>4 DEF Clean, RestoreMetadata, At, CleanPcs
  <2>2. \E n : Become(t, n)
    BY <1>4 DEF Clean, RestoreMetadata, Fail, Goto, Become
  <2>3. ASSUME NEW i \in Instances, stage'[i] = "not_installed"
        PROVE  stage[i] = "not_installed" \/ (Active(j) /\ saved[j].inst = i)
    <3>1. UNCHANGED stage \/ stage' = [stage EXCEPT ![k.js.inst] = "gone"]
          \/ SetStage(k.js.inst, k.js.rollback)
      BY <1>4 DEF Clean, RestoreMetadata
    <3>2. CASE Preparing(k)
      <4>1. ~Live(k.js.inst)
        BY <1>b, <2>1, <3>2, Cleaner DEF Lost, Live, LiveStages
      <4> QED BY <1>w, <2>3, <3>1, <4>1 DEF SetStage, TypeOK
    <3>3. CASE ~Preparing(k)
      <4>1. k.js = saved[j] /\ Active(j)
        BY <1>b, <2>1, <3>3, Cleaner, OwnersJob
      <4> QED BY <1>w, <2>3, <3>1, <4>1 DEF SetStage, TypeOK
    <3> QED BY <3>2, <3>3
  <2> QED BY <1>w, <2>1, <2>2, <2>3, BornStays DEF db, Active
<1>5. CASE Claim(t)
  <2>1. ~At(t, "queue") /\ UNCHANGED stage
    BY <1>5 DEF Claim, At
  <2>2. \E n : Become(t, n)
    BY <1>5 DEF Claim, Fail, Goto, Become
  <2>3. CASE UNCHANGED db
    BY <1>w, <2>1, <2>2, <2>3, BornRests
  <2>4. CASE ~UNCHANGED db
    <3>1. /\ status' = [status EXCEPT ![j] = "running"] /\ saved' = [saved EXCEPT ![j] = k.js]
          /\ k.js = saved[j]
      BY <1>5, <1>w, <2>4 DEF Claim, At, Knows
    <3>2. \A l \in Jobs : Active(l) => Active(l)' /\ saved'[l] = saved[l]
      BY <1>w, <3>1 DEF TypeOK, Active, ActiveStatuses
    <3> QED BY <1>w, <2>1, <2>2, <3>2, BornStays
  <2> QED BY <2>3, <2>4
<1>6. CASE Persist(t) \/ Begin(t) \/ Apply(t)
  <2>1. /\ ~At(t, "queue") /\ UNCHANGED status /\ Owner(k) /\ k.pc \in WorkPcs
        /\ UNCHANGED stage \/ SetStage(k.js.inst, "installing")
    BY <1>6 DEF Persist, Begin, Apply, At, Owner, WorkPcs
  <2>2. PICK js, p : SaveState(t, js, p) /\ js.inst = k.js.inst
    <3>1. [k.js EXCEPT !.staged = TRUE].inst = k.js.inst
      BY <1>w DEF JobState
    <3> QED BY <1>6, <3>1 DEF Persist, Begin, Apply
  <2>3. k.js = saved[j]
    BY <1>b, <2>1, OwnersJob DEF Carries
  <2>4. \E n : Become(t, n)
    BY <2>2 DEF SaveState, Fail, Become
  <2>5. \A l \in Jobs : Active(l) => Active(l)' /\ saved'[l].inst = saved[l].inst
    BY <1>w, <2>1, <2>2, <2>3 DEF SaveState, TypeOK, Active
  <2>6. \A i \in Instances : stage'[i] = "not_installed" => stage[i] = "not_installed"
    BY <1>w, <2>1 DEF SetStage, TypeOK
  <2> QED BY <1>w, <2>1, <2>4, <2>5, <2>6, BornStays
<1>7. CASE Complete(t) \/ Finish(t)
  <2>1. ~At(t, "queue") /\ Owner(k)
    BY <1>7, <1>w DEF Complete, Finish, At, Owner, Fits, Placed
  <2>2. \E n : Become(t, n)
    BY <1>7 DEF Complete, Finish, Fail, Goto, Become
  <2>3. /\ UNCHANGED stage \/ SetStage(k.js.inst, "installed")
        /\ \A l \in Jobs \ {j} : Active(l) => Active(l)' /\ saved'[l] = saved[l]
    BY <1>7, <1>w DEF Complete, Finish, db, TypeOK, Active, JobState
  <2>4. \A i \in Instances : stage'[i] = "not_installed" => stage[i] = "not_installed"
    BY <1>w, <2>3 DEF SetStage, TypeOK
  <2>5. UNCHANGED db \/ stage'[saved[j].inst] # "not_installed"
    <3>1. CASE Complete(t)
      <4>1. k.js = saved[j] /\ saved[j].inst \in Instances
        BY <1>b, <2>1, <3>1, OwnersJob DEF Carries, Complete, At
      <4> QED BY <1>w, <3>1, <4>1 DEF Complete, SetStage, TypeOK, JobState
    <3>2. CASE Finish(t)
      <4>1. Lost(saved[j], stage) \/ stage[saved[j].inst] = "installed"
        BY <1>b, <2>1, <3>2, OwnersJob DEF Leaves, Finish, At
      <4> QED BY <3>2, <4>1 DEF Finish, Lost
    <3> QED BY <1>7, <3>1, <3>2
  <2> QED BY <1>w, <2>1, <2>2, <2>3, <2>4, <2>5, BornStays DEF db, Active
<1> QED BY <1>1, <1>2, <1>3, <1>4, <1>5, <1>6, <1>7

LEMMA BornKept ==
    ASSUME SitesInv, Careful, MaxCrashes = 0, Born, [Next]_vars
    PROVE  Born'
<1>w. TypeOK
  BY DEF SitesInv, OwnersInv, IInv
<1>1. ASSUME NEW t \in Tasks, NEW j \in Jobs,
             \/ \E i \in Instances : Start(t, j, i)
             \/ Retry(t, j) \/ Cancel(t, j) \/ Recover(t, j)
      PROVE  Born'
  BY <1>1, BornCommands
<1>2. ASSUME NEW t \in Tasks, Step(t) \/ Permit(t) \/ WorkError(t) \/ Fault(t)
      PROVE  Born'
  <2>1. ~Fault(t)
    BY <1>w, ConstantsAssumption DEF Fault, Spend, Careful, TypeOK, Bounded
  <2>2. ASSUME RetryPrepare(t) PROVE Born'
    <3>1. task[t].job \in Jobs
      BY <2>2, AtWork DEF RetryPrepare, At
    <3> QED BY <2>2, <3>1, BornCommands
  <2> QED BY <1>2, <2>1, <2>2, BornSteps DEF Step
<1>3. CASE Restart \/ InitReturns \/ UNCHANGED vars
  BY <1>3 DEF Restart, InitReturns, vars, db, Born, Active, At, Busy
<1>4. ASSUME NEW i \in Instances, RemoveInstance(i) PROVE Born'
  <2>1. \A x \in Instances : stage'[x] = "not_installed" => stage[x] = "not_installed"
    BY <1>w, <1>4 DEF RemoveInstance, TypeOK
  <2> QED BY <1>4, <2>1 DEF RemoveInstance, db, Born, Active, At, Busy
<1>5. ~Crash /\ ~Reload
  BY <1>w, ConstantsAssumption DEF Crash, Reload, Spend, Careful, TypeOK, Bounded
<1> QED BY <1>1, <1>2, <1>3, <1>4, <1>5 DEF Next, RecoverNext

(***************************************************************************)
(* No job leaves an instance half done when it is over.  A crash between   *)
(* the instance of a new job and the row of the job does, so either there  *)
(* are no crashes or no job creates an instance.                           *)
(***************************************************************************)
THEOREM NothingBroken ==
    ASSUME Careful, NoPack, MaxCrashes = 0 \/ \A j \in Jobs : Kind[j] # "new"
    PROVE  Spec => []NoBrokenInstance
<1>1. CASE MaxCrashes = 0
  <2>1. Init => Born
    BY DEF Init, Born
  <2>2. SitesInv /\ Born /\ [Next]_vars => Born'
    BY <1>1, BornKept
  <2>3. SitesInv /\ Born => NoBrokenInstance
    <3> SUFFICES ASSUME SitesInv, Born, NEW i \in Instances, Live(i), content[i] = "partial"
                 PROVE  AccountedFor(i)
      BY DEF NoBrokenInstance
    <3>1. CASE Quiet(i, stage, content)
      <4>1. stage[i] = "not_installed"
        BY <3>1 DEF Quiet, Good, NoPack, Live, LiveStages
      <4> QED BY <4>1 DEF Born, AccountedFor, At
    <3>2. CASE ~Quiet(i, stage, content)
      BY <3>2, WorkedOn DEF AccountedFor
    <3> QED BY <3>1, <3>2
  <2> QED BY <2>1, <2>2, <2>3, SitesHold, PTL DEF Spec
<1>2. CASE \A j \in Jobs : Kind[j] # "new"
  <2>1. SitesInv => NoBrokenInstance
    <3> SUFFICES ASSUME SitesInv, NEW i \in Instances, Live(i), content[i] = "partial"
                 PROVE  AccountedFor(i)
      BY DEF NoBrokenInstance
    <3>1. ~Quiet(i, stage, content)
      BY <1>2 DEF Quiet, Good, NoPack, Live, LiveStages, Existing
    <3> QED BY <3>1, WorkedOn DEF AccountedFor
  <2> QED BY <2>1, SitesHold, PTL
<1> QED BY <1>1, <1>2
=============================================================================
