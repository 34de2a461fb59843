--------------------------- MODULE LockCoordinator ---------------------------
(***************************************************************************)
(* The process-local locks of the cache (packages/xredis/src/cache/        *)
(* locking/local.rs), one step per access to shared memory: the map of     *)
(* locks, the released flag of a lock and its tokio Notify.  A task is one *)
(* call of acquire and what becomes of the guard or the waiter it returns; *)
(* the LockState a task inserts is known by the task.                      *)
(***************************************************************************)
EXTENDS Naturals

CONSTANTS
    Tasks,  \* calls of acquire
    KeyOf,  \* the key each of them asks for
    None    \* no task

ASSUME LockAssumption == None \notin Tasks

VARIABLES
    locks,     \* the map: the LockState listed for each key, or None
    released,  \* LockState.released
    woken,     \* whether the Notified future of a waiter has been notified
    on,        \* the LockState a waiter holds
    pc         \* where each task is

vars == <<locks, released, woken, on, pc>>

Keys       == {KeyOf[t] : t \in Tasks}
WaitingPcs == {"check", "register", "recheck", "sleep"}
Pcs        == {"idle", "owned", "store", "notify", "done", "returned", "timedout"}
              \cup WaitingPcs

Goto(t, p) == pc' = [pc EXCEPT ![t] = p]

Init ==
    /\ locks = [k \in Keys |-> None]
    /\ released = [t \in Tasks |-> FALSE]
    /\ woken = [t \in Tasks |-> FALSE]
    /\ on = [t \in Tasks |-> None]
    /\ pc = [t \in Tasks |-> "idle"]

----------------------------------------------------------------------------
(* LockCoordinator::acquire: the entry of the map is held for the match *)

Own(t) ==
    /\ pc[t] = "idle" /\ locks[KeyOf[t]] = None
    /\ locks' = [locks EXCEPT ![KeyOf[t]] = t]
    /\ Goto(t, "owned")
    /\ UNCHANGED <<released, woken, on>>

Wait(t) ==
    /\ pc[t] = "idle" /\ locks[KeyOf[t]] # None
    /\ on' = [on EXCEPT ![t] = locks[KeyOf[t]]]
    /\ Goto(t, "check")
    /\ UNCHANGED <<locks, released, woken>>

----------------------------------------------------------------------------
(* OwnedLockGuard::release_inner, when the guard is dropped for any reason *)

\* The entry goes only if it is still the guard's own
Remove(t) ==
    /\ pc[t] = "owned"
    /\ locks' = [locks EXCEPT ![KeyOf[t]] = IF @ = t THEN None ELSE @]
    /\ Goto(t, "store")
    /\ UNCHANGED <<released, woken, on>>

\* Mutant of Store: the flag is forgotten, the notification has to do
StoreNothing(t) ==
    /\ pc[t] = "store"
    /\ Goto(t, "notify")
    /\ UNCHANGED <<locks, released, woken, on>>

Store(t) ==
    /\ pc[t] = "store"
    /\ released' = [released EXCEPT ![t] = TRUE]
    /\ Goto(t, "notify")
    /\ UNCHANGED <<locks, woken, on>>

\* notify_waiters reaches the Notified futures that exist, and stores nothing
NotifyWaiters(t) ==
    /\ pc[t] = "notify"
    /\ woken' = [w \in Tasks |->
                    woken[w] \/ (on[w] = t /\ pc[w] \in {"recheck", "sleep"})]
    /\ Goto(t, "done")
    /\ UNCHANGED <<locks, released, on>>

----------------------------------------------------------------------------
(* LockWaiter::wait *)

\* The first look at the flag, at the start of the loop
Check(t) ==
    /\ pc[t] = "check"
    /\ Goto(t, IF released[on[t]] THEN "returned" ELSE "register")
    /\ UNCHANGED <<locks, released, woken, on>>

\* A new Notified future, enabled
Register(t) ==
    /\ pc[t] = "register"
    /\ woken' = [woken EXCEPT ![t] = FALSE]
    /\ Goto(t, "recheck")
    /\ UNCHANGED <<locks, released, on>>

\* Mutant of Recheck: the flag is not looked at again
RecheckNothing(t) ==
    /\ pc[t] = "recheck"
    /\ Goto(t, "sleep")
    /\ UNCHANGED <<locks, released, woken, on>>

Recheck(t) ==
    /\ pc[t] = "recheck"
    /\ Goto(t, IF released[on[t]] THEN "returned" ELSE "sleep")
    /\ UNCHANGED <<locks, released, woken, on>>

Wake(t) ==
    /\ pc[t] = "sleep" /\ woken[t]
    /\ Goto(t, "check")
    /\ UNCHANGED <<locks, released, woken, on>>

\* Mutant of TimeOut: the error of the deadline is dropped, and the wait answers Ok
TimeOutReturns(t) ==
    /\ pc[t] = "sleep" /\ ~woken[t]
    /\ Goto(t, "returned")
    /\ UNCHANGED <<locks, released, woken, on>>

\* The deadline of five seconds; a notification that is there comes first
TimeOut(t) ==
    /\ pc[t] = "sleep" /\ ~woken[t]
    /\ Goto(t, "timedout")
    /\ UNCHANGED <<locks, released, woken, on>>

----------------------------------------------------------------------------

Release(t) == Remove(t) \/ Store(t) \/ NotifyWaiters(t)

Waiting(t) == Check(t) \/ Register(t) \/ Recheck(t) \/ Wake(t)

Next == \E t \in Tasks :
            Own(t) \/ Wait(t) \/ Release(t) \/ Waiting(t) \/ TimeOut(t)

Spec == Init /\ [][Next]_vars

(***************************************************************************)
(* A fill is over after FILL_TIMEOUT, its guard is then dropped, and tokio *)
(* polls what is ready.  Nothing relies on the deadline of the waiters.    *)
(***************************************************************************)
Fairness == \A t \in Tasks : WF_vars(Release(t)) /\ WF_vars(Waiting(t))

FairSpec == Spec /\ Fairness

----------------------------------------------------------------------------
(* Properties *)

\* Every variable keeps its type
TypeOK ==
    /\ locks \in [Keys -> Tasks \cup {None}]
    /\ released \in [Tasks -> BOOLEAN]
    /\ woken \in [Tasks -> BOOLEAN]
    /\ on \in [Tasks -> Tasks \cup {None}]
    /\ pc \in [Tasks -> Pcs]

(***************************************************************************)
(* The map lists exactly the guards that are alive: no key has two owners, *)
(* and no finished or canceled fill leaves a lock behind that later        *)
(* requests would wait for.                                                *)
(***************************************************************************)
ListedIsOwned ==
    \A t \in Tasks, k \in Keys :
        locks[k] = t <=> KeyOf[t] = k /\ pc[t] = "owned"

(***************************************************************************)
(* No lost wake-up: a waiter never sleeps on a lock whose guard is gone    *)
(* without a notification on its way, whatever the order in which the      *)
(* release and the waiter reach the flag and the Notify.                   *)
(***************************************************************************)
NoLostWakeup ==
    \A t \in Tasks :
        pc[t] = "sleep" /\ pc[on[t]] = "done" => woken[t]

\* A waiter returns even when its deadline never comes
WaitersReturn == \A t \in Tasks : pc[t] \in WaitingPcs ~> pc[t] \notin WaitingPcs

\* What a task does, in the terms of KeyedLock
Does(t) ==
    IF pc[t] = "idle" THEN "idle"
    ELSE IF pc[t] = "owned" THEN "holding"
    ELSE IF pc[t] \in WaitingPcs THEN "waiting"
    ELSE IF pc[t] = "returned" THEN "returned"
    ELSE IF pc[t] = "timedout" THEN "gaveup" ELSE "released"

Promise == INSTANCE KeyedLock WITH
               holder <- locks, does <- [t \in Tasks |-> Does(t)]

\* The three steps of a release and the loop of a waiter implement the lock
\* that the cache relies on: a key has one holder, and a wait that answers Ok
\* does so after the release of the holder it began for
ImplementsKeyedLock == Promise!Spec
=============================================================================
