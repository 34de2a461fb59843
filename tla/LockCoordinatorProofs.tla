------------------------ MODULE LockCoordinatorProofs ------------------------
(***************************************************************************)
(* Theorems about LockCoordinator, for any number of tasks and keys.       *)
(***************************************************************************)
EXTENDS LockCoordinator, TLAPS

OwnerPcs == {"owned", "store", "notify", "done"}

\* A waiter waits for a task that became an owner
WaitsForOwner ==
    \A t \in Tasks : pc[t] \in WaitingPcs => on[t] \in Tasks /\ pc[on[t]] \in OwnerPcs

\* The flag is set between the removal of the entry and the notification:
\* what makes the second look of a waiter decisive
FlagIsSet == \A t \in Tasks : released[t] <=> pc[t] \in {"notify", "done"}

LInv == TypeOK /\ ListedIsOwned /\ WaitsForOwner /\ FlagIsSet /\ NoLostWakeup

LEMMA LockInit == Init => LInv
<1> SUFFICES ASSUME Init PROVE LInv
  OBVIOUS
<1>1. TypeOK
  BY DEF Init, TypeOK, Pcs
<1>2. ListedIsOwned
  BY LockAssumption DEF Init, ListedIsOwned
<1>3. WaitsForOwner /\ FlagIsSet /\ NoLostWakeup
  BY DEF Init, WaitsForOwner, FlagIsSet, NoLostWakeup, WaitingPcs
<1> QED BY <1>1, <1>2, <1>3 DEF LInv

LEMMA LockNext ==
    ASSUME LInv, [Next]_vars
    PROVE  LInv'
<1> USE LockAssumption DEF LInv, TypeOK, Keys, Pcs, WaitingPcs, OwnerPcs, Goto
<1>1. ASSUME NEW t \in Tasks, Own(t) PROVE LInv'
  BY <1>1 DEF Own, ListedIsOwned, WaitsForOwner, FlagIsSet, NoLostWakeup
<1>2. ASSUME NEW t \in Tasks, Wait(t) PROVE LInv'
  <2>1. KeyOf[t] \in Keys /\ locks[KeyOf[t]] \in Tasks
    <3>1. KeyOf[t] \in Keys
      OBVIOUS
    <3>2. locks[KeyOf[t]] \in Tasks \cup {None} /\ locks[KeyOf[t]] # None
      <4>1. \A k \in Keys : locks[k] \in Tasks \cup {None}
        OBVIOUS
      <4> QED BY <4>1, <3>1, <1>2 DEF Wait
    <3> QED BY <3>1, <3>2
  <2>2. pc[locks[KeyOf[t]]] = "owned"
    <3> DEFINE u == locks[KeyOf[t]]
    <3>1. u \in Tasks
      BY <2>1
    <3> QED BY <2>1, <3>1 DEF ListedIsOwned
  <2> QED BY <1>2, <2>1, <2>2
          DEF Wait, ListedIsOwned, WaitsForOwner, FlagIsSet, NoLostWakeup
<1>3. ASSUME NEW t \in Tasks, Remove(t) PROVE LInv'
  BY <1>3 DEF Remove, ListedIsOwned, WaitsForOwner, FlagIsSet, NoLostWakeup
<1>4. ASSUME NEW t \in Tasks, Store(t) PROVE LInv'
  BY <1>4 DEF Store, ListedIsOwned, WaitsForOwner, FlagIsSet, NoLostWakeup
<1>5. ASSUME NEW t \in Tasks, NotifyWaiters(t) PROVE LInv'
  BY <1>5 DEF NotifyWaiters, ListedIsOwned, WaitsForOwner, FlagIsSet, NoLostWakeup
<1>6. ASSUME NEW t \in Tasks, Check(t) PROVE LInv'
  BY <1>6 DEF Check, ListedIsOwned, WaitsForOwner, FlagIsSet, NoLostWakeup
<1>7. ASSUME NEW t \in Tasks, Register(t) PROVE LInv'
  BY <1>7 DEF Register, ListedIsOwned, WaitsForOwner, FlagIsSet, NoLostWakeup
<1>8. ASSUME NEW t \in Tasks, Recheck(t) PROVE LInv'
  BY <1>8 DEF Recheck, ListedIsOwned, WaitsForOwner, FlagIsSet, NoLostWakeup
<1>9. ASSUME NEW t \in Tasks, Wake(t) \/ TimeOut(t) PROVE LInv'
  BY <1>9, SMTT(20) DEF Wake, TimeOut, ListedIsOwned, WaitsForOwner, FlagIsSet, NoLostWakeup
<1>10. CASE UNCHANGED vars
  BY <1>10 DEF vars, ListedIsOwned, WaitsForOwner, FlagIsSet, NoLostWakeup
<1> QED BY <1>1, <1>2, <1>3, <1>4, <1>5, <1>6, <1>7, <1>8, <1>9, <1>10
        DEF Next, Release, Waiting

THEOREM LockInvariant == Spec => []LInv
BY LockInit, LockNext, PTL DEF Spec

(***************************************************************************)
(* No waiter ever sleeps through the release it waits for.                 *)
(***************************************************************************)
THEOREM WakeupsArrive == Spec => []NoLostWakeup
BY LockInvariant, PTL DEF LInv

(***************************************************************************)
(* The map lists exactly the guards that are alive.                        *)
(***************************************************************************)
THEOREM LocksAreOwned == Spec => []ListedIsOwned
BY LockInvariant, PTL DEF LInv

----------------------------------------------------------------------------
(* The implementation of KeyedLock *)

does == [t \in Tasks |-> Does(t)]

LEMMA PromiseInit == Init => Promise!Init
BY DEF Init, Promise!Init, Keys, Promise!Keys, Does

\* A step of one task changes what that task does and nothing else
LEMMA OneDoes ==
    ASSUME TypeOK, NEW t \in Tasks, NEW p \in Pcs, Goto(t, p)
    PROVE  /\ \A u \in Tasks : u # t => Does(u)' = Does(u)
           /\ does' = [does EXCEPT ![t] = Does(t)']
           /\ pc'[t] = p
<1>1. pc' = [pc EXCEPT ![t] = p] /\ pc \in [Tasks -> Pcs]
  BY DEF TypeOK, Goto
<1>2. \A u \in Tasks : u # t => pc'[u] = pc[u]
  BY <1>1
<1>3. \A u \in Tasks : u # t => Does(u)' = Does(u)
  BY <1>2 DEF Does
<1>4. pc'[t] = p
  BY <1>1
<1>5. does' = [does EXCEPT ![t] = Does(t)']
  BY <1>3 DEF does
<1> QED BY <1>3, <1>4, <1>5

LEMMA PromiseNext ==
    ASSUME LInv, [Next]_vars
    PROVE  [Promise!Next]_<<locks, does, on>>
<1> USE LockAssumption DEF LInv
<1>1. ASSUME NEW t \in Tasks, Own(t) PROVE Promise!Grab(t)
  <2>1. Goto(t, "owned") /\ "owned" \in Pcs
    BY <1>1 DEF Own, Pcs
  <2>2. does[t] = "idle" /\ Does(t)' = "holding"
    BY <1>1, <2>1, OneDoes DEF Own, does, Does
  <2> QED BY <1>1, <2>1, <2>2, OneDoes DEF Own, Promise!Grab, Promise!From, does
<1>2. ASSUME NEW t \in Tasks, Wait(t) PROVE Promise!Await(t)
  <2>1. Goto(t, "check") /\ "check" \in Pcs
    BY <1>2 DEF Wait, Pcs, WaitingPcs
  <2>2. does[t] = "idle" /\ Does(t)' = "waiting"
    BY <1>2, <2>1, OneDoes DEF Wait, does, Does, WaitingPcs
  <2> QED BY <1>2, <2>1, <2>2, OneDoes DEF Wait, Promise!Await, Promise!From, does
<1>3. ASSUME NEW t \in Tasks, Remove(t) PROVE Promise!Release(t)
  <2>1. Goto(t, "store") /\ "store" \in Pcs
    BY <1>3 DEF Remove, Pcs
  <2>2. does[t] = "holding" /\ Does(t)' = "released"
    BY <1>3, <2>1, OneDoes DEF Remove, does, Does, WaitingPcs
  <2>3. locks[KeyOf[t]] = t
    BY <1>3 DEF Remove, ListedIsOwned, Keys
  <2>4. locks' = [locks EXCEPT ![KeyOf[t]] = None]
    BY <1>3, <2>3 DEF Remove
  <2> QED BY <1>3, <2>1, <2>2, <2>4, OneDoes
          DEF Remove, Promise!Release, Promise!From, does
<1>4. ASSUME NEW t \in Tasks, Store(t) \/ NotifyWaiters(t) \/ Register(t) \/ Wake(t)
      PROVE  UNCHANGED <<locks, does, on>>
  <2>1. UNCHANGED <<locks, on>>
    BY <1>4 DEF Store, NotifyWaiters, Register, Wake
  <2>2. PICK p \in Pcs : Goto(t, p) /\ ((p \in WaitingPcs /\ pc[t] \in WaitingPcs)
                      \/ (p \in {"notify", "done"} /\ pc[t] \in {"store", "notify"}))
    BY <1>4 DEF Store, NotifyWaiters, Register, Wake, Pcs, WaitingPcs
  <2>3. Does(t)' = Does(t)
    BY <2>2, OneDoes DEF Does, WaitingPcs
  <2>4. does' = does
    BY <2>2, <2>3, OneDoes DEF does
  <2> QED BY <2>1, <2>4
<1>5. ASSUME NEW t \in Tasks, Check(t) \/ Recheck(t)
      PROVE  Promise!Return(t) \/ UNCHANGED <<locks, does, on>>
  <2>1. UNCHANGED <<locks, on>> /\ pc[t] \in WaitingPcs
    BY <1>5 DEF Check, Recheck, WaitingPcs
  <2>2. on[t] \in Tasks
    BY <2>1 DEF WaitsForOwner
  <2>3. CASE released[on[t]]
    <3>1. Goto(t, "returned") /\ "returned" \in Pcs
      BY <1>5, <2>3 DEF Check, Recheck, Pcs
    <3>2. does[t] = "waiting" /\ Does(t)' = "returned"
      BY <2>1, <3>1, OneDoes DEF does, Does, WaitingPcs
    <3>3. does[on[t]] = "released"
      BY <2>2, <2>3 DEF FlagIsSet, does, Does, WaitingPcs
    <3> QED BY <2>1, <3>1, <3>2, <3>3, OneDoes DEF Promise!Return, Promise!From, does
  <2>4. CASE ~released[on[t]]
    <3>1. PICK p \in WaitingPcs : Goto(t, p)
      BY <1>5, <2>4 DEF Check, Recheck, WaitingPcs
    <3>2. p \in Pcs
      BY DEF Pcs
    <3>3. Does(t)' = Does(t)
      BY <2>1, <3>1, <3>2, OneDoes DEF Does, WaitingPcs
    <3>4. does' = [does EXCEPT ![t] = Does(t)']
      BY <3>1, <3>2, OneDoes
    <3>5. does' = does
      BY <3>3, <3>4 DEF does
    <3> QED BY <2>1, <3>5
  <2> QED BY <2>3, <2>4
<1>6. ASSUME NEW t \in Tasks, TimeOut(t) PROVE Promise!GiveUp(t)
  <2>1. Goto(t, "timedout") /\ "timedout" \in Pcs /\ UNCHANGED <<locks, on>>
    BY <1>6 DEF TimeOut, Pcs
  <2>2. does[t] = "waiting" /\ Does(t)' = "gaveup"
    BY <1>6, <2>1, OneDoes DEF TimeOut, does, Does, WaitingPcs
  <2> QED BY <2>1, <2>2, OneDoes DEF Promise!GiveUp, Promise!From, does
<1>7. ASSUME UNCHANGED vars PROVE UNCHANGED <<locks, does, on>>
  <2>1. locks' = locks /\ on' = on /\ pc' = pc
    BY <1>7 DEF vars
  <2>2. \A t \in Tasks : Does(t)' = Does(t)
    BY <2>1 DEF Does
  <2> QED BY <2>1, <2>2 DEF does
<1> QED BY <1>1, <1>2, <1>3, <1>4, <1>5, <1>6, <1>7
        DEF Next, Release, Waiting, Promise!Next

(***************************************************************************)
(* For any tasks and keys the map, the flag and the Notify keep what       *)
(* KeyedLock promises: one holder, and a wait that answers Ok only once    *)
(* the holder it began for has released; one that times out is told apart. *)
(***************************************************************************)
THEOREM LockImplements == Spec => ImplementsKeyedLock
<1>1. Init => Promise!Init
  BY PromiseInit
<1>2. LInv /\ [Next]_vars => [Promise!Next]_<<locks, does, on>>
  BY PromiseNext
<1> QED BY <1>1, <1>2, LockInvariant, PTL
        DEF Spec, ImplementsKeyedLock, Promise!Spec, does
=============================================================================
