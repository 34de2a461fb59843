---------------------------- MODULE PayoutsProofs ----------------------------
(***************************************************************************)
(* Proofs about Payouts, for any users, payouts, earnings and failures:    *)
(* its type invariant, that a status says what the provider did, and that  *)
(* only payouts the database has lost can make a user be paid more than    *)
(* was earned.                                                             *)
(***************************************************************************)
EXTENDS Payouts, FiniteSetTheorems, TLAPS

LEMMA WritePlanType ==
    ASSUME TypeOK, WritePlan
    PROVE  status' \in [Payouts -> Statuses] /\ plan' \in [Payouts -> Statuses]
  BY DEF TypeOK, WritePlan, NoPlan, Statuses

\* Every variable keeps its type, whatever fails.
THEOREM TypeCorrect == Spec => []TypeOK
<1> USE PayoutsAssumption
<1>1. Init => TypeOK
  BY DEF Init, TypeOK, NoPlan, Statuses, Stages, AtProvider, Kinds
<1>2. TypeOK /\ [Next]_vars => TypeOK'
  <2> SUFFICES ASSUME TypeOK, [Next]_vars PROVE TypeOK'
    OBVIOUS
  <2> USE DEF TypeOK, ledger, asking
  <2>1. ASSUME NEW p \in Payouts, Create(p) PROVE TypeOK'
    <3>1. CASE Lock(p) \/ Check(p) \/ Refuse(p) \/ Ask(p) \/ Execute(p)
      BY <2>1, <3>1 DEF Lock, Check, Refuse, Ask, Execute, Stages, AtProvider
    <3>2. CASE \E canceled \in BOOLEAN : ExecuteFails(p, canceled)
      BY <2>1, <3>2 DEF ExecuteFails, Stages, AtProvider
    <3>3. CASE Record(p) \/ RecordFailed(p)
      BY <2>1, <3>3 DEF Record, RecordFailed, Insert, Stages, Statuses
    <3>4. CASE RecordUnknown(p)
      BY <2>1, <3>4 DEF RecordUnknown, Insert, Fault, Stages, Statuses
    <3>5. CASE AnswerLost(p)
      BY <2>1, <3>5 DEF AnswerLost, Fault, Stages, AtProvider
    <3>6. CASE Stop(p)
      BY <2>1, <3>6 DEF Stop, Fault, Stages
    <3> QED
      BY <2>1, <3>1, <3>2, <3>3, <3>4, <3>5, <3>6 DEF Create
  <2>2. ASSUME NEW p \in Payouts, Provide(p) PROVE TypeOK'
    BY <2>2 DEF Provide, Settle, GiveBack, Emit, AtProvider, Kinds
  <2>3. ASSUME NEW p \in Payouts, Hook(p) PROVE TypeOK'
    BY <2>3 DEF Hook, HookPaid, HookRead, HookWrite, Statuses
  <2>4. ASSUME NEW p \in Payouts, Cancel(p) PROVE TypeOK'
    BY <2>4 DEF Cancel, CancelRead, CancelCall, CancelRefused, CancelWrite, Emit,
                AtProvider, Kinds, Statuses
  <2>5. ASSUME NEW p \in Payouts, Expire(p) PROVE TypeOK'
    BY <2>5 DEF Expire, Statuses
  <2>6. ASSUME Sync PROVE TypeOK'
    <3>1. CASE SyncBegin
      BY <3>1 DEF SyncBegin, Limited, Pending
    <3>2. ASSUME NEW p \in Mural, SyncFetch(p) PROVE TypeOK'
      BY <3>2 DEF SyncFetch, Fetched, Fault, Mural, Statuses
    <3>3. CASE SyncWrite
      BY <3>3, WritePlanType DEF SyncWrite
    <3>4. CASE Search
      BY <3>4 DEF Search, Limited, Searched, Statuses
    <3>5. CASE SearchWrite
      BY <3>5, WritePlanType DEF SearchWrite
    <3>6. CASE SyncStops
      BY <3>6 DEF SyncStops, Fault, NoPlan, Statuses
    <3> QED
      BY <2>6, <3>1, <3>2, <3>3, <3>4, <3>5, <3>6 DEF Sync
  <2>7. CASE UNCHANGED vars
    BY <2>7 DEF vars
  <2> QED
    BY <2>1, <2>2, <2>3, <2>4, <2>5, <2>6, <2>7 DEF Next
<1> QED
  BY <1>1, <1>2, PTL DEF Spec

----------------------------------------------------------------------------
(* A status says what the provider did *)

\* What the provider has done with a payout whose request has come so far, and
\* where the row is.  A payout that may be paid and has no row is known to be lost,
\* or its request is about to insert the row.
StageIsReal ==
    \A p \in Payouts :
        /\ create[p] \in {"idle", "locked", "checked"} => provider[p] = "none"
        /\ create[p] = "created" => provider[p] = "created"
        /\ create[p] = "failed" => provider[p] \in {"created", "canceled"} \/ p \in gap
        /\ create[p] # "ended" => status[p] = "none"
        /\ p \in known \/ cancel[p] # "idle" => status[p] # "none"
        /\ status[p] = "none" /\ Owed(p) => create[p] = "sent" \/ p \in gap

\* What the webhooks, the cancels and the task are about to write is what the
\* provider did.
EventsAreReal ==
    \A e \in events :
        /\ e[2] = "paid" => provider[e[1]] \in {"paid", "returned"}
        /\ e[2] = "failed" => provider[e[1]] \in {"failed", "returned"}
        /\ e[2] = "canceled" => provider[e[1]] = "canceled"
        /\ e \in hook => e[2] # "paid" /\ e[1] \in known

PlansAreReal ==
    \A p \in Payouts :
        /\ cancel[p] = "called" => provider[p] = "canceled"
        /\ plan[p] \in {"none", "success", "cancelled", "failed"}
        /\ plan[p] = "success" => provider[p] \in {"paid", "returned"}
        /\ plan[p] = "cancelled" => provider[p] = "canceled"
        /\ plan[p] = "failed" => provider[p] \in {"failed", "returned"}

RealInv == TypeOK /\ StageIsReal /\ EventsAreReal /\ PlansAreReal /\ StatusIsReal

LEMMA RealInit == Init => RealInv
<1> SUFFICES ASSUME Init PROVE RealInv
  OBVIOUS
<1> USE PayoutsAssumption
<1>1. TypeOK
  BY DEF Init, TypeOK, NoPlan, Statuses, Stages, AtProvider, Kinds
<1> QED
  BY <1>1 DEF Init, RealInv, StageIsReal, EventsAreReal, PlansAreReal, StatusIsReal, NoPlan, Owed

\* create_payout: no row, event or plan speaks of the payout yet.
LEMMA RealCreate ==
    ASSUME RealInv, NEW p \in Payouts, Create(p)
    PROVE  StageIsReal' /\ EventsAreReal' /\ PlansAreReal' /\ StatusIsReal'
<1> USE PayoutsAssumption DEF RealInv, TypeOK, ledger, asking, Owed,
        StageIsReal, EventsAreReal, PlansAreReal, StatusIsReal
<1>1. CASE Lock(p) \/ Check(p) \/ Refuse(p)
  BY <1>1 DEF Lock, Check, Refuse
<1>2. CASE Ask(p)
  BY <1>2 DEF Ask
<1>3. CASE Execute(p)
  BY <1>3 DEF Execute
<1>4. ASSUME NEW canceled \in BOOLEAN, ExecuteFails(p, canceled)
      PROVE  StageIsReal' /\ EventsAreReal' /\ PlansAreReal' /\ StatusIsReal'
  BY <1>4 DEF ExecuteFails
<1>5. CASE Record(p) \/ RecordUnknown(p)
  BY <1>5 DEF Record, RecordUnknown, Insert, Fault
<1>6. CASE RecordFailed(p)
  BY <1>6 DEF RecordFailed, Insert
<1>7. CASE AnswerLost(p)
  BY <1>7 DEF AnswerLost, Fault
<1>8. CASE Stop(p)
  BY <1>8 DEF Stop, Fault, Holds
<1> QED
  BY <1>1, <1>2, <1>3, <1>4, <1>5, <1>6, <1>7, <1>8 DEF Create

\* The providers: what they tell is what they did.
LEMMA RealProvide ==
    ASSUME RealInv, NEW p \in Payouts, Provide(p)
    PROVE  StageIsReal' /\ EventsAreReal' /\ PlansAreReal' /\ StatusIsReal'
<1> USE PayoutsAssumption DEF RealInv, TypeOK, ledger, asking, Owed,
        StageIsReal, EventsAreReal, PlansAreReal, StatusIsReal
<1>1. ASSUME NEW how \in {"paid", "failed"}, Settle(p, how)
      PROVE  StageIsReal' /\ EventsAreReal' /\ PlansAreReal' /\ StatusIsReal'
  <2>1. StageIsReal' /\ PlansAreReal' /\ StatusIsReal'
    BY <1>1 DEF Settle
  <2>2. EventsAreReal'
    BY <1>1 DEF Settle, Emit
  <2> QED
    BY <2>1, <2>2
<1>2. CASE GiveBack(p)
  <2>1. StageIsReal' /\ PlansAreReal' /\ StatusIsReal'
    BY <1>2 DEF GiveBack
  <2>2. EventsAreReal'
    BY <1>2 DEF GiveBack, Emit
  <2> QED
    BY <2>1, <2>2
<1> QED
  BY <1>1, <1>2 DEF Provide

\* The webhooks and cancel_payout: they write what the provider said or did.
LEMMA RealHook ==
    ASSUME RealInv, NEW p \in Payouts, Hook(p)
    PROVE  StageIsReal' /\ EventsAreReal' /\ PlansAreReal' /\ StatusIsReal'
<1> USE PayoutsAssumption DEF RealInv, TypeOK, ledger, asking, Owed,
        StageIsReal, EventsAreReal, PlansAreReal, StatusIsReal
<1>1. CASE HookPaid(p)
  BY <1>1 DEF HookPaid
<1>2. ASSUME NEW kind \in Kinds, HookRead(p, kind)
      PROVE  StageIsReal' /\ EventsAreReal' /\ PlansAreReal' /\ StatusIsReal'
  BY <1>2 DEF HookRead
<1>3. ASSUME NEW kind \in Kinds, HookWrite(p, kind)
      PROVE  StageIsReal' /\ EventsAreReal' /\ PlansAreReal' /\ StatusIsReal'
  <2>1. <<p, kind>> \in hook /\ <<p, kind>> \in events /\ kind \in {"failed", "canceled"}
    BY <1>3 DEF HookWrite, Kinds
  <2>2. kind = "failed" => provider[p] \in {"failed", "returned"}
    BY <2>1
  <2>3. kind = "canceled" => provider[p] = "canceled"
    BY <2>1
  <2>4. status[p] # "none"
    BY <2>1
  <2> QED
    BY <1>3, <2>1, <2>2, <2>3, <2>4 DEF HookWrite
<1> QED
  BY <1>1, <1>2, <1>3 DEF Hook

LEMMA RealCancel ==
    ASSUME RealInv, NEW p \in Payouts, Cancel(p)
    PROVE  StageIsReal' /\ EventsAreReal' /\ PlansAreReal' /\ StatusIsReal'
<1> USE PayoutsAssumption DEF RealInv, TypeOK, ledger, asking, Owed,
        StageIsReal, EventsAreReal, PlansAreReal, StatusIsReal
<1>1. CASE CancelRead(p) \/ CancelRefused(p)
  BY <1>1 DEF CancelRead, CancelRefused
<1>2. CASE CancelCall(p)
  <2>1. StageIsReal' /\ PlansAreReal' /\ StatusIsReal'
    BY <1>2 DEF CancelCall
  <2>2. EventsAreReal'
    BY <1>2 DEF CancelCall, Emit
  <2> QED
    BY <2>1, <2>2
<1>3. CASE CancelWrite(p)
  BY <1>3 DEF CancelWrite
<1> QED
  BY <1>1, <1>2, <1>3 DEF Cancel

LEMMA RealExpire ==
    ASSUME RealInv, NEW p \in Payouts, Expire(p)
    PROVE  StageIsReal' /\ EventsAreReal' /\ PlansAreReal' /\ StatusIsReal'
  BY PayoutsAssumption DEF Expire, RealInv, TypeOK, ledger, asking, Owed,
     StageIsReal, EventsAreReal, PlansAreReal, StatusIsReal

\* The task: a plan is still true when it is written.
LEMMA RealSync ==
    ASSUME RealInv, Sync
    PROVE  StageIsReal' /\ EventsAreReal' /\ PlansAreReal' /\ StatusIsReal'
<1> USE PayoutsAssumption DEF RealInv, TypeOK, ledger, asking, Owed, NoPlan,
        StageIsReal, EventsAreReal, PlansAreReal, StatusIsReal
<1>1. CASE SyncBegin
  BY <1>1 DEF SyncBegin
<1>2. ASSUME NEW p \in Mural, SyncFetch(p)
      PROVE  StageIsReal' /\ EventsAreReal' /\ PlansAreReal' /\ StatusIsReal'
  BY <1>2 DEF SyncFetch, Fetched, Fault, Mural
<1>3. CASE SyncWrite
  BY <1>3 DEF SyncWrite, WritePlan
<1>4. CASE Search
  BY <1>4 DEF Search, Searched
<1>5. CASE SearchWrite
  BY <1>5 DEF SearchWrite, WritePlan
<1>6. CASE SyncStops
  BY <1>6 DEF SyncStops, Fault
<1> QED
  BY <1>1, <1>2, <1>3, <1>4, <1>5, <1>6 DEF Sync

LEMMA RealStep == RealInv /\ [Next]_vars /\ TypeOK' => RealInv'
<1> SUFFICES ASSUME RealInv, [Next]_vars, TypeOK' PROVE RealInv'
  OBVIOUS
<1>1. CASE UNCHANGED vars
  BY <1>1 DEF vars, ledger, asking, RealInv, StageIsReal, EventsAreReal, PlansAreReal,
              StatusIsReal, Owed
<1>2. CASE Next
  BY <1>2, RealCreate, RealProvide, RealHook, RealCancel, RealExpire, RealSync
     DEF Next, RealInv
<1> QED
  BY <1>1, <1>2

\* Nothing the webhooks, the cancels and the task write is untrue by the time they
\* write it: what the provider did with a payout only goes on.
THEOREM StatusReal == Spec => []StatusIsReal
<1>1. RealInv => StatusIsReal
  BY DEF RealInv
<1> QED
  BY <1>1, RealStep, RealInit, TypeCorrect, PTL DEF Spec

----------------------------------------------------------------------------
(* Nobody is paid more than was earned *)

OwedTo(u)  == {p \in Of(u) : Owed(p)}
NotLost(u) == gap \cap Of(u) = {}

\* One request of a user at a time holds the row of the user
OneHolder ==
    \A p, q \in Payouts : UserOf[p] = UserOf[q] /\ Holds(p) /\ Holds(q) => p = q

\* A request that has checked the balance may still ask for one payout
Fits ==
    \A u \in Users : NotLost(u) =>
        /\ Cardinality(OwedTo(u)) <= Earned[u]
        /\ \A p \in Of(u) : create[p] \in {"checked", "created"} =>
               Cardinality(OwedTo(u)) < Earned[u]

PaidInv == RealInv /\ OneHolder /\ Fits

LEMMA OneMore ==
    ASSUME NEW S, IsFiniteSet(S), NEW x
    PROVE  Cardinality(S \cup {x}) <= Cardinality(S) + 1
<1>1. Cardinality(S) \in Nat
  BY FS_CardinalityType
<1>2. Cardinality(S \cup {x}) \in {Cardinality(S), Cardinality(S) + 1}
  BY FS_AddElement
<1> QED
  BY <1>1, <1>2

LEMMA OwedIsFinite ==
    ASSUME NEW u \in Users
    PROVE  /\ IsFiniteSet(OwedTo(u)) /\ Cardinality(OwedTo(u)) \in Nat
           /\ IsFiniteSet(OwedTo(u)') /\ Cardinality(OwedTo(u)') \in Nat
  BY PayoutsAssumption, FS_Subset, FS_CardinalityType DEF OwedTo, Of

LEMMA OwedIsLess ==
    ASSUME NEW u \in Users, \A q \in Of(u) : Owed(q)' => Owed(q)
    PROVE  Cardinality(OwedTo(u)') <= Cardinality(OwedTo(u))
<1>1. OwedTo(u)' \subseteq OwedTo(u)
  BY DEF OwedTo, Of
<1> QED
  BY <1>1, OwedIsFinite, FS_Subset

\* A step after which no more is owed and no other request has checked the balance
LEMMA QuietFits ==
    ASSUME TypeOK, Fits, gap \subseteq gap',
           \A q \in Payouts : Owed(q)' => Owed(q),
           \A q \in Payouts : create'[q] \in {"checked", "created"}
                                  => create[q] \in {"checked", "created"}
    PROVE  Fits'
<1> SUFFICES ASSUME NEW u \in Users, NotLost(u)'
             PROVE  /\ Cardinality(OwedTo(u)') <= Earned[u]
                    /\ \A p \in Of(u) : create'[p] \in {"checked", "created"} =>
                           Cardinality(OwedTo(u)') < Earned[u]
  BY DEF Fits
<1>1. NotLost(u)
  BY DEF NotLost
<1>2. Cardinality(OwedTo(u)') <= Cardinality(OwedTo(u))
  BY OwedIsLess DEF Of
<1> QED
  BY <1>1, <1>2, OwedIsFinite, PayoutsAssumption DEF Fits, Of

\* Only Lock makes a request hold the row of its user.
LEMMA HolderStep == PaidInv /\ [Next]_vars => OneHolder'
<1> SUFFICES ASSUME PaidInv, [Next]_vars PROVE OneHolder'
  OBVIOUS
<1> USE PayoutsAssumption DEF PaidInv, RealInv, TypeOK, OneHolder, Holds
<1>1. CASE \E p \in Payouts : Lock(p)
  BY <1>1 DEF Lock, Of
<1>2. ASSUME NEW p \in Payouts, Create(p), ~Lock(p)
      PROVE  \A q \in Payouts : Holds(q)' => Holds(q)
  BY <1>2 DEF Create, Check, Refuse, Ask, Execute, ExecuteFails, Record, RecordFailed,
              RecordUnknown, Insert, AnswerLost, Stop
<1>3. ASSUME NEW p \in Payouts, Provide(p) \/ Hook(p) \/ Cancel(p) \/ Expire(p)
      PROVE  create' = create
  BY <1>3 DEF Provide, Settle, GiveBack, Hook, HookPaid, HookRead, HookWrite, Cancel,
              CancelRead, CancelCall, CancelRefused, CancelWrite, Expire
<1>4. ASSUME Sync PROVE create' = create
  BY <1>4 DEF Sync, SyncBegin, SyncFetch, SyncWrite, Search, SearchWrite, SyncStops
<1>5. ASSUME UNCHANGED vars PROVE create' = create
  BY <1>5 DEF vars
<1>6. CASE ~\E p \in Payouts : Lock(p)
  <2>1. \A q \in Payouts : Holds(q)' => Holds(q)
    BY <1>2, <1>3, <1>4, <1>5, <1>6 DEF Next
  <2> QED
    BY <2>1
<1> QED
  BY <1>1, <1>6

\* Whoever holds the row of the user and sees money left may ask for one payout.
LEMMA CheckFits == ASSUME PaidInv, NEW p \in Payouts, Check(p) PROVE Fits'
<1> USE PayoutsAssumption DEF PaidInv, RealInv, TypeOK
<1> SUFFICES ASSUME NEW u \in Users, NotLost(u)'
             PROVE  /\ Cardinality(OwedTo(u)') <= Earned[u]
                    /\ \A q \in Of(u) : create'[q] \in {"checked", "created"} =>
                           Cardinality(OwedTo(u)') < Earned[u]
  BY DEF Fits
<1>1. NotLost(u) /\ OwedTo(u)' = OwedTo(u)
  BY DEF Check, NotLost, OwedTo, Owed
<1>2. CASE u = UserOf[p]
  <2> DEFINE C == {q \in Of(u) : Counted(q)}
  <2>1. OwedTo(u) \subseteq C
    <3> SUFFICES ASSUME NEW q \in Of(u), Owed(q) PROVE Counted(q)
      BY DEF OwedTo
    <3>1. q \in Payouts /\ q \notin gap /\ UserOf[q] = UserOf[p]
      BY <1>1, <1>2 DEF Of, NotLost
    <3>2. create[q] # "sent"
      BY <3>1 DEF OneHolder, Holds, Check
    <3>3. status[q] # "none"
      BY <3>1, <3>2 DEF StageIsReal
    <3> QED
      BY <3>1, <3>3 DEF StatusIsReal, Owed, Counted, Statuses
  <2>2. IsFiniteSet(C) /\ Cardinality(C) \in Nat
    BY FS_Subset, FS_CardinalityType DEF Of
  <2>3. Cardinality(OwedTo(u)) <= Cardinality(C)
    BY <2>1, <2>2, FS_Subset
  <2>4. Cardinality(C) < Earned[u]
    BY <1>2, <2>2 DEF Check, Available
  <2> QED
    BY <1>1, <2>2, <2>3, <2>4, OwedIsFinite
<1>3. CASE u # UserOf[p]
  BY <1>1, <1>3 DEF Fits, Of, Check
<1> QED
  BY <1>2, <1>3

\* The request that has checked the balance asks; nobody else of the user has.
LEMMA AskFits ==
    ASSUME PaidInv, NEW p \in Payouts, create[p] \in {"checked", "created"},
           create' = [create EXCEPT ![p] = "sent"],
           provider' = [provider EXCEPT ![p] = "pending"], gap' = gap
    PROVE  Fits'
<1> USE PayoutsAssumption DEF PaidInv, RealInv, TypeOK
<1> SUFFICES ASSUME NEW u \in Users, NotLost(u)
             PROVE  /\ Cardinality(OwedTo(u)') <= Earned[u]
                    /\ \A q \in Of(u) : create'[q] \in {"checked", "created"} =>
                           Cardinality(OwedTo(u)') < Earned[u]
  BY DEF Fits, NotLost
<1>1. CASE u = UserOf[p]
  <2>1. OwedTo(u)' = OwedTo(u) \cup {p}
    BY <1>1 DEF OwedTo, Of, Owed
  <2>2. Cardinality(OwedTo(u)') <= Cardinality(OwedTo(u)) + 1
    BY <2>1, OwedIsFinite, OneMore
  <2>3. Cardinality(OwedTo(u)) < Earned[u]
    BY <1>1 DEF Fits, Of
  <2>4. \A q \in Of(u) : create'[q] \notin {"checked", "created"}
    BY <1>1 DEF OneHolder, Holds, Of
  <2> QED
    BY <2>2, <2>3, <2>4, OwedIsFinite
<1>2. CASE u # UserOf[p]
  <2>1. OwedTo(u)' = OwedTo(u)
    BY <1>2 DEF OwedTo, Of, Owed
  <2> QED
    BY <1>2, <2>1 DEF Fits, Of
<1> QED
  BY <1>1, <1>2

\* An answer that is lost makes the payout a lost one.
LEMMA AnswerLostFits == ASSUME PaidInv, NEW p \in Payouts, AnswerLost(p) PROVE Fits'
<1> USE PayoutsAssumption DEF PaidInv, RealInv, TypeOK
<1> SUFFICES ASSUME NEW u \in Users, NotLost(u)'
             PROVE  /\ Cardinality(OwedTo(u)') <= Earned[u]
                    /\ \A q \in Of(u) : create'[q] \in {"checked", "created"} =>
                           Cardinality(OwedTo(u)') < Earned[u]
  BY DEF Fits
<1>1. u # UserOf[p] /\ NotLost(u)
  BY DEF AnswerLost, NotLost, Of
<1>2. OwedTo(u)' = OwedTo(u)
  BY <1>1 DEF AnswerLost, OwedTo, Of, Owed
<1>3. \A q \in Of(u) : create'[q] = create[q]
  BY <1>1 DEF AnswerLost, Of
<1> QED
  BY <1>1, <1>2, <1>3 DEF Fits

LEMMA CreateFits == ASSUME PaidInv, NEW p \in Payouts, Create(p) PROVE Fits'
<1> USE PayoutsAssumption DEF PaidInv, RealInv, TypeOK
<1>1. CASE Lock(p) \/ Refuse(p)
  BY <1>1, QuietFits DEF Lock, Refuse, Owed
<1>2. CASE Check(p)
  BY <1>2, CheckFits
<1>3. CASE Ask(p)
  <2>1. CASE p \in Mural
    BY <1>3, <2>1, QuietFits DEF Ask, Owed
  <2>2. CASE p \notin Mural
    BY <1>3, <2>2, AskFits DEF Ask
  <2> QED
    BY <2>1, <2>2
<1>4. CASE Execute(p)
  BY <1>4, AskFits DEF Execute
<1>5. CASE \E canceled \in BOOLEAN : ExecuteFails(p, canceled)
  BY <1>5, QuietFits DEF ExecuteFails, Owed
<1>6. CASE Record(p) \/ RecordFailed(p) \/ RecordUnknown(p)
  BY <1>6, QuietFits DEF Record, RecordFailed, RecordUnknown, Insert, Owed
<1>7. CASE AnswerLost(p)
  BY <1>7, AnswerLostFits
<1>8. CASE Stop(p)
  BY <1>8, QuietFits DEF Stop, Owed
<1> QED
  BY <1>1, <1>2, <1>3, <1>4, <1>5, <1>6, <1>7, <1>8 DEF Create

\* Nothing else makes the providers owe more.
LEMMA OthersFit ==
    ASSUME PaidInv,
           \/ \E p \in Payouts : Provide(p) \/ Hook(p) \/ Cancel(p) \/ Expire(p)
           \/ Sync \/ UNCHANGED vars
    PROVE  Fits'
<1> USE PayoutsAssumption DEF PaidInv, RealInv, TypeOK
<1>1. ASSUME NEW p \in Payouts, Provide(p) PROVE Fits'
  BY <1>1, QuietFits DEF Provide, Settle, GiveBack, Owed
<1>2. ASSUME NEW p \in Payouts, Hook(p) PROVE Fits'
  BY <1>2, QuietFits DEF Hook, HookPaid, HookRead, HookWrite, Owed
<1>3. ASSUME NEW p \in Payouts, Cancel(p) PROVE Fits'
  BY <1>3, QuietFits DEF Cancel, CancelRead, CancelCall, CancelRefused, CancelWrite, Owed
<1>4. ASSUME NEW p \in Payouts, Expire(p) PROVE Fits'
  BY <1>4, QuietFits DEF Expire, Owed
<1>5. ASSUME Sync PROVE Fits'
  BY <1>5, QuietFits
     DEF Sync, SyncBegin, SyncFetch, SyncWrite, Search, SearchWrite, SyncStops, Owed
<1>6. ASSUME UNCHANGED vars PROVE Fits'
  BY <1>6, QuietFits DEF vars, Owed
<1> QED
  BY <1>1, <1>2, <1>3, <1>4, <1>5, <1>6

\* Requests, cancels, webhooks and tasks of any users at the same time do not make
\* the providers pay a user more than was earned, unless a payout was lost.
THEOREM Overpaid == Spec => []NeverOverpaid
<1>1. Init => PaidInv
  <2> SUFFICES ASSUME Init PROVE PaidInv
    OBVIOUS
  <2>1. RealInv
    BY RealInit
  <2>2. OneHolder
    BY DEF Init, OneHolder, Holds
  <2>3. Fits
    <3> SUFFICES ASSUME NEW u \in Users
                 PROVE  /\ Cardinality(OwedTo(u)) <= Earned[u]
                        /\ \A p \in Of(u) : create[p] \notin {"checked", "created"}
      BY DEF Fits
    <3>1. OwedTo(u) = {} /\ \A p \in Of(u) : create[p] \notin {"checked", "created"}
      BY DEF Init, OwedTo, Owed, Of
    <3>2. Cardinality(OwedTo(u)) = 0
      BY <3>1, FS_EmptySet
    <3> QED
      BY <3>1, <3>2, PayoutsAssumption
  <2> QED
    BY <2>1, <2>2, <2>3 DEF PaidInv
<1>2. PaidInv /\ [Next]_vars /\ TypeOK' => PaidInv'
  <2> SUFFICES ASSUME PaidInv, [Next]_vars, TypeOK' PROVE PaidInv'
    OBVIOUS
  <2>1. RealInv'
    BY RealStep DEF PaidInv
  <2>2. OneHolder'
    BY HolderStep
  <2>3. Fits'
    BY CreateFits, OthersFit DEF Next
  <2> QED
    BY <2>1, <2>2, <2>3 DEF PaidInv
<1>3. PaidInv => NeverOverpaid
  BY DEF PaidInv, Fits, NeverOverpaid, OwedTo, NotLost
<1> QED
  BY <1>1, <1>2, <1>3, TypeCorrect, PTL DEF Spec
=============================================================================
