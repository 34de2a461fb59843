------------------------------- MODULE Payouts -------------------------------
(***************************************************************************)
(* Withdrawals of creators: create_payout and cancel_payout                *)
(* (apps/labrinth/src/routes/v3/payouts.rs), the three ways to send money  *)
(* (queue/payouts/flow), the webhooks of PayPal and Tremendous, the task   *)
(* that asks Mural, and the expiry in process_payout.  A payout is one     *)
(* unit of money; what a user has earned does not change.  The providers   *)
(* of the payments are external.                                           *)
(***************************************************************************)
EXTENDS Integers, FiniteSets

CONSTANTS
    Users,
    Payouts,    \* the ids generate_payout_id gives out, one for each request
    UserOf,     \* the user of each payout
    MethodOf,   \* how it is sent
    Earned,     \* what each user has earned, in payouts
    Limit,      \* how many rows or requests Mural's task takes at a time
    Faults,     \* the kinds of failure that happen
    MaxFaults,  \* bound: how many failures happen
    MaxMade     \* bound: how many of the payouts are requested

Methods    == {"paypal", "tremendous", "mural"}
FaultKinds == {"stop", "answer", "link", "fetch"}
Statuses   == {"none", "in-transit", "success", "cancelling", "cancelled", "failed"}
Stages     == {"idle", "locked", "checked", "created", "sent", "failed", "ended"}
AtProvider == {"none", "created", "pending", "paid", "returned", "failed", "canceled"}
Kinds      == {"paid", "failed", "canceled"}

ASSUME PayoutsAssumption ==
    /\ IsFiniteSet(Payouts)
    /\ UserOf \in [Payouts -> Users] /\ MethodOf \in [Payouts -> Methods]
    /\ Earned \in [Users -> Nat] /\ Limit \in Nat \ {0}
    /\ Faults \subseteq FaultKinds /\ MaxFaults \in Nat /\ MaxMade \in Nat

VARIABLES
    status,    \* the status of the row of each payout, none when there is no row
    known,     \* the payouts whose row has a platform id
    create,    \* where each create_payout is
    cancel,    \* where the cancel_payout of each payout is
    provider,  \* what the provider has done with each payout
    events,    \* the webhooks the provider sends, in any order and any number of times
    hook,      \* the webhooks whose handler has found the row in transit
    sync,      \* where sync_payout_statuses is
    rows,      \* the rows it has still to ask about, or the requests to search
    plan,      \* the statuses it is about to write
    gap,       \* history: payouts that are or may be paid and are not counted
    faults     \* failures so far

ledger == <<status, known>>
asking == <<sync, rows, plan>>
vars   == <<ledger, create, cancel, provider, events, hook, asking, gap, faults>>

NoPlan == [p \in Payouts |-> "none"]
Mural  == {p \in Payouts : MethodOf[p] = "mural"}

Init ==
    /\ status = [p \in Payouts |-> "none"] /\ known = {}
    /\ create = [p \in Payouts |-> "idle"] /\ cancel = [p \in Payouts |-> "idle"]
    /\ provider = [p \in Payouts |-> "none"]
    /\ events = {} /\ hook = {}
    /\ sync = "idle" /\ rows = {} /\ plan = NoPlan
    /\ gap = {} /\ faults = 0

\* Bound: of the payouts there could be, only so many are requested
MayMake == Cardinality({p \in Payouts : create[p] # "idle"}) < MaxMade

Fault(kind) ==
    /\ kind \in Faults /\ faults < MaxFaults
    /\ faults' = faults + 1

Of(u)   == {p \in Payouts : UserOf[p] = u}
Owed(p) == provider[p] \in {"pending", "paid"}
Counted(p) == status[p] \in {"success", "in-transit"}

\* get_user_balance
Available(u) == Earned[u] - Cardinality({p \in Of(u) : Counted(p)})

\* The requests that hold the row of their user
Holds(p) == create[p] \in {"locked", "checked", "created", "sent", "failed"}

\* An event of a provider that has webhooks
Emit(p, kind) == events' = IF p \in Mural THEN events ELSE events \cup {<<p, kind>>}

----------------------------------------------------------------------------
(* create_payout *)

\* mutant of Lock: the row of the user is read without FOR UPDATE
LockNothing(p) ==
    /\ create[p] = "idle" /\ MayMake
    /\ create' = [create EXCEPT ![p] = "locked"]
    /\ UNCHANGED <<ledger, cancel, provider, events, hook, asking, gap, faults>>

\* SELECT ... FOR UPDATE waits for the transaction of another request
Lock(p) ==
    /\ create[p] = "idle" /\ MayMake
    /\ \A q \in Of(UserOf[p]) : ~Holds(q)
    /\ create' = [create EXCEPT ![p] = "locked"]
    /\ UNCHANGED <<ledger, cancel, provider, events, hook, asking, gap, faults>>

\* The balance is read on another connection, and validated
Check(p) ==
    /\ create[p] = "locked"
    /\ Available(UserOf[p]) >= 1
    /\ create' = [create EXCEPT ![p] = "checked"]
    /\ UNCHANGED <<ledger, cancel, provider, events, hook, asking, gap, faults>>

\* Insufficient balance, a missing tax form, an unlinked account, a refusal of
\* the provider: the transaction is rolled back
Refuse(p) ==
    /\ create[p] \in {"locked", "checked"}
    /\ create' = [create EXCEPT ![p] = "ended"]
    /\ UNCHANGED <<ledger, cancel, provider, events, hook, asking, gap, faults>>

\* The request to the provider; a request to Mural has to be executed
Ask(p) ==
    /\ create[p] = "checked"
    /\ LET stage == IF p \in Mural THEN <<"created", "created">> ELSE <<"sent", "pending">> IN
       /\ create' = [create EXCEPT ![p] = stage[1]]
       /\ provider' = [provider EXCEPT ![p] = stage[2]]
    /\ UNCHANGED <<ledger, cancel, events, hook, asking, gap, faults>>

Execute(p) ==
    /\ create[p] = "created"
    /\ create' = [create EXCEPT ![p] = "sent"]
    /\ provider' = [provider EXCEPT ![p] = "pending"]
    /\ UNCHANGED <<ledger, cancel, events, hook, asking, gap, faults>>

\* The execution fails; the request is canceled, which may fail as well
ExecuteFails(p, canceled) ==
    /\ create[p] = "created"
    /\ create' = [create EXCEPT ![p] = "failed"]
    /\ provider' = [provider EXCEPT ![p] = IF canceled THEN "canceled" ELSE @]
    /\ UNCHANGED <<ledger, cancel, events, hook, asking, gap, faults>>

\* The row is inserted and the transaction committed
Insert(p, new) ==
    /\ status' = [status EXCEPT ![p] = new]
    /\ create' = [create EXCEPT ![p] = "ended"]
    /\ UNCHANGED <<cancel, provider, events, hook, asking, gap>>

Record(p) ==
    /\ create[p] = "sent" /\ Insert(p, "in-transit")
    /\ known' = known \cup {p}
    /\ UNCHANGED faults

RecordFailed(p) ==
    /\ create[p] = "failed" /\ Insert(p, "failed")
    /\ known' = known \cup {p}
    /\ UNCHANGED faults

\* The answer lacks the id of the item: the row is inserted without it
RecordUnknown(p) ==
    /\ Fault("link")
    /\ p \notin Mural
    /\ create[p] = "sent" /\ Insert(p, "in-transit")
    /\ UNCHANGED known

\* The provider does what it was asked, and its answer does not arrive
AnswerLost(p) ==
    /\ Fault("answer")
    /\ \/ /\ create[p] = "checked" /\ p \notin Mural
          /\ create' = [create EXCEPT ![p] = "ended"]
       \/ /\ create[p] = "created"
          /\ create' = [create EXCEPT ![p] = "failed"]
    /\ provider' = [provider EXCEPT ![p] = "pending"]
    /\ gap' = gap \cup {p}
    /\ UNCHANGED <<ledger, cancel, events, hook, asking>>

\* The process ends or the database refuses: the request ends where it is
Stop(p) ==
    /\ Fault("stop")
    /\ \/ /\ Holds(p)
          /\ create' = [create EXCEPT ![p] = "ended"]
          /\ gap' = IF Owed(p) THEN gap \cup {p} ELSE gap
          /\ UNCHANGED cancel
       \/ /\ cancel[p] # "idle"
          /\ cancel' = [cancel EXCEPT ![p] = "idle"]
          /\ UNCHANGED <<create, gap>>
    /\ UNCHANGED <<ledger, provider, events, hook, asking>>

----------------------------------------------------------------------------
(* The providers *)

Settle(p, how) ==
    /\ provider[p] = "pending" /\ how \in {"paid", "failed"}
    /\ provider' = [provider EXCEPT ![p] = how]
    /\ Emit(p, how)
    /\ UNCHANGED <<ledger, create, cancel, hook, asking, gap, faults>>

\* Refunded, returned or not claimed
GiveBack(p) ==
    /\ provider[p] = "paid"
    /\ provider' = [provider EXCEPT ![p] = "returned"]
    /\ Emit(p, "failed")
    /\ UNCHANGED <<ledger, create, cancel, hook, asking, gap, faults>>

----------------------------------------------------------------------------
(* The webhooks *)

HookPaid(p) ==
    /\ <<p, "paid">> \in events /\ p \in known
    /\ status' = [status EXCEPT ![p] = "success"]
    /\ UNCHANGED <<known, create, cancel, provider, events, hook, asking, gap, faults>>

\* The other events look for a row in transit first, without a lock
HookRead(p, kind) ==
    /\ <<p, kind>> \in events /\ kind # "paid"
    /\ p \in known /\ status[p] = "in-transit"
    /\ hook' = hook \cup {<<p, kind>>}
    /\ UNCHANGED <<ledger, create, cancel, provider, events, asking, gap, faults>>

HookWrite(p, kind) ==
    /\ <<p, kind>> \in hook
    /\ hook' = hook \ {<<p, kind>>}
    /\ status' = [status EXCEPT ![p] = IF kind = "canceled" THEN "cancelled" ELSE "failed"]
    /\ UNCHANGED <<known, create, cancel, provider, events, asking, gap, faults>>

----------------------------------------------------------------------------
(* cancel_payout *)

CancelRead(p) ==
    /\ cancel[p] = "idle" /\ p \in known /\ status[p] = "in-transit"
    /\ cancel' = [cancel EXCEPT ![p] = "read"]
    /\ UNCHANGED <<ledger, create, provider, events, hook, asking, gap, faults>>

CancelCall(p) ==
    /\ cancel[p] = "read" /\ provider[p] = "pending"
    /\ cancel' = [cancel EXCEPT ![p] = "called"]
    /\ provider' = [provider EXCEPT ![p] = "canceled"]
    /\ Emit(p, "canceled")
    /\ UNCHANGED <<ledger, create, hook, asking, gap, faults>>

\* mutant of CancelRefused: the provider's refusal is ignored
RefusalIgnored(p) ==
    /\ cancel[p] = "read"
    /\ cancel' = [cancel EXCEPT ![p] = "called"]
    /\ UNCHANGED <<ledger, create, provider, events, hook, asking, gap, faults>>

CancelRefused(p) ==
    /\ cancel[p] = "read"
    /\ cancel' = [cancel EXCEPT ![p] = "idle"]
    /\ UNCHANGED <<ledger, create, provider, events, hook, asking, gap, faults>>

CancelWrite(p) ==
    /\ cancel[p] = "called"
    /\ cancel' = [cancel EXCEPT ![p] = "idle"]
    /\ status' = [status EXCEPT ![p] = "cancelling"]
    /\ UNCHANGED <<known, create, provider, events, hook, asking, gap, faults>>

----------------------------------------------------------------------------
(* Tasks *)

\* process_payout: whatever has been in transit for 30 days has failed
Expire(p) ==
    /\ status[p] = "in-transit"
    /\ status' = [status EXCEPT ![p] = "failed"]
    /\ gap' = IF Owed(p) THEN gap \cup {p} ELSE gap
    /\ UNCHANGED <<known, create, cancel, provider, events, hook, asking, faults>>

Pending == {p \in Mural : status[p] \in {"in-transit", "cancelling"}}

\* As many of them as the limit lets through, in no particular order
Limited(all) ==
    {some \in SUBSET all :
        Cardinality(some) = Limit \/ (some = all /\ Cardinality(all) < Limit)}

\* mutant of SyncBegin: the rows are not filtered by their method
SyncEverything ==
    /\ sync = "idle"
    /\ rows' \in Limited({p \in Payouts : status[p] \in {"in-transit", "cancelling"}})
    /\ sync' = "fetch"
    /\ UNCHANGED <<ledger, create, cancel, provider, events, hook, plan, gap, faults>>

\* sync_pending_payouts_from_mural: the query has a LIMIT and no order
SyncBegin ==
    /\ sync = "idle"
    /\ rows' \in Limited(Pending)
    /\ sync' = "fetch"
    /\ UNCHANGED <<ledger, create, cancel, provider, events, hook, plan, gap, faults>>

\* mutant of Fetched: an executed request is left to the webhooks
FetchedBad(p) ==
    IF provider[p] = "canceled" THEN "cancelled"
    ELSE IF provider[p] = "failed" THEN "failed" ELSE "none"

Fetched(p) ==
    IF provider[p] = "canceled" THEN "cancelled"
    ELSE IF provider[p] \in {"paid", "returned"} THEN "success"
    ELSE IF provider[p] = "failed" THEN "failed" ELSE "none"

SyncFetch(p) ==
    /\ sync = "fetch" /\ p \in rows
    /\ rows' = rows \ {p}
    /\ \/ plan' = [plan EXCEPT ![p] = Fetched(p)] /\ UNCHANGED faults
       \/ Fault("fetch") /\ UNCHANGED plan
    /\ UNCHANGED <<ledger, create, cancel, provider, events, hook, sync, gap>>

\* UPDATE payouts, for the rows of which there is a plan
WritePlan ==
    /\ status' = [p \in Payouts |->
                    IF plan[p] # "none" /\ p \in known THEN plan[p] ELSE status[p]]
    /\ plan' = NoPlan

SyncWrite ==
    /\ sync = "fetch" /\ rows = {}
    /\ WritePlan
    /\ sync' = "search" /\ rows' = {p \in Mural : provider[p] # "none"}
    /\ UNCHANGED <<known, create, cancel, provider, events, hook, gap, faults>>

\* sync_failed_mural_payouts_to_labrinth: the requests Mural has, page by page.  The
\* page after the last one is taken to be empty, which is what ends the loop
Searched(p) ==
    IF provider[p] = "canceled" THEN "cancelled"
    ELSE IF provider[p] \in {"failed", "returned"} THEN "failed" ELSE "none"

Search ==
    /\ sync = "search"
    /\ \E page \in Limited(rows) :
          /\ plan' = [p \in Payouts |-> IF p \in page THEN Searched(p) ELSE "none"]
          /\ rows' = rows \ page
    /\ sync' = "write"
    /\ UNCHANGED <<ledger, create, cancel, provider, events, hook, gap, faults>>

SearchWrite ==
    /\ sync = "write"
    /\ WritePlan
    /\ sync' = IF rows = {} THEN "idle" ELSE "search"
    /\ UNCHANGED <<known, create, cancel, provider, events, hook, rows, gap, faults>>

\* Mural or the database refuses: the task ends, its transaction is rolled back
SyncStops ==
    /\ Fault("stop")
    /\ sync # "idle"
    /\ sync' = "idle" /\ rows' = {} /\ plan' = NoPlan
    /\ UNCHANGED <<ledger, create, cancel, provider, events, hook, gap>>

----------------------------------------------------------------------------

Create(p) ==
    \/ Lock(p) \/ Check(p) \/ Refuse(p) \/ Ask(p) \/ Execute(p)
    \/ \E canceled \in BOOLEAN : ExecuteFails(p, canceled)
    \/ Record(p) \/ RecordFailed(p) \/ RecordUnknown(p) \/ AnswerLost(p) \/ Stop(p)

Provide(p) == (\E how \in {"paid", "failed"} : Settle(p, how)) \/ GiveBack(p)

Hook(p) == HookPaid(p) \/ \E kind \in Kinds : HookRead(p, kind) \/ HookWrite(p, kind)

Cancel(p) == CancelRead(p) \/ CancelCall(p) \/ CancelRefused(p) \/ CancelWrite(p)

Sync ==
    \/ SyncBegin \/ (\E p \in Mural : SyncFetch(p)) \/ SyncWrite
    \/ Search \/ SearchWrite \/ SyncStops

Next ==
    \/ \E p \in Payouts : Create(p) \/ Provide(p) \/ Hook(p) \/ Cancel(p) \/ Expire(p)
    \/ Sync

Spec == Init /\ [][Next]_vars

\* The task that asks Mural runs again and again
FairSpec ==
    /\ Spec
    /\ WF_vars(SyncBegin) /\ WF_vars(\E p \in Mural : SyncFetch(p)) /\ WF_vars(SyncWrite)
    /\ WF_vars(Search) /\ WF_vars(SearchWrite)

----------------------------------------------------------------------------
(* Properties *)

\* The variables have their types: Mural's task asks about payouts of Mural only,
\* and a webhook is handled only after the provider has sent it.
TypeOK ==
    /\ status \in [Payouts -> Statuses] /\ known \subseteq Payouts
    /\ create \in [Payouts -> Stages]
    /\ cancel \in [Payouts -> {"idle", "read", "called"}]
    /\ provider \in [Payouts -> AtProvider]
    /\ events \subseteq Payouts \X Kinds /\ hook \subseteq events
    /\ sync \in {"idle", "fetch", "search", "write"} /\ rows \subseteq Mural
    /\ plan \in [Payouts -> Statuses]
    /\ gap \subseteq Payouts /\ faults \in 0 .. MaxFaults

\* What the providers have paid a user, or still may, never exceeds what the user
\* has earned, whatever requests, cancels, webhooks and tasks do at the same time:
\* only a payout the database has lost (an answer that did not arrive, a crash
\* before the row was committed, an expiry before the provider was done) can make
\* it exceed that.
NeverOverpaid ==
    \A u \in Users :
        gap \cap Of(u) = {} => Cardinality({p \in Of(u) : Owed(p)}) <= Earned[u]

\* A status says what the provider did, though webhooks come late, twice and in any
\* order: what was canceled or has failed is not paid, and what succeeded was.
StatusIsReal ==
    \A p \in Payouts :
        /\ status[p] = "success" => provider[p] \in {"paid", "returned"}
        /\ status[p] \in {"cancelling", "cancelled"} => provider[p] = "canceled"
        /\ status[p] = "failed" => ~Owed(p) \/ p \in gap

\* A payout that Mural has settled does not stay in transit, also when a request
\* to cancel it writes its status at the same time, unless again and again more
\* rows are pending than the LIMIT of the query: any of them may then be left out.
MuralIsSynced ==
    <>[](Cardinality(Pending) <= Limit) =>
        \A p \in Mural :
            (/\ status[p] \in {"in-transit", "cancelling"}
             /\ provider[p] \in {"paid", "returned", "failed", "canceled"})
                ~> status[p] \notin {"in-transit", "cancelling"}

\* paypal.rs: "no matter what we do, we *must* track this payout in the DB, even if
\* the next steps fail, so that the user's balance is subtracted".  A payout that is
\* paid and has a row without the provider's id stays counted.
UntrackedIsCounted ==
    \A p \in Payouts \ known :
        status[p] # "none" /\ provider[p] = "paid" => Counted(p)
=============================================================================
