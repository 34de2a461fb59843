------------------------------- MODULE Billing -------------------------------
(***************************************************************************)
(* The charges of one subscription: the two tasks that charge, cancel and  *)
(* unprovision (apps/labrinth/src/queue/billing.rs), the webhooks of       *)
(* Stripe and the edits of the user (routes/internal/billing.rs).  Every   *)
(* one of them reads a row of charges, works, and writes the whole row     *)
(* back (DBCharge::upsert).  Stripe and the servers are external; amounts, *)
(* taxes and dates are left out: whatever is due may be due at any time.   *)
(***************************************************************************)
EXTENDS Integers

CONSTANTS
    MaxCharges,  \* bound: how many rows of charges there may be
    MaxIntents,  \* bound: how many payment intents
    Begun,       \* whether the subscription was paid for before, with a charge to come
    Sold,        \* what customers pay for; "upgrade" is of a free subscription
    Delayed,     \* the payments that may take a while
    Faults,      \* the kinds of failure that happen
    MaxFaults    \* bound: how many failures happen

Charges    == 1 .. MaxCharges
Intents    == 1 .. MaxIntents
Kinds      == {"subscription", "proration"}
Payments   == {"first", "upgrade", "proration", "renewal"}
FaultKinds == {"again", "answer", "stop", "archon"}
Statuses   == {"none", "open", "processing", "succeeded", "failed", "cancelled", "expiring"}
Outcomes   == {"succeeded", "processing", "failed"}
Rows       == [status : Statuses, kind : Kinds, intent : Intents \cup {0}]
Events     == Intents \X Outcomes
Deals      == [charge : Charges \cup {0}, kind : Kinds, state : Outcomes \cup {"none"}]
Hooks      == [stage : {"idle", "read", "serving"}, seen : Rows,
               sub : {"none", "provisioned", "unprovisioned"},
               next : Charges \cup {0}, nextSeen : Rows, beside : BOOLEAN]
Tasks      == [stage : {"idle", "cancel", "charge"}, todo : SUBSET Charges,
               seen : [Charges -> Rows], paying : Charges \cup {0}, failed : BOOLEAN]
Edits      == [charge : Charges \cup {0}, seen : Rows]

ASSUME BillingAssumption ==
    /\ MaxCharges \in Nat \ {0} /\ MaxIntents \in Nat /\ MaxFaults \in Nat
    /\ Begun \in BOOLEAN /\ Sold \subseteq Payments /\ Delayed \subseteq Payments /\ Faults \subseteq FaultKinds

VARIABLES
    charge,   \* the rows
    sub,      \* the status of the subscription, none before it exists
    server,   \* external: what the customer has
    intent,   \* external: the charge each payment intent is for, its kind and state
    events,   \* the webhooks Stripe has to deliver, in any order
    handled,  \* those that were answered
    hook,     \* the webhooks that are being handled
    task,     \* index_billing: what it does, with the rows as it read them
    edit,     \* a request of the user, with the row as it read it
    ending,   \* unprovision_subscriptions
    raced,    \* history: charges written after an outdated read or for an old event
    untold,   \* history: charges with a payment that the task never learned of
    extra,    \* history: charges that a webhook made beside one that is being paid
    reset,    \* history: whether the status of the subscription was overwritten in use
    faults    \* failures so far

rows    == <<charge, sub>>
stripe  == <<intent, events>>
history == <<raced, untold, extra, reset>>
vars    == <<rows, server, stripe, handled, hook, task, edit, ending, history, faults>>

NoRow    == [status |-> "none", kind |-> "subscription", intent |-> 0]
NoIntent == [charge |-> 0, kind |-> "subscription", state |-> "none"]
NoHook   == [stage |-> "idle", seen |-> NoRow, sub |-> "none", next |-> 0, nextSeen |-> NoRow,
             beside |-> FALSE]
NoTask   == [stage |-> "idle", todo |-> {}, seen |-> [c \in Charges |-> NoRow], paying |-> 0,
             failed |-> FALSE]
NoEdit   == [charge |-> 0, seen |-> NoRow]

Init ==
    /\ charge = [c \in Charges |->
                    IF Begun /\ c = 1 THEN [NoRow EXCEPT !.status = "open"] ELSE NoRow]
    /\ sub = (IF Begun THEN "provisioned" ELSE "none")
    /\ server = (IF Begun THEN "running" ELSE "none")
    /\ intent = [i \in Intents |-> NoIntent]
    /\ events = {} /\ handled = {} /\ hook = [e \in Events |-> NoHook]
    /\ task = NoTask /\ edit = NoEdit /\ ending = "idle"
    /\ raced = {} /\ untold = {} /\ extra = {} /\ reset = FALSE /\ faults = 0

Fault(kind) ==
    /\ kind \in Faults /\ faults < MaxFaults
    /\ faults' = faults + 1

Live(c) == charge[c].status \in {"open", "processing", "failed", "cancelled", "expiring"}

\* get_open_subscription, of any type; when there are several, any of them
Open(c) == charge[c].status \in {"open", "expiring", "cancelled", "failed"}

\* generate_charge_id, for a row or for the metadata of an intent
UsedCharges == {c \in Charges : charge[c] # NoRow} \cup {intent[i].charge : i \in Intents}
               \cup {hook[e].next : e \in Events}
FreshCharge(c) == c \notin UsedCharges /\ \A d \in Charges : d < c => d \in UsedCharges
FreshIntent(i) ==
    /\ intent[i] = NoIntent
    /\ \A j \in Intents : j < i => intent[j] # NoIntent

\* A webhook whose transaction has written the row of a charge keeps it locked
Locked(c) == \E e \in Events : hook[e].stage = "serving" /\ intent[e[1]].charge = c

\* DBCharge::upsert: the whole row, though it may have changed since it was read
Race(c, seen) == IF charge[c] # seen THEN {c} ELSE {}

----------------------------------------------------------------------------
(* Stripe *)

\* An intent for charge c; its payment succeeds, takes a while or is declined
Pay(i, c, what, how) ==
    /\ FreshIntent(i)
    /\ how = "processing" => what \in Delayed
    /\ intent' = [intent EXCEPT ![i] =
          [charge |-> c, kind |-> IF what = "proration" THEN what ELSE "subscription", state |-> how]]
    /\ events' = events \cup {<<i, how>>}

Settle(i, how) ==
    /\ intent[i].state = "processing" /\ how \in {"succeeded", "failed"}
    /\ intent' = [intent EXCEPT ![i].state = how]
    /\ events' = events \cup {<<i, how>>}
    /\ UNCHANGED <<rows, server, handled, hook, task, edit, ending, history, faults>>

\* The user pays for a new subscription, for a free one that is to go on, or for
\* more of it: the charge does not exist before the webhook comes.  Bound: one
\* purchase at a time
Buy(i, c, what, how) ==
    /\ what \in Sold
    /\ CASE what = "first"     -> sub = "none"
         [] what = "upgrade"   -> \E d \in Charges : charge[d].status = "expiring"
         [] what = "proration" -> \E d \in Charges : charge[d].status \in {"open", "cancelled", "failed"}
         [] OTHER              -> FALSE
    /\ events \subseteq handled /\ \A j \in Intents : intent[j].state # "processing"
    /\ FreshCharge(c)
    /\ Pay(i, c, what, how)
    /\ UNCHANGED <<rows, server, handled, hook, task, edit, ending, history, faults>>

\* try_process_user_redeemal: a free subscription, which expires
Redeem(c) ==
    /\ "upgrade" \in Sold /\ sub = "none" /\ FreshCharge(c) /\ events = {}
    /\ charge' = [charge EXCEPT ![c].status = "expiring"]
    /\ sub' = "provisioned" /\ server' = "running"
    /\ UNCHANGED <<stripe, handled, hook, task, edit, ending, history, faults>>

----------------------------------------------------------------------------
(* stripe_webhook *)

\* The charge and the subscription are read outside of the transaction
HookRead(e) ==
    /\ e \in events /\ hook[e].stage = "idle"
    /\ \/ e \notin handled /\ UNCHANGED faults
       \/ e \in handled /\ Fault("again")
    /\ hook' = [hook EXCEPT ![e] = [NoHook EXCEPT
                    !.stage = "read", !.seen = charge[intent[e[1]].charge],
                    !.sub = IF e[2] = "succeeded" THEN "none" ELSE sub]]
    /\ UNCHANGED <<rows, server, stripe, handled, task, edit, ending, history>>

\* The event is no news: the intent has gone on, or another one was made since
Old(e) ==
    LET i == e[1]  c == intent[i].charge IN
    \/ e \in handled \/ e[2] # intent[i].state
    \/ \E j \in Intents : j > i /\ intent[j].charge = c

\* mutant of Written: a payment that was declined is recorded as taken
WrittenPaid(e) ==
    [status |-> IF e[2] = "failed" THEN "succeeded" ELSE e[2],
     kind   |-> IF hook[e].seen = NoRow THEN intent[e[1]].kind ELSE hook[e].seen.kind,
     intent |-> e[1]]

\* get_payment_intent_metadata
Written(e) ==
    LET seen == hook[e].seen IN
    [status |-> e[2],
     kind   |-> IF seen = NoRow THEN intent[e[1]].kind ELSE seen.kind,
     intent |-> e[1]]

RaceOf(e) == Race(intent[e[1]].charge, hook[e].seen)
             \cup (IF Old(e) THEN {intent[e[1]].charge} ELSE {})

\* mutant of HookWrite: only the row of a new charge is written
HookWriteNew(e) ==
    LET c == intent[e[1]].charge  new == hook[e].seen = NoRow IN
    /\ hook[e].stage = "read" /\ e[2] # "succeeded" /\ ~Locked(c)
    /\ hook' = [hook EXCEPT ![e] = NoHook]
    /\ handled' = handled \cup {e}
    /\ IF new /\ e[2] = "processing"
       THEN charge' = [charge EXCEPT ![c] = Written(e)] /\ sub' = "unprovisioned"
       ELSE UNCHANGED rows
    /\ UNCHANGED <<server, stripe, task, edit, ending, history, faults>>

\* A payment that takes a while or has failed: the rows are written, those of a new
\* charge only for the former.  A purchase that takes a while leaves a subscription
\* unprovisioned that was in use
HookWrite(e) ==
    LET c == intent[e[1]].charge  new == hook[e].seen = NoRow IN
    /\ hook[e].stage = "read" /\ e[2] # "succeeded" /\ ~Locked(c)
    /\ hook' = [hook EXCEPT ![e] = NoHook]
    /\ handled' = handled \cup {e}
    /\ IF new /\ e[2] = "failed"
       THEN UNCHANGED <<rows, raced, reset>>
       ELSE /\ charge' = [charge EXCEPT ![c] = Written(e)]
            /\ sub' = IF new THEN "unprovisioned" ELSE hook[e].sub
            /\ raced' = raced \cup RaceOf(e)
            /\ reset' = (reset \/ sub \notin {"none", sub'})
    /\ UNCHANGED <<server, stripe, task, edit, ending, untold, extra, faults>>

\* A charge that is being paid is not open, so the webhook makes another beside it
Beside(c, opens) == opens = {} /\ \E d \in Charges \ {c} : charge[d].status = "processing"

\* mutant of HookServe: a failed or canceled charge is not taken for the next one
HookServeOpens(e, next) ==
    LET c == intent[e[1]].charge
        opens == {d \in Charges \ {c} : charge[d].status \in {"open", "expiring"}}
    IN
    /\ hook[e].stage = "read" /\ e[2] = "succeeded" /\ ~Locked(c)
    /\ IF opens # {} THEN next \in opens ELSE FreshCharge(next)
    /\ hook' = [hook EXCEPT ![e].stage = "serving", ![e].next = next,
                            ![e].nextSeen = charge[next], ![e].beside = Beside(c, opens)]
    /\ server' = "running"
    /\ raced' = raced \cup RaceOf(e)
    /\ UNCHANGED <<rows, stripe, handled, task, edit, ending, untold, extra, reset, faults>>

\* The row is written in the transaction, the server started, and the open charge
\* read
HookServe(e, next) ==
    LET c == intent[e[1]].charge  opens == {d \in Charges \ {c} : Open(d)} IN
    /\ hook[e].stage = "read" /\ e[2] = "succeeded" /\ ~Locked(c)
    /\ IF opens # {} THEN next \in opens ELSE FreshCharge(next)
    /\ hook' = [hook EXCEPT ![e].stage = "serving", ![e].next = next,
                            ![e].nextSeen = charge[next], ![e].beside = Beside(c, opens)]
    /\ server' = "running"
    /\ raced' = raced \cup RaceOf(e)
    /\ UNCHANGED <<rows, stripe, handled, task, edit, ending, untold, extra, reset, faults>>

\* mutant of Next1: no charge is made when there is none
Next1Opened(e) ==
    IF hook[e].nextSeen.status = "expiring"
    THEN [hook[e].nextSeen EXCEPT !.status = "open"] ELSE hook[e].nextSeen

\* The next charge: an expiring one is opened, an open one gets the new price, and
\* when there is none it is made
Next1(e) ==
    IF hook[e].nextSeen.status \in {"none", "expiring"}
    THEN [hook[e].nextSeen EXCEPT !.status = "open"] ELSE hook[e].nextSeen

HookCommit(e) ==
    LET c == intent[e[1]].charge  n == hook[e].next IN
    /\ hook[e].stage = "serving" /\ ~Locked(n)
    /\ charge' = [charge EXCEPT ![c] = Written(e), ![n] = Next1(e)]
    /\ sub' = "provisioned"
    /\ handled' = handled \cup {e}
    /\ hook' = [hook EXCEPT ![e] = NoHook]
    /\ raced' = raced \cup Race(n, hook[e].nextSeen)
    /\ extra' = IF hook[e].beside THEN extra \cup {n} ELSE extra
    /\ reset' = (reset \/ ending # "idle")
    /\ UNCHANGED <<server, stripe, task, edit, ending, untold, faults>>

\* The servers or the database refuse; Stripe delivers the event again
HookFails(e) ==
    /\ Fault("archon")
    /\ hook[e].stage # "idle"
    /\ hook' = [hook EXCEPT ![e] = NoHook]
    /\ UNCHANGED <<rows, server, stripe, handled, task, edit, ending, history>>

----------------------------------------------------------------------------
(* index_billing *)

\* get_cancellable and get_chargeable, of what is due by now
Cancellable(c) == charge[c].kind = "subscription" /\ charge[c].status = "failed"

\* mutant of Chargeable: a charge that is being processed is due again
ChargeableAgain(c) ==
    charge[c].kind = "subscription" /\ charge[c].status \in {"open", "failed", "processing"}

Chargeable(c) == charge[c].kind = "subscription" /\ charge[c].status \in {"open", "failed"}

TaskRead(stage, due) ==
    /\ task.stage = "idle" /\ due # {}
    /\ \A c \in due : IF stage = "cancel" THEN Cancellable(c) ELSE Chargeable(c)
    /\ task' = [NoTask EXCEPT !.stage = stage, !.todo = due,
                              !.seen = [c \in Charges |-> IF c \in due THEN charge[c] ELSE NoRow]]
    /\ UNCHANGED <<rows, server, stripe, handled, hook, edit, ending, history, faults>>

\* The charge is done with; the task is over after the last one
Done(c) ==
    LET left == task.todo \ {c} IN
    IF left = {} THEN NoTask
    ELSE [task EXCEPT !.todo = left, !.seen[c] = NoRow, !.paying = 0, !.failed = FALSE]

TaskCancel(c) ==
    /\ task.stage = "cancel" /\ c \in task.todo /\ ~Locked(c)
    /\ charge' = [charge EXCEPT ![c] = [task.seen[c] EXCEPT !.status = "cancelled"]]
    /\ raced' = raced \cup Race(c, task.seen[c])
    /\ task' = Done(c)
    /\ UNCHANGED <<sub, server, stripe, handled, hook, edit, ending, untold, extra, reset, faults>>

\* create_or_update_payment_intent confirms the payment at once
TaskPay(c, i, how) ==
    /\ task.stage = "charge" /\ task.paying = 0 /\ c \in task.todo
    /\ Pay(i, c, "renewal", how)
    /\ task' = [task EXCEPT !.paying = c, !.failed = how = "failed"]
    /\ UNCHANGED <<rows, server, handled, hook, edit, ending, history, faults>>

\* No payment method, or no answer from Stripe: there is no intent
TaskCannotPay(c) ==
    /\ task.stage = "charge" /\ task.paying = 0 /\ c \in task.todo
    /\ task' = [task EXCEPT !.paying = c, !.failed = TRUE]
    /\ UNCHANGED <<rows, server, stripe, handled, hook, edit, ending, history, faults>>

\* The intent is made and paid, and the answer does not arrive
TaskAnswerLost(c, i) ==
    /\ Fault("answer")
    /\ task.stage = "charge" /\ task.paying = 0 /\ c \in task.todo
    /\ Pay(i, c, "renewal", "succeeded")
    /\ task' = [task EXCEPT !.paying = c, !.failed = TRUE]
    /\ untold' = untold \cup {c}
    /\ UNCHANGED <<rows, server, handled, hook, edit, ending, raced, extra, reset>>

TaskWrite ==
    LET c == task.paying IN
    /\ c # 0 /\ ~Locked(c)
    /\ charge' = [charge EXCEPT ![c] = [task.seen[c] EXCEPT
                        !.status = IF task.failed THEN "failed" ELSE "processing"]]
    /\ raced' = raced \cup Race(c, task.seen[c])
    /\ task' = Done(c)
    /\ UNCHANGED <<sub, server, stripe, handled, hook, edit, ending, untold, extra, reset, faults>>

\* The process ends.  The charge of a payment that is made and not yet written stays
\* as it was, so it is due again
TaskStops ==
    /\ Fault("stop")
    /\ task # NoTask
    /\ untold' = IF task.paying = 0 \/ task.failed THEN untold ELSE untold \cup {task.paying}
    /\ task' = NoTask /\ edit' = NoEdit /\ ending' = "idle"
    /\ hook' = [e \in Events |-> NoHook]
    /\ UNCHANGED <<rows, server, stripe, handled, raced, extra, reset>>

----------------------------------------------------------------------------
(* edit_subscription; a refund that ends the subscription writes the same *)

EditRead(c) ==
    /\ edit = NoEdit /\ Open(c)
    /\ edit' = [charge |-> c, seen |-> charge[c]]
    /\ UNCHANGED <<rows, server, stripe, handled, hook, task, ending, history, faults>>

\* Canceling, or taking it back; another product keeps the status
Edited(status) ==
    {status} \cup (IF status = "expiring" THEN {} ELSE {"cancelled"})
             \cup (IF status = "cancelled" THEN {"open"} ELSE {})

EditWrite(status) ==
    LET c == edit.charge IN
    /\ edit # NoEdit /\ ~Locked(c) /\ status \in Edited(edit.seen.status)
    /\ charge' = [charge EXCEPT ![c] = [edit.seen EXCEPT !.status = status]]
    /\ raced' = raced \cup Race(c, edit.seen)
    /\ edit' = NoEdit
    /\ UNCHANGED <<sub, server, stripe, handled, hook, task, ending, untold, extra, reset, faults>>

EditRefused ==
    /\ edit # NoEdit
    /\ edit' = NoEdit
    /\ UNCHANGED <<rows, server, stripe, handled, hook, task, ending, history, faults>>

----------------------------------------------------------------------------
(* unprovision_subscriptions *)

\* mutant of Ends: a canceled charge does not end the subscription
EndsUnpaid(c) ==
    charge[c].kind = "subscription" /\ charge[c].status \in {"expiring", "failed"}

\* get_unprovision
Ends(c) ==
    /\ charge[c].kind = "subscription"
    /\ charge[c].status \in {"cancelled", "expiring", "failed"}

EndRead ==
    /\ ending = "idle" /\ sub = "provisioned" /\ \E c \in Charges : Ends(c)
    /\ ending' = "read"
    /\ UNCHANGED <<rows, server, stripe, handled, hook, task, edit, history, faults>>

\* Any answer of the servers will do
EndSuspend ==
    /\ ending = "read"
    /\ \/ server' = "suspended" /\ UNCHANGED faults
       \/ Fault("archon") /\ UNCHANGED server
    /\ ending' = "suspended"
    /\ UNCHANGED <<rows, stripe, handled, hook, task, edit, history>>

EndFails ==
    /\ Fault("archon")
    /\ ending # "idle"
    /\ ending' = "idle"
    /\ UNCHANGED <<rows, server, stripe, handled, hook, task, edit, history>>

\* mutant of EndCommit: the subscription gets the word for the server
EndCommitSuspended ==
    /\ ending = "suspended" /\ ~\E e \in Events : hook[e].stage = "serving"
    /\ sub' = "suspended"
    /\ ending' = "idle"
    /\ UNCHANGED <<charge, server, stripe, handled, hook, task, edit, history, faults>>

EndCommit ==
    /\ ending = "suspended" /\ ~\E e \in Events : hook[e].stage = "serving"
    /\ sub' = "unprovisioned"
    /\ ending' = "idle"
    /\ UNCHANGED <<charge, server, stripe, handled, hook, task, edit, history, faults>>

----------------------------------------------------------------------------

Stripe ==
    \/ \E i \in Intents, how \in Outcomes :
          \/ Settle(i, how)
          \/ \E c \in Charges, what \in Payments : how # "failed" /\ Buy(i, c, what, how)
    \/ \E c \in Charges : Redeem(c)

Webhook(e) ==
    \/ HookRead(e) \/ HookWrite(e) \/ (\E next \in Charges : HookServe(e, next))
    \/ HookCommit(e) \/ HookFails(e)

IndexBilling ==
    \/ \E stage \in {"cancel", "charge"}, due \in SUBSET Charges : TaskRead(stage, due)
    \/ \E c \in Charges : TaskCancel(c) \/ TaskCannotPay(c)
    \/ \E c \in Charges, i \in Intents : TaskAnswerLost(c, i)
    \/ \E c \in Charges, i \in Intents, how \in Outcomes : TaskPay(c, i, how)
    \/ TaskWrite \/ TaskStops

Edit == (\E c \in Charges : EditRead(c)) \/ (\E s \in Statuses : EditWrite(s)) \/ EditRefused

Unprovision == EndRead \/ EndSuspend \/ EndFails \/ EndCommit

Next == Stripe \/ (\E e \in Events : Webhook(e)) \/ IndexBilling \/ Edit \/ Unprovision

Spec == Init /\ [][Next]_vars

FairSpec ==
    /\ Spec
    /\ WF_vars(\E e \in Events : HookRead(e) \/ HookWrite(e)
          \/ (\E next \in Charges : HookServe(e, next)) \/ HookCommit(e))
    /\ \A i \in Intents : WF_vars(\E how \in Outcomes : Settle(i, how))
    /\ WF_vars(EndRead \/ EndSuspend \/ EndCommit)

----------------------------------------------------------------------------

\* The variables have their types, and only events that were sent are handled.
TypeOK ==
    /\ charge \in [Charges -> Rows]
    /\ sub \in {"none", "provisioned", "unprovisioned"}
    /\ server \in {"none", "running", "suspended"}
    /\ intent \in [Intents -> Deals] /\ events \subseteq Events /\ handled \subseteq events
    /\ hook \in [Events -> Hooks] /\ task \in Tasks /\ edit \in Edits
    /\ ending \in {"idle", "read", "suspended"}
    /\ raced \subseteq Charges /\ untold \subseteq Charges /\ extra \subseteq Charges
    /\ reset \in BOOLEAN /\ faults \in 0 .. MaxFaults

\* A charge is recorded as paid only when Stripe has taken a payment for it, though
\* the task, the webhooks and the user's edits overwrite each other's rows.
SucceededIsPaid ==
    \A c \in Charges : charge[c].status = "succeeded" =>
        \E i \in Intents : intent[i].charge = c /\ intent[i].state = "succeeded"

\* Nobody pays twice for one charge, unless its own row was overwritten after an
\* outdated read or by an old event, or the task never learned of a payment for it:
\* Stripe's answer was lost, or the process ended between the payment and the row.
PaidOnce ==
    \A i, j \in Intents :
        /\ intent[i].charge = intent[j].charge
        /\ intent[i].state = "succeeded" /\ intent[j].state = "succeeded"
        => i = j \/ intent[i].charge \in raced \cup untold

\* A charge that is or will be taken
ToPay(c) ==
    charge[c].kind = "subscription" /\ charge[c].status \in {"open", "processing", "failed"}

\* A subscription has no two charges that are or will be taken, unless one of them was
\* overwritten or has a payment the task never learned of, or was made by the webhook
\* of one payment while another charge was being paid, which get_open_subscription
\* does not find.
OneCharge ==
    \A c, d \in Charges :
        ToPay(c) /\ ToPay(d) => c = d \/ {c, d} \cap (raced \cup untold \cup extra) # {}

\* A subscription that is provisioned has a charge to come, so it is paid for again
\* or ended: whatever rows are overwritten, it never goes on for nothing.
NeverFree == sub = "provisioned" => \E c \in Charges : Live(c)

\* A charge that is being processed gets its result, unless its row was overwritten.
ProcessingEnds ==
    \A c \in Charges : charge[c].status = "processing" ~> charge[c].status # "processing" \/ c \in raced

\* The server of a canceled subscription is suspended or the subscription goes on,
\* unless the status of the subscription was overwritten while it was in use: by a
\* webhook with an older one, for a purchase that takes a while, or while
\* unprovision_subscriptions was at work on it.
CancelEnds ==
    (\E c \in Charges : charge[c].status = "cancelled") /\ server = "running"
    ~> (\A c \in Charges : charge[c].status # "cancelled") \/ server # "running" \/ reset

=============================================================================
