---------------------------- MODULE BillingProofs ----------------------------
(***************************************************************************)
(* Proofs about Billing, for any number of charges, payment intents and    *)
(* failures: its type invariant, that only what was paid is recorded as    *)
(* paid, that no subscription goes on for nothing, that nobody pays twice, *)
(* and that a subscription has one charge to come.                         *)
(***************************************************************************)
EXTENDS Billing, TLAPS

\* An event is about an intent that was made for a charge, and says what it says as
\* long as it is a success; only events that were sent are handled.  What a webhook
\* and an edit have chosen are charges.
Asked ==
    /\ \A e \in events : /\ intent[e[1]].charge \in Charges
                         /\ e[2] = "succeeded" => intent[e[1]].state = "succeeded"
    /\ \A e \in Events : /\ hook[e].stage # "idle" => e \in events
                         /\ hook[e].stage = "serving" => hook[e].next \in Charges
    /\ edit # NoEdit => edit.charge \in Charges
    /\ \A i \in Intents : intent[i].state # "none" => intent[i].charge \in Charges

LEMMA Constants ==
    /\ NoRow \in Rows /\ NoIntent \in Deals /\ NoHook \in Hooks /\ NoTask \in Tasks /\ NoEdit \in Edits
    /\ Outcomes \subseteq Statuses
  BY DEF NoRow, NoIntent, NoHook, NoTask, NoEdit, Rows, Deals, Hooks, Tasks, Edits, Kinds, Statuses,
         Outcomes

LEMMA RowStatus ==
    ASSUME NEW r \in Rows, NEW s \in Statuses
    PROVE  [r EXCEPT !.status = s] \in Rows
  BY DEF Rows

LEMMA DealState ==
    ASSUME NEW d \in Deals, NEW s \in Outcomes
    PROVE  [d EXCEPT !.state = s] \in Deals
  BY DEF Deals

LEMMA HookServing ==
    ASSUME NEW h \in Hooks, NEW n \in Charges, NEW r \in Rows, NEW b \in BOOLEAN
    PROVE  [h EXCEPT !.stage = "serving", !.next = n, !.nextSeen = r, !.beside = b] \in Hooks
  BY DEF Hooks

LEMMA TaskPaying ==
    ASSUME NEW t \in Tasks, NEW c \in Charges, NEW b \in BOOLEAN
    PROVE  [t EXCEPT !.paying = c, !.failed = b] \in Tasks
  BY DEF Tasks

LEMMA PayType ==
    ASSUME TypeOK, NEW i \in Intents, NEW c \in Charges, NEW what, NEW how \in Outcomes,
           Pay(i, c, what, how)
    PROVE  intent' \in [Intents -> Deals] /\ events' \subseteq Events /\ events \subseteq events'
  BY DEF TypeOK, Pay, Deals, Events, Kinds

LEMMA DoneType ==
    ASSUME task \in Tasks, NEW c \in Charges
    PROVE  Done(c) \in Tasks
  BY DEF Done, Tasks, NoTask, NoRow, Rows, Statuses, Kinds

LEMMA WrittenType ==
    ASSUME TypeOK, NEW e \in Events
    PROVE  /\ Written(e) \in Rows /\ intent[e[1]].charge \in Charges \cup {0}
           /\ intent[e[1]].charge \in Charges => RaceOf(e) \subseteq Charges
<1>1. intent[e[1]] \in Deals /\ e[1] \in Intents /\ e[2] \in Outcomes /\ hook[e] \in Hooks
  BY DEF TypeOK, Events
<1> QED
  BY <1>1 DEF Written, RaceOf, Race, Deals, Hooks, Rows, Outcomes, Statuses

LEMMA Next1Type ==
    ASSUME TypeOK, NEW e \in Events
    PROVE  Next1(e) \in Rows
<1>1. hook[e].nextSeen \in Rows
  BY DEF TypeOK, Hooks
<1> QED
  BY <1>1, RowStatus DEF Next1, Statuses

LEMMA TypeStep ==
    ASSUME TypeOK, Asked, [Next]_vars
    PROVE  TypeOK'
<1> USE BillingAssumption
<1>1. ASSUME NEW i \in Intents, NEW how \in Outcomes, Settle(i, how)
       PROVE  TypeOK'
  <2>1. [intent[i] EXCEPT !.state = how] \in Deals
    BY DealState DEF TypeOK
  <2>2. intent' = [intent EXCEPT ![i] = [intent[i] EXCEPT !.state = how]]
    BY <1>1 DEF Settle
  <2>3. intent' \in [Intents -> Deals]
    BY <2>1, <2>2 DEF TypeOK
  <2>4. events' \subseteq Events /\ events \subseteq events'
    BY <1>1 DEF Settle, TypeOK, Events
  <2>5. UNCHANGED <<rows, server, handled, hook, task, edit, ending, history, faults>>
    BY <1>1 DEF Settle
  <2> QED
    BY <2>3, <2>4, <2>5 DEF TypeOK, rows, history
<1>2. ASSUME NEW i \in Intents, NEW c \in Charges, NEW what \in Payments, NEW how \in Outcomes, Buy(i, c, what, how)
       PROVE  TypeOK'
  <2>1. Pay(i, c, what, how)
    BY <1>2 DEF Buy
  <2>2. UNCHANGED <<rows, server, handled, hook, task, edit, ending, history, faults>>
    BY <1>2 DEF Buy
  <2> QED
    BY <2>1, <2>2, PayType DEF TypeOK, rows, history
<1>3. ASSUME NEW c \in Charges, Redeem(c)
       PROVE  TypeOK'
  <2>1. [charge[c] EXCEPT !.status = "expiring"] \in Rows
    BY RowStatus DEF TypeOK, Statuses
  <2>2. charge' = [charge EXCEPT ![c] = [charge[c] EXCEPT !.status = "expiring"]]
    BY <1>3 DEF Redeem
  <2>3. charge' \in [Charges -> Rows]
    BY <2>1, <2>2 DEF TypeOK
  <2>4. sub' = "provisioned" /\ server' = "running"
        /\ UNCHANGED <<stripe, handled, hook, task, edit, ending, history, faults>>
    BY <1>3 DEF Redeem
  <2> QED
    BY <2>3, <2>4 DEF TypeOK, stripe, history
<1>4. ASSUME NEW e \in Events, HookRead(e)
       PROVE  TypeOK'
  <2> DEFINE h == [NoHook EXCEPT !.stage = "read", !.seen = charge[intent[e[1]].charge],
                                 !.sub = IF e[2] = "succeeded" THEN "none" ELSE sub]
  <2>1. intent[e[1]].charge \in Charges
    BY <1>4 DEF HookRead, Asked
  <2>2. h \in Hooks
    BY <2>1 DEF TypeOK, NoHook, NoRow, Hooks, Rows, Statuses, Kinds
  <2>3. hook' = [hook EXCEPT ![e] = h]
    BY <1>4 DEF HookRead
  <2>4. hook' \in [Events -> Hooks]
    BY <2>2, <2>3 DEF TypeOK
  <2> QED
    BY <1>4, <2>4 DEF HookRead, Fault, TypeOK, rows, stripe, history
<1>5. ASSUME NEW e \in Events, HookWrite(e)
       PROVE  TypeOK'
  <2>1. charge' \in [Charges -> Rows] /\ raced' \subseteq Charges /\ reset' \in BOOLEAN
    BY <1>5, WrittenType DEF HookWrite, TypeOK, rows, Asked, history
  <2>2. sub' \in {"none", "provisioned", "unprovisioned"}
    BY <1>5 DEF HookWrite, TypeOK, rows, Hooks, history
  <2>3. hook' \in [Events -> Hooks] /\ handled' \subseteq events
    BY <1>5, Constants DEF HookWrite, Asked, TypeOK
  <2> QED
    BY <1>5, <2>1, <2>2, <2>3 DEF HookWrite, TypeOK, stripe, history
<1>6. ASSUME NEW e \in Events, NEW next \in Charges, HookServe(e, next)
       PROVE  TypeOK'
  <2> DEFINE opens == {d \in Charges \ {intent[e[1]].charge} : Open(d)}
             beside == Beside(intent[e[1]].charge, opens)
  <2>1. hook' = [hook EXCEPT ![e] = [hook[e] EXCEPT !.stage = "serving", !.next = next,
                                                    !.nextSeen = charge[next], !.beside = beside]]
    BY <1>6 DEF HookServe
  <2>2. beside \in BOOLEAN
    BY DEF Beside
  <2>3. [hook[e] EXCEPT !.stage = "serving", !.next = next, !.nextSeen = charge[next],
                        !.beside = beside] \in Hooks
    BY <2>2, HookServing DEF TypeOK
  <2> HIDE DEF beside
  <2>4. hook' \in [Events -> Hooks]
    BY <2>1, <2>3 DEF TypeOK
  <2>5. raced' \subseteq Charges
    BY <1>6, WrittenType DEF HookServe, TypeOK, Asked
  <2> QED
    BY <1>6, <2>4, <2>5 DEF HookServe, TypeOK, rows, stripe, history
<1>7. ASSUME NEW e \in Events, HookCommit(e)
       PROVE  TypeOK'
  <2>1. charge' \in [Charges -> Rows]
    BY <1>7, WrittenType, Next1Type DEF HookCommit, TypeOK
  <2>2. hook[e].next \in Charges
    BY <1>7 DEF HookCommit, Asked
  <2>3. raced' \subseteq Charges /\ extra' \subseteq Charges /\ reset' \in BOOLEAN
    BY <1>7, <2>2 DEF HookCommit, Race, TypeOK
  <2>4. hook' \in [Events -> Hooks] /\ handled' \subseteq events
    BY <1>7, Constants DEF HookCommit, Asked, TypeOK
  <2> QED
    BY <1>7, <2>1, <2>3, <2>4 DEF HookCommit, TypeOK, stripe, history
<1>8. ASSUME NEW e \in Events, HookFails(e)
       PROVE  TypeOK'
  BY <1>8, Constants DEF HookFails, Fault, TypeOK, rows, stripe, history
<1>9. ASSUME NEW stage \in {"cancel", "charge"}, NEW due \in SUBSET Charges, TaskRead(stage, due)
       PROVE  TypeOK'
  <2>1. task' \in Tasks
    BY <1>9 DEF TaskRead, TypeOK, Tasks, NoTask, NoRow, Rows, Statuses, Kinds
  <2> QED
    BY <1>9, <2>1 DEF TaskRead, TypeOK, rows, stripe, history
<1>10. ASSUME NEW c \in Charges, TaskCancel(c)
        PROVE  TypeOK'
  <2>1. task.seen[c] \in Rows
    BY DEF TypeOK, Tasks
  <2>2. [task.seen[c] EXCEPT !.status = "cancelled"] \in Rows
    BY <2>1, RowStatus DEF Statuses
  <2>3. charge' \in [Charges -> Rows] /\ raced' \subseteq Charges
    BY <1>10, <2>2 DEF TaskCancel, Race, TypeOK
  <2>4. task' \in Tasks
    BY <1>10, DoneType DEF TaskCancel, TypeOK
  <2> QED
    BY <1>10, <2>3, <2>4 DEF TaskCancel, TypeOK, stripe, history
<1>11. ASSUME NEW c \in Charges, TaskCannotPay(c)
        PROVE  TypeOK'
  <2>1. task' = [task EXCEPT !.paying = c, !.failed = TRUE]
    BY <1>11 DEF TaskCannotPay
  <2>2. task' \in Tasks
    BY <2>1, TaskPaying DEF TypeOK
  <2>3. UNCHANGED <<rows, server, stripe, handled, hook, edit, ending, history, faults>>
    BY <1>11 DEF TaskCannotPay
  <2> QED
    BY <2>2, <2>3 DEF TypeOK, rows, stripe, history
<1>12. ASSUME NEW c \in Charges, NEW i \in Intents, TaskAnswerLost(c, i)
        PROVE  TypeOK'
  <2>1. Pay(i, c, "renewal", "succeeded") /\ task' = [task EXCEPT !.paying = c, !.failed = TRUE]
    BY <1>12 DEF TaskAnswerLost
  <2>2. task' \in Tasks
    BY <2>1, TaskPaying DEF TypeOK
  <2>3. intent' \in [Intents -> Deals] /\ events' \subseteq Events /\ events \subseteq events'
    BY <2>1, PayType DEF Outcomes
  <2>4. /\ faults' \in 0 .. MaxFaults /\ untold' = untold \cup {c}
        /\ UNCHANGED <<rows, server, handled, hook, edit, ending, raced, extra, reset>>
    BY <1>12 DEF TaskAnswerLost, Fault, TypeOK
  <2> QED
    BY <2>2, <2>3, <2>4 DEF TypeOK, rows, history
<1>13. ASSUME NEW c \in Charges, NEW i \in Intents, NEW how \in Outcomes, TaskPay(c, i, how)
        PROVE  TypeOK'
  <2>1. Pay(i, c, "renewal", how) /\ task' = [task EXCEPT !.paying = c, !.failed = (how = "failed")]
    BY <1>13 DEF TaskPay
  <2>2. task' \in Tasks
    BY <2>1, TaskPaying DEF TypeOK
  <2>3. UNCHANGED <<rows, server, handled, hook, edit, ending, history, faults>>
    BY <1>13 DEF TaskPay
  <2> QED
    BY <2>1, <2>2, <2>3, PayType DEF TypeOK, rows, history
<1>14. ASSUME TaskWrite
        PROVE  TypeOK'
  <2>1. task.paying \in Charges /\ task \in Tasks /\ task.seen \in [Charges -> Rows]
    BY <1>14 DEF TaskWrite, TypeOK, Tasks
  <2>2. [task.seen[task.paying] EXCEPT !.status = IF task.failed THEN "failed" ELSE "processing"] \in Rows
    BY <2>1, RowStatus DEF Statuses
  <2>3. charge' \in [Charges -> Rows] /\ raced' \subseteq Charges
    BY <1>14, <2>1, <2>2 DEF TaskWrite, Race, TypeOK
  <2>4. task' \in Tasks
    BY <1>14, <2>1, DoneType DEF TaskWrite
  <2> QED
    BY <1>14, <2>3, <2>4 DEF TaskWrite, TypeOK, stripe, history
<1>15. ASSUME TaskStops
        PROVE  TypeOK'
  <2>1. untold' \subseteq Charges
    BY <1>15 DEF TaskStops, TypeOK, Tasks
  <2>2. hook' \in [Events -> Hooks] /\ task' \in Tasks /\ edit' \in Edits
    BY <1>15, Constants DEF TaskStops
  <2> QED
    BY <1>15, <2>1, <2>2 DEF TaskStops, Fault, TypeOK, rows, stripe, history
<1>16. ASSUME NEW c \in Charges, EditRead(c)
        PROVE  TypeOK'
  <2>1. edit' \in Edits
    BY <1>16 DEF EditRead, TypeOK, Edits
  <2> QED
    BY <1>16, <2>1 DEF EditRead, TypeOK, rows, stripe, history
<1>17. ASSUME NEW s \in Statuses, EditWrite(s)
        PROVE  TypeOK'
  <2>1. edit.seen \in Rows
    BY DEF TypeOK, Edits
  <2>2. [edit.seen EXCEPT !.status = s] \in Rows
    BY <2>1, RowStatus
  <2>3. charge' \in [Charges -> Rows]
    BY <1>17, <2>2 DEF EditWrite, TypeOK
  <2>4. raced' \subseteq Charges
    BY <1>17 DEF EditWrite, Race, TypeOK, Asked
  <2> QED
    BY <1>17, <2>3, <2>4, Constants DEF EditWrite, TypeOK, stripe, history
<1>18. ASSUME EditRefused
        PROVE  TypeOK'
  BY <1>18, Constants DEF EditRefused, TypeOK, rows, stripe, history
<1>19. ASSUME EndRead
        PROVE  TypeOK'
  BY <1>19, Constants DEF EndRead, TypeOK, rows, stripe, history
<1>20. ASSUME EndSuspend
        PROVE  TypeOK'
  BY <1>20, Constants DEF EndSuspend, Fault, TypeOK, rows, stripe, history
<1>21. ASSUME EndFails
        PROVE  TypeOK'
  BY <1>21, Constants DEF EndFails, Fault, TypeOK, rows, stripe, history
<1>22. ASSUME EndCommit
        PROVE  TypeOK'
  BY <1>22, Constants DEF EndCommit, TypeOK, rows, stripe, history
<1>23. CASE UNCHANGED vars
  BY <1>23 DEF vars, rows, stripe, TypeOK, history
<1>24. CASE Stripe
  BY <1>24, <1>1, <1>2, <1>3 DEF Stripe
<1>25. ASSUME NEW e \in Events, Webhook(e)
      PROVE  TypeOK'
  BY <1>25, <1>4, <1>5, <1>6, <1>7, <1>8 DEF Webhook
<1>26. CASE IndexBilling
  BY <1>26, <1>9, <1>10, <1>11, <1>12, <1>13, <1>14, <1>15 DEF IndexBilling
<1>27. CASE Edit
  BY <1>27, <1>16, <1>17, <1>18 DEF Edit
<1>28. CASE Unprovision
  BY <1>28, <1>19, <1>20, <1>21, <1>22 DEF Unprovision
<1> QED
  BY <1>23, <1>24, <1>25, <1>26, <1>27, <1>28 DEF Next

LEMMA InitType == Init => TypeOK /\ Asked
<1> SUFFICES ASSUME Init PROVE TypeOK /\ Asked
  OBVIOUS
<1>1. [NoRow EXCEPT !.status = "open"] \in Rows
  BY Constants, RowStatus DEF Statuses
<1>2. charge \in [Charges -> Rows]
  BY <1>1, Constants DEF Init
<1>3. TypeOK
  <2>1. /\ raced \subseteq Charges /\ untold \subseteq Charges /\ extra \subseteq Charges
        /\ faults \in 0 .. MaxFaults
    BY BillingAssumption DEF Init
  <2>2. intent \in [Intents -> Deals] /\ hook \in [Events -> Hooks]
    BY Constants DEF Init
  <2>3. /\ sub \in {"none", "provisioned", "unprovisioned"}
        /\ server \in {"none", "running", "suspended"} /\ ending \in {"idle", "read", "suspended"}
        /\ events \subseteq Events /\ handled \subseteq events /\ task \in Tasks /\ edit \in Edits
    BY Constants DEF Init
  <2>4. reset \in BOOLEAN
    BY Zenon DEF Init
  <2> QED
    BY <1>2, <2>1, <2>2, <2>3, <2>4 DEF TypeOK
<1>4. (\A e \in Events : hook[e].stage = "idle") /\ \A i \in Intents : intent[i].state = "none"
  BY DEF Init, NoHook, NoIntent
<1>5. (\A e \in Events : hook[e].stage # "serving") /\ edit = NoEdit
  BY DEF Init, NoHook
<1> QED
  BY <1>3, <1>4, <1>5 DEF Init, Asked

LEMMA PayAsked ==
    ASSUME TypeOK, Asked, NEW i \in Intents, NEW c \in Charges, NEW what, NEW how \in Outcomes,
           Pay(i, c, what, how), UNCHANGED <<hook, edit>>
    PROVE  Asked'
<1>1. \A e \in events : e[1] = i => e[2] # "succeeded"
  BY DEF Asked, Pay, FreshIntent, NoIntent
<1>2. ASSUME NEW e \in events'
      PROVE  intent'[e[1]].charge \in Charges /\ (e[2] = "succeeded" => intent'[e[1]].state = "succeeded")
  <2>1. CASE e = <<i, how>>
    BY <2>1 DEF Pay, TypeOK
  <2>2. CASE e \in events /\ e[1] = i
    BY <2>2, <1>1 DEF Pay, TypeOK
  <2>3. CASE e \in events /\ e[1] # i
    <3>1. e[1] \in Intents /\ intent'[e[1]] = intent[e[1]]
      BY <2>3 DEF Pay, TypeOK, Events
    <3> QED
      BY <2>3, <3>1 DEF Asked
  <2> QED
    BY <2>1, <2>2, <2>3 DEF Pay
<1>3. \A j \in Intents : intent'[j].state # "none" => intent'[j].charge \in Charges
  BY DEF Asked, Pay, TypeOK
<1> QED
  BY <1>2, <1>3 DEF Asked, Pay

LEMMA AskedStep ==
    ASSUME TypeOK, Asked, [Next]_vars
    PROVE  Asked'
<1> USE BillingAssumption
<1>1. ASSUME NEW i \in Intents, NEW how \in Outcomes, Settle(i, how)
       PROVE  Asked'
  <2>1. intent' = [intent EXCEPT ![i] = [intent[i] EXCEPT !.state = how]] /\ i \in Intents
        /\ intent[i].state = "processing" /\ events' = events \cup {<<i, how>>} /\ UNCHANGED <<hook, edit>>
    BY <1>1 DEF Settle
  <2>2. [intent[i] EXCEPT !.state = how].charge = intent[i].charge
        /\ [intent[i] EXCEPT !.state = how].state = how
    BY DEF TypeOK, Deals
  <2>3. intent[i].charge \in Charges
    BY <2>1 DEF Asked
  <2>4. ASSUME NEW e \in events'
        PROVE  intent'[e[1]].charge \in Charges /\ (e[2] = "succeeded" => intent'[e[1]].state = "succeeded")
    <3>1. CASE e = <<i, how>>
      BY <3>1, <2>1, <2>2, <2>3 DEF TypeOK
    <3>2. CASE e \in events /\ e[1] = i
      BY <3>2, <2>1, <2>2, <2>3 DEF Asked, TypeOK
    <3>3. CASE e \in events /\ e[1] # i
      BY <3>3, <2>1 DEF Asked, TypeOK, Events
    <3> QED
      BY <3>1, <3>2, <3>3, <2>1
  <2>5. \A j \in Intents : intent'[j].state # "none" => intent'[j].charge \in Charges
    BY <2>1, <2>2, <2>3 DEF Asked, TypeOK
  <2> QED
    BY <2>1, <2>4, <2>5 DEF Asked
<1>2. ASSUME NEW i \in Intents, NEW c \in Charges, NEW what \in Payments, NEW how \in Outcomes, Buy(i, c, what, how)
       PROVE  Asked'
  BY <1>2, PayAsked DEF Buy
<1>3. ASSUME NEW c \in Charges, Redeem(c)
       PROVE  Asked'
  BY <1>3 DEF Redeem, Asked, stripe
<1>4. ASSUME NEW e \in Events, HookRead(e)
       PROVE  Asked'
  BY <1>4 DEF HookRead, Asked, stripe, TypeOK
<1>5. ASSUME NEW e \in Events, HookWrite(e)
       PROVE  Asked'
  BY <1>5 DEF HookWrite, Asked, stripe, TypeOK, NoHook
<1>6. ASSUME NEW e \in Events, NEW next \in Charges, HookServe(e, next)
       PROVE  Asked'
  BY <1>6 DEF HookServe, Asked, stripe, TypeOK
<1>7. ASSUME NEW e \in Events, HookCommit(e)
       PROVE  Asked'
  BY <1>7 DEF HookCommit, Asked, stripe, TypeOK, NoHook
<1>8. ASSUME NEW e \in Events, HookFails(e)
       PROVE  Asked'
  BY <1>8 DEF HookFails, Asked, stripe, TypeOK, NoHook
<1>9. ASSUME NEW stage \in {"cancel", "charge"}, NEW due \in SUBSET Charges, TaskRead(stage, due)
       PROVE  Asked'
  BY <1>9 DEF TaskRead, Asked, stripe
<1>10. ASSUME NEW c \in Charges, TaskCancel(c)
        PROVE  Asked'
  BY <1>10 DEF TaskCancel, Asked, stripe
<1>11. ASSUME NEW c \in Charges, TaskCannotPay(c)
        PROVE  Asked'
  BY <1>11 DEF TaskCannotPay, Asked, stripe
<1>12. ASSUME NEW c \in Charges, NEW i \in Intents, TaskAnswerLost(c, i)
        PROVE  Asked'
  BY <1>12, PayAsked DEF TaskAnswerLost, Outcomes
<1>13. ASSUME NEW c \in Charges, NEW i \in Intents, NEW how \in Outcomes, TaskPay(c, i, how)
        PROVE  Asked'
  BY <1>13, PayAsked DEF TaskPay
<1>14. ASSUME TaskWrite
        PROVE  Asked'
  BY <1>14 DEF TaskWrite, Asked, stripe
<1>15. ASSUME TaskStops
        PROVE  Asked'
  BY <1>15 DEF TaskStops, Asked, stripe, NoHook
<1>16. ASSUME NEW c \in Charges, EditRead(c)
        PROVE  Asked'
  BY <1>16 DEF EditRead, Asked, stripe
<1>17. ASSUME NEW s \in Statuses, EditWrite(s)
        PROVE  Asked'
  BY <1>17 DEF EditWrite, Asked, stripe
<1>18. ASSUME EditRefused
        PROVE  Asked'
  BY <1>18 DEF EditRefused, Asked, stripe
<1>19. ASSUME EndRead
        PROVE  Asked'
  BY <1>19 DEF EndRead, Asked, stripe
<1>20. ASSUME EndSuspend
        PROVE  Asked'
  BY <1>20 DEF EndSuspend, Asked, stripe
<1>21. ASSUME EndFails
        PROVE  Asked'
  BY <1>21 DEF EndFails, Asked, stripe
<1>22. ASSUME EndCommit
        PROVE  Asked'
  BY <1>22 DEF EndCommit, Asked, stripe
<1>23. CASE UNCHANGED vars
  BY <1>23 DEF vars, Asked, stripe
<1>24. CASE Stripe
  BY <1>24, <1>1, <1>2, <1>3 DEF Stripe
<1>25. ASSUME NEW e \in Events, Webhook(e)
      PROVE  Asked'
  BY <1>25, <1>4, <1>5, <1>6, <1>7, <1>8 DEF Webhook
<1>26. CASE IndexBilling
  BY <1>26, <1>9, <1>10, <1>11, <1>12, <1>13, <1>14, <1>15 DEF IndexBilling
<1>27. CASE Edit
  BY <1>27, <1>16, <1>17, <1>18 DEF Edit
<1>28. CASE Unprovision
  BY <1>28, <1>19, <1>20, <1>21, <1>22 DEF Unprovision
<1> QED
  BY <1>23, <1>24, <1>25, <1>26, <1>27, <1>28 DEF Next

LEMMA AskedAlways == Spec => [](TypeOK /\ Asked)
<1>1. TypeOK /\ Asked /\ [Next]_vars => (TypeOK /\ Asked)'
  BY TypeStep, AskedStep
<1> QED
  BY <1>1, InitType, PTL DEF Spec

\* Every variable keeps its type, whatever rows are overwritten and whatever fails.
THEOREM TypeCorrect == Spec => []TypeOK
BY AskedAlways, PTL

LEMMA RowWithStatus ==
    ASSUME NEW r \in Rows, NEW s \in Statuses
    PROVE  [r EXCEPT !.status = s].status = s
  BY DEF Rows

Waiting == {"open", "expiring", "cancelled", "failed"}

\* A webhook that is about to commit has been paid, and the next charge is another one
\* and not paid; neither is the charge that an edit has read.
Serving ==
    /\ \A e \in Events : hook[e].stage = "serving" =>
          /\ e[2] = "succeeded"
          /\ hook[e].next \in Charges /\ hook[e].next # intent[e[1]].charge
          /\ hook[e].nextSeen.status \in Waiting \cup {"none"}
    /\ edit # NoEdit => edit.charge \in Charges /\ edit.seen.status \in Waiting

LEMMA PayServing ==
    ASSUME TypeOK, Asked, Serving, NEW i \in Intents, NEW c \in Charges, NEW what,
           NEW how \in Outcomes, Pay(i, c, what, how), UNCHANGED <<hook, edit>>
    PROVE  Serving'
<1>1. \A e \in Events : hook[e].stage = "serving" => e[1] # i
  BY BillingAssumption DEF Asked, Pay, FreshIntent, NoIntent, Charges
<1>2. \A e \in Events : hook[e].stage = "serving" => intent'[e[1]] = intent[e[1]]
  BY <1>1 DEF Pay, TypeOK, Events
<1> QED
  BY <1>2 DEF Serving

LEMMA ServingStep ==
    ASSUME TypeOK, Asked, Serving, [Next]_vars
    PROVE  Serving'
<1> USE BillingAssumption
<1>1. ASSUME NEW i \in Intents, NEW how \in Outcomes, Settle(i, how)
       PROVE  Serving'
  <2>1. intent' = [intent EXCEPT ![i] = [intent[i] EXCEPT !.state = how]] /\ i \in Intents
        /\ hook' = hook /\ edit' = edit
    BY <1>1 DEF Settle
  <2>2. [intent[i] EXCEPT !.state = how].charge = intent[i].charge
    BY DEF TypeOK, Deals
  <2>3. \A j \in Intents : intent'[j].charge = intent[j].charge
    BY <2>1, <2>2 DEF TypeOK
  <2> QED
    BY <2>1, <2>3 DEF Serving, Events
<1>2. ASSUME NEW i \in Intents, NEW c \in Charges, NEW what \in Payments, NEW how \in Outcomes, Buy(i, c, what, how)
       PROVE  Serving'
  BY <1>2, PayServing DEF Buy
<1>3. ASSUME NEW c \in Charges, Redeem(c)
       PROVE  Serving'
  BY <1>3 DEF Redeem, Serving, stripe
<1>4. ASSUME NEW e \in Events, HookRead(e)
       PROVE  Serving'
  <2>1. hook'[e].stage = "read" /\ \A f \in Events : f # e => hook'[f] = hook[f]
    BY <1>4 DEF HookRead, TypeOK, NoHook
  <2> QED
    BY <1>4, <2>1 DEF HookRead, Serving, stripe
<1>5. ASSUME NEW e \in Events, HookWrite(e)
       PROVE  Serving'
  BY <1>5 DEF HookWrite, Serving, stripe, TypeOK, NoHook
<1>6. ASSUME NEW e \in Events, NEW next \in Charges, HookServe(e, next)
       PROVE  Serving'
  <2> DEFINE opens == {d \in Charges \ {intent[e[1]].charge} : Open(d)}
             h == [hook[e] EXCEPT !.stage = "serving", !.next = next, !.nextSeen = charge[next],
                                  !.beside = Beside(intent[e[1]].charge, opens)]
  <2>1. hook' = [hook EXCEPT ![e] = h]
    BY <1>6 DEF HookServe
  <2>2. h.next = next /\ h.nextSeen = charge[next]
    BY DEF TypeOK, Hooks
  <2>3. next # intent[e[1]].charge /\ charge[next].status \in Waiting \cup {"none"}
    BY <1>6 DEF HookServe, Open, FreshCharge, UsedCharges, NoRow, Waiting, Events
  <2> HIDE DEF h
  <2>4. hook'[e] = h /\ \A f \in Events : f # e => hook'[f] = hook[f]
    BY <2>1 DEF TypeOK
  <2>5. e[2] = "succeeded" /\ intent' = intent /\ edit' = edit
    BY <1>6 DEF HookServe, stripe
  <2>6. /\ hook'[e].next \in Charges /\ hook'[e].next # intent[e[1]].charge
        /\ hook'[e].nextSeen.status \in Waiting \cup {"none"}
    BY <2>2, <2>3, <2>4
  <2> QED
    BY <2>4, <2>5, <2>6 DEF Serving
<1>7. ASSUME NEW e \in Events, HookCommit(e)
       PROVE  Serving'
  BY <1>7 DEF HookCommit, Serving, stripe, TypeOK, NoHook
<1>8. ASSUME NEW e \in Events, HookFails(e)
       PROVE  Serving'
  BY <1>8 DEF HookFails, Serving, stripe, TypeOK, NoHook
<1>9. ASSUME NEW stage \in {"cancel", "charge"}, NEW due \in SUBSET Charges, TaskRead(stage, due)
       PROVE  Serving'
  BY <1>9 DEF TaskRead, Serving, stripe
<1>10. ASSUME NEW c \in Charges, TaskCancel(c)
        PROVE  Serving'
  BY <1>10 DEF TaskCancel, Serving, stripe
<1>11. ASSUME NEW c \in Charges, TaskCannotPay(c)
        PROVE  Serving'
  BY <1>11 DEF TaskCannotPay, Serving, stripe
<1>12. ASSUME NEW c \in Charges, NEW i \in Intents, TaskAnswerLost(c, i)
        PROVE  Serving'
  BY <1>12, PayServing DEF TaskAnswerLost, Outcomes
<1>13. ASSUME NEW c \in Charges, NEW i \in Intents, NEW how \in Outcomes, TaskPay(c, i, how)
        PROVE  Serving'
  BY <1>13, PayServing DEF TaskPay
<1>14. ASSUME TaskWrite
        PROVE  Serving'
  BY <1>14 DEF TaskWrite, Serving, stripe
<1>15. ASSUME TaskStops
        PROVE  Serving'
  BY <1>15 DEF TaskStops, Serving, stripe, TypeOK, NoHook
<1>16. ASSUME NEW c \in Charges, EditRead(c)
        PROVE  Serving'
  BY <1>16 DEF EditRead, Serving, stripe, Open, Waiting
<1>17. ASSUME NEW s \in Statuses, EditWrite(s)
        PROVE  Serving'
  BY <1>17 DEF EditWrite, Serving, stripe
<1>18. ASSUME EditRefused
        PROVE  Serving'
  BY <1>18 DEF EditRefused, Serving, stripe
<1>19. ASSUME EndRead
        PROVE  Serving'
  BY <1>19 DEF EndRead, Serving, stripe
<1>20. ASSUME EndSuspend
        PROVE  Serving'
  BY <1>20 DEF EndSuspend, Serving, stripe
<1>21. ASSUME EndFails
        PROVE  Serving'
  BY <1>21 DEF EndFails, Serving, stripe
<1>22. ASSUME EndCommit
        PROVE  Serving'
  BY <1>22 DEF EndCommit, Serving, stripe
<1>23. CASE UNCHANGED vars
  BY <1>23 DEF vars, Serving, stripe
<1>24. CASE Stripe
  BY <1>24, <1>1, <1>2, <1>3 DEF Stripe
<1>25. ASSUME NEW e \in Events, Webhook(e)
      PROVE  Serving'
  BY <1>25, <1>4, <1>5, <1>6, <1>7, <1>8 DEF Webhook
<1>26. CASE IndexBilling
  BY <1>26, <1>9, <1>10, <1>11, <1>12, <1>13, <1>14, <1>15 DEF IndexBilling
<1>27. CASE Edit
  BY <1>27, <1>16, <1>17, <1>18 DEF Edit
<1>28. CASE Unprovision
  BY <1>28, <1>19, <1>20, <1>21, <1>22 DEF Unprovision
<1> QED
  BY <1>23, <1>24, <1>25, <1>26, <1>27, <1>28 DEF Next

LEMMA WroteLive ==
    ASSUME TypeOK, SucceededIsPaid, NEW c \in Charges, NEW r, charge' = [charge EXCEPT ![c] = r],
           r.status \in Waiting \cup {"processing"}, intent' = intent
    PROVE  NeverFree' /\ SucceededIsPaid'
<1>1. charge'[c] = r /\ \A d \in Charges : d # c => charge'[d] = charge[d]
  BY DEF TypeOK
<1>2. Live(c)'
  BY <1>1 DEF Live, Waiting
<1>3. \A d \in Charges : charge'[d].status = "succeeded" => charge[d].status = "succeeded"
  BY <1>1 DEF Waiting
<1> QED
  BY <1>2, <1>3 DEF NeverFree, SucceededIsPaid

LEMMA PayPaid ==
    ASSUME TypeOK, SucceededIsPaid, NeverFree, NEW i \in Intents, NEW c \in Charges, NEW what,
           NEW how \in Outcomes, Pay(i, c, what, how), UNCHANGED rows
    PROVE  NeverFree' /\ SucceededIsPaid'
<1>1. ASSUME NEW j \in Intents, intent[j].state = "succeeded" PROVE intent'[j] = intent[j]
  BY <1>1 DEF Pay, FreshIntent, NoIntent, TypeOK
<1> QED
  BY <1>1 DEF SucceededIsPaid, NeverFree, Live, rows

LEMMA PaidStep ==
    ASSUME TypeOK, Asked, Serving, SucceededIsPaid, NeverFree, [Next]_vars
    PROVE  NeverFree' /\ SucceededIsPaid'
<1> USE BillingAssumption
<1>1. ASSUME NEW i \in Intents, NEW how \in Outcomes, Settle(i, how)
       PROVE  NeverFree' /\ SucceededIsPaid'
  <2>1. intent' = [intent EXCEPT ![i] = [intent[i] EXCEPT !.state = how]] /\ charge' = charge
        /\ sub' = sub /\ intent[i].state = "processing"
    BY <1>1 DEF Settle, rows
  <2>2. \A j \in Intents : intent[j].state = "succeeded" => intent'[j] = intent[j]
    BY <2>1 DEF TypeOK
  <2> QED
    BY <2>1, <2>2 DEF SucceededIsPaid, NeverFree, Live
<1>2. ASSUME NEW i \in Intents, NEW c \in Charges, NEW what \in Payments, NEW how \in Outcomes, Buy(i, c, what, how)
       PROVE  NeverFree' /\ SucceededIsPaid'
  BY <1>2, PayPaid DEF Buy
<1>3. ASSUME NEW c \in Charges, Redeem(c)
       PROVE  NeverFree' /\ SucceededIsPaid'
  <2> DEFINE r == [charge[c] EXCEPT !.status = "expiring"]
  <2>1. r.status = "expiring"
    BY RowWithStatus DEF TypeOK, Statuses
  <2>2. charge' = [charge EXCEPT ![c] = r] /\ intent' = intent
    BY <1>3 DEF Redeem, stripe
  <2> HIDE DEF r
  <2> QED
    BY <2>1, <2>2, WroteLive DEF Waiting
<1>4. ASSUME NEW e \in Events, HookRead(e)
       PROVE  NeverFree' /\ SucceededIsPaid'
  BY <1>4 DEF HookRead, SucceededIsPaid, NeverFree, Live, rows, stripe
<1>5. ASSUME NEW e \in Events, HookWrite(e)
       PROVE  NeverFree' /\ SucceededIsPaid'
  <2> DEFINE c == intent[e[1]].charge
  <2>1. CASE UNCHANGED rows
    BY <1>5, <2>1 DEF HookWrite, SucceededIsPaid, NeverFree, Live, rows, stripe
  <2>2. CASE charge' = [charge EXCEPT ![c] = Written(e)]
    <3>1. c \in Charges
      BY <1>5 DEF HookWrite, Asked
    <3>2. Written(e).status \in {"processing", "failed"}
      BY <1>5 DEF HookWrite, Written, Events, Outcomes
    <3> QED
      BY <1>5, <2>2, <3>1, <3>2, WroteLive DEF HookWrite, stripe, Waiting
  <2> QED
    BY <1>5, <2>1, <2>2 DEF HookWrite
<1>6. ASSUME NEW e \in Events, NEW next \in Charges, HookServe(e, next)
       PROVE  NeverFree' /\ SucceededIsPaid'
  BY <1>6 DEF HookServe, SucceededIsPaid, NeverFree, Live, rows, stripe
<1>7. ASSUME NEW e \in Events, HookCommit(e)
       PROVE  NeverFree' /\ SucceededIsPaid'
  <2> DEFINE c == intent[e[1]].charge
             n == hook[e].next
  <2>1. /\ charge' = [charge EXCEPT ![c] = Written(e), ![n] = Next1(e)]
        /\ intent' = intent /\ hook[e].stage = "serving" /\ e \in events
    BY <1>7 DEF HookCommit, stripe, Asked
  <2>2. c \in Charges /\ n \in Charges /\ n # c /\ e[1] \in Intents
    BY <2>1 DEF Asked, Serving, Events
  <2>3. intent[e[1]].state = "succeeded"
    BY <2>1 DEF Asked, Serving
  <2>4. Next1(e).status \in Waiting
    <3>1. hook[e].nextSeen \in Rows /\ hook[e].nextSeen.status \in Waiting \cup {"none"}
      BY <2>1 DEF Serving, TypeOK, Hooks
    <3> QED
      BY <3>1, RowWithStatus DEF Next1, Waiting, Statuses
  <2>5. charge'[n] = Next1(e) /\ \A d \in Charges \ {c, n} : charge'[d] = charge[d]
    BY <2>1, <2>2 DEF TypeOK
  <2>6. \E d \in Charges : charge'[d].status \in Waiting
    BY <2>2, <2>4, <2>5
  <2>7. \A d \in Charges : charge'[d].status = "succeeded" => d = c \/ charge[d].status = "succeeded"
    BY <2>4, <2>5 DEF Waiting
  <2> QED
    BY <2>1, <2>2, <2>3, <2>6, <2>7 DEF NeverFree, SucceededIsPaid, Live, Waiting
<1>8. ASSUME NEW e \in Events, HookFails(e)
       PROVE  NeverFree' /\ SucceededIsPaid'
  BY <1>8 DEF HookFails, SucceededIsPaid, NeverFree, Live, rows, stripe
<1>9. ASSUME NEW stage \in {"cancel", "charge"}, NEW due \in SUBSET Charges, TaskRead(stage, due)
       PROVE  NeverFree' /\ SucceededIsPaid'
  BY <1>9 DEF TaskRead, SucceededIsPaid, NeverFree, Live, rows, stripe
<1>10. ASSUME NEW c \in Charges, TaskCancel(c)
        PROVE  NeverFree' /\ SucceededIsPaid'
  <2> DEFINE r == [task.seen[c] EXCEPT !.status = "cancelled"]
  <2>1. r.status = "cancelled"
    BY RowWithStatus DEF TypeOK, Tasks, Statuses
  <2>2. charge' = [charge EXCEPT ![c] = r] /\ intent' = intent
    BY <1>10 DEF TaskCancel, stripe
  <2> HIDE DEF r
  <2> QED
    BY <2>1, <2>2, WroteLive DEF Waiting
<1>11. ASSUME NEW c \in Charges, TaskCannotPay(c)
        PROVE  NeverFree' /\ SucceededIsPaid'
  BY <1>11 DEF TaskCannotPay, SucceededIsPaid, NeverFree, Live, rows, stripe
<1>12. ASSUME NEW c \in Charges, NEW i \in Intents, TaskAnswerLost(c, i)
        PROVE  NeverFree' /\ SucceededIsPaid'
  BY <1>12, PayPaid DEF TaskAnswerLost, Outcomes
<1>13. ASSUME NEW c \in Charges, NEW i \in Intents, NEW how \in Outcomes, TaskPay(c, i, how)
        PROVE  NeverFree' /\ SucceededIsPaid'
  BY <1>13, PayPaid DEF TaskPay
<1>14. ASSUME TaskWrite
        PROVE  NeverFree' /\ SucceededIsPaid'
  <2> DEFINE r == [task.seen[task.paying] EXCEPT
                     !.status = IF task.failed THEN "failed" ELSE "processing"]
  <2>1. task.paying \in Charges /\ task.seen[task.paying] \in Rows
    BY <1>14 DEF TaskWrite, TypeOK, Tasks
  <2>2. r.status \in {"failed", "processing"}
    BY <2>1, RowWithStatus DEF Statuses
  <2>3. charge' = [charge EXCEPT ![task.paying] = r] /\ intent' = intent
    BY <1>14 DEF TaskWrite, stripe
  <2> HIDE DEF r
  <2> QED
    BY <2>1, <2>2, <2>3, WroteLive DEF Waiting
<1>15. ASSUME TaskStops
        PROVE  NeverFree' /\ SucceededIsPaid'
  BY <1>15 DEF TaskStops, SucceededIsPaid, NeverFree, Live, rows, stripe
<1>16. ASSUME NEW c \in Charges, EditRead(c)
        PROVE  NeverFree' /\ SucceededIsPaid'
  BY <1>16 DEF EditRead, SucceededIsPaid, NeverFree, Live, rows, stripe
<1>17. ASSUME NEW s \in Statuses, EditWrite(s)
        PROVE  NeverFree' /\ SucceededIsPaid'
  <2> DEFINE r == [edit.seen EXCEPT !.status = s]
  <2>1. edit.charge \in Charges /\ edit.seen.status \in Waiting
    BY <1>17 DEF EditWrite, Serving
  <2>2. s \in Waiting
    BY <1>17, <2>1 DEF EditWrite, Edited, Waiting
  <2>3. r.status = s
    BY RowWithStatus DEF TypeOK, Edits
  <2>4. charge' = [charge EXCEPT ![edit.charge] = r] /\ intent' = intent
    BY <1>17 DEF EditWrite, stripe
  <2> HIDE DEF r
  <2> QED
    BY <2>1, <2>2, <2>3, <2>4, WroteLive
<1>18. ASSUME EditRefused
        PROVE  NeverFree' /\ SucceededIsPaid'
  BY <1>18 DEF EditRefused, SucceededIsPaid, NeverFree, Live, rows, stripe
<1>19. ASSUME EndRead
        PROVE  NeverFree' /\ SucceededIsPaid'
  BY <1>19 DEF EndRead, SucceededIsPaid, NeverFree, Live, rows, stripe
<1>20. ASSUME EndSuspend
        PROVE  NeverFree' /\ SucceededIsPaid'
  BY <1>20 DEF EndSuspend, SucceededIsPaid, NeverFree, Live, rows, stripe
<1>21. ASSUME EndFails
        PROVE  NeverFree' /\ SucceededIsPaid'
  BY <1>21 DEF EndFails, SucceededIsPaid, NeverFree, Live, rows, stripe
<1>22. ASSUME EndCommit
        PROVE  NeverFree' /\ SucceededIsPaid'
  BY <1>22 DEF EndCommit, SucceededIsPaid, NeverFree, Live, rows, stripe
<1>23. CASE UNCHANGED vars
  BY <1>23 DEF vars, SucceededIsPaid, NeverFree, Live, rows, stripe
<1>24. CASE Stripe
  BY <1>24, <1>1, <1>2, <1>3 DEF Stripe
<1>25. ASSUME NEW e \in Events, Webhook(e)
      PROVE  NeverFree' /\ SucceededIsPaid'
  BY <1>25, <1>4, <1>5, <1>6, <1>7, <1>8 DEF Webhook
<1>26. CASE IndexBilling
  BY <1>26, <1>9, <1>10, <1>11, <1>12, <1>13, <1>14, <1>15 DEF IndexBilling
<1>27. CASE Edit
  BY <1>27, <1>16, <1>17, <1>18 DEF Edit
<1>28. CASE Unprovision
  BY <1>28, <1>19, <1>20, <1>21, <1>22 DEF Unprovision
<1> QED
  BY <1>23, <1>24, <1>25, <1>26, <1>27, <1>28 DEF Next

LEMMA PaidAlways == Spec => [](Serving /\ SucceededIsPaid /\ NeverFree)
<1> DEFINE Inv == TypeOK /\ Asked /\ Serving /\ SucceededIsPaid /\ NeverFree
<1>1. Init => Inv
  <2> SUFFICES ASSUME Init PROVE Serving /\ SucceededIsPaid /\ NeverFree
    BY InitType
  <2>1. Serving
    BY DEF Init, Serving, NoHook
  <2>2. \A c \in Charges : charge[c].status \in {"none", "open"}
    BY RowWithStatus, Constants DEF Init, NoRow, Statuses
  <2>3. SucceededIsPaid
    BY <2>2 DEF SucceededIsPaid
  <2>4. Begun => 1 \in Charges /\ charge[1] = [NoRow EXCEPT !.status = "open"]
    BY BillingAssumption DEF Init, Charges
  <2>5. NeverFree
    BY <2>4, RowWithStatus, Constants DEF NeverFree, Init, Live, Statuses
  <2> QED
    BY <2>1, <2>3, <2>5
<1>2. Inv /\ [Next]_vars => Inv'
  BY TypeStep, AskedStep, ServingStep, PaidStep
<1> QED
  BY <1>1, <1>2, PTL DEF Spec

\* Only a charge for which Stripe has taken a payment is ever recorded as paid, in
\* whatever order webhooks, tasks and edits read and write the rows.
THEOREM SucceededPaid == Spec => []SucceededIsPaid
BY PaidAlways, PTL

\* A subscription that is provisioned always has a charge to come, whatever overwrites
\* what and whatever fails.
THEOREM NotFree == Spec => []NeverFree
BY PaidAlways, PTL

----------------------------------------------------------------------------
(* Nobody pays twice *)

\* Rows do not vanish, so what index_billing works on has one; and a webhook that
\* will make the next charge is the only one to know its number.
Shaped ==
    /\ \A i, j \in Intents : i < j /\ intent[j] # NoIntent => intent[i] # NoIntent
    /\ task.stage = "idle" => task = NoTask
    /\ task.stage = "cancel" => task.paying = 0 /\ \A c \in task.todo : task.seen[c].status = "failed"
    /\ task.paying # 0 => task.paying \in task.todo
    /\ \A c \in task.todo : charge[c] # NoRow
    /\ \A e \in Events : hook[e].stage = "serving" /\ charge[hook[e].next] = NoRow =>
          \A i \in Intents : intent[i].charge # hook[e].next

\* The payment was taken or may be
Active(i, c) == intent[i].charge = c /\ intent[i].state \in {"processing", "succeeded"}

\* index_billing has had this charge paid and has not written that yet
Unwritten(c) == task.paying = c /\ ~task.failed

\* The charges whose row was not overwritten, and of whose payments the task knows
Clean == Charges \ (raced \cup untold)

\* A payment that counts is the last one of its charge, and index_billing knows of it,
\* from the row or as it has just made it.
Single ==
    \A c \in Clean, i \in Intents : Active(i, c) =>
       /\ \A j \in Intents : intent[j].charge = c => j <= i
       /\ charge[c] = NoRow \/ charge[c].status \in {"processing", "succeeded"} \/ Unwritten(c)
       /\ c \in task.todo /\ task.stage = "charge" => Unwritten(c)

\* What was overwritten or lost stays so
LEMMA HistoryKept ==
    ASSUME [Next]_vars
    PROVE  raced \subseteq raced' /\ untold \subseteq untold' /\ extra \subseteq extra'
<1>1. CASE Stripe \/ Edit \/ Unprovision \/ UNCHANGED vars
  BY <1>1 DEF Stripe, Edit, Unprovision, Settle, Buy, Redeem, EditRead, EditWrite, EditRefused,
              EndRead, EndSuspend, EndFails, EndCommit, vars, history
<1>2. CASE \E e \in Events : Webhook(e)
  BY <1>2 DEF Webhook, HookRead, HookWrite, HookServe, HookCommit, HookFails, history
<1>3. CASE IndexBilling
  BY <1>3 DEF IndexBilling, TaskRead, TaskPay, TaskCannotPay, TaskAnswerLost, TaskCancel,
              TaskWrite, TaskStops, history
<1> QED
  BY <1>1, <1>2, <1>3 DEF Next

LEMMA NoRowStatus == NoRow.status = "none" /\ NoRow.kind = "subscription"
  BY DEF NoRow

LEMMA WroteRow ==
    ASSUME TypeOK, NEW c \in Charges, NEW r, charge' = [charge EXCEPT ![c] = r]
    PROVE  charge'[c] = r /\ \A d \in Charges : d # c => charge'[d] = charge[d]
  BY DEF TypeOK

\* What each write of a row leaves in it
LEMMA RowWrites ==
    ASSUME TypeOK, Asked, Serving
    PROVE  /\ \A c \in Charges : TaskCancel(c) =>
                 /\ charge'[c].status = "cancelled"
                 /\ \A d \in Charges : d # c => charge'[d] = charge[d]
           /\ TaskWrite =>
                 /\ task.paying \in Charges
                 /\ charge'[task.paying].status = IF task.failed THEN "failed" ELSE "processing"
                 /\ \A d \in Charges : d # task.paying => charge'[d] = charge[d]
           /\ \A s \in Statuses : EditWrite(s) =>
                 /\ edit.charge \in Charges /\ edit.seen.status \in Waiting
                 /\ charge'[edit.charge].status \in Waiting
                 /\ \A d \in Charges : d # edit.charge => charge'[d] = charge[d]
           /\ \A c \in Charges : Redeem(c) =>
                 /\ charge'[c].status = "expiring"
                 /\ \A d \in Charges : d # c => charge'[d] = charge[d]
           /\ \A e \in Events : HookWrite(e) =>
                 \/ charge' = charge
                 \/ /\ charge'[intent[e[1]].charge].status = e[2]
                    /\ \A d \in Charges : d # intent[e[1]].charge => charge'[d] = charge[d]
           /\ \A e \in Events : HookCommit(e) =>
                 /\ charge'[intent[e[1]].charge].status = "succeeded"
                 /\ charge'[hook[e].next] = Next1(e) /\ Next1(e).status \in Waiting
                 /\ \A d \in Charges \ {intent[e[1]].charge, hook[e].next} : charge'[d] = charge[d]
<1>1. ASSUME NEW c \in Charges, TaskCancel(c)
      PROVE  charge'[c].status = "cancelled" /\ \A d \in Charges : d # c => charge'[d] = charge[d]
  <2> DEFINE r == [task.seen[c] EXCEPT !.status = "cancelled"]
  <2>1. r.status = "cancelled"
    BY RowWithStatus DEF TypeOK, Tasks, Statuses
  <2>2. charge' = [charge EXCEPT ![c] = r]
    BY <1>1 DEF TaskCancel
  <2> HIDE DEF r
  <2> QED
    BY <2>1, <2>2, WroteRow
<1>2. ASSUME TaskWrite
      PROVE  /\ task.paying \in Charges
             /\ charge'[task.paying].status = IF task.failed THEN "failed" ELSE "processing"
             /\ \A d \in Charges : d # task.paying => charge'[d] = charge[d]
  <2> DEFINE r == [task.seen[task.paying] EXCEPT
                     !.status = IF task.failed THEN "failed" ELSE "processing"]
  <2>1. task.paying \in Charges /\ task.seen[task.paying] \in Rows
    BY <1>2 DEF TaskWrite, TypeOK, Tasks
  <2>2. r.status = IF task.failed THEN "failed" ELSE "processing"
    BY <2>1, RowWithStatus DEF Statuses
  <2>3. charge' = [charge EXCEPT ![task.paying] = r]
    BY <1>2 DEF TaskWrite
  <2> HIDE DEF r
  <2> QED
    BY <2>1, <2>2, <2>3, WroteRow
<1>3. ASSUME NEW s \in Statuses, EditWrite(s)
      PROVE  /\ edit.charge \in Charges /\ edit.seen.status \in Waiting
             /\ charge'[edit.charge].status \in Waiting
             /\ \A d \in Charges : d # edit.charge => charge'[d] = charge[d]
  <2> DEFINE r == [edit.seen EXCEPT !.status = s]
  <2>1. edit.charge \in Charges /\ edit.seen.status \in Waiting
    BY <1>3 DEF EditWrite, Serving
  <2>2. s \in Waiting
    BY <1>3, <2>1 DEF EditWrite, Edited, Waiting
  <2>3. r.status = s
    BY RowWithStatus DEF TypeOK, Edits
  <2>4. charge' = [charge EXCEPT ![edit.charge] = r]
    BY <1>3 DEF EditWrite
  <2> HIDE DEF r
  <2> QED
    BY <2>1, <2>2, <2>3, <2>4, WroteRow
<1>4. ASSUME NEW c \in Charges, Redeem(c)
      PROVE  charge'[c].status = "expiring" /\ \A d \in Charges : d # c => charge'[d] = charge[d]
  <2> DEFINE r == [charge[c] EXCEPT !.status = "expiring"]
  <2>1. r.status = "expiring"
    BY RowWithStatus DEF TypeOK, Statuses
  <2>2. charge' = [charge EXCEPT ![c] = r]
    BY <1>4 DEF Redeem
  <2> HIDE DEF r
  <2> QED
    BY <2>1, <2>2, WroteRow
<1>5. ASSUME NEW e \in Events, HookWrite(e)
      PROVE  \/ charge' = charge
             \/ /\ charge'[intent[e[1]].charge].status = e[2]
                /\ \A d \in Charges : d # intent[e[1]].charge => charge'[d] = charge[d]
  <2>1. intent[e[1]].charge \in Charges /\ Written(e).status = e[2]
    BY <1>5 DEF HookWrite, Asked, Written
  <2>2. charge' = charge \/ charge' = [charge EXCEPT ![intent[e[1]].charge] = Written(e)]
    BY <1>5 DEF HookWrite, rows
  <2> QED
    BY <2>1, <2>2, WroteRow
<1>6. ASSUME NEW e \in Events, HookCommit(e)
      PROVE  /\ charge'[intent[e[1]].charge].status = "succeeded"
             /\ charge'[hook[e].next] = Next1(e) /\ Next1(e).status \in Waiting
             /\ \A d \in Charges \ {intent[e[1]].charge, hook[e].next} : charge'[d] = charge[d]
  <2>1. /\ charge' = [charge EXCEPT ![intent[e[1]].charge] = Written(e), ![hook[e].next] = Next1(e)]
        /\ hook[e].stage = "serving" /\ e \in events
    BY <1>6 DEF HookCommit, Asked
  <2>2. /\ intent[e[1]].charge \in Charges /\ hook[e].next \in Charges
        /\ hook[e].next # intent[e[1]].charge /\ Written(e).status = "succeeded"
    BY <2>1 DEF Asked, Serving, Written
  <2>3. Next1(e).status \in Waiting
    <3>1. hook[e].nextSeen \in Rows /\ hook[e].nextSeen.status \in Waiting \cup {"none"}
      BY <2>1 DEF Serving, TypeOK, Hooks
    <3> QED
      BY <3>1, RowWithStatus DEF Next1, Waiting, Statuses
  <2> QED
    BY <2>1, <2>2, <2>3 DEF TypeOK
<1> QED
  BY <1>1, <1>2, <1>3, <1>4, <1>5, <1>6

\* The actions that write no row
LEMMA OtherRows ==
    ASSUME [Next]_vars
    PROVE  \/ charge' = charge
           \/ \E c \in Charges : TaskCancel(c) \/ Redeem(c)
           \/ TaskWrite
           \/ \E s \in Statuses : EditWrite(s)
           \/ \E e \in Events : HookWrite(e) \/ HookCommit(e)
  BY DEF Next, Stripe, Webhook, IndexBilling, Edit, Unprovision, Settle, Buy, HookRead,
         HookServe, HookFails, TaskRead, TaskPay, TaskCannotPay, TaskAnswerLost, TaskStops,
         EditRead, EditRefused, EndRead, EndSuspend, EndFails, EndCommit, vars, rows

LEMMA RowsStay ==
    ASSUME TypeOK, Asked, Serving, [Next]_vars, NEW d \in Charges, charge[d] # NoRow
    PROVE  charge'[d] # NoRow
<1>1. charge' = charge => charge'[d] # NoRow
  OBVIOUS
<1>2. ASSUME NEW c \in Charges, TaskCancel(c) \/ Redeem(c) PROVE charge'[d] # NoRow
  BY <1>2, RowWrites, NoRowStatus
<1>3. TaskWrite => charge'[d] # NoRow
  BY RowWrites, NoRowStatus
<1>4. ASSUME NEW s \in Statuses, EditWrite(s) PROVE charge'[d] # NoRow
  BY <1>4, RowWrites, NoRowStatus DEF Waiting
<1>5. ASSUME NEW e \in Events, HookWrite(e) PROVE charge'[d] # NoRow
  BY <1>5, RowWrites, NoRowStatus DEF Events, Outcomes
<1>6. ASSUME NEW e \in Events, HookCommit(e) PROVE charge'[d] # NoRow
  BY <1>6, RowWrites, NoRowStatus DEF Waiting
<1> QED
  BY <1>1, <1>2, <1>3, <1>4, <1>5, <1>6, OtherRows

LEMMA DoneTask ==
    ASSUME TypeOK, Shaped, NEW c \in Charges, task.stage # "idle"
    PROVE  /\ Done(c).todo = task.todo \ {c} /\ Done(c).paying = 0
           /\ Done(c).stage = "idle" => Done(c) = NoTask
           /\ Done(c).stage # "idle" => Done(c).stage = task.stage
           /\ \A d \in Done(c).todo : Done(c).seen[d] = task.seen[d]
<1>1. CASE task.todo \ {c} = {}
  BY <1>1 DEF Done, NoTask
<1>2. CASE task.todo \ {c} # {}
  <2>1. Done(c) = [task EXCEPT !.todo = task.todo \ {c}, !.seen[c] = NoRow, !.paying = 0,
                               !.failed = FALSE]
    BY <1>2 DEF Done
  <2>2. task \in Tasks
    BY DEF TypeOK
  <2> QED
    BY <2>1, <2>2 DEF Tasks
<1> QED
  BY <1>1, <1>2

\* What index_billing works on keeps its shape
LEMMA TaskShaped ==
    ASSUME TypeOK, Asked, Serving, Shaped, [Next]_vars
    PROVE  /\ task'.stage = "idle" => task' = NoTask
           /\ task'.stage = "cancel" =>
                 task'.paying = 0 /\ \A c \in task'.todo : task'.seen[c].status = "failed"
           /\ task'.paying # 0 => task'.paying \in task'.todo
           /\ \A c \in task'.todo : charge'[c] # NoRow
<1> DEFINE Kept == /\ task'.stage = "idle" => task' = NoTask
                   /\ task'.stage = "cancel" =>
                         task'.paying = 0 /\ \A c \in task'.todo : task'.seen[c].status = "failed"
                   /\ task'.paying # 0 => task'.paying \in task'.todo
                   /\ task'.todo \subseteq Charges
                   /\ \A c \in task'.todo : charge[c] # NoRow
<1>1. task' = task => Kept
  BY DEF Shaped, TypeOK, Tasks
<1>2. ASSUME NEW stage \in {"cancel", "charge"}, NEW due \in SUBSET Charges, TaskRead(stage, due)
      PROVE  Kept
  <2>1. /\ task'.stage = stage /\ task'.todo = due /\ task'.paying = 0
        /\ \A c \in due : task'.seen[c] = charge[c]
    BY <1>2 DEF TaskRead, NoTask
  <2>2. \A c \in due : /\ charge[c].status \in {"open", "failed"}
                       /\ stage = "cancel" => charge[c].status = "failed"
    BY <1>2 DEF TaskRead, Cancellable, Chargeable
  <2> QED
    BY <1>2, <2>1, <2>2, NoRowStatus
<1>3. ASSUME NEW c \in Charges, TaskCancel(c) \/ (TaskWrite /\ c = task.paying) PROVE Kept
  <2>1. task' = Done(c) /\ task.stage # "idle"
    BY <1>3 DEF TaskCancel, TaskWrite, Shaped, NoTask
  <2>2. NoTask.todo = {} /\ NoTask.paying = 0 /\ NoTask.stage = "idle"
    BY DEF NoTask
  <2> QED
    BY <2>1, <2>2, DoneTask DEF Shaped, TypeOK, Tasks
<1>4. ASSUME NEW c \in Charges, NEW b \in BOOLEAN, task.stage = "charge", c \in task.todo,
             task' = [task EXCEPT !.paying = c, !.failed = b]
      PROVE  Kept
  <2>1. /\ task'.stage = "charge" /\ task'.todo = task.todo /\ task'.paying = c
    BY <1>4 DEF TypeOK, Tasks
  <2> QED
    BY <1>4, <2>1 DEF Shaped, TypeOK, Tasks
<1>5. TaskStops => Kept
  BY DEF TaskStops, NoTask
<1>6. \/ task' = task
      \/ \E stage \in {"cancel", "charge"}, due \in SUBSET Charges : TaskRead(stage, due)
      \/ \E c \in Charges : TaskCancel(c) \/ (TaskWrite /\ c = task.paying)
      \/ \E c \in Charges, b \in BOOLEAN :
            task.stage = "charge" /\ c \in task.todo /\ task' = [task EXCEPT !.paying = c, !.failed = b]
      \/ TaskStops
  <2>1. CASE Stripe \/ Edit \/ Unprovision \/ \E e \in Events : Webhook(e)
    BY <2>1 DEF Stripe, Edit, Unprovision, Webhook, Settle, Buy, Redeem, HookRead, HookWrite,
                HookServe, HookCommit, HookFails, EditRead, EditWrite, EditRefused, EndRead,
                EndSuspend, EndFails, EndCommit
  <2>2. CASE IndexBilling
    <3>1. TaskWrite => task.paying \in Charges
      BY RowWrites
    <3> QED
      BY <2>2, <3>1 DEF IndexBilling, TaskPay, TaskCannotPay, TaskAnswerLost
  <2> QED
    BY <2>1, <2>2 DEF Next, vars
<1>7. Kept
  BY <1>1, <1>2, <1>3, <1>4, <1>5, <1>6
<1> QED
  BY <1>7, RowsStay

\* How the payment intents change: one settles, or a new one is made for a charge that
\* is being bought or that index_billing works on
LEMMA IntentSteps ==
    ASSUME [Next]_vars
    PROVE  \/ intent' = intent
           \/ \E i \in Intents, how \in Outcomes : Settle(i, how)
           \/ \E i \in Intents, c \in Charges, what \in Payments, how \in Outcomes :
                 /\ Pay(i, c, what, how)
                 /\ charge' = charge /\ hook' = hook
                 /\ \/ FreshCharge(c) /\ task' = task
                    \/ /\ task.stage = "charge" /\ task.paying = 0 /\ c \in task.todo
                       /\ task' = [task EXCEPT !.paying = c, !.failed = how = "failed"]
                    \/ /\ task.stage = "charge" /\ task.paying = 0 /\ c \in task.todo
                       /\ task' = [task EXCEPT !.paying = c, !.failed = TRUE]
                       /\ c \in untold'
<1> DEFINE New(i, c, what, how) ==
              /\ Pay(i, c, what, how)
              /\ charge' = charge /\ hook' = hook
              /\ \/ FreshCharge(c) /\ task' = task
                 \/ /\ task.stage = "charge" /\ task.paying = 0 /\ c \in task.todo
                    /\ task' = [task EXCEPT !.paying = c, !.failed = how = "failed"]
                 \/ /\ task.stage = "charge" /\ task.paying = 0 /\ c \in task.todo
                    /\ task' = [task EXCEPT !.paying = c, !.failed = TRUE]
                    /\ c \in untold'
<1>1. \A i, c, what, how : Buy(i, c, what, how) => New(i, c, what, how)
  BY DEF Buy, rows
<1>2. \A i, c, how : TaskPay(c, i, how) => New(i, c, "renewal", how)
  BY DEF TaskPay, rows
<1>3. \A i, c : TaskAnswerLost(c, i) => New(i, c, "renewal", "succeeded")
  BY DEF TaskAnswerLost, rows
<1>4. "renewal" \in Payments /\ "succeeded" \in Outcomes
  BY DEF Payments, Outcomes
<1> HIDE DEF New
<1>5. CASE Stripe
  <2>1. ASSUME NEW i \in Intents, NEW c \in Charges, NEW what \in Payments, NEW how \in Outcomes,
               Buy(i, c, what, how)
        PROVE  \E j \in Intents, d \in Charges, w \in Payments, h \in Outcomes : New(j, d, w, h)
    BY <1>1, <2>1
  <2>2. \/ intent' = intent
        \/ \E i \in Intents, how \in Outcomes : Settle(i, how)
        \/ \E i \in Intents, c \in Charges, what \in Payments, how \in Outcomes :
              Buy(i, c, what, how)
    BY <1>5 DEF Stripe, Redeem, stripe
  <2> QED
    BY <2>1, <2>2 DEF New
<1>6. CASE IndexBilling
  <2>1. ASSUME NEW c \in Charges, NEW i \in Intents, NEW how \in Outcomes, TaskPay(c, i, how)
        PROVE  \E j \in Intents, d \in Charges, what \in Payments, h \in Outcomes :
                  New(j, d, what, h)
    BY <1>2, <1>4, <2>1
  <2>2. ASSUME NEW c \in Charges, NEW i \in Intents, TaskAnswerLost(c, i)
        PROVE  \E j \in Intents, d \in Charges, what \in Payments, h \in Outcomes :
                  New(j, d, what, h)
    BY <1>3, <1>4, <2>2
  <2>3. \/ intent' = intent
        \/ \E c \in Charges, i \in Intents, how \in Outcomes : TaskPay(c, i, how)
        \/ \E c \in Charges, i \in Intents : TaskAnswerLost(c, i)
    BY <1>6 DEF IndexBilling, TaskRead, TaskCannotPay, TaskCancel, TaskWrite, TaskStops, stripe
  <2> QED
    BY <2>1, <2>2, <2>3 DEF New
<1>7. CASE Edit \/ Unprovision \/ \E e \in Events : Webhook(e)
  BY <1>7 DEF Webhook, Edit, Unprovision, HookRead, HookWrite, HookServe, HookCommit, HookFails,
              EditRead, EditWrite, EditRefused, EndRead, EndSuspend, EndFails, EndCommit, stripe
<1>8. CASE UNCHANGED vars
  BY <1>8 DEF vars, stripe
<1> QED
  BY <1>5, <1>6, <1>7, <1>8 DEF Next, New

LEMMA PayIntent ==
    ASSUME TypeOK, Shaped, NEW i \in Intents, NEW c \in Charges, NEW what, NEW how, Pay(i, c, what, how)
    PROVE  /\ intent[i] = NoIntent /\ intent'[i].charge = c /\ intent'[i].state = how
           /\ intent'[i] # NoIntent
           /\ \A j \in Intents : j # i => intent'[j] = intent[j]
           /\ \A j \in Intents : j > i => intent[j] = NoIntent
<1>1. intent' = [intent EXCEPT ![i] = [charge |-> c, kind |-> IF what = "proration" THEN what
                                                             ELSE "subscription", state |-> how]]
  BY DEF Pay
<1>2. c # 0
  BY BillingAssumption DEF Charges
<1> QED
  BY <1>1, <1>2 DEF TypeOK, Pay, FreshIntent, Shaped, NoIntent

LEMMA SettleIntent ==
    ASSUME TypeOK, NEW i \in Intents, NEW how \in Outcomes, Settle(i, how)
    PROVE  /\ intent[i].state = "processing" /\ intent'[i].state = how /\ intent'[i] # NoIntent
           /\ \A j \in Intents : j # i => intent'[j] = intent[j]
           /\ \A j \in Intents : intent'[j].charge = intent[j].charge
<1>1. intent' = [intent EXCEPT ![i] = [intent[i] EXCEPT !.state = how]] /\ intent[i] \in Deals
      /\ how # "none"
  BY DEF Settle, TypeOK
<1>2. [intent[i] EXCEPT !.state = how].charge = intent[i].charge
      /\ [intent[i] EXCEPT !.state = how].state = how
  BY <1>1 DEF Deals
<1> QED
  BY <1>1, <1>2 DEF TypeOK, NoIntent, Settle

LEMMA ShapedStep ==
    ASSUME TypeOK, Asked, Serving, Shaped, [Next]_vars
    PROVE  Shaped'
<1>1. ASSUME NEW i \in Intents, NEW j \in Intents, i < j, intent'[j] # NoIntent
      PROVE  intent'[i] # NoIntent
  <2>1. CASE intent' = intent
    BY <1>1, <2>1 DEF Shaped
  <2>2. ASSUME NEW k \in Intents, NEW how \in Outcomes, Settle(k, how)
        PROVE  intent'[i] # NoIntent
    <3>1. intent[k] # NoIntent
      BY <2>2 DEF Settle, NoIntent
    <3> QED
      BY <1>1, <2>2, <3>1, SettleIntent DEF Shaped
  <2>3. ASSUME NEW k \in Intents, NEW c \in Charges, NEW what, NEW how, Pay(k, c, what, how)
        PROVE  intent'[i] # NoIntent
    BY <1>1, <2>3, PayIntent DEF Shaped, Pay, FreshIntent, Intents
  <2> QED
    BY <2>1, <2>2, <2>3, IntentSteps
<1>2. ASSUME NEW e \in Events, hook'[e].stage = "serving", charge'[hook'[e].next] = NoRow,
             NEW i \in Intents
      PROVE  intent'[i].charge # hook'[e].next
  <2>1. CASE hook'[e] = hook[e]
    <3>1. hook[e].next \in Charges /\ charge[hook[e].next] = NoRow
          /\ hook[e].next \in UsedCharges
      BY <1>2, <2>1, RowsStay DEF Serving, UsedCharges
    <3>2. intent[i].charge # hook[e].next
      BY <1>2, <2>1, <3>1 DEF Shaped
    <3>3. ASSUME NEW k \in Intents, NEW how \in Outcomes, Settle(k, how)
          PROVE  intent'[i].charge # hook'[e].next
      BY <2>1, <3>2, <3>3, SettleIntent
    <3>4. ASSUME NEW k \in Intents, NEW c \in Charges, NEW what, NEW how, Pay(k, c, what, how),
                 FreshCharge(c) \/ c \in task.todo
          PROVE  intent'[i].charge # hook'[e].next
      BY <2>1, <3>1, <3>2, <3>4, PayIntent DEF FreshCharge, Shaped
    <3> QED
      BY <2>1, <3>2, <3>3, <3>4, IntentSteps
  <2>2. CASE hook'[e] # hook[e]
    <3>1. PICK f \in Events, next \in Charges : HookServe(f, next)
      <4>1. \A f \in Events : HookRead(f) => hook'[e] = hook[e] \/ hook'[e].stage = "read"
        BY DEF HookRead, TypeOK, NoHook
      <4>2. \A f \in Events : HookWrite(f) \/ HookCommit(f) \/ HookFails(f) =>
                               hook'[e] = hook[e] \/ hook'[e].stage = "idle"
        BY DEF HookWrite, HookCommit, HookFails, TypeOK, NoHook
      <4>3. TaskStops => hook'[e].stage = "idle"
        BY DEF TaskStops, NoHook
      <4> QED
        BY <1>2, <2>2, <4>1, <4>2, <4>3 DEF Next, Stripe, Webhook, IndexBilling, Edit,
           Unprovision, Settle, Buy, Redeem, TaskRead, TaskPay, TaskCannotPay, TaskAnswerLost,
           TaskCancel, TaskWrite, EditRead, EditWrite, EditRefused, EndRead, EndSuspend,
           EndFails, EndCommit, vars
    <3>2. hook'[e].next = next /\ charge' = charge /\ intent' = intent
      BY <2>2, <3>1 DEF HookServe, TypeOK, Hooks, rows, stripe
    <3>3. ~Open(next)
      BY <1>2, <3>2, NoRowStatus DEF Open
    <3>4. FreshCharge(next)
      BY <3>1, <3>3 DEF HookServe
    <3> QED
      BY <3>2, <3>4 DEF FreshCharge, UsedCharges
  <2> QED
    BY <2>1, <2>2
<1> QED
  BY <1>1, <1>2, TaskShaped DEF Shaped

\* A payment is made for a charge that has none yet
LEMMA SinglePay ==
    ASSUME TypeOK, Asked, Serving, Shaped, Single, [Next]_vars,
           NEW k \in Intents, NEW b \in Charges, NEW what, NEW how, NEW failed \in BOOLEAN,
           Pay(k, b, what, how), charge' = charge,
           \/ FreshCharge(b) /\ task' = task
           \/ /\ task.stage = "charge" /\ task.paying = 0 /\ b \in task.todo
              /\ task' = [task EXCEPT !.paying = b, !.failed = failed]
              /\ failed = (how = "failed") \/ b \in untold'
    PROVE  Single'
<1> SUFFICES ASSUME NEW c \in Clean', NEW i \in Intents, Active(i, c)'
             PROVE  /\ \A j \in Intents : intent'[j].charge = c => j <= i
                    /\ \/ charge[c] = NoRow \/ charge[c].status \in {"processing", "succeeded"}
                       \/ Unwritten(c)'
                    /\ c \in task'.todo /\ task'.stage = "charge" => Unwritten(c)'
  BY DEF Single
<1>0. /\ c \in Clean /\ c \in Charges /\ c \notin untold'
      /\ c # 0 /\ b # 0 /\ NoIntent.charge = 0 /\ i \in Int /\ k \in Int
  BY BillingAssumption, HistoryKept DEF Clean, Charges, NoIntent, Intents
<1>1. FreshCharge(b) => charge[b] = NoRow /\ \A j \in Intents : intent[j].charge # b
  BY DEF FreshCharge, UsedCharges
<1>2. task.paying = 0 => task'.todo = task.todo /\ task'.stage = task.stage
  BY DEF TypeOK, Tasks
<1>3. CASE i = k
  <2>1. c = b /\ how # "failed"
    BY <1>3, PayIntent DEF Active
  <2>2. ASSUME NEW j \in Intents, intent'[j].charge = c PROVE j <= i
    <3>1. ~(j > k)
      BY <1>0, <2>2, PayIntent
    <3> QED
      BY <1>3, <3>1 DEF Intents
  <2>3. CASE FreshCharge(b) /\ task' = task
    BY <1>1, <2>1, <2>2, <2>3 DEF Shaped
  <2>4. CASE /\ task' = [task EXCEPT !.paying = b, !.failed = failed]
             /\ failed = (how = "failed") \/ b \in untold'
    <3>1. Unwritten(c)'
      BY <1>0, <2>1, <2>4 DEF Unwritten, TypeOK, Tasks
    <3> QED
      BY <2>2, <3>1
  <2> QED
    BY <2>3, <2>4
<1>4. CASE i # k
  <2>1. Active(i, c)
    BY <1>4, PayIntent DEF Active
  <2>2. CASE FreshCharge(b) /\ task' = task
    <3>1. c # b
      BY <1>1, <2>1, <2>2 DEF Active
    <3> QED
      BY <1>0, <2>1, <2>2, <3>1, PayIntent DEF Single, Unwritten
  <2>3. CASE task.stage = "charge" /\ task.paying = 0 /\ b \in task.todo
    <3>1. ~Unwritten(c) /\ c \notin task.todo
      BY <1>0, <2>1, <2>3 DEF Single, Unwritten
    <3>2. c # b
      BY <2>3, <3>1
    <3> QED
      BY <1>0, <1>2, <2>1, <2>3, <3>1, <3>2, PayIntent DEF Single
  <2> QED
    BY <2>2, <2>3
<1> QED
  BY <1>3, <1>4

LEMMA SingleStep ==
    ASSUME TypeOK, Asked, Serving, Shaped, Single, [Next]_vars
    PROVE  Single'
<1>1. ASSUME NEW i \in Intents, NEW how \in Outcomes, Settle(i, how) PROVE Single'
  <2>1. charge' = charge /\ task' = task
    BY <1>1 DEF Settle, rows
  <2>2. \A j \in Intents, c \in Charges : Active(j, c)' => Active(j, c)
    BY <1>1, SettleIntent DEF Active
  <2>3. Clean' \subseteq Clean /\ Clean \subseteq Charges
    BY HistoryKept DEF Clean
  <2> QED
    BY <1>1, <2>1, <2>2, <2>3, SettleIntent DEF Single, Unwritten
<1>2. CASE intent' = intent
  <2> SUFFICES ASSUME NEW c \in Clean', NEW i \in Intents, Active(i, c)
               PROVE  /\ \/ charge'[c] = NoRow \/ charge'[c].status \in {"processing", "succeeded"}
                         \/ Unwritten(c)'
                      /\ c \in task'.todo /\ task'.stage = "charge" => Unwritten(c)'
    BY <1>2, HistoryKept DEF Single, Active, Clean
  <2>0. /\ c # 0 /\ intent[i].charge = c
        /\ c \in Clean /\ c \in Charges /\ c \notin raced' /\ c \notin untold'
    BY BillingAssumption, HistoryKept DEF Clean, Charges, Active
  <2> DEFINE Known == charge[c] = NoRow \/ charge[c].status \in {"processing", "succeeded"}
             Goal == /\ \/ charge'[c] = NoRow \/ charge'[c].status \in {"processing", "succeeded"}
                        \/ Unwritten(c)'
                     /\ c \in task'.todo /\ task'.stage = "charge" => Unwritten(c)'
  <2>1. /\ Known \/ Unwritten(c)
        /\ c \in task.todo /\ task.stage = "charge" => Unwritten(c)
        /\ task.paying = 0 => ~Unwritten(c)
    BY <2>0 DEF Single, Unwritten
  <2>2. task' = task /\ charge'[c] = charge[c] => Goal
    BY <2>1 DEF Unwritten
  <2>3. ASSUME NEW d \in Charges, Redeem(d) PROVE Goal
    <3>1. c # d /\ task' = task
      BY <2>0, <2>3 DEF Redeem, FreshCharge, UsedCharges
    <3> QED
      BY <2>0, <2>2, <2>3, <3>1, RowWrites
  <2>4. ASSUME NEW stage \in {"cancel", "charge"}, NEW due \in SUBSET Charges,
               TaskRead(stage, due)
        PROVE  Goal
    <3>1. task.paying = 0 /\ charge' = charge /\ task'.todo = due /\ task'.stage = stage
      BY <2>4 DEF TaskRead, Shaped, NoTask, rows
    <3>2. Known
      BY <2>1, <3>1
    <3>3. c \in due /\ stage = "charge" => charge[c].status \in {"open", "failed"}
      BY <2>4 DEF TaskRead, Chargeable
    <3> QED
      BY <3>1, <3>2, <3>3, NoRowStatus
  <2>5. ASSUME NEW d \in Charges, TaskCannotPay(d) PROVE Goal
    <3>1. /\ task.paying = 0 /\ task.stage = "charge" /\ d \in task.todo /\ charge' = charge
          /\ task'.todo = task.todo
      BY <2>5 DEF TaskCannotPay, rows, TypeOK, Tasks
    <3> QED
      BY <2>1, <3>1
  <2>6. ASSUME NEW d \in Charges, TaskCancel(d) PROVE Goal
    <3>1. /\ task.stage = "cancel" /\ task.paying = 0 /\ task' = Done(d)
          /\ c = d => charge[d] = task.seen[d]
          /\ task.seen[d].status = "failed"
      BY <2>0, <2>6 DEF TaskCancel, Race, Shaped
    <3>2. Known /\ c # d
      BY <2>1, <3>1, NoRowStatus
    <3>3. charge'[c] = charge[c]
      BY <2>0, <2>6, <3>2, RowWrites
    <3>4. task'.stage # "charge"
      BY <3>1, DoneTask
    <3> QED
      BY <3>2, <3>3, <3>4
  <2>7. ASSUME TaskWrite PROVE Goal
    <3>1. /\ task.paying \in Charges /\ task.paying # 0 /\ task' = Done(task.paying)
          /\ task.stage = "charge" /\ task.paying \in task.todo
      <4>1. task.stage \in {"idle", "cancel", "charge"} /\ NoTask.paying = 0
        BY DEF TypeOK, Tasks, NoTask
      <4> QED
        BY <2>7, <4>1, RowWrites DEF TaskWrite, Shaped
    <3>2. task'.todo = task.todo \ {task.paying}
      BY <3>1, DoneTask
    <3>3. CASE c = task.paying
      <4>1. ~task.failed
        BY <2>1, <3>1, <3>3 DEF Unwritten
      <4> QED
        BY <2>7, <3>2, <3>3, <4>1, RowWrites
    <3>4. CASE c # task.paying
      <4>1. Known /\ c \notin task.todo
        BY <2>1, <3>1, <3>4 DEF Unwritten
      <4> QED
        BY <2>0, <2>7, <3>2, <3>4, <4>1, RowWrites
    <3> QED
      BY <3>3, <3>4
  <2>8. ASSUME TaskStops PROVE Goal
    <3>1. charge' = charge /\ task'.todo = {} /\ ~Unwritten(c)
      BY <2>0, <2>8 DEF TaskStops, rows, NoTask, Unwritten
    <3> QED
      BY <2>1, <3>1
  <2>9. ASSUME NEW s \in Statuses, EditWrite(s) PROVE Goal
    <3>1. task' = task /\ (c = edit.charge => charge[edit.charge] = edit.seen)
      BY <2>0, <2>9 DEF EditWrite, Race
    <3>2. CASE c = edit.charge
      <4>1. Unwritten(c)
        BY <2>1, <2>9, <3>1, <3>2, RowWrites, NoRowStatus DEF Waiting
      <4> QED
        BY <3>1, <4>1 DEF Unwritten
    <3>3. CASE c # edit.charge
      BY <2>0, <2>2, <2>9, <3>1, <3>3, RowWrites
    <3> QED
      BY <3>2, <3>3
  <2>10. ASSUME NEW e \in Events, HookWrite(e) PROVE Goal
    <3>1. task' = task
      BY <2>10 DEF HookWrite
    <3>2. CASE charge'[c] = charge[c]
      BY <2>2, <3>1, <3>2
    <3>3. CASE charge'[c] # charge[c]
      <4>1. c = intent[e[1]].charge /\ charge'[c].status = e[2]
        BY <2>0, <2>10, <3>3, RowWrites
      <4>2. ~Old(e)
        BY <2>0, <2>10, <3>3, <4>1 DEF HookWrite, RaceOf, rows
      <4>3. e[1] \in Intents /\ e[1] <= i
        BY <2>0, <4>1 DEF Single, Events
      <4>4. ~(i > e[1])
        BY <2>0, <4>1, <4>2 DEF Old
      <4>5. e[1] = i
        BY <4>3, <4>4 DEF Intents
      <4>6. e[2] = intent[i].state
        BY <4>2, <4>5 DEF Old
      <4> QED
        BY <2>1, <3>1, <4>1, <4>6 DEF Active, Unwritten
    <3> QED
      BY <3>2, <3>3
  <2>11. ASSUME NEW e \in Events, HookCommit(e) PROVE Goal
    <3>1. /\ task' = task /\ hook[e].stage = "serving"
          /\ c = hook[e].next => charge[hook[e].next] = hook[e].nextSeen
      BY <2>0, <2>11 DEF HookCommit, Race
    <3>2. CASE c = intent[e[1]].charge
      BY <2>1, <2>11, <3>1, <3>2, RowWrites DEF Unwritten
    <3>3. CASE c = hook[e].next
      <4>1. charge[c] # NoRow
        BY <2>0, <3>1, <3>3 DEF Shaped
      <4>2. charge[c].status \in Waiting \cup {"none"}
        BY <3>1, <3>3 DEF Serving
      <4>3. CASE charge[c].status = "none"
        BY <2>1, <3>1, <4>1, <4>3 DEF Unwritten
      <4>4. CASE charge[c].status \in Waiting
        BY <2>1, <3>1, <4>1, <4>4 DEF Unwritten, Waiting
      <4> QED
        BY <4>2, <4>3, <4>4
    <3>4. CASE c \notin {intent[e[1]].charge, hook[e].next}
      BY <2>0, <2>2, <2>11, <3>1, <3>4, RowWrites
    <3> QED
      BY <3>2, <3>3, <3>4
  <2>12. \/ task' = task /\ charge' = charge
         \/ \E d \in Charges : Redeem(d) \/ TaskCannotPay(d) \/ TaskCancel(d)
         \/ \E stage \in {"cancel", "charge"}, due \in SUBSET Charges : TaskRead(stage, due)
         \/ TaskWrite \/ TaskStops
         \/ \E s \in Statuses : EditWrite(s)
         \/ \E e \in Events : HookWrite(e) \/ HookCommit(e)
    <3>1. ASSUME NEW d \in Charges, NEW k \in Intents, NEW how,
                 TaskPay(d, k, how) \/ TaskAnswerLost(d, k)
          PROVE  FALSE
      BY <1>2, <3>1, PayIntent DEF TaskPay, TaskAnswerLost
    <3>2. CASE IndexBilling
      BY <3>1, <3>2 DEF IndexBilling
    <3>3. CASE Stripe \/ Edit \/ Unprovision \/ (\E e \in Events : Webhook(e)) \/ UNCHANGED vars
      BY <3>3 DEF Stripe, Edit, Unprovision, Webhook, Settle, Buy, HookRead, HookServe, HookFails,
                  EditRead, EditRefused, EndRead, EndSuspend, EndFails, EndCommit, vars, rows
    <3> QED
      BY <3>2, <3>3 DEF Next
  <2> HIDE DEF Goal
  <2>13. Goal
    <3>1. CASE task' = task /\ charge' = charge
      BY <2>2, <3>1
    <3>2. CASE \E d \in Charges : Redeem(d) \/ TaskCannotPay(d) \/ TaskCancel(d)
      BY <2>3, <2>5, <2>6, <3>2
    <3>3. CASE \E stage \in {"cancel", "charge"}, due \in SUBSET Charges : TaskRead(stage, due)
      BY <2>4, <3>3
    <3>4. CASE \E s \in Statuses : EditWrite(s)
      BY <2>9, <3>4
    <3>5. CASE \E e \in Events : HookWrite(e) \/ HookCommit(e)
      BY <2>10, <2>11, <3>5
    <3> QED
      BY <2>7, <2>8, <2>12, <3>1, <3>2, <3>3, <3>4, <3>5
  <2> QED
    BY <2>13 DEF Goal
<1>3. ASSUME NEW k \in Intents, NEW b \in Charges, NEW what, NEW how, NEW failed \in BOOLEAN,
             Pay(k, b, what, how), charge' = charge,
             \/ FreshCharge(b) /\ task' = task
             \/ /\ task.stage = "charge" /\ task.paying = 0 /\ b \in task.todo
                /\ task' = [task EXCEPT !.paying = b, !.failed = failed]
                /\ failed = (how = "failed") \/ b \in untold'
      PROVE  Single'
  BY <1>3, SinglePay
<1> QED
  BY <1>1, <1>2, <1>3, IntentSteps

LEMMA SingleAlways == Spec => [](TypeOK /\ Asked /\ Serving /\ Shaped /\ Single)
<1> DEFINE Inv == TypeOK /\ Asked /\ Serving /\ Shaped /\ Single
<1>1. Init => Inv
  <2> SUFFICES ASSUME Init PROVE Serving /\ Shaped /\ Single
    BY InitType
  <2>1. Serving
    BY DEF Init, Serving, NoHook
  <2>2. /\ \A i \in Intents : intent[i] = NoIntent
        /\ \A e \in Events : hook[e].stage = "idle"
        /\ task = NoTask /\ NoTask.todo = {} /\ NoTask.paying = 0 /\ NoTask.stage = "idle"
        /\ NoIntent.state = "none"
    BY DEF Init, NoHook, NoTask, NoIntent
  <2> QED
    BY <2>1, <2>2 DEF Shaped, Single, Active
<1>2. Inv /\ [Next]_vars => Inv'
  BY TypeStep, AskedStep, ServingStep, ShapedStep, SingleStep
<1> QED
  BY <1>1, <1>2, PTL DEF Spec

\* Nobody pays twice for a charge, as long as its row was not overwritten after an
\* outdated read or by an old event, and index_billing learned of every payment it
\* made for it; what befalls other charges does not matter.
THEOREM OnePayment == Spec => []PaidOnce
<1>1. TypeOK /\ Asked /\ Single => PaidOnce
  <2> SUFFICES ASSUME TypeOK, Asked, Single, NEW i \in Intents, NEW j \in Intents,
                      intent[i].charge = intent[j].charge,
                      intent[i].state = "succeeded", intent[j].state = "succeeded",
                      intent[i].charge \notin raced \cup untold
               PROVE  i = j
    BY DEF PaidOnce
  <2>1. intent[i].charge \in Clean
    BY DEF Asked, Clean
  <2>2. i <= j /\ j <= i
    BY <2>1 DEF Single, Active
  <2> QED
    BY <2>2 DEF Intents
<1> QED
  BY <1>1, SingleAlways, PTL

----------------------------------------------------------------------------
(* There is one charge to come *)

\* The rows and events that everything begins with: a subscription exists before the
\* rows of its charges, and an intent is announced by an event.
Recorded ==
    /\ sub = "none" => \A c \in Charges : charge[c] = NoRow
    /\ \A e \in Events :
          hook[e].stage = "read" /\ hook[e].seen # NoRow /\ e[2] # "succeeded" => hook[e].sub # "none"
    /\ edit # NoEdit => charge[edit.charge] # NoRow
    /\ \A c \in Charges : charge[c].status = "none" => charge[c] = NoRow
    /\ \A i \in Intents : intent[i].state # "none" => <<i, intent[i].state>> \in events
    /\ \A c \in task.todo : task.seen[c].status \in {"open", "failed"}

\* The charges of the subscription that are not paid
Due(c) == charge[c].kind = "subscription" /\ Live(c)

NoRows == \A c \in Charges : charge[c] = NoRow

\* How a subscription begins: as long as it has no row there is at most one payment, the
\* first, and from then on there is a charge to come.  A payment whose event was handled
\* has a row, unless it was declined.
Started ==
    /\ NoRows \/ \E c \in Charges : Live(c)
    /\ NoRows => \A i, j \in Intents : intent[i] # NoIntent /\ intent[j] # NoIntent => i = j
    /\ \A i \in Intents : intent[i].state = "none" => intent[i] = NoIntent
    /\ \A e \in handled : e[2] # "failed" => charge[intent[e[1]].charge] # NoRow
    /\ \A i \in Intents : intent[i].state = "failed" /\ charge[intent[i].charge] = NoRow =>
          <<i, "processing">> \in events

\* Only the first payment takes a while and is for a charge without a row
FirstIsFirst ==
    \A i \in Intents : intent[i].kind = "subscription" /\ charge[intent[i].charge] = NoRow
                       /\ <<i, "processing">> \in events => NoRows

\* A webhook that has found no charge to come and will make one; alone, when no other
\* was being paid
Adds(e)  == hook[e].stage = "serving" /\ hook[e].nextSeen.status = "none"
Alone(e) == Adds(e) /\ ~hook[e].beside

\* A webhook that serves keeps the row of its charge locked.
SameRow(e, f) == /\ hook[e].stage = "serving" /\ hook[f].stage = "serving"
                 /\ intent[e[1]].charge = intent[f[1]].charge
LockedOnce    == \A e, f \in Events : SameRow(e, f) => e = f

\* Who finds none serves the charge that is to come, or the first.
AddsFirst == \A e \in Events : Alone(e) => Live(intent[e[1]].charge) \/ NoRows

\* The charges that are as they should be
Good == Clean \ extra

\* One of them is due.
OneDue == \A c, d \in Good : Due(c) /\ Due(d) => c = d

\* A webhook that makes a charge alone finds and leaves no other that is due, and no
\* other webhook does so meanwhile.
AddsToNone == \A e \in Events, c \in Good : Alone(e) /\ Due(c) => c = intent[e[1]].charge
OneAdds    == \A e, f \in Events : Alone(e) /\ Alone(f) => e = f

\* What Stripe and the webhooks have settled stays so
LEMMA StripeSteps ==
    ASSUME [Next]_vars
    PROVE  /\ handled \subseteq handled'
           /\ \/ intent' = intent /\ events' = events
              \/ \E i \in Intents, how \in {"succeeded", "failed"} : Settle(i, how)
              \/ \E i \in Intents, c \in Charges, what \in Payments, how \in Outcomes \ {"failed"} :
                    Buy(i, c, what, how)
              \/ \E i \in Intents, c \in Charges, how \in Outcomes : TaskPay(c, i, how)
              \/ \E i \in Intents, c \in Charges : TaskAnswerLost(c, i)
<1>1. CASE Stripe
  BY <1>1 DEF Stripe, Settle, Buy, Redeem, stripe
<1>2. CASE IndexBilling
  BY <1>2 DEF IndexBilling, TaskRead, TaskPay, TaskAnswerLost, TaskCannotPay, TaskCancel,
              TaskWrite, TaskStops, stripe
<1>3. CASE Edit \/ Unprovision \/ (\E e \in Events : Webhook(e)) \/ UNCHANGED vars
  BY <1>3 DEF Webhook, Edit, Unprovision, HookRead, HookWrite, HookServe, HookCommit, HookFails,
              EditRead, EditWrite, EditRefused, EndRead, EndSuspend, EndFails, EndCommit, vars,
              stripe
<1> QED
  BY <1>1, <1>2, <1>3 DEF Next

LEMMA PaySteps ==
    ASSUME [Next]_vars
    PROVE  \/ intent' = intent /\ events' = events
           \/ \E i \in Intents, how \in {"succeeded", "failed"} : Settle(i, how)
           \/ \E i \in Intents, c \in Charges, what \in Payments, how \in Outcomes :
                 Pay(i, c, what, how) /\ (how = "failed" => c \in task.todo)
<1>1. \A i, c, what, how : Buy(i, c, what, how) => Pay(i, c, what, how)
  BY DEF Buy
<1>2. \A i, c, how : TaskPay(c, i, how) => Pay(i, c, "renewal", how) /\ c \in task.todo
  BY DEF TaskPay
<1>3. \A i, c : TaskAnswerLost(c, i) => Pay(i, c, "renewal", "succeeded")
  BY DEF TaskAnswerLost
<1>4. "renewal" \in Payments /\ "succeeded" \in Outcomes /\ Outcomes \ {"failed"} \subseteq Outcomes
  BY DEF Payments, Outcomes
<1>5. ASSUME NEW i \in Intents, NEW c \in Charges, NEW what \in Payments,
             NEW how \in Outcomes \ {"failed"}, Buy(i, c, what, how)
      PROVE  \E k \in Intents, d \in Charges, w \in Payments, h \in Outcomes :
                Pay(k, d, w, h) /\ (h = "failed" => d \in task.todo)
  BY <1>1, <1>5
<1>6. ASSUME NEW i \in Intents, NEW c \in Charges, NEW how \in Outcomes, TaskPay(c, i, how)
      PROVE  \E k \in Intents, d \in Charges, w \in Payments, h \in Outcomes :
                Pay(k, d, w, h) /\ (h = "failed" => d \in task.todo)
  BY <1>2, <1>4, <1>6
<1>7. ASSUME NEW i \in Intents, NEW c \in Charges, TaskAnswerLost(c, i)
      PROVE  \E k \in Intents, d \in Charges, w \in Payments, h \in Outcomes :
                Pay(k, d, w, h) /\ (h = "failed" => d \in task.todo)
  BY <1>3, <1>4, <1>7
<1> QED
  BY <1>5, <1>6, <1>7, StripeSteps

LEMMA NoDeal == NoIntent.state = "none" /\ NoIntent.charge = 0 /\ 0 \notin Charges
  BY DEF NoIntent, Charges

LEMMA EventKept ==
    ASSUME TypeOK, Asked, Shaped, [Next]_vars, NEW e \in events
    PROVE  /\ e \in Events /\ e[1] \in Intents /\ intent[e[1]].charge \in Charges
           /\ e \in events' /\ intent'[e[1]].charge = intent[e[1]].charge
<1>1. e \in Events /\ e[1] \in Intents /\ intent[e[1]].charge \in Charges /\ intent[e[1]] # NoIntent
  BY NoDeal DEF TypeOK, Asked, Events
<1>2. ASSUME NEW i \in Intents, NEW how \in Outcomes, Settle(i, how)
      PROVE  e \in events' /\ intent'[e[1]].charge = intent[e[1]].charge
  BY <1>1, <1>2, SettleIntent DEF Settle
<1>3. ASSUME NEW i \in Intents, NEW c \in Charges, NEW what, NEW how, Pay(i, c, what, how)
      PROVE  e \in events' /\ intent'[e[1]].charge = intent[e[1]].charge
  BY <1>1, <1>3, PayIntent DEF Pay
<1> QED
  BY <1>1, <1>2, <1>3, StripeSteps DEF Buy, TaskPay, TaskAnswerLost, Outcomes

\* What index_billing works on is what it has read
LEMMA TodoSteps ==
    ASSUME TypeOK, Asked, Serving, Shaped, [Next]_vars, NEW c \in task'.todo
    PROVE  \/ c \in task.todo /\ task'.seen[c] = task.seen[c]
           \/ \E stage \in {"cancel", "charge"}, due \in SUBSET Charges :
                 TaskRead(stage, due) /\ c \in due /\ charge' = charge /\ task'.seen[c] = charge[c]
<1>1. ASSUME NEW stage, NEW due \in SUBSET Charges, TaskRead(stage, due)
      PROVE  c \in due /\ charge' = charge /\ task'.seen[c] = charge[c]
  BY <1>1 DEF TaskRead, NoTask, rows
<1>2. ASSUME NEW d \in Charges, TaskCancel(d) \/ (TaskWrite /\ d = task.paying)
      PROVE  c \in task.todo /\ task'.seen[c] = task.seen[c]
  <2>1. task' = Done(d) /\ task.stage # "idle"
    BY <1>2 DEF TaskCancel, TaskWrite, Shaped, NoTask
  <2> QED
    BY <2>1, DoneTask
<1>3. ASSUME NEW d \in Charges, NEW b \in BOOLEAN, task' = [task EXCEPT !.paying = d, !.failed = b]
      PROVE  c \in task.todo /\ task'.seen[c] = task.seen[c]
  BY <1>3 DEF TypeOK, Tasks
<1>4. ~TaskStops
  BY DEF TaskStops, NoTask
<1>5. \/ task' = task
      \/ \E stage \in {"cancel", "charge"}, due \in SUBSET Charges : TaskRead(stage, due)
      \/ \E d \in Charges : TaskCancel(d) \/ (TaskWrite /\ d = task.paying)
      \/ \E d \in Charges, b \in BOOLEAN : task' = [task EXCEPT !.paying = d, !.failed = b]
      \/ TaskStops
  <2>1. CASE Stripe \/ Edit \/ Unprovision \/ \E e \in Events : Webhook(e)
    BY <2>1 DEF Stripe, Edit, Unprovision, Webhook, Settle, Buy, Redeem, HookRead, HookWrite,
                HookServe, HookCommit, HookFails, EditRead, EditWrite, EditRefused, EndRead,
                EndSuspend, EndFails, EndCommit
  <2>2. CASE IndexBilling
    <3>1. TaskWrite => task.paying \in Charges
      BY RowWrites
    <3> QED
      BY <2>2, <3>1 DEF IndexBilling, TaskPay, TaskCannotPay, TaskAnswerLost
  <2> QED
    BY <2>1, <2>2 DEF Next, vars
<1> QED
  BY <1>1, <1>2, <1>3, <1>4, <1>5

LEMMA RecordedStep ==
    ASSUME TypeOK, Asked, Serving, Shaped, Recorded, [Next]_vars
    PROVE  Recorded'
<1>1. ASSUME sub' = "none", NEW d \in Charges PROVE charge'[d] = NoRow
  <2>1. ASSUME NEW e \in Events, HookWrite(e), charge' # charge \/ sub' # sub PROVE FALSE
    <3>1. sub' = IF hook[e].seen = NoRow THEN "unprovisioned" ELSE hook[e].sub
      BY <2>1 DEF HookWrite, rows
    <3> QED
      BY <1>1, <2>1, <3>1 DEF HookWrite, Recorded
  <2>2. sub = "none"
    <3>1. \/ sub' = sub \/ sub' \in {"provisioned", "unprovisioned"}
          \/ \E e \in Events : HookWrite(e)
      BY DEF Next, Stripe, Webhook, IndexBilling, Edit, Unprovision, Settle, Buy, Redeem,
         HookRead, HookServe, HookCommit, HookFails, TaskRead, TaskPay, TaskCannotPay,
         TaskAnswerLost, TaskCancel, TaskWrite, TaskStops, EditRead, EditWrite, EditRefused,
         EndRead, EndSuspend, EndFails, EndCommit, vars, rows
    <3> QED
      BY <1>1, <2>1, <3>1
  <2>3. \A c \in Charges : charge[c] = NoRow
    BY <2>2 DEF Recorded
  <2>4. ASSUME NEW c \in Charges, TaskCancel(c) \/ Redeem(c) PROVE FALSE
    BY <1>1, <2>3, <2>4 DEF TaskCancel, Redeem, Shaped
  <2>5. ~TaskWrite
    BY <2>3, RowWrites DEF TaskWrite, Shaped, TypeOK, Tasks
  <2>6. ASSUME NEW s \in Statuses, EditWrite(s) PROVE FALSE
    BY <2>3, <2>6, RowWrites DEF EditWrite, Recorded
  <2>7. ASSUME NEW e \in Events, HookCommit(e) PROVE FALSE
    BY <1>1, <2>7 DEF HookCommit
  <2> QED
    BY <2>1, <2>3, <2>4, <2>5, <2>6, <2>7, OtherRows
<1>2. ASSUME NEW e \in Events, hook'[e].stage = "read", hook'[e].seen # NoRow, e[2] # "succeeded"
      PROVE  hook'[e].sub # "none"
  <2>1. CASE hook'[e] = hook[e]
    BY <1>2, <2>1 DEF Recorded
  <2>2. CASE HookRead(e)
    <3> DEFINE h == [NoHook EXCEPT !.stage = "read", !.seen = charge[intent[e[1]].charge],
                                   !.sub = IF e[2] = "succeeded" THEN "none" ELSE sub]
    <3>1. hook'[e] = h /\ e \in events
      BY <2>2 DEF HookRead, TypeOK
    <3>2. h.seen = charge[intent[e[1]].charge] /\ h.sub = sub
      BY <1>2 DEF NoHook
    <3> QED
      BY <1>2, <3>1, <3>2 DEF Recorded, Asked
  <2>3. CASE hook'[e].stage # "read"
    BY <1>2, <2>3
  <2>4. hook'[e] = hook[e] \/ HookRead(e) \/ hook'[e].stage # "read"
    <3>1. \A f \in Events : HookRead(f) => f = e \/ hook'[e] = hook[e]
      BY DEF HookRead, TypeOK
    <3>2. \A f \in Events : HookWrite(f) \/ HookCommit(f) \/ HookFails(f) =>
                             hook'[e] = hook[e] \/ hook'[e].stage = "idle"
      BY DEF HookWrite, HookCommit, HookFails, TypeOK, NoHook
    <3>3. \A f \in Events, n \in Charges : HookServe(f, n) =>
                             hook'[e] = hook[e] \/ hook'[e].stage = "serving"
      BY DEF HookServe, TypeOK, Hooks
    <3>4. TaskStops => hook'[e].stage = "idle"
      BY DEF TaskStops, NoHook
    <3> QED
      BY <3>1, <3>2, <3>3, <3>4 DEF Next, Stripe, Webhook, IndexBilling, Edit, Unprovision,
         Settle, Buy, Redeem, TaskRead, TaskPay, TaskCannotPay, TaskAnswerLost, TaskCancel,
         TaskWrite, EditRead, EditWrite, EditRefused, EndRead, EndSuspend, EndFails, EndCommit,
         vars
  <2> QED
    BY <2>1, <2>2, <2>3, <2>4
<1>3. edit' # NoEdit => charge'[edit'.charge] # NoRow
  <2>1. CASE edit' = edit
    BY <2>1, RowsStay DEF Recorded, Serving
  <2>2. ASSUME NEW c \in Charges, EditRead(c) PROVE charge'[edit'.charge] # NoRow
    BY <2>2, NoRowStatus DEF EditRead, Open, rows
  <2>3. edit' = edit \/ edit' = NoEdit \/ \E c \in Charges : EditRead(c)
    BY DEF Next, Stripe, Webhook, IndexBilling, Edit, Unprovision, Settle, Buy, Redeem,
       HookRead, HookWrite, HookServe, HookCommit, HookFails, TaskRead, TaskPay, TaskCannotPay,
       TaskAnswerLost, TaskCancel, TaskWrite, TaskStops, EditWrite, EditRefused, EndRead,
       EndSuspend, EndFails, EndCommit, vars
  <2> QED
    BY <2>1, <2>2, <2>3
<1>4. ASSUME NEW c \in Charges, charge'[c].status = "none" PROVE charge'[c] = NoRow
  <2>1. charge'[c] = charge[c] => charge'[c] = NoRow
    BY <1>4 DEF Recorded
  <2>2. ASSUME NEW d \in Charges, TaskCancel(d) \/ Redeem(d) PROVE charge'[c] = charge[c]
    BY <1>4, <2>2, RowWrites
  <2>3. TaskWrite => charge'[c] = charge[c]
    BY <1>4, RowWrites
  <2>4. ASSUME NEW s \in Statuses, EditWrite(s) PROVE charge'[c] = charge[c]
    BY <1>4, <2>4, RowWrites DEF Waiting
  <2>5. ASSUME NEW e \in Events, HookWrite(e) PROVE charge'[c] = charge[c]
    BY <1>4, <2>5, RowWrites DEF Events, Outcomes
  <2>6. ASSUME NEW e \in Events, HookCommit(e) PROVE charge'[c] = charge[c]
    BY <1>4, <2>6, RowWrites DEF Waiting
  <2> QED
    BY <2>1, <2>2, <2>3, <2>4, <2>5, <2>6, OtherRows
<1>5. ASSUME NEW i \in Intents, intent'[i].state # "none" PROVE <<i, intent'[i].state>> \in events'
  <2>1. CASE intent' = intent /\ events' = events
    BY <1>5, <2>1 DEF Recorded
  <2>2. ASSUME NEW k \in Intents, NEW how \in Outcomes, Settle(k, how)
        PROVE  <<i, intent'[i].state>> \in events'
    BY <1>5, <2>2, SettleIntent DEF Recorded, Settle
  <2>3. ASSUME NEW k \in Intents, NEW c \in Charges, NEW what, NEW how, Pay(k, c, what, how)
        PROVE  <<i, intent'[i].state>> \in events'
    BY <1>5, <2>3, PayIntent DEF Recorded, Pay
  <2> QED
    BY <2>1, <2>2, <2>3, StripeSteps DEF Buy, TaskPay, TaskAnswerLost, Outcomes
<1>6. ASSUME NEW c \in task'.todo PROVE task'.seen[c].status \in {"open", "failed"}
  <2>1. c \in task.todo => task.seen[c].status \in {"open", "failed"}
    BY DEF Recorded
  <2>2. ASSUME NEW stage, NEW due \in SUBSET Charges, TaskRead(stage, due), c \in due
        PROVE  charge[c].status \in {"open", "failed"}
    BY <2>2 DEF TaskRead, Cancellable, Chargeable
  <2> QED
    BY <1>6, <2>1, <2>2, TodoSteps
<1> QED
  BY <1>1, <1>2, <1>3, <1>4, <1>5, <1>6 DEF Recorded

LEMMA HandledSteps ==
    ASSUME [Next]_vars, NEW e \in handled', e \notin handled
    PROVE  e \in Events /\ (HookWrite(e) \/ HookCommit(e))
<1>1. handled' = handled \/ \E f \in Events : HookWrite(f) \/ HookCommit(f)
  BY DEF Next, Stripe, Webhook, IndexBilling, Edit, Unprovision, Settle, Buy, Redeem, HookRead,
     HookServe, HookFails, TaskRead, TaskPay, TaskCannotPay, TaskAnswerLost, TaskCancel,
     TaskWrite, TaskStops, EditRead, EditWrite, EditRefused, EndRead, EndSuspend, EndFails,
     EndCommit, vars
<1>2. \A f \in Events : HookWrite(f) \/ HookCommit(f) => handled' = handled \cup {f}
  BY DEF HookWrite, HookCommit
<1> QED
  BY <1>1, <1>2

LEMMA StartedStep ==
    ASSUME TypeOK, Asked, Serving, Shaped, Recorded, Started, [Next]_vars
    PROVE  Started'
<1> USE NoDeal
<1>1. NoRows' \/ \E c \in Charges : Live(c)'
  <2>1. CASE charge' = charge
    BY <2>1 DEF Started, NoRows, Live
  <2>2. ASSUME NEW c \in Charges, TaskCancel(c) \/ Redeem(c) PROVE Live(c)'
    BY <2>2, RowWrites DEF Live
  <2>3. TaskWrite => \E c \in Charges : Live(c)'
    BY RowWrites DEF Live
  <2>4. ASSUME NEW s \in Statuses, EditWrite(s) PROVE \E c \in Charges : Live(c)'
    BY <2>4, RowWrites DEF Live, Waiting
  <2>5. ASSUME NEW e \in Events, HookWrite(e) PROVE charge' = charge \/ \E c \in Charges : Live(c)'
    <3>1. intent[e[1]].charge \in Charges /\ e[2] \in {"processing", "failed"}
      BY <2>5 DEF HookWrite, Asked, Events, Outcomes
    <3> QED
      BY <2>5, <3>1, RowWrites DEF Live
  <2>6. ASSUME NEW e \in Events, HookCommit(e) PROVE \E c \in Charges : Live(c)'
    <3>1. hook[e].next \in Charges
      BY <2>6 DEF HookCommit, Asked
    <3> QED
      BY <2>6, <3>1, RowWrites DEF Live, Waiting
  <2> QED
    BY <2>1, <2>2, <2>3, <2>4, <2>5, <2>6, OtherRows
<1>2. \A c \in Charges : charge'[c] = NoRow => charge[c] = NoRow
  BY RowsStay
<1>3. ASSUME NoRows', NEW i \in Intents, NEW j \in Intents, intent'[i] # NoIntent, intent'[j] # NoIntent
      PROVE  i = j
  <2>1. NoRows
    BY <1>2, <1>3 DEF NoRows
  <2>2. CASE intent' = intent
    BY <1>3, <2>1, <2>2 DEF Started
  <2>3. ASSUME NEW k \in Intents, NEW how \in Outcomes, Settle(k, how) PROVE i = j
    <3>1. intent[k] # NoIntent
      BY <2>3 DEF Settle
    <3> QED
      BY <1>3, <2>1, <2>3, <3>1, SettleIntent DEF Started
  <2>4. ASSUME NEW k \in Intents, NEW c \in Charges, NEW what \in Payments, NEW how \in Outcomes,
               Buy(k, c, what, how)
        PROVE  i = j
    <3>1. ASSUME NEW m \in Intents, intent[m] # NoIntent PROVE FALSE
      <4>1. /\ intent[m].state \in {"succeeded", "failed"}
            /\ intent[m].charge \in Charges /\ charge[intent[m].charge] = NoRow
        BY <2>1, <2>4, <3>1 DEF Buy, Started, Asked, TypeOK, Deals, Outcomes, NoRows
      <4>2. <<m, "succeeded">> \in handled \/ <<m, "processing">> \in handled
        BY <2>4, <4>1 DEF Buy, Recorded, Started
      <4> QED
        BY <4>1, <4>2 DEF Started
    <3> QED
      BY <1>3, <2>4, <3>1, PayIntent DEF Buy
  <2>5. ASSUME NEW k \in Intents, NEW c \in Charges, NEW how \in Outcomes,
               TaskPay(c, k, how) \/ TaskAnswerLost(c, k)
        PROVE  i = j
    BY <2>1, <2>5 DEF TaskPay, TaskAnswerLost, Shaped, NoRows
  <2> QED
    BY <2>2, <2>3, <2>4, <2>5, StripeSteps DEF Outcomes
<1>4. ASSUME NEW i \in Intents, intent'[i].state = "none" PROVE intent'[i] = NoIntent
  <2>1. ASSUME NEW k \in Intents, NEW how \in {"succeeded", "failed"}, Settle(k, how)
        PROVE  intent'[i] = NoIntent
    BY <1>4, <2>1, SettleIntent DEF Started, Outcomes
  <2>2. ASSUME NEW k \in Intents, NEW c \in Charges, NEW what, NEW how \in Outcomes, Pay(k, c, what, how)
        PROVE  intent'[i] = NoIntent
    BY <1>4, <2>2, PayIntent DEF Started, Outcomes
  <2>3. CASE intent' = intent
    BY <1>4, <2>3 DEF Started
  <2> QED
    BY <2>1, <2>2, <2>3, PaySteps
<1>5. ASSUME NEW e \in handled', e[2] # "failed" PROVE charge'[intent'[e[1]].charge] # NoRow
  <2>1. CASE e \in handled
    <3>1. intent[e[1]].charge \in Charges /\ intent'[e[1]].charge = intent[e[1]].charge
      BY <2>1, EventKept DEF TypeOK
    <3> QED
      BY <1>5, <2>1, <3>1, RowsStay DEF Started
  <2>2. CASE e \notin handled
    <3>1. e \in Events /\ (HookWrite(e) \/ HookCommit(e))
      BY <1>5, <2>2, HandledSteps
    <3>2. e \in events /\ intent[e[1]].charge \in Charges /\ intent' = intent
      BY <3>1 DEF HookWrite, HookCommit, Asked, stripe
    <3>3. HookWrite(e) => charge'[intent[e[1]].charge] = Written(e)
      BY <1>5, <3>2 DEF HookWrite, TypeOK
    <3>4. Written(e).status = e[2] /\ e[2] # "none"
      BY <3>1 DEF Written, Events, Outcomes
    <3> QED
      BY <3>1, <3>2, <3>3, <3>4, RowWrites, NoRowStatus
  <2> QED
    BY <2>1, <2>2
<1>6. ASSUME NEW i \in Intents, intent'[i].state = "failed", charge'[intent'[i].charge] = NoRow
      PROVE  <<i, "processing">> \in events'
  <2>1. ASSUME intent[i].state = "failed", intent'[i].charge = intent[i].charge, events \subseteq events'
        PROVE  <<i, "processing">> \in events'
    BY <1>2, <1>6, <2>1 DEF Started, Asked
  <2>2. ASSUME NEW k \in Intents, NEW how \in {"succeeded", "failed"}, Settle(k, how)
        PROVE  <<i, "processing">> \in events'
    <3>1. i = k => <<i, "processing">> \in events
      BY <2>2 DEF Settle, Recorded
    <3>2. i # k => intent'[i] = intent[i]
      BY <2>2, SettleIntent DEF Outcomes
    <3> QED
      BY <1>6, <2>1, <2>2, <3>1, <3>2 DEF Settle
  <2>3. ASSUME NEW k \in Intents, NEW c \in Charges, NEW what, NEW how \in Outcomes, Pay(k, c, what, how),
               how = "failed" => charge[c] # NoRow
        PROVE  <<i, "processing">> \in events'
    <3>1. i # k
      BY <1>2, <1>6, <2>3, PayIntent
    <3> QED
      BY <1>6, <2>1, <2>3, <3>1, PayIntent DEF Pay
  <2>4. \A c \in task.todo : charge[c] # NoRow
    BY DEF Shaped
  <2>5. CASE intent' = intent /\ events' = events
    BY <1>6, <2>1, <2>5
  <2> QED
    BY <2>2, <2>3, <2>4, <2>5, PaySteps
<1> QED
  BY <1>1, <1>3, <1>4, <1>5, <1>6 DEF Started

LEMMA FirstIsFirstStep ==
    ASSUME TypeOK, Asked, Serving, Shaped, Recorded, Started, FirstIsFirst, [Next]_vars,
           "upgrade" \notin Sold \cap Delayed
    PROVE  FirstIsFirst'
<1> USE NoDeal
<1> SUFFICES ASSUME NEW i \in Intents, intent'[i].kind = "subscription",
                    charge'[intent'[i].charge] = NoRow, <<i, "processing">> \in events'
             PROVE  NoRows'
  BY DEF FirstIsFirst
<1>1. intent'[i].charge \in Charges
  BY AskedStep DEF Asked
<1>2. charge[intent'[i].charge] = NoRow
  BY <1>1, RowsStay
<1>3. CASE <<i, "processing">> \in events
  <2>1. i \in Intents /\ intent'[i].charge = intent[i].charge /\ intent'[i].kind = intent[i].kind
    <3>1. intent[i] # NoIntent
      BY <1>3 DEF Asked
    <3>2. ASSUME NEW k \in Intents, NEW how \in Outcomes, Settle(k, how)
          PROVE  intent'[i].kind = intent[i].kind
      BY <3>2 DEF Settle, TypeOK, Deals
    <3>3. ASSUME NEW k \in Intents, NEW c \in Charges, NEW what, NEW how, Pay(k, c, what, how)
          PROVE  intent'[i].kind = intent[i].kind
      BY <3>1, <3>3, PayIntent
    <3> QED
      BY <1>3, <3>2, <3>3, EventKept, StripeSteps DEF Buy, TaskPay, TaskAnswerLost, Outcomes
  <2>2. NoRows
    BY <1>2, <1>3, <2>1 DEF FirstIsFirst
  <2>3. intent[i] # NoIntent
    BY <1>3 DEF Asked
  <2>4. CASE charge' = charge
    BY <2>2, <2>4 DEF NoRows
  <2>5. ASSUME NEW e \in Events, HookWrite(e) \/ HookCommit(e) PROVE charge' = charge
    <3>1. e \in events /\ e[1] \in Intents /\ intent[e[1]] # NoIntent
      BY <2>5 DEF HookWrite, HookCommit, Asked, Events
    <3>2. e[1] = i
      BY <2>2, <2>3, <3>1 DEF Started
    <3> QED
      BY <1>1, <2>1, <2>5, <3>2, RowWrites, NoRowStatus DEF Events, Outcomes
  <2>6. ASSUME NEW c \in Charges, TaskCancel(c) \/ Redeem(c) PROVE FALSE
    BY <1>3, <2>2, <2>6 DEF TaskCancel, Redeem, Shaped, NoRows
  <2>7. ~TaskWrite
    BY <2>2, RowWrites DEF TaskWrite, Shaped, TypeOK, Tasks, NoRows
  <2>8. ASSUME NEW s \in Statuses, EditWrite(s) PROVE FALSE
    BY <2>2, <2>8, RowWrites DEF EditWrite, Recorded, NoRows
  <2> QED
    BY <2>4, <2>5, <2>6, <2>7, <2>8, OtherRows
<1>4. CASE <<i, "processing">> \notin events
  <2>1. ASSUME NEW k \in Intents, NEW how \in {"succeeded", "failed"}, Settle(k, how) PROVE FALSE
    BY <1>4, <2>1 DEF Settle
  <2>2. ASSUME NEW k \in Intents, NEW c \in Charges, NEW what \in Payments, NEW how \in Outcomes,
               Buy(k, c, what, how)
        PROVE  NoRows'
    <3>1. i = k /\ how = "processing"
      BY <1>4, <2>2 DEF Buy, Pay
    <3>2. what = "first"
      BY <2>2, <3>1 DEF Buy, Pay, TypeOK
    <3>3. sub = "none" /\ charge' = charge
      BY <2>2, <3>2 DEF Buy, rows
    <3> QED
      BY <3>3 DEF Recorded, NoRows
  <2>3. ASSUME NEW k \in Intents, NEW c \in Charges, NEW how \in Outcomes,
               TaskPay(c, k, how) \/ TaskAnswerLost(c, k)
        PROVE  FALSE
    <3>1. i = k
      BY <1>4, <2>3 DEF TaskPay, TaskAnswerLost, Pay
    <3>2. intent'[i].charge = c
      BY <2>3, <3>1, PayIntent DEF TaskPay, TaskAnswerLost
    <3> QED
      BY <1>2, <2>3, <3>2 DEF TaskPay, TaskAnswerLost, Shaped
  <2>4. Outcomes # {}
    BY DEF Outcomes
  <2> QED
    BY <1>4, <2>1, <2>2, <2>3, <2>4, StripeSteps
<1> QED
  BY <1>3, <1>4

LEMMA LockedStays ==
    ASSUME TypeOK, Asked, Serving, Shaped, LockedOnce, [Next]_vars, NEW e \in Events,
           hook[e].stage = "serving", hook'[e] = hook[e]
    PROVE  charge'[intent[e[1]].charge] = charge[intent[e[1]].charge]
<1> DEFINE c == intent[e[1]].charge
<1>1. c \in Charges /\ Locked(c) /\ e[1] \in Intents
  BY DEF Asked, Locked, Events
<1>2. ASSUME NEW d \in Charges, TaskCancel(d) \/ Redeem(d) PROVE charge'[c] = charge[c]
  <2>1. c # d
    BY <1>1, <1>2 DEF TaskCancel, Redeem, FreshCharge, UsedCharges
  <2> QED
    BY <1>1, <1>2, <2>1, RowWrites
<1>3. TaskWrite => charge'[c] = charge[c]
  BY <1>1, RowWrites DEF TaskWrite
<1>4. ASSUME NEW s \in Statuses, EditWrite(s) PROVE charge'[c] = charge[c]
  BY <1>1, <1>4, RowWrites DEF EditWrite
<1>5. ASSUME NEW f \in Events, HookWrite(f) PROVE charge'[c] = charge[c]
  BY <1>1, <1>5, RowWrites DEF HookWrite
<1>6. ASSUME NEW f \in Events, HookCommit(f) PROVE charge'[c] = charge[c]
  <2>1. f # e /\ hook[f].stage = "serving"
    BY <1>6 DEF HookCommit, TypeOK, NoHook
  <2>2. c # intent[f[1]].charge /\ c # hook[f].next
    BY <1>1, <1>6, <2>1 DEF LockedOnce, SameRow, HookCommit
  <2> QED
    BY <1>1, <1>6, <2>2, RowWrites
<1> QED
  BY <1>2, <1>3, <1>4, <1>5, <1>6, OtherRows

\* While the first payment is handled nobody else writes a row
LEMMA StillNoRows ==
    ASSUME TypeOK, Asked, Serving, Shaped, Recorded, Started, LockedOnce, [Next]_vars, NoRows,
           NEW e \in Events, hook[e].stage = "serving", hook'[e] = hook[e]
    PROVE  charge' = charge
<1> USE NoDeal
<1>1. e \in events /\ e[1] \in Intents /\ intent[e[1]] # NoIntent
  BY DEF Asked, Events
<1>2. ASSUME NEW c \in Charges, TaskCancel(c) \/ Redeem(c) PROVE FALSE
  BY <1>1, <1>2 DEF TaskCancel, Redeem, Shaped, NoRows
<1>3. ~TaskWrite
  BY RowWrites DEF TaskWrite, Shaped, TypeOK, Tasks, NoRows
<1>4. ASSUME NEW s \in Statuses, EditWrite(s) PROVE FALSE
  BY <1>4, RowWrites DEF EditWrite, Recorded, NoRows
<1>5. ASSUME NEW f \in Events, HookWrite(f) \/ HookCommit(f) PROVE FALSE
  <2>1. f \in events /\ f[1] \in Intents /\ intent[f[1]] # NoIntent
    BY <1>5 DEF HookWrite, HookCommit, Asked, Events
  <2>2. f[1] = e[1]
    BY <1>1, <2>1 DEF Started
  <2>3. HookCommit(f) => f = e
    BY <2>2 DEF HookCommit, LockedOnce, SameRow
  <2>4. ~HookCommit(e)
    BY DEF HookCommit, TypeOK, NoHook
  <2> QED
    BY <1>5, <2>2, <2>3, <2>4 DEF HookWrite, Locked
<1> QED
  BY <1>2, <1>3, <1>4, <1>5, OtherRows

LEMMA ServeBegins ==
    ASSUME TypeOK, Asked, [Next]_vars, NEW e \in Events, hook'[e].stage = "serving"
    PROVE  \/ hook'[e] = hook[e]
           \/ /\ \E next \in Charges : HookServe(e, next)
              /\ charge' = charge /\ intent' = intent /\ ~Locked(intent[e[1]].charge)
              /\ e \in events /\ e[1] \in Intents
              /\ \A f \in Events : f # e => hook'[f] = hook[f]
              /\ Alone(e)' => \A d \in Charges : Live(d) => d = intent[e[1]].charge
<1>1. ASSUME NEW next \in Charges, HookServe(e, next)
      PROVE  /\ charge' = charge /\ intent' = intent /\ ~Locked(intent[e[1]].charge)
             /\ e \in events /\ e[1] \in Intents
             /\ \A f \in Events : f # e => hook'[f] = hook[f]
             /\ Alone(e)' => \A d \in Charges : Live(d) => d = intent[e[1]].charge
  <2> DEFINE c     == intent[e[1]].charge
             opens == {d \in Charges \ {c} : Open(d)}
  <2>1. /\ charge' = charge /\ intent' = intent /\ ~Locked(c) /\ e \in events
        /\ e[1] \in Intents /\ \A f \in Events : f # e => hook'[f] = hook[f]
    BY <1>1 DEF HookServe, rows, stripe, Asked, Events, TypeOK
  <2>2. hook' = [hook EXCEPT ![e] = [hook[e] EXCEPT !.stage = "serving", !.next = next,
                                      !.nextSeen = charge[next], !.beside = Beside(c, opens)]]
    BY <1>1 DEF HookServe
  <2>3. hook'[e].nextSeen = charge[next] /\ (hook'[e].beside <=> Beside(c, opens))
    BY <2>2 DEF TypeOK, Hooks
  <2>4. opens # {} => Open(next)
    BY <1>1 DEF HookServe
  <2>5. ASSUME Alone(e)', NEW d \in Charges, Live(d), d # c PROVE FALSE
    <3>1. opens = {} /\ ~Beside(c, opens)
      BY <2>3, <2>4, <2>5 DEF Alone, Adds, Open
    <3>2. ~Open(d) /\ charge[d].status # "processing"
      BY <2>5, <3>1 DEF Beside
    <3> QED
      BY <2>5, <3>2 DEF Live, Open
  <2> QED
    BY <2>1, <2>5
<1>2. \A f \in Events : HookRead(f) => hook'[e] = hook[e] \/ hook'[e].stage = "read"
  BY DEF HookRead, TypeOK, NoHook
<1>3. \A f \in Events : HookWrite(f) \/ HookCommit(f) \/ HookFails(f) =>
                         hook'[e] = hook[e] \/ hook'[e].stage = "idle"
  BY DEF HookWrite, HookCommit, HookFails, TypeOK, NoHook
<1>4. \A f \in Events, next \in Charges : HookServe(f, next) => f = e \/ hook'[e] = hook[e]
  BY DEF HookServe, TypeOK
<1>5. TaskStops => hook'[e].stage = "idle"
  BY DEF TaskStops, NoHook
<1>6. hook'[e] = hook[e] \/ \E next \in Charges : HookServe(e, next)
  BY <1>2, <1>3, <1>4, <1>5 DEF Next, Stripe, Webhook, IndexBilling, Edit, Unprovision, Settle,
     Buy, Redeem, TaskRead, TaskPay, TaskCannotPay, TaskAnswerLost, TaskCancel, TaskWrite,
     EditRead, EditWrite, EditRefused, EndRead, EndSuspend, EndFails, EndCommit, vars
<1> QED
  BY <1>1, <1>6

LEMMA LockedOnceStep ==
    ASSUME TypeOK, Asked, Shaped, LockedOnce, [Next]_vars
    PROVE  LockedOnce'
<1> SUFFICES ASSUME NEW e \in Events, NEW f \in Events, SameRow(e, f)'
             PROVE  e = f
  BY DEF LockedOnce
<1>0. /\ hook'[e].stage = "serving" /\ hook'[f].stage = "serving"
      /\ intent'[e[1]].charge = intent'[f[1]].charge
  BY DEF SameRow
<1>1. CASE hook'[e] = hook[e] /\ hook'[f] = hook[f]
  <2>1. e \in events /\ f \in events
    BY <1>0, <1>1 DEF Asked
  <2>2. SameRow(e, f)
    BY <1>0, <1>1, <2>1, EventKept DEF SameRow
  <2> QED
    BY <2>2 DEF LockedOnce
<1>2. CASE hook'[e] # hook[e] /\ e # f
  BY <1>0, <1>2, ServeBegins DEF Locked
<1>3. CASE hook'[f] # hook[f] /\ e # f
  BY <1>0, <1>3, ServeBegins DEF Locked
<1> QED
  BY <1>1, <1>2, <1>3

LEMMA AddsFirstStep ==
    ASSUME TypeOK, Asked, Serving, Shaped, Recorded, Started, LockedOnce, AddsFirst, [Next]_vars
    PROVE  AddsFirst'
<1> SUFFICES ASSUME NEW e \in Events, Alone(e)'
             PROVE  Live(intent[e[1]].charge)' \/ NoRows'
  BY DEF AddsFirst
<1>1. hook'[e].stage = "serving"
  BY DEF Alone, Adds
<1>2. CASE hook'[e] = hook[e]
  <2>1. Alone(e) /\ hook[e].stage = "serving" /\ intent'[e[1]].charge = intent[e[1]].charge
    BY <1>1, <1>2, EventKept DEF Alone, Adds, Asked
  <2>2. CASE Live(intent[e[1]].charge)
    BY <1>2, <2>1, <2>2, LockedStays DEF Live
  <2>3. CASE NoRows
    BY <1>2, <2>1, <2>3, StillNoRows DEF NoRows
  <2> QED
    BY <2>1, <2>2, <2>3 DEF AddsFirst
<1>3. CASE hook'[e] # hook[e]
  <2>1. /\ charge' = charge /\ intent' = intent
        /\ \A d \in Charges : Live(d) => d = intent[e[1]].charge
    BY <1>1, <1>3, ServeBegins
  <2> QED
    BY <2>1 DEF Started, NoRows, Live
<1> QED
  BY <1>2, <1>3

LEMMA OneAddsStep ==
    ASSUME TypeOK, Asked, Serving, Shaped, Started, LockedOnce, AddsFirst, OneAdds, [Next]_vars
    PROVE  OneAdds'
<1>1. ASSUME NEW e \in Events, NEW f \in Events, e # f, Alone(e)', Alone(f)', hook'[e] # hook[e]
      PROVE  FALSE
  <2>1. /\ e \in events /\ e[1] \in Intents /\ ~Locked(intent[e[1]].charge) /\ hook'[f] = hook[f]
        /\ \A d \in Charges : Live(d) => d = intent[e[1]].charge
    BY <1>1, ServeBegins DEF Alone, Adds
  <2>2. Alone(f) /\ hook[f].stage = "serving" /\ f \in events
    BY <1>1, <2>1 DEF Alone, Adds, Asked
  <2>3. intent[f[1]].charge # intent[e[1]].charge /\ intent[f[1]].charge \in Charges
    BY <2>1, <2>2 DEF Locked, Asked
  <2>4. NoRows
    BY <2>1, <2>2, <2>3 DEF AddsFirst
  <2>5. e[1] = f[1]
    BY <2>1, <2>2, <2>4, NoDeal DEF Started, Asked, Events
  <2> QED
    BY <2>3, <2>5
<1>2. ASSUME NEW e \in Events, NEW f \in Events, Alone(e)', Alone(f)', hook'[e] = hook[e], hook'[f] = hook[f]
      PROVE  e = f
  BY <1>2 DEF OneAdds, Alone, Adds
<1> QED
  BY <1>1, <1>2 DEF OneAdds

\* An event that is no news is handled as one
LEMMA News ==
    ASSUME TypeOK, NEW e \in Events, ~Old(e)
    PROVE  /\ e \notin handled /\ e[2] = intent[e[1]].state /\ e[1] \in Intents
           /\ \A j \in Intents : intent[j].charge = intent[e[1]].charge => j <= e[1]
<1>1. \A j \in Intents : intent[j].charge = intent[e[1]].charge => ~(j > e[1])
  BY DEF Old
<1> QED
  BY <1>1 DEF Old, Events, Intents

\* A row that says paid has a payment, and it is the last of its charge
LEMMA PaidRow ==
    ASSUME SucceededIsPaid, Single, NEW c \in Clean, charge[c].status = "succeeded"
    PROVE  \E i \in Intents : /\ intent[i].charge = c /\ intent[i].state = "succeeded"
                              /\ \A j \in Intents : intent[j].charge = c => j <= i
                              /\ c \in task.todo /\ task.stage = "charge" => Unwritten(c)
  BY DEF SucceededIsPaid, Single, Active, Clean

\* How the row of a charge that was not overwritten becomes due
LEMMA NewlyDue ==
    ASSUME TypeOK, Asked, Serving, Shaped, SucceededIsPaid, Recorded, Single, [Next]_vars,
           NEW d \in Clean', Due(d)', ~Due(d)
    PROVE  /\ charge[d] = NoRow
           /\ \/ Redeem(d)
              \/ \E e \in Events : /\ HookWrite(e) /\ d = intent[e[1]].charge
                                   /\ e[2] = "processing" /\ intent[e[1]].kind = "subscription"
              \/ \E e \in Events : HookCommit(e) /\ d = hook[e].next /\ Adds(e)
<1> USE NoRowStatus
<1>0. /\ d \in Charges /\ d \in Clean /\ d \notin raced' /\ charge[d] \in Rows
      /\ charge'[d].kind = "subscription" /\ Live(d)' /\ charge'[d] # charge[d]
  BY HistoryKept DEF TypeOK, Clean, Due, Live
<1>1. charge[d].kind = charge'[d].kind => ~Live(d)
  BY <1>0 DEF Due
<1>2. ASSUME NEW c \in Charges, TaskCancel(c) PROVE FALSE
  <2>1. c = d
    BY <1>0, <1>2, RowWrites
  <2>2. charge[c] = task.seen[c] /\ charge[c].status = "failed"
    BY <1>0, <1>2, <2>1 DEF TaskCancel, Race, Shaped
  <2>3. charge'[c] = [charge[c] EXCEPT !.status = "cancelled"]
    BY <1>2, <2>2 DEF TaskCancel, TypeOK
  <2>4. charge'[c].kind = charge[c].kind
    BY <2>3 DEF TypeOK, Rows
  <2> QED
    BY <1>1, <2>1, <2>2, <2>4 DEF Live
<1>3. ASSUME TaskWrite PROVE FALSE
  <2> DEFINE s == IF task.failed THEN "failed" ELSE "processing"
  <2>1. task.paying = d /\ d \in task.todo
    BY <1>0, <1>3, RowWrites DEF TaskWrite, Shaped
  <2>2. charge[d] = task.seen[d] /\ charge[d].status \in {"open", "failed"}
    BY <1>0, <1>3, <2>1 DEF TaskWrite, Race, Recorded
  <2>3. charge'[d] = [charge[d] EXCEPT !.status = s]
    BY <1>0, <1>3, <2>1, <2>2 DEF TaskWrite, TypeOK
  <2> HIDE DEF s
  <2>4. charge'[d].kind = charge[d].kind
    BY <1>0, <2>3 DEF Rows
  <2> QED
    BY <1>1, <2>2, <2>4 DEF Live
<1>4. ASSUME NEW s \in Statuses, EditWrite(s) PROVE FALSE
  <2>1. edit.charge = d /\ edit.seen.status \in Waiting
    BY <1>0, <1>4, RowWrites
  <2>2. charge[d] = edit.seen
    BY <1>0, <1>4, <2>1 DEF EditWrite, Race
  <2>3. charge'[d] = [charge[d] EXCEPT !.status = s]
    BY <1>0, <1>4, <2>1, <2>2 DEF EditWrite, TypeOK
  <2>4. charge'[d].kind = charge[d].kind
    BY <1>0, <2>3 DEF Rows
  <2> QED
    BY <1>1, <2>1, <2>2, <2>4 DEF Live, Waiting
<1>5. ASSUME NEW c \in Charges, Redeem(c) PROVE charge[d] = NoRow /\ Redeem(d)
  <2>1. c = d
    BY <1>0, <1>5, RowWrites
  <2> QED
    BY <1>5, <2>1 DEF Redeem, FreshCharge, UsedCharges
<1>6. ASSUME NEW e \in Events, HookWrite(e)
      PROVE  /\ charge[d] = NoRow /\ d = intent[e[1]].charge
             /\ e[2] = "processing" /\ intent[e[1]].kind = "subscription"
  <2>1. d = intent[e[1]].charge
    BY <1>0, <1>6, RowWrites
  <2>2. /\ charge'[d] = Written(e) /\ RaceOf(e) \subseteq raced'
        /\ hook[e].seen = NoRow => e[2] # "failed"
    BY <1>0, <1>6, <2>1 DEF HookWrite, rows, TypeOK
  <2>3. ~Old(e) /\ charge[d] = hook[e].seen
    BY <1>0, <2>1, <2>2 DEF RaceOf, Race
  <2>4. e[2] \in Outcomes /\ e[2] # "succeeded"
    BY <1>6 DEF Events, HookWrite
  <2>5. CASE charge[d] = NoRow
    BY <1>0, <2>1, <2>2, <2>3, <2>4, <2>5 DEF Written, Outcomes
  <2>6. CASE charge[d] # NoRow
    <3>1. charge'[d].kind = charge[d].kind
      BY <2>2, <2>3, <2>6 DEF Written
    <3>2. charge[d].status # "succeeded"
      <4>1. SUFFICES ASSUME charge[d].status = "succeeded" PROVE FALSE
        OBVIOUS
      <4>2. PICK i \in Intents : /\ intent[i].charge = d /\ intent[i].state = "succeeded"
                                 /\ \A j \in Intents : intent[j].charge = d => j <= i
        BY <1>0, <4>1, PaidRow
      <4>3. i <= e[1] /\ e[1] <= i /\ e[1] \in Intents /\ e[2] = intent[e[1]].state
        BY <2>1, <2>3, <4>2, News
      <4>4. i = e[1]
        BY <4>3 DEF Intents
      <4> QED
        BY <2>4, <4>2, <4>3, <4>4
    <3>3. charge[d].status # "none"
      BY <1>0, <2>6 DEF Recorded
    <3>4. Live(d)
      BY <1>0, <3>2, <3>3 DEF Live, Rows, Statuses
    <3> QED
      BY <1>1, <3>1, <3>4
  <2> QED
    BY <2>5, <2>6
<1>7. ASSUME NEW e \in Events, HookCommit(e)
      PROVE  charge[d] = NoRow /\ d = hook[e].next /\ Adds(e)
  <2>1. d = hook[e].next
    BY <1>0, <1>7, RowWrites DEF Live
  <2>2. hook[e].stage = "serving" /\ charge[d] = hook[e].nextSeen
    BY <1>0, <1>7, <2>1 DEF HookCommit, Race
  <2>3. charge'[hook[e].next] = Next1(e)
    BY <1>7, RowWrites
  <2>4. charge'[d].kind = charge[d].kind
    BY <1>0, <2>1, <2>2, <2>3 DEF Next1, Rows
  <2>5. charge[d].status = "none"
    BY <1>1, <2>2, <2>4 DEF Serving, Live, Waiting
  <2> QED
    BY <1>0, <2>1, <2>2, <2>5 DEF Adds, Recorded
<1> QED
  BY <1>0, <1>2, <1>3, <1>4, <1>5, <1>6, <1>7, OtherRows

\* A charge becomes due when there is none yet, or as the next one
LEMMA DueSteps ==
    ASSUME TypeOK, Asked, Serving, Shaped, SucceededIsPaid, Recorded, Single, Started, FirstIsFirst,
           [Next]_vars, NEW d \in Good', Due(d)', ~Due(d)
    PROVE  \/ NoRows /\ \A c \in Charges : c # d => charge'[c] = NoRow
           \/ \E e \in Events : HookCommit(e) /\ d = hook[e].next /\ Alone(e)
<1>1. d \in Clean' /\ d \in Charges /\ d \notin extra'
  BY DEF Good, Clean
<1>2. CASE Redeem(d)
  <2>1. NoRows
    BY <1>2 DEF Redeem, Recorded, NoRows
  <2> QED
    BY <1>1, <1>2, <2>1, RowWrites DEF NoRows
<1>3. ASSUME NEW e \in Events, HookWrite(e), d = intent[e[1]].charge, charge[d] = NoRow,
             e[2] = "processing", intent[e[1]].kind = "subscription"
      PROVE  NoRows /\ \A c \in Charges : c # d => charge'[c] = NoRow
  <2>1. e[1] \in Intents /\ <<e[1], "processing">> \in events
    BY <1>3 DEF HookWrite, Asked, Events
  <2>2. NoRows
    BY <1>3, <2>1 DEF FirstIsFirst
  <2> QED
    BY <1>3, <2>2, RowWrites DEF NoRows
<1>4. ASSUME NEW e \in Events, HookCommit(e), d = hook[e].next, Adds(e) PROVE Alone(e)
  BY <1>1, <1>4 DEF HookCommit, Alone
<1> QED
  BY <1>1, <1>2, <1>3, <1>4, NewlyDue

LEMMA GoodKept ==
    ASSUME [Next]_vars
    PROVE  Good' \subseteq Good /\ Good \subseteq Charges
  BY HistoryKept DEF Good, Clean

LEMMA NotDueNoRow == \A c \in Charges : charge[c] = NoRow => ~Due(c)
  BY NoRowStatus DEF Due, Live

LEMMA OneDueStep ==
    ASSUME TypeOK, Asked, Serving, Shaped, SucceededIsPaid, Recorded, Single, Started, FirstIsFirst,
           OneDue, AddsToNone, OneAdds, [Next]_vars
    PROVE  OneDue'
<1> SUFFICES ASSUME NEW c \in Good', NEW d \in Good', Due(c)', Due(d)' PROVE c = d
  BY DEF OneDue
<1>0. c \in Good /\ d \in Good /\ c \in Charges /\ d \in Charges
  BY GoodKept
<1>1. ASSUME NEW a \in Good', NEW b \in Good', a \in Good, b \in Good, a \in Charges, b \in Charges,
             Due(a)', Due(b)', ~Due(a)
      PROVE  a = b
  <2>1. CASE NoRows /\ \A e \in Charges : e # a => charge'[e] = NoRow
    BY <1>1, <2>1, NoRowStatus DEF Due, Live
  <2>2. ASSUME NEW e \in Events, HookCommit(e), a = hook[e].next, Alone(e) PROVE a = b
    <3>1. Due(b) => b = intent[e[1]].charge
      BY <1>1, <2>2 DEF AddsToNone
    <3>2. b # intent[e[1]].charge
      BY <1>1, <2>2, RowWrites DEF Due, Live
    <3>3. b = hook[e].next \/ charge'[b] = charge[b]
      BY <1>1, <2>2, <3>2, RowWrites
    <3> QED
      BY <1>1, <2>2, <3>1, <3>2, <3>3 DEF Due, Live
  <2> QED
    BY <1>1, <2>1, <2>2, DueSteps
<1>2. CASE Due(c) /\ Due(d)
  BY <1>0, <1>2 DEF OneDue
<1>3. CASE ~Due(c)
  BY <1>0, <1>1, <1>3
<1>4. CASE ~Due(d)
  BY <1>0, <1>1, <1>4
<1> QED
  BY <1>2, <1>3, <1>4

LEMMA AddsToNoneStep ==
    ASSUME TypeOK, Asked, Serving, Shaped, SucceededIsPaid, Recorded, Single, Started, FirstIsFirst,
           LockedOnce, AddsToNone, OneAdds, [Next]_vars
    PROVE  AddsToNone'
<1> SUFFICES ASSUME NEW e \in Events, NEW d \in Good', Alone(e)', Due(d)'
             PROVE  d = intent'[e[1]].charge
  BY DEF AddsToNone
<1>0. d \in Good /\ d \in Charges /\ hook'[e].stage = "serving"
  BY GoodKept DEF Alone, Adds
<1>1. CASE hook'[e] = hook[e]
  <2>1. Alone(e) /\ hook[e].stage = "serving" /\ intent'[e[1]].charge = intent[e[1]].charge
    BY <1>0, <1>1, EventKept DEF Alone, Adds, Asked
  <2>2. CASE Due(d)
    BY <1>0, <2>1, <2>2 DEF AddsToNone
  <2>3. CASE ~Due(d)
    <3>1. ~NoRows
      BY <1>1, <2>1, <2>3, StillNoRows DEF Due, Live
    <3>2. PICK f \in Events : HookCommit(f) /\ Alone(f)
      BY <2>3, <3>1, DueSteps
    <3>3. f = e
      BY <2>1, <3>2 DEF OneAdds
    <3> QED
      BY <1>0, <3>2, <3>3 DEF HookCommit, TypeOK, NoHook
  <2> QED
    BY <2>2, <2>3
<1>2. CASE hook'[e] # hook[e]
  <2>1. /\ charge' = charge /\ intent' = intent
        /\ \A b \in Charges : Live(b) => b = intent[e[1]].charge
    BY <1>0, <1>2, ServeBegins
  <2> QED
    BY <1>0, <2>1 DEF Due, Live
<1> QED
  BY <1>1, <1>2

LEMMA OneDueAlways ==
    ASSUME "upgrade" \notin Sold \cap Delayed
    PROVE  Spec => []OneDue
<1> DEFINE Base == TypeOK /\ Asked /\ Serving /\ Shaped /\ Single /\ SucceededIsPaid
           Inv == /\ Recorded /\ Started /\ FirstIsFirst /\ LockedOnce /\ AddsFirst
                  /\ OneDue /\ AddsToNone /\ OneAdds
<1>1. Init => Inv
  <2> SUFFICES ASSUME Init PROVE Inv
    OBVIOUS
  <2>1. /\ \A i \in Intents : intent[i] = NoIntent
        /\ \A e \in Events : hook[e] = NoHook
        /\ task.todo = {} /\ events = {} /\ handled = {} /\ edit = NoEdit
        /\ NoHook.stage = "idle"
    BY DEF Init, NoHook, NoTask
  <2>2. /\ \A c \in Charges : c # 1 => charge[c] = NoRow
        /\ \A c \in Charges : charge[c].status = "none" => charge[c] = NoRow
        /\ sub = "none" => \A c \in Charges : charge[c] = NoRow
        /\ 1 \in Charges /\ (charge[1] = NoRow \/ Live(1))
    BY BillingAssumption DEF Init, NoRow, Live, Charges
  <2>3. Recorded
    BY <2>1, <2>2, NoDeal DEF Recorded
  <2>4. Started /\ FirstIsFirst
    BY <2>1, <2>2, NoDeal DEF Started, NoRows, FirstIsFirst
  <2>5. OneDue
    <3>1. \A c \in Charges : Due(c) => c = 1
      BY <2>2, NotDueNoRow
    <3> QED
      BY <3>1 DEF OneDue, Good, Clean
  <2>6. LockedOnce /\ AddsFirst /\ AddsToNone /\ OneAdds
    <3>1. \A e \in Events : hook[e].stage # "serving"
      BY <2>1
    <3>2. \A e \in Events : ~Alone(e)
      BY <3>1 DEF Alone, Adds
    <3>3. \A e, f \in Events : ~SameRow(e, f)
      BY <3>1 DEF SameRow
    <3>4. LockedOnce
      BY <3>3 DEF LockedOnce
    <3>5. AddsFirst /\ AddsToNone /\ OneAdds
      BY <3>2 DEF AddsFirst, AddsToNone, OneAdds
    <3> QED
      BY <3>4, <3>5
  <2> QED
    BY <2>3, <2>4, <2>5, <2>6
<1>2. Base /\ Inv /\ [Next]_vars => Inv'
  BY RecordedStep, StartedStep, FirstIsFirstStep, LockedOnceStep, AddsFirstStep, OneDueStep,
     AddsToNoneStep, OneAddsStep
<1>3. Spec => []Base
  BY SingleAlways, PaidAlways, PTL
<1> QED
  BY <1>1, <1>2, <1>3, PTL DEF Spec

\* A subscription has at most one charge that is or will be taken, among those whose row
\* was not overwritten, whose payments the task learned of, and that no webhook made
\* while another was being paid.  An upgrade of a free subscription must not take a
\* while: if it is declined in the end, its charge stays beside the expiring one, which
\* may be upgraded again.
THEOREM OneChargeToCome ==
    ASSUME "upgrade" \notin Sold \cap Delayed
    PROVE  Spec => []OneCharge
<1>1. OneDue => OneCharge
  BY DEF OneDue, OneCharge, ToPay, Due, Live, Good, Clean
<1> QED
  BY <1>1, OneDueAlways, PTL
=============================================================================
