------------------------------ MODULE MCBilling ------------------------------
(***************************************************************************)
(* Billing for TLC.  The run that lets things fail explores how two of the *)
(* tasks, webhooks and requests meet, or one of them and a failure; the    *)
(* theorems of BillingProofs have no such bound.                           *)
(***************************************************************************)
EXTENDS Billing, FiniteSets

MaxBusy == 2  \* bound: how many are between two steps at once, and failures so far

Busy ==
    LET One(b) == IF b THEN 1 ELSE 0 IN
    Cardinality({e \in Events : hook[e].stage # "idle"})
    + One(task # NoTask) + One(edit # NoEdit) + One(ending # "idle")

FewAtOnce == Busy + faults <= MaxBusy
=============================================================================
