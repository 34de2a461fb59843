------------------------------ MODULE KeyedLock ------------------------------
(***************************************************************************)
(* What the process-local locks of the cache promise: a key has at most    *)
(* one holder; who finds it held waits for that holder and for no later    *)
(* one.  A wait that answers Ok does so after that holder's release; one   *)
(* that gives up answers an error, and says nothing about the holder.      *)
(* LockCoordinator implements this specification, CacheFill builds on it.  *)
(***************************************************************************)
CONSTANTS Tasks, KeyOf, None

VARIABLES
    holder,  \* who holds each key
    does,    \* what each task does: "idle", "holding" or "waiting", or how it ended:
             \* "released" its lock, "returned" from the wait, or "gaveup" on it
    on       \* the holder whose release it waits for

Keys == {KeyOf[t] : t \in Tasks}

Init ==
    /\ holder = [k \in Keys |-> None]
    /\ does = [t \in Tasks |-> "idle"]
    /\ on = [t \in Tasks |-> None]

From(t, d, e) == does[t] = d /\ does' = [does EXCEPT ![t] = e]

Grab(t) ==
    /\ From(t, "idle", "holding")
    /\ holder[KeyOf[t]] = None
    /\ holder' = [holder EXCEPT ![KeyOf[t]] = t]
    /\ UNCHANGED on

Await(t) ==
    /\ From(t, "idle", "waiting")
    /\ holder[KeyOf[t]] # None
    /\ on' = [on EXCEPT ![t] = holder[KeyOf[t]]]
    /\ UNCHANGED holder

Release(t) ==
    /\ From(t, "holding", "released")
    /\ holder' = [holder EXCEPT ![KeyOf[t]] = None]
    /\ UNCHANGED on

\* The wait succeeds only once the holder it began for has released
Return(t) ==
    /\ From(t, "waiting", "returned")
    /\ does[on[t]] = "released"
    /\ UNCHANGED <<holder, on>>

\* The wait fails, at any time
GiveUp(t) ==
    /\ From(t, "waiting", "gaveup")
    /\ UNCHANGED <<holder, on>>

Next == \E t \in Tasks : Grab(t) \/ Await(t) \/ Release(t) \/ Return(t) \/ GiveUp(t)

Spec == Init /\ [][Next]_<<holder, does, on>>
=============================================================================
