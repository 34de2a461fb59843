--------------------------- MODULE CacheFillProofs ---------------------------
(***************************************************************************)
(* Theorems about CacheFill, for any calls, rows, names and bounds.        *)
(***************************************************************************)
EXTENDS CacheFill, TLAPS

\* The locks of a call are those it has taken and not dropped
Held == \A c \in Calls, n \in Names : n \in call[c].owned <=> locks[n] = c

\* What a call may fetch it has the lock of, or will ask for
Covered ==
    \A c \in Calls :
        /\ call[c].pc = "acquire" => call[c].open \subseteq call[c].todo \cup call[c].owned
        /\ call[c].pc \in FillPcs => call[c].open \subseteq call[c].owned
        /\ call[c].pc \in LatePcs => call[c].owned = {}

CallsOK == db \in [Rows -> Versions] /\ call \in [Calls -> CallState] /\ locks \in [Names -> Calls \cup {None}]

FInv == CallsOK /\ Held /\ Covered

\* What it takes for the step of one call to keep the invariant: rec is what
\* the call becomes
LEMMA OneCall ==
    ASSUME FInv, NEW c \in Calls, NEW rec \in CallState, Become(c, rec), UNCHANGED db,
           locks' \in [Names -> Calls \cup {None}],
           \A n \in Names : n \in rec.owned <=> locks'[n] = c,
           \A n \in Names, d \in Calls \ {c} : locks'[n] = d <=> locks[n] = d,
           rec.pc = "acquire" => rec.open \subseteq rec.todo \cup rec.owned,
           rec.pc \in FillPcs => rec.open \subseteq rec.owned,
           rec.pc \in LatePcs => rec.owned = {}
    PROVE  FInv'
<1>1. call' = [call EXCEPT ![c] = rec] /\ call \in [Calls -> CallState]
  BY DEF Become, FInv, CallsOK
<1>2. call' \in [Calls -> CallState] /\ call'[c] = rec
  BY <1>1
<1>3. \A d \in Calls \ {c} : call'[d] = call[d]
  BY <1>1
<1>4. Held'
  BY <1>2, <1>3 DEF Held, FInv
<1>5. Covered'
  BY <1>2, <1>3 DEF Covered, FInv
<1> QED BY <1>2, <1>4, <1>5 DEF FInv, CallsOK

\* The same for a step that takes no lock and drops none
LEMMA SameLocks ==
    ASSUME FInv, NEW c \in Calls, NEW rec \in CallState, Become(c, rec), UNCHANGED db,
           UNCHANGED locks, rec.owned = call[c].owned,
           rec.pc = "acquire" => rec.open \subseteq rec.todo \cup rec.owned,
           rec.pc \in FillPcs => rec.open \subseteq rec.owned,
           rec.pc \in LatePcs => rec.owned = {}
    PROVE  FInv'
<1>1. \A n \in Names : n \in rec.owned <=> locks'[n] = c
  BY DEF FInv, Held
<1>2. locks' \in [Names -> Calls \cup {None}]
  BY DEF FInv, CallsOK
<1> QED BY <1>1, <1>2, OneCall

LEMMA FillInit == Init => FInv
<1> SUFFICES ASSUME Init PROVE FInv
  OBVIOUS
<1>1. NewCall \in CallState
  BY DEF NewCall, CallState, Pcs
<1>2. CallsOK
  BY <1>1, CacheAssumption DEF Init, CallsOK, Versions
<1>3. Held /\ Covered
  BY CacheAssumption DEF Init, Held, Covered, NewCall, FillPcs, LatePcs
<1> QED BY <1>2, <1>3 DEF FInv

LEMMA FillReads ==
    ASSUME FInv, NEW c \in Calls,
           Begin(c) \/ ReadAliases(c) \/ ReadValues(c) \/ RereadAliases(c) \/ Reread(c)
    PROVE  FInv'
<1>c. call[c] \in CallState
  BY DEF FInv, CallsOK
<1> USE <1>c, CacheAssumption DEF FillPcs, LatePcs
<1>l. call[c].pc \in LatePcs => call[c].owned = {}
  BY DEF FInv, Covered
<1>0. \A s \in Servers : Look(c, s) \in SUBSET Rows
  BY DEF Look, CallState
<1>1. ASSUME Begin(c) PROVE FInv'
  <2>1. PICK A \in Asks \ {{}} :
            Become(c, [call[c] EXCEPT !.pc = "aliases", !.asked = A, !.open = A])
    BY <1>1 DEF Begin
  <2> DEFINE rec == [call[c] EXCEPT !.pc = "aliases", !.asked = A, !.open = A]
  <2>2. rec \in CallState /\ rec.owned = call[c].owned /\ rec.pc = "aliases"
    BY DEF CallState, Pcs
  <2> QED BY <1>1, <2>1, <2>2, SameLocks DEF Begin
<1>2. ASSUME ReadAliases(c) PROVE FInv'
  <2>1. PICK s \in Servers :
            Become(c, [call[c] EXCEPT !.pc = "values", !.look = Look(c, s)])
    BY <1>2 DEF ReadAliases
  <2> DEFINE rec == [call[c] EXCEPT !.pc = "values", !.look = Look(c, s)]
  <2>2. rec \in CallState /\ rec.owned = call[c].owned /\ rec.pc = "values"
    BY <1>0 DEF CallState, Pcs
  <2> QED BY <1>2, <2>1, <2>2, SameLocks DEF ReadAliases
<1>3. ASSUME ReadValues(c) PROVE FInv'
  <2> DEFINE fresh(s) == {r \in call[c].look : Fresh(s, r)}
             left(s)  == call[c].open \ NamesOf(fresh(s))
             rec(s)   == [call[c] EXCEPT
                 !.pc = "acquire", !.look = {}, !.open = left(s), !.todo = left(s),
                 !.got = fresh(s),
                 !.stale = {r \in call[c].look : Cached(s, r)} \ fresh(s)]
  <2>1. PICK s \in Servers : Become(c, rec(s))
    BY <1>3 DEF ReadValues
  <2>2. fresh(s) \in SUBSET Rows /\ left(s) \in SUBSET Names
        /\ {r \in call[c].look : Cached(s, r)} \ fresh(s) \in SUBSET Rows
    BY DEF CallState
  <2> HIDE DEF fresh, left
  <2>3. /\ rec(s) \in CallState /\ rec(s).owned = call[c].owned
        /\ rec(s).pc = "acquire" /\ rec(s).open = left(s) /\ rec(s).todo = left(s)
    BY <2>2 DEF CallState, Pcs
  <2> HIDE DEF rec
  <2> QED BY <1>3, <2>1, <2>3, SameLocks DEF ReadValues
<1>4. ASSUME RereadAliases(c) PROVE FInv'
  <2> DEFINE rec == [call[c] EXCEPT !.pc = "reread", !.look = Look(c, "primary")]
  <2>1. rec \in CallState /\ rec.owned = call[c].owned /\ rec.pc = "reread"
    BY <1>0 DEF CallState, Pcs, Servers
  <2> QED BY <1>4, <1>l, <2>1, SameLocks DEF RereadAliases
<1>5. ASSUME Reread(c) PROVE FInv'
  <2> DEFINE found == {r \in call[c].look : Cached("primary", r)}
             rec   == [call[c] EXCEPT !.pc = "done", !.open = {}, !.look = {},
                                      !.got = @ \cup found]
  <2>1. found \in SUBSET Rows
    BY DEF CallState
  <2>2. Become(c, rec) /\ UNCHANGED <<db, locks>>
    BY <1>5 DEF Reread
  <2> HIDE DEF found
  <2>3. rec \in CallState /\ rec.owned = call[c].owned /\ rec.pc = "done"
    BY <2>1 DEF CallState, Pcs
  <2>4. call[c].owned = {}
    BY <1>5, <1>l DEF Reread
  <2> QED BY <2>2, <2>3, <2>4, SameLocks
<1> QED BY <1>1, <1>2, <1>3, <1>4, <1>5

LEMMA FillAcquires ==
    ASSUME FInv, NEW c \in Calls, Acquire(c) \/ Acquired(c)
    PROVE  FInv'
<1>c. call[c] \in CallState
  BY DEF FInv, CallsOK
<1> USE <1>c, CacheAssumption DEF FillPcs, LatePcs
<1>0. call[c].pc = "acquire" /\ call[c].open \subseteq call[c].todo \cup call[c].owned
  BY DEF Acquire, Acquired, FInv, Covered
<1>1. ASSUME Acquire(c) PROVE FInv'
  <2>1. PICK n \in call[c].todo :
            Skip(c, n) \/ Own(c, n) \/ ServeStale(c, n) \/ WaitFor(c, n)
    BY <1>1 DEF Acquire
  <2>0. UNCHANGED db
    BY <1>1 DEF Acquire
  <2>2. n \in Names /\ RowOf[n] \in Rows
    BY DEF CallState
  <2>3. ASSUME Skip(c, n) PROVE FInv'
    <3> DEFINE rec == [call[c] EXCEPT !.todo = @ \ {n}]
    <3>1. rec \in CallState
      BY DEF CallState
    <3>2. /\ rec.owned = call[c].owned /\ rec.pc = "acquire"
          /\ rec.open \subseteq rec.todo \cup rec.owned
      BY <1>0, <2>3 DEF CallState, Skip
    <3> QED BY <2>0, <2>3, <3>1, <3>2, SameLocks DEF Skip
  <2>4. ASSUME Own(c, n) PROVE FInv'
    <3> DEFINE rec == [call[c] EXCEPT !.todo = @ \ {n}, !.owned = @ \cup {n}]
    <3>1. rec \in CallState
      BY <2>2 DEF CallState
    <3>2. /\ rec.owned = call[c].owned \cup {n} /\ rec.pc = "acquire"
          /\ rec.open \subseteq rec.todo \cup rec.owned
      BY <1>0 DEF CallState
    <3>3. /\ locks' = [locks EXCEPT ![n] = c] /\ locks[n] = None
          /\ locks \in [Names -> Calls \cup {None}]
      BY <2>4 DEF Own, FInv, CallsOK
    <3>4. locks' \in [Names -> Calls \cup {None}]
      BY <2>2, <3>3
    <3>5. \A m \in Names : m \in rec.owned <=> locks'[m] = c
      BY <3>2, <3>3, <2>2 DEF FInv, Held
    <3>6. \A m \in Names, d \in Calls \ {c} : locks'[m] = d <=> locks[m] = d
      BY <2>2, <3>3
    <3>7. Become(c, rec)
      BY <2>4 DEF Own
    <3> HIDE DEF rec
    <3> QED BY <2>0, <3>1, <3>2, <3>4, <3>5, <3>6, <3>7, OneCall
  <2>5. ASSUME ServeStale(c, n) PROVE FInv'
    <3> DEFINE rec == [call[c] EXCEPT
                   !.todo = @ \ {n}, !.open = @ \ NamesOf({RowOf[n]}),
                   !.stale = @ \ {RowOf[n]},
                   !.got = @ \cup {RowOf[n]}, !.served = @ \cup {RowOf[n]}]
    <3>1. rec \in CallState
      BY <2>2 DEF CallState
    <3>2. n \in NamesOf({RowOf[n]})
      BY <2>2 DEF NamesOf
    <3>3. /\ rec.owned = call[c].owned /\ rec.pc = "acquire"
          /\ rec.open \subseteq rec.todo \cup rec.owned
      BY <1>0, <3>2 DEF CallState
    <3> QED BY <2>0, <2>5, <3>1, <3>3, SameLocks DEF ServeStale
  <2>6. ASSUME WaitFor(c, n) PROVE FInv'
    <3> DEFINE rec == [call[c] EXCEPT
                   !.todo = @ \ {n}, !.open = @ \ {n},
                   !.waits = @ \cup {<<n, locks[n]>>}]
    <3>1. locks[n] \in Calls
      BY <2>2, <2>6 DEF WaitFor, FInv, CallsOK
    <3>2. call[c].waits \cup {<<n, locks[n]>>} \in SUBSET (Names \X Calls)
      BY <2>2, <3>1 DEF CallState
    <3>3. rec \in CallState
      BY <3>2 DEF CallState
    <3>4. /\ rec.owned = call[c].owned /\ rec.pc = "acquire"
          /\ rec.open \subseteq rec.todo \cup rec.owned
      BY <1>0 DEF CallState
    <3> QED BY <2>0, <2>6, <3>3, <3>4, SameLocks DEF WaitFor
  <2> QED BY <2>1, <2>3, <2>4, <2>5, <2>6
<1>2. ASSUME Acquired(c) PROVE FInv'
  <2>1. PICK p \in {"drop", "fetch"} :
            Become(c, [call[c] EXCEPT !.pc = p, !.stale = {}])
    BY <1>2 DEF Acquired
  <2> DEFINE rec == [call[c] EXCEPT !.pc = p, !.stale = {}]
  <2>2. rec \in CallState /\ rec.owned = call[c].owned /\ rec.pc = p
    BY DEF CallState, Pcs
  <2>3. rec.open \subseteq rec.owned
    BY <1>0, <1>2 DEF Acquired, CallState
  <2> QED BY <1>2, <2>1, <2>2, <2>3, SameLocks DEF Acquired
<1> QED BY <1>1, <1>2

LEMMA FillFetches ==
    ASSUME FInv, NEW c \in Calls,
           Fetch(c) \/ SetValue(c) \/ SetAlias(c) \/ Filled(c) \/ Fail(c)
    PROVE  FInv'
<1>c. call[c] \in CallState
  BY DEF FInv, CallsOK
<1> USE <1>c, CacheAssumption DEF FillPcs, LatePcs
<1>0. call[c].pc \in FillPcs => call[c].open \subseteq call[c].owned
  BY DEF FInv, Covered
<1>1. ASSUME Fetch(c) PROVE FInv'
  <2> DEFINE rows  == {RowOf[n] : n \in call[c].open} \cap Existing
             batch == {[row |-> r, ver |-> db[r]] : r \in rows}
             rec   == [call[c] EXCEPT !.pc = "set", !.batch = batch]
  <2>1. batch \in SUBSET [row : Rows, ver : Versions]
    BY DEF FInv, CallsOK, CallState
  <2>2. Become(c, rec) /\ UNCHANGED <<db, locks>> /\ call[c].pc = "fetch"
    BY <1>1 DEF Fetch
  <2> HIDE DEF batch
  <2>3. /\ rec \in CallState /\ rec.owned = call[c].owned
        /\ rec.pc = "set" /\ rec.open = call[c].open
    BY <2>1 DEF CallState, Pcs
  <2> QED BY <1>0, <2>2, <2>3, SameLocks
<1>2. ASSUME SetValue(c) PROVE FInv'
  <2>1. PICK b \in call[c].batch, p \in {"set", "setalias"} :
            Become(c, [call[c] EXCEPT !.batch = @ \ {b}, !.got = @ \cup {b.row},
                                      !.cur = b.row, !.pc = p])
    BY <1>2 DEF SetValue
  <2> DEFINE rec == [call[c] EXCEPT !.batch = @ \ {b}, !.got = @ \cup {b.row},
                                    !.cur = b.row, !.pc = p]
  <2>2. b.row \in Rows
    BY DEF CallState
  <2>3. rec \in CallState
    BY <2>2 DEF CallState, Pcs
  <2>4. rec.owned = call[c].owned /\ rec.pc = p /\ rec.open = call[c].open
    BY DEF CallState
  <2>5. UNCHANGED <<db, locks>> /\ call[c].pc = "set"
    BY <1>2 DEF SetValue
  <2> QED BY <1>0, <2>1, <2>3, <2>4, <2>5, SameLocks
<1>3. ASSUME SetAlias(c) PROVE FInv'
  <2> DEFINE rec == [call[c] EXCEPT !.pc = "set", !.cur = None]
  <2>1. /\ rec \in CallState /\ rec.owned = call[c].owned
        /\ rec.pc = "set" /\ rec.open = call[c].open
    BY DEF CallState, Pcs
  <2> QED BY <1>0, <1>3, <2>1, SameLocks DEF SetAlias
<1>4. ASSUME Filled(c) PROVE FInv'
  <2> DEFINE rec == [call[c] EXCEPT !.pc = "drop", !.open = {}, !.cur = None]
  <2>1. rec \in CallState /\ rec.owned = call[c].owned /\ rec.pc = "drop"
    BY DEF CallState, Pcs
  <2> QED BY <1>4, <2>1, SameLocks DEF Filled
<1>5. ASSUME Fail(c) PROVE FInv'
  <2> DEFINE rec == [Failed(c, "drop") EXCEPT !.owned = call[c].owned]
  <2>1. rec \in CallState /\ rec.owned = call[c].owned /\ rec.pc = "drop"
    BY DEF CallState, Pcs, NewCall, Failed
  <2> HIDE DEF rec
  <2>2. Become(c, rec) /\ UNCHANGED <<db, locks>>
    BY <1>5 DEF Fail, rec
  <2> QED BY <2>1, <2>2, SameLocks
<1> QED BY <1>1, <1>2, <1>3, <1>4, <1>5

LEMMA FillReleases ==
    ASSUME FInv, NEW c \in Calls,
           Drop(c) \/ Dropped(c) \/ AwaitAll(c) \/ TimeOut(c)
    PROVE  FInv'
<1>c. call[c] \in CallState
  BY DEF FInv, CallsOK
<1> USE <1>c, CacheAssumption DEF FillPcs, LatePcs
<1>1. ASSUME Drop(c) PROVE FInv'
  <2>1. PICK n \in call[c].owned :
            /\ locks' = [locks EXCEPT ![n] = None]
            /\ Become(c, [call[c] EXCEPT !.owned = @ \ {n}])
    BY <1>1 DEF Drop
  <2> DEFINE rec == [call[c] EXCEPT !.owned = @ \ {n}]
  <2>2. n \in Names /\ locks[n] = c /\ locks \in [Names -> Calls \cup {None}]
    BY DEF CallState, FInv, Held, CallsOK
  <2>3. locks' \in [Names -> Calls \cup {None}]
    BY <2>1, <2>2
  <2>4. rec \in CallState /\ rec.owned = call[c].owned \ {n} /\ rec.pc = "drop"
    BY <1>1 DEF CallState, Drop
  <2>5. \A m \in Names : m \in rec.owned <=> locks'[m] = c
    BY <2>1, <2>2, <2>4 DEF FInv, Held
  <2>6. \A m \in Names, d \in Calls \ {c} : locks'[m] = d <=> locks[m] = d
    BY <2>1, <2>2
  <2>7. Become(c, rec) /\ UNCHANGED db
    BY <1>1, <2>1 DEF Drop
  <2> HIDE DEF rec
  <2> QED BY <2>3, <2>4, <2>5, <2>6, <2>7, OneCall
<1>2. ASSUME Dropped(c) PROVE FInv'
  <2>1. PICK p \in {"failed", "done", "await"} : Become(c, [call[c] EXCEPT !.pc = p])
    BY <1>2 DEF Dropped
  <2> DEFINE rec == [call[c] EXCEPT !.pc = p]
  <2>2. rec \in CallState /\ rec.owned = call[c].owned /\ rec.pc = p
    BY DEF CallState, Pcs
  <2> QED BY <1>2, <2>1, <2>2, SameLocks DEF Dropped
<1>3. ASSUME AwaitAll(c) PROVE FInv'
  <2> DEFINE names == {w[1] : w \in call[c].waits}
             rec   == [call[c] EXCEPT !.pc = "realiases", !.open = names]
  <2>1. names \in SUBSET Names
    BY DEF CallState
  <2>2. Become(c, rec) /\ UNCHANGED <<db, locks>>
    BY <1>3 DEF AwaitAll
  <2> HIDE DEF names
  <2>3. rec \in CallState /\ rec.owned = call[c].owned /\ rec.pc = "realiases"
    BY <2>1 DEF CallState, Pcs
  <2>4. call[c].owned = {}
    BY <1>3 DEF AwaitAll, FInv, Covered
  <2> QED BY <2>2, <2>3, <2>4, SameLocks
<1>4. ASSUME TimeOut(c) PROVE FInv'
  <2> DEFINE rec == Failed(c, "failed")
  <2>1. rec \in CallState /\ rec.owned = {} /\ rec.pc = "failed"
    BY DEF CallState, Pcs, NewCall, Failed
  <2>2. call[c].owned = {}
    BY <1>4 DEF TimeOut, FInv, Covered, LatePcs
  <2> QED BY <1>4, <2>1, <2>2, SameLocks DEF TimeOut
<1> QED BY <1>1, <1>2, <1>3, <1>4

LEMMA FillEnvironment ==
    ASSUME FInv, NEW r \in Rows, Environment(r)
    PROVE  FInv'
<1>1. UNCHANGED <<locks, call>>
  BY DEF Environment, Write, Invalidate, Age, Evict, Replicate
<1>2. db' \in [Rows -> Versions]
  BY CacheAssumption DEF Environment, Write, Invalidate, Age, Evict, Replicate,
                         FInv, CallsOK, Versions
<1> QED BY <1>1, <1>2 DEF FInv, CallsOK, Held, Covered

LEMMA FillNext ==
    ASSUME FInv, [Next]_vars
    PROVE  FInv'
<1>1. CASE UNCHANGED vars
  BY <1>1 DEF vars, FInv, CallsOK, Held, Covered
<1>2. ASSUME NEW c \in Calls, Begin(c) \/ Step(c) \/ Fail(c) \/ TimeOut(c) PROVE FInv'
  BY <1>2, FillReads, FillAcquires, FillFetches, FillReleases DEF Step
<1> QED BY <1>1, <1>2, FillEnvironment DEF Next

THEOREM FillInvariant == Spec => []FInv
BY FillInit, FillNext, PTL DEF Spec

(***************************************************************************)
(* Single flight: for any calls and names, no two calls fetch one name at  *)
(* a time, since each holds the lock of what it fetches.                   *)
(***************************************************************************)
THEOREM SingleFlight == Spec => []OneFetchAtATime
<1>1. FInv => OneFetchAtATime
  <2> SUFFICES ASSUME FInv, NEW c \in Calls, NEW d \in Calls, c # d,
                      call[c].pc \in FillPcs, call[d].pc \in FillPcs
               PROVE  call[c].open \cap call[d].open = {}
    BY DEF OneFetchAtATime
  <2>1. call[c].open \subseteq call[c].owned /\ call[d].open \subseteq call[d].owned
    BY DEF FInv, Covered
  <2>2. call[c].owned \subseteq Names
    BY DEF FInv, CallsOK, CallState
  <2> QED BY <2>1, <2>2 DEF FInv, Held
<1> QED BY <1>1, FillInvariant, PTL

(***************************************************************************)
(* A call that waits or has ended, for whatever reason, holds no lock.     *)
(***************************************************************************)
THEOREM LocksAreFreed == Spec => []NothingHeld
<1>1. FInv => NothingHeld
  BY DEF FInv, Held, Covered, NothingHeld
<1> QED BY <1>1, FillInvariant, PTL

----------------------------------------------------------------------------
(* What a call reports as missing *)

Slugged(r) == \E n \in Slugs : RowOf[n] = r

\* Rows that the primary leads to by every name, or that no call has to find
Settled ==
    {r \in Rows : \/ r \notin Existing \/ r \in lost
                  \/ Cached("primary", r) /\ (Slugged(r) => r \in alias["primary"])}

Here == {r \in Rows : r \in lost \/ Cached("primary", r)}

StoreOK ==
    /\ value \in [Servers -> [Rows -> Values \cup {Absent}]]
    /\ alias \in [Servers -> SUBSET Rows]
    /\ lost \subseteq Rows

Reported(k, n, L) == RowOf[n] \in Existing => RowOf[n] \in k.got \cup L

InBatch(k, r) == \E b \in k.batch : b.row = r

(***************************************************************************)
(* Where the answer of a call k is, name by name, and what the names it    *)
(* holds stand for, when the settled rows are S, the lost ones L and the   *)
(* ones in the primary H.                                                  *)
(***************************************************************************)
Knows(k, S, L, H) ==
    /\ k.pc \in {"idle", "aliases", "values"} =>
          k.owned = {} /\ k.waits = {} /\ k.open = k.asked
    /\ k.pc = "acquire" => k.todo \cap k.owned = {} /\ k.stale \subseteq S
    /\ k.ok /\ k.pc \in {"acquire", "fetch", "set", "setalias", "drop", "await"} =>
          \A n \in k.asked :
              n \in k.open \/ Reported(k, n, L) \/ \E w \in k.waits : w[1] = n
    /\ k.pc \in {"acquire", "fetch"} =>
          \A n \in k.owned : n \in k.open \/ RowOf[n] \in S
    /\ k.pc \in {"set", "setalias"} =>
          /\ \A n \in k.open : Reported(k, n, L) \/ InBatch(k, RowOf[n])
          /\ \A n \in k.owned :
                \/ RowOf[n] \in S \/ InBatch(k, RowOf[n])
                \/ k.pc = "setalias" /\ k.cur = RowOf[n]
          /\ \A b \in k.batch : \E n \in k.owned : RowOf[n] = b.row
    /\ k.pc = "setalias" => k.cur \in H /\ \E n \in k.owned : RowOf[n] = k.cur
    /\ k.pc = "drop" => k.open = {} /\ \A n \in k.owned : RowOf[n] \in S
    /\ k.pc = "await" => k.open = {} /\ k.ok
    /\ k.pc = "realiases" =>
          /\ \A n \in k.open : RowOf[n] \in S
          /\ \A n \in k.asked : n \in k.open \/ Reported(k, n, L)
    /\ k.pc = "reread" =>
          \A n \in k.asked : RowOf[n] \in k.look \cap S \/ Reported(k, n, L)
    /\ k.pc = "done" => \A n \in k.asked : Reported(k, n, L)

CallsKnow == \A c \in Calls : Knows(call[c], Settled, lost, Here)

\* A name that is waited for is still held, or its row is settled
Awaited ==
    \A c \in Calls : \A w \in call[c].waits :
        w[1] \in call[w[2]].owned \/ RowOf[w[1]] \in Settled

\* A cached row has its alias key, or a call is about to set it
AliasComes ==
    \A s \in Servers, r \in Rows :
        Cached(s, r) =>
            \/ r \in Settled
            \/ /\ ~value[s][r].old
               /\ \E c \in Calls : call[c].pc = "setalias" /\ call[c].cur = r

AnswerInv == FInv /\ StoreOK /\ CallsKnow /\ Awaited /\ AliasComes

LEMMA KnowsKept ==
    ASSUME NEW k \in CallState, NEW S, NEW L, NEW H, NEW S2, NEW L2, NEW H2,
           Knows(k, S, L, H), S \subseteq S2, L \subseteq L2, H \subseteq H2
    PROVE  Knows(k, S2, L2, H2)
<1>1. \A n : Reported(k, n, L) => Reported(k, n, L2)
  BY DEF Reported
<1> QED BY <1>1 DEF Knows

\* No step makes a row that is settled unsettled
LEMMA StoreGrows ==
    ASSUME FInv, StoreOK, CallsKnow, [Next]_vars
    PROVE  /\ StoreOK' /\ Settled \subseteq Settled' /\ lost \subseteq lost'
           /\ Here \subseteq Here'
<1> USE CacheAssumption DEF StoreOK, Servers
<1>1. CASE UNCHANGED <<value, alias, lost>>
  BY <1>1 DEF Settled, Here, Cached
<1>2. ASSUME NEW c \in Calls, SetValue(c) \/ SetAlias(c) \/ Fail(c)
      PROVE  /\ StoreOK' /\ Settled \subseteq Settled' /\ lost \subseteq lost'
             /\ Here \subseteq Here'
  <2>0. call[c] \in CallState
    BY DEF FInv, CallsOK
  <2>1. CASE SetValue(c)
    <3>1. PICK b \in call[c].batch :
              value' = [value EXCEPT !["primary"][b.row] = [ver |-> b.ver, old |-> FALSE]]
      BY <2>1 DEF SetValue
    <3>2. b.row \in Rows /\ b.ver \in Versions
      BY <2>0 DEF CallState
    <3>3. [ver |-> b.ver, old |-> FALSE] \in Values /\ [ver |-> b.ver, old |-> FALSE] # Absent
      BY <3>2 DEF Values, Absent, Versions
    <3>4. UNCHANGED <<alias, lost>>
      BY <2>1 DEF SetValue, ghosts
    <3>5. StoreOK'
      BY <3>1, <3>2, <3>3, <3>4
    <3>6. \A r \in Rows : Cached("primary", r) => Cached("primary", r)'
      BY <3>1, <3>2, <3>3 DEF Cached
    <3> QED BY <3>4, <3>5, <3>6 DEF Settled, Here
  <2>2. CASE SetAlias(c)
    <3>1. alias' = [alias EXCEPT !["primary"] = @ \cup {call[c].cur}]
          /\ UNCHANGED <<value, lost>> /\ call[c].pc = "setalias"
      BY <2>2 DEF SetAlias, ghosts
    <3>2. call[c].cur \in Rows
      BY <3>1 DEF CallsKnow, Knows, Here
    <3>3. StoreOK' /\ alias["primary"] \subseteq alias'["primary"]
      BY <3>1, <3>2
    <3> QED BY <3>1, <3>3 DEF Settled, Here, Cached
  <2>3. CASE Fail(c)
    <3>1. /\ lost' = lost \cup {RowOf[n] : n \in call[c].owned}
          /\ UNCHANGED <<value, alias>>
      BY <2>3 DEF Fail, server
    <3> QED BY <2>0, <3>1 DEF Settled, Here, Cached, CallState
  <2> QED BY <1>2, <2>1, <2>2, <2>3
<1>3. ASSUME NEW r \in Rows, Invalidate(r) \/ Age(r) \/ Evict(r) \/ Replicate(r)
      PROVE  /\ StoreOK' /\ Settled \subseteq Settled' /\ lost \subseteq lost'
             /\ Here \subseteq Here'
  <2>1. CASE Invalidate(r)
    BY <2>1 DEF Invalidate, Settled, Here, Cached, Values
  <2>2. CASE Age(r)
    <3>1. value' = [s \in Servers |->
              [value[s] EXCEPT ![r] = IF @ = Absent THEN @ ELSE [@ EXCEPT !.old = TRUE]]]
          /\ UNCHANGED <<alias, lost>>
      BY <2>2 DEF Age, ghosts
    <3>2. \A v \in Values : /\ [v EXCEPT !.old = TRUE] \in Values
                            /\ v # Absent => [v EXCEPT !.old = TRUE] # Absent
      BY DEF Values, Absent, Versions
    <3>3. value' \in [Servers -> [Rows -> Values \cup {Absent}]]
      BY <3>1, <3>2
    <3>4. \A q \in Rows : Cached("primary", q) => Cached("primary", q)'
      BY <3>1, <3>2 DEF Cached
    <3> QED BY <3>1, <3>3, <3>4 DEF Settled, Here
  <2>3. CASE Evict(r)
    BY <2>3 DEF Evict, Settled, Here, Cached, Values
  <2>4. CASE Replicate(r)
    BY <2>4 DEF Replicate, Settled, Here, Cached, Values, ghosts
  <2> QED BY <1>3, <2>1, <2>2, <2>3, <2>4
<1>4. ASSUME NEW c \in Calls, Begin(c) \/ Step(c) \/ Fail(c) \/ TimeOut(c)
      PROVE  \/ UNCHANGED <<value, alias, lost>>
             \/ SetValue(c) \/ SetAlias(c) \/ Fail(c)
  BY <1>4 DEF Begin, Step, TimeOut, ReadAliases, ReadValues, Acquire, Acquired, Fetch,
              Filled, Drop, Dropped, AwaitAll, RereadAliases, Reread, server, ghosts
<1>5. ASSUME NEW r \in Rows, Environment(r)
      PROVE  \/ UNCHANGED <<value, alias, lost>>
             \/ Invalidate(r) \/ Age(r) \/ Evict(r) \/ Replicate(r)
  BY <1>5 DEF Environment, Write, server, ghosts
<1>6. CASE UNCHANGED vars
  BY <1>1, <1>6 DEF vars
<1> QED BY <1>1, <1>2, <1>3, <1>4, <1>5, <1>6 DEF Next

\* What it takes for the step of call c, which becomes rec
LEMMA CallMoves ==
    ASSUME AnswerInv, [Next]_vars, NEW c \in Calls, NEW rec \in CallState, Become(c, rec),
           Knows(rec, Settled', lost', Here'),
           \A w \in rec.waits : w \in call[c].waits \/ w[1] \in call[w[2]].owned,
           \A n \in call[c].owned \ rec.owned : RowOf[n] \in Settled'
    PROVE  CallsKnow' /\ Awaited'
<1>1. /\ Settled \subseteq Settled' /\ lost \subseteq lost' /\ Here \subseteq Here'
      /\ call \in [Calls -> CallState]
  BY StoreGrows DEF AnswerInv, FInv, CallsOK
<1>2. /\ call' \in [Calls -> CallState] /\ call'[c] = rec
      /\ \A d \in Calls \ {c} : call'[d] = call[d]
  BY <1>1 DEF Become
<1>3. CallsKnow'
  <2> SUFFICES ASSUME NEW d \in Calls PROVE Knows(call'[d], Settled', lost', Here')
    BY DEF CallsKnow
  <2>1. CASE d = c
    BY <1>2, <2>1
  <2>2. CASE d # c
    <3>1. call'[d] = call[d] /\ call[d] \in CallState
          /\ Knows(call[d], Settled, lost, Here)
      BY <1>1, <1>2, <2>2 DEF AnswerInv, CallsKnow
    <3> QED BY <1>1, <3>1, KnowsKept
  <2> QED BY <2>1, <2>2
<1>4. \A d \in Calls : \A n \in call[d].owned : n \in call'[d].owned \/ RowOf[n] \in Settled'
  BY <1>2
<1>5. Awaited'
  <2> SUFFICES ASSUME NEW d \in Calls, NEW w \in call'[d].waits
               PROVE  w[1] \in call'[w[2]].owned \/ RowOf[w[1]] \in Settled'
    BY DEF Awaited
  <2>1. w[2] \in Calls
    BY <1>2 DEF CallState
  <2>2. w \in call[d].waits \/ w[1] \in call[w[2]].owned
    BY <1>2
  <2>3. w[1] \in call[w[2]].owned \/ RowOf[w[1]] \in Settled
    BY <2>2 DEF AnswerInv, Awaited
  <2> QED BY <1>1, <1>4, <2>1, <2>3
<1> QED BY <1>3, <1>5

\* The same for a step that keeps what is waited for, held and stored
LEMMA CallGoesOn ==
    ASSUME AnswerInv, [Next]_vars, NEW c \in Calls, NEW rec \in CallState, Become(c, rec),
           Knows(rec, Settled, lost, Here), rec.waits \subseteq call[c].waits,
           call[c].owned \subseteq rec.owned
    PROVE  CallsKnow' /\ Awaited'
<1>1. Knows(rec, Settled', lost', Here')
  BY StoreGrows, KnowsKept DEF AnswerInv
<1> QED BY <1>1, CallMoves

LEMMA ReadsKnow ==
    ASSUME AnswerInv, [Next]_vars, NEW c \in Calls,
           Begin(c) \/ ReadAliases(c) \/ ReadValues(c) \/ RereadAliases(c) \/ Reread(c)
    PROVE  CallsKnow' /\ Awaited'
<1>c. call[c] \in CallState /\ Knows(call[c], Settled, lost, Here)
  BY DEF AnswerInv, FInv, CallsOK, CallsKnow
<1> USE <1>c, CacheAssumption
<1>0. \A s \in Servers : Look(c, s) \in SUBSET Rows
  BY DEF Look, CallState
<1>1. CASE Begin(c)
  <2>1. PICK A \in Asks \ {{}} :
            Become(c, [call[c] EXCEPT !.pc = "aliases", !.asked = A, !.open = A])
    BY <1>1 DEF Begin
  <2> DEFINE rec == [call[c] EXCEPT !.pc = "aliases", !.asked = A, !.open = A]
  <2>2. /\ rec \in CallState /\ rec.pc = "aliases" /\ rec.owned = call[c].owned
        /\ rec.waits = call[c].waits /\ rec.open = A /\ rec.asked = A
    BY DEF CallState, Pcs
  <2>3. call[c].pc = "idle"
    BY <1>1 DEF Begin
  <2> HIDE DEF rec
  <2>4. Knows(rec, Settled, lost, Here)
    BY <2>2, <2>3 DEF Knows
  <2> QED BY <2>1, <2>2, <2>4, CallGoesOn DEF rec
<1>2. CASE ReadAliases(c)
  <2>1. PICK s \in Servers :
            Become(c, [call[c] EXCEPT !.pc = "values", !.look = Look(c, s)])
    BY <1>2 DEF ReadAliases
  <2> DEFINE rec == [call[c] EXCEPT !.pc = "values", !.look = Look(c, s)]
  <2>2. /\ rec \in CallState /\ rec.pc = "values" /\ rec.owned = call[c].owned
        /\ rec.waits = call[c].waits /\ rec.open = call[c].open
        /\ rec.asked = call[c].asked
    BY <1>0 DEF CallState, Pcs
  <2>3. call[c].pc = "aliases"
    BY <1>2 DEF ReadAliases
  <2> HIDE DEF rec
  <2>4. Knows(rec, Settled, lost, Here)
    BY <2>2, <2>3 DEF Knows
  <2> QED BY <2>1, <2>2, <2>4, CallGoesOn DEF rec
<1>3. CASE ReadValues(c)
  <2> DEFINE fresh(s) == {r \in call[c].look : Fresh(s, r)}
             left(s)  == call[c].open \ NamesOf(fresh(s))
             old(s)   == {r \in call[c].look : Cached(s, r)} \ fresh(s)
             rec(s)   == [call[c] EXCEPT
                 !.pc = "acquire", !.look = {}, !.open = left(s), !.todo = left(s),
                 !.got = fresh(s), !.stale = old(s)]
  <2>1. PICK s \in Servers : Become(c, rec(s))
    BY <1>3 DEF ReadValues
  <2>2. fresh(s) \in SUBSET Rows /\ left(s) \in SUBSET Names /\ old(s) \in SUBSET Rows
    BY DEF CallState
  <2>3. old(s) \subseteq Settled
    BY DEF AnswerInv, AliasComes, Fresh, CallState
  <2>4. \A n \in call[c].open : n \in left(s) \/ RowOf[n] \in fresh(s)
    BY DEF NamesOf, CallState
  <2> HIDE DEF fresh, left, old
  <2>5. /\ rec(s) \in CallState /\ rec(s).pc = "acquire" /\ rec(s).owned = call[c].owned
        /\ rec(s).waits = call[c].waits /\ rec(s).open = left(s)
        /\ rec(s).todo = left(s) /\ rec(s).asked = call[c].asked
        /\ rec(s).got = fresh(s) /\ rec(s).stale = old(s)
    BY <2>2 DEF CallState, Pcs
  <2>6. call[c].pc = "values"
    BY <1>3 DEF ReadValues
  <2> HIDE DEF rec
  <2>7. Knows(rec(s), Settled, lost, Here)
    BY <2>3, <2>4, <2>5, <2>6 DEF Knows, Reported
  <2> QED BY <2>1, <2>5, <2>7, CallGoesOn
<1>4. CASE RereadAliases(c)
  <2> DEFINE rec == [call[c] EXCEPT !.pc = "reread", !.look = Look(c, "primary")]
  <2>1. /\ rec \in CallState /\ rec.pc = "reread" /\ rec.owned = call[c].owned
        /\ rec.waits = call[c].waits /\ rec.asked = call[c].asked
        /\ rec.got = call[c].got /\ rec.look = Look(c, "primary")
    BY <1>0 DEF CallState, Pcs, Servers
  <2>2. call[c].pc = "realiases" /\ Become(c, rec)
    BY <1>4 DEF RereadAliases
  <2> HIDE DEF rec
  <2>3. ASSUME NEW n \in call[c].open
        PROVE  RowOf[n] \in Look(c, "primary") \cap Settled \/ Reported(rec, n, lost)
    <3>1. RowOf[n] \in Settled /\ n \in Names
      BY <2>2 DEF Knows, CallState
    <3>2. CASE n \notin Slugs
      BY <3>1, <3>2 DEF Look
    <3>3. CASE n \in Slugs
      BY <3>1, <3>3 DEF Look, Settled, Slugged, Reported
    <3> QED BY <3>2, <3>3
  <2>4. Knows(rec, Settled, lost, Here)
    BY <2>1, <2>2, <2>3 DEF Knows, Reported
  <2> QED BY <2>1, <2>2, <2>4, CallGoesOn
<1>5. CASE Reread(c)
  <2> DEFINE found == {r \in call[c].look : Cached("primary", r)}
             rec   == [call[c] EXCEPT !.pc = "done", !.open = {}, !.look = {},
                                      !.got = @ \cup found]
  <2>1. found \in SUBSET Rows
    BY DEF CallState
  <2>2. Become(c, rec) /\ call[c].pc = "reread"
    BY <1>5 DEF Reread
  <2>3. \A r \in call[c].look \cap Settled : r \in Existing => r \in found \cup lost
    BY DEF Settled
  <2> HIDE DEF found
  <2>4. /\ rec \in CallState /\ rec.pc = "done" /\ rec.owned = call[c].owned
        /\ rec.waits = call[c].waits /\ rec.asked = call[c].asked
        /\ rec.got = call[c].got \cup found
    BY <2>1 DEF CallState, Pcs
  <2> HIDE DEF rec
  <2>5. Knows(rec, Settled, lost, Here)
    BY <2>2, <2>3, <2>4 DEF Knows, Reported
  <2> QED BY <2>2, <2>4, <2>5, CallGoesOn
<1> QED BY <1>1, <1>2, <1>3, <1>4, <1>5

LEMMA AcquiresKnow ==
    ASSUME AnswerInv, [Next]_vars, NEW c \in Calls, Acquire(c) \/ Acquired(c)
    PROVE  CallsKnow' /\ Awaited'
<1>c. call[c] \in CallState /\ Knows(call[c], Settled, lost, Here)
  BY DEF AnswerInv, FInv, CallsOK, CallsKnow
<1>p. call[c].pc = "acquire"
  BY DEF Acquire, Acquired
<1> USE <1>c, <1>p, CacheAssumption
<1>1. CASE Acquire(c)
  <2>1. PICK n \in call[c].todo :
            Skip(c, n) \/ Own(c, n) \/ ServeStale(c, n) \/ WaitFor(c, n)
    BY <1>1 DEF Acquire
  <2>2. n \in Names /\ RowOf[n] \in Rows /\ n \notin call[c].owned
    BY DEF CallState, Knows
  <2>3. CASE Skip(c, n)
    <3> DEFINE rec == [call[c] EXCEPT !.todo = @ \ {n}]
    <3>1. /\ rec \in CallState /\ rec.pc = "acquire" /\ rec.owned = call[c].owned
          /\ rec.waits = call[c].waits /\ rec.asked = call[c].asked
          /\ rec.got = call[c].got /\ rec.open = call[c].open /\ rec.ok = call[c].ok
          /\ rec.todo = call[c].todo \ {n} /\ rec.stale = call[c].stale
      BY DEF CallState
    <3>2. Become(c, rec)
      BY <2>3 DEF Skip
    <3> HIDE DEF rec
    <3>3. Knows(rec, Settled, lost, Here)
      BY <3>1 DEF Knows, Reported
    <3> QED BY <3>1, <3>2, <3>3, CallGoesOn
  <2>4. CASE Own(c, n)
    <3> DEFINE rec == [call[c] EXCEPT !.todo = @ \ {n}, !.owned = @ \cup {n}]
    <3>1. /\ rec \in CallState /\ rec.pc = "acquire" /\ rec.owned = call[c].owned \cup {n}
          /\ rec.waits = call[c].waits /\ rec.asked = call[c].asked
          /\ rec.got = call[c].got /\ rec.open = call[c].open /\ rec.ok = call[c].ok
          /\ rec.todo = call[c].todo \ {n} /\ rec.stale = call[c].stale
      BY <2>2 DEF CallState
    <3>2. Become(c, rec) /\ n \in call[c].open
      BY <2>4 DEF Own
    <3> HIDE DEF rec
    <3>3. Knows(rec, Settled, lost, Here)
      BY <3>1, <3>2 DEF Knows, Reported
    <3> QED BY <3>1, <3>2, <3>3, CallGoesOn
  <2>5. CASE ServeStale(c, n)
    <3> DEFINE rec == [call[c] EXCEPT
                   !.todo = @ \ {n}, !.open = @ \ NamesOf({RowOf[n]}),
                   !.stale = @ \ {RowOf[n]},
                   !.got = @ \cup {RowOf[n]}, !.served = @ \cup {RowOf[n]}]
    <3>1. /\ rec \in CallState /\ rec.pc = "acquire" /\ rec.owned = call[c].owned
          /\ rec.waits = call[c].waits /\ rec.asked = call[c].asked
          /\ rec.got = call[c].got \cup {RowOf[n]} /\ rec.ok = call[c].ok
          /\ rec.open = call[c].open \ NamesOf({RowOf[n]})
          /\ rec.todo = call[c].todo \ {n} /\ rec.stale = call[c].stale \ {RowOf[n]}
      BY <2>2 DEF CallState
    <3>2. Become(c, rec) /\ RowOf[n] \in Settled
      BY <2>5 DEF ServeStale, Knows
    <3>3. \A m \in call[c].open : m \in rec.open \/ RowOf[m] = RowOf[n]
      BY <3>1 DEF NamesOf, CallState
    <3> HIDE DEF rec
    <3>4. Knows(rec, Settled, lost, Here)
      BY <3>1, <3>2, <3>3, ZenonT(40) DEF Knows, Reported
    <3> QED BY <3>1, <3>2, <3>4, CallGoesOn
  <2>6. CASE WaitFor(c, n)
    <3> DEFINE w   == <<n, locks[n]>>
               rec == [call[c] EXCEPT
                   !.todo = @ \ {n}, !.open = @ \ {n}, !.waits = @ \cup {w}]
    <3>1. locks[n] \in Calls
      BY <2>2, <2>6 DEF WaitFor, AnswerInv, FInv, CallsOK
    <3>2. w \in Names \X Calls /\ w[1] = n /\ w[1] \in call[w[2]].owned
      BY <2>2, <3>1 DEF AnswerInv, FInv, Held
    <3>3. call[c].waits \cup {w} \in SUBSET (Names \X Calls)
      BY <3>2 DEF CallState
    <3>4. Become(c, rec)
      BY <2>6 DEF WaitFor
    <3> HIDE DEF w
    <3>5. /\ rec \in CallState /\ rec.pc = "acquire" /\ rec.owned = call[c].owned
          /\ rec.waits = call[c].waits \cup {w} /\ rec.asked = call[c].asked
          /\ rec.got = call[c].got /\ rec.open = call[c].open \ {n} /\ rec.ok = call[c].ok
          /\ rec.todo = call[c].todo \ {n} /\ rec.stale = call[c].stale
      BY <3>3 DEF CallState
    <3> HIDE DEF rec
    <3>6. Knows(rec, Settled, lost, Here)
      BY <2>2, <3>2, <3>5 DEF Knows, Reported
    <3>7. Knows(rec, Settled', lost', Here')
      BY <3>5, <3>6, StoreGrows, KnowsKept DEF AnswerInv
    <3> QED BY <3>2, <3>4, <3>5, <3>7, CallMoves
  <2> QED BY <2>1, <2>3, <2>4, <2>5, <2>6
<1>2. CASE Acquired(c)
  <2>1. PICK p \in {"drop", "fetch"} :
            /\ Become(c, [call[c] EXCEPT !.pc = p, !.stale = {}])
            /\ p = "drop" => call[c].open = {}
    BY <1>2 DEF Acquired
  <2> DEFINE rec == [call[c] EXCEPT !.pc = p, !.stale = {}]
  <2>2. /\ rec \in CallState /\ rec.pc = p /\ rec.owned = call[c].owned
        /\ rec.waits = call[c].waits /\ rec.asked = call[c].asked
        /\ rec.got = call[c].got /\ rec.open = call[c].open /\ rec.ok = call[c].ok
    BY DEF CallState, Pcs
  <2> HIDE DEF rec
  <2>3. Knows(rec, Settled, lost, Here)
    BY <2>1, <2>2 DEF Knows, Reported
  <2> QED BY <2>1, <2>2, <2>3, CallGoesOn DEF rec
<1> QED BY <1>1, <1>2

LEMMA FetchesKnow ==
    ASSUME AnswerInv, [Next]_vars, NEW c \in Calls,
           Fetch(c) \/ SetValue(c) \/ SetAlias(c) \/ Filled(c) \/ Fail(c)
    PROVE  CallsKnow' /\ Awaited'
<1>c. call[c] \in CallState /\ Knows(call[c], Settled, lost, Here)
  BY DEF AnswerInv, FInv, CallsOK, CallsKnow
<1>g. StoreOK' /\ Settled \subseteq Settled' /\ lost \subseteq lost' /\ Here \subseteq Here'
  BY StoreGrows DEF AnswerInv
<1>k. Knows(call[c], Settled', lost', Here')
  BY <1>c, <1>g, KnowsKept
<1> USE <1>c, CacheAssumption
<1>1. CASE Fetch(c)
  <2> DEFINE rows  == {RowOf[n] : n \in call[c].open} \cap Existing
             batch == {[row |-> r, ver |-> db[r]] : r \in rows}
             rec   == [call[c] EXCEPT !.pc = "set", !.batch = batch]
  <2>1. batch \in SUBSET [row : Rows, ver : Versions]
    BY DEF AnswerInv, FInv, CallsOK, CallState
  <2>2. Become(c, rec) /\ call[c].pc = "fetch"
    BY <1>1 DEF Fetch
  <2>3. call[c].open \subseteq call[c].owned
    BY <2>2 DEF AnswerInv, FInv, Covered, FillPcs
  <2>4. /\ \A b \in batch : \E n \in call[c].open : RowOf[n] = b.row
        /\ \A n \in call[c].open : RowOf[n] \in Existing => \E b \in batch : b.row = RowOf[n]
        /\ \A n \in call[c].open : RowOf[n] \notin Existing => RowOf[n] \in Settled
    <3>1. \A b \in batch : \E r \in rows : b.row = r
      OBVIOUS
    <3>2. \A r \in rows : [row |-> r, ver |-> db[r]] \in batch
      OBVIOUS
    <3>3. \A r \in rows : [row |-> r, ver |-> db[r]].row = r
      OBVIOUS
    <3>4. \A n \in call[c].open : RowOf[n] \in Rows
      BY DEF CallState
    <3>5. /\ \A r \in rows : \E n \in call[c].open : RowOf[n] = r
          /\ \A n \in call[c].open : RowOf[n] \in Existing => RowOf[n] \in rows
      OBVIOUS
    <3> HIDE DEF batch, rows
    <3>6. \A r \in rows : \E b \in batch : b.row = r
      BY <3>2, <3>3
    <3> QED BY <3>1, <3>4, <3>5, <3>6 DEF Settled
  <2> HIDE DEF batch
  <2>5. /\ rec \in CallState /\ rec.pc = "set" /\ rec.owned = call[c].owned
        /\ rec.waits = call[c].waits /\ rec.asked = call[c].asked /\ rec.ok = call[c].ok
        /\ rec.got = call[c].got /\ rec.open = call[c].open /\ rec.batch = batch
    BY <2>1 DEF CallState, Pcs
  <2> HIDE DEF rec
  <2>6. Knows(rec, Settled, lost, Here)
    BY <2>2, <2>3, <2>4, <2>5 DEF Knows, Reported, InBatch
  <2> QED BY <2>2, <2>5, <2>6, CallGoesOn
<1>2. CASE SetValue(c)
  <2>1. PICK b \in call[c].batch :
            /\ value' = [value EXCEPT !["primary"][b.row] = [ver |-> b.ver, old |-> FALSE]]
            /\ Become(c, [call[c] EXCEPT
                   !.batch = @ \ {b}, !.got = @ \cup {b.row}, !.cur = b.row,
                   !.pc = IF \E n \in Slugs : RowOf[n] = b.row THEN "setalias" ELSE "set"])
    BY <1>2 DEF SetValue
  <2> DEFINE p   == IF \E n \in Slugs : RowOf[n] = b.row THEN "setalias" ELSE "set"
             rec == [call[c] EXCEPT !.batch = @ \ {b}, !.got = @ \cup {b.row},
                                    !.cur = b.row, !.pc = p]
  <2>2. b.row \in Rows /\ b.ver \in Versions
    BY DEF CallState
  <2>3. /\ rec \in CallState /\ rec.pc = p /\ rec.owned = call[c].owned
        /\ rec.waits = call[c].waits /\ rec.asked = call[c].asked /\ rec.ok = call[c].ok
        /\ rec.got = call[c].got \cup {b.row} /\ rec.open = call[c].open
        /\ rec.batch = call[c].batch \ {b} /\ rec.cur = b.row
    BY <2>2 DEF CallState, Pcs
  <2>4. call[c].pc = "set"
    BY <1>2 DEF SetValue
  <2>5. value'["primary"][b.row] # Absent
    BY <2>1, <2>2 DEF AnswerInv, StoreOK, Servers, Absent, Versions
  <2>6. b.row \in Here' /\ (p = "set" => b.row \in Settled')
    BY <2>2, <2>5 DEF Here, Settled, Cached, Slugged
  <2>7. \A r : InBatch(call[c], r) => InBatch(rec, r) \/ r = b.row
    BY <2>3 DEF InBatch
  <2>8. InBatch(call[c], b.row) /\ \E n \in call[c].owned : RowOf[n] = b.row
    BY <2>4 DEF InBatch, Knows
  <2> HIDE DEF rec
  <2>9. Knows(rec, Settled', lost', Here')
    <3>1. \A n \in rec.asked :
              rec.ok => n \in rec.open \/ Reported(rec, n, lost') \/ \E w \in rec.waits : w[1] = n
      BY <1>k, <2>3, <2>4 DEF Knows, Reported
    <3>2. \A n \in rec.open : Reported(rec, n, lost') \/ InBatch(rec, RowOf[n])
      BY <1>k, <2>3, <2>4, <2>7 DEF Knows, Reported
    <3>3. \A n \in rec.owned : \/ RowOf[n] \in Settled' \/ InBatch(rec, RowOf[n])
                               \/ p = "setalias" /\ b.row = RowOf[n]
      BY <1>k, <2>3, <2>4, <2>6, <2>7 DEF Knows
    <3>4. \A q \in rec.batch : \E n \in rec.owned : RowOf[n] = q.row
      BY <2>3, <2>4 DEF Knows
    <3>5. p \in {"set", "setalias"}
      OBVIOUS
    <3> HIDE DEF p
    <3> QED BY <2>3, <2>6, <2>8, <3>1, <3>2, <3>3, <3>4, <3>5 DEF Knows
  <2> QED BY <2>1, <2>3, <2>9, CallMoves DEF rec
<1>3. CASE SetAlias(c)
  <2> DEFINE rec == [call[c] EXCEPT !.pc = "set", !.cur = None]
  <2>1. /\ rec \in CallState /\ rec.pc = "set" /\ rec.owned = call[c].owned
        /\ rec.waits = call[c].waits /\ rec.asked = call[c].asked /\ rec.ok = call[c].ok
        /\ rec.got = call[c].got /\ rec.open = call[c].open /\ rec.batch = call[c].batch
    BY DEF CallState, Pcs
  <2>2. /\ Become(c, rec) /\ call[c].pc = "setalias"
        /\ alias' = [alias EXCEPT !["primary"] = @ \cup {call[c].cur}]
        /\ UNCHANGED <<value, lost>>
    BY <1>3 DEF SetAlias, ghosts
  <2>3. call[c].cur \in Settled'
    BY <2>2 DEF Knows, Here, Settled, Cached, AnswerInv, StoreOK, Servers
  <2> HIDE DEF rec
  <2>4. Knows(rec, Settled', lost', Here')
    BY <1>k, <2>1, <2>2, <2>3 DEF Knows, Reported, InBatch
  <2> QED BY <2>1, <2>2, <2>4, CallMoves
<1>4. CASE Filled(c)
  <2> DEFINE rec == [call[c] EXCEPT !.pc = "drop", !.open = {}, !.cur = None]
  <2>1. /\ rec \in CallState /\ rec.pc = "drop" /\ rec.owned = call[c].owned
        /\ rec.waits = call[c].waits /\ rec.asked = call[c].asked /\ rec.ok = call[c].ok
        /\ rec.got = call[c].got /\ rec.open = {}
    BY DEF CallState, Pcs
  <2>2. Become(c, rec) /\ call[c].pc = "set" /\ call[c].batch = {}
    BY <1>4 DEF Filled
  <2> HIDE DEF rec
  <2>3. Knows(rec, Settled, lost, Here)
    BY <2>1, <2>2 DEF Knows, Reported, InBatch
  <2> QED BY <2>1, <2>2, <2>3, CallGoesOn
<1>5. CASE Fail(c)
  <2> DEFINE rec == [Failed(c, "drop") EXCEPT !.owned = call[c].owned]
  <2>1. /\ rec \in CallState /\ rec.pc = "drop" /\ rec.owned = call[c].owned
        /\ rec.waits = {} /\ rec.open = {} /\ ~rec.ok
    BY DEF CallState, Pcs, Failed, NewCall
  <2>2. Become(c, rec) /\ lost' = lost \cup {RowOf[n] : n \in call[c].owned}
    BY <1>5 DEF Fail
  <2>3. \A n \in call[c].owned : RowOf[n] \in Settled'
    BY <2>2 DEF Settled, CallState
  <2> HIDE DEF rec
  <2>4. Knows(rec, Settled', lost', Here')
    BY <2>1, <2>3 DEF Knows
  <2> QED BY <2>1, <2>2, <2>4, CallMoves
<1> QED BY <1>1, <1>2, <1>3, <1>4, <1>5

LEMMA ReleasesKnow ==
    ASSUME AnswerInv, [Next]_vars, NEW c \in Calls,
           Drop(c) \/ Dropped(c) \/ AwaitAll(c) \/ TimeOut(c)
    PROVE  CallsKnow' /\ Awaited'
<1>c. call[c] \in CallState /\ Knows(call[c], Settled, lost, Here)
  BY DEF AnswerInv, FInv, CallsOK, CallsKnow
<1>g. StoreOK' /\ Settled \subseteq Settled' /\ lost \subseteq lost' /\ Here \subseteq Here'
  BY StoreGrows DEF AnswerInv
<1> USE <1>c, CacheAssumption
<1>1. CASE Drop(c)
  <2>1. PICK n \in call[c].owned : Become(c, [call[c] EXCEPT !.owned = @ \ {n}])
    BY <1>1 DEF Drop
  <2> DEFINE rec == [call[c] EXCEPT !.owned = @ \ {n}]
  <2>2. /\ rec \in CallState /\ rec.pc = "drop" /\ rec.owned = call[c].owned \ {n}
        /\ rec.waits = call[c].waits /\ rec.asked = call[c].asked /\ rec.ok = call[c].ok
        /\ rec.got = call[c].got /\ rec.open = call[c].open
    BY <1>1 DEF CallState, Drop
  <2>3. call[c].pc = "drop"
    BY <1>1 DEF Drop
  <2>4. RowOf[n] \in Settled'
    BY <1>g, <2>3 DEF Knows
  <2> HIDE DEF rec
  <2>5. Knows(rec, Settled, lost, Here)
    BY <2>2, <2>3 DEF Knows, Reported
  <2>6. Knows(rec, Settled', lost', Here')
    BY <1>g, <2>2, <2>5, KnowsKept
  <2> QED BY <2>1, <2>2, <2>4, <2>6, CallMoves DEF rec
<1>2. CASE Dropped(c)
  <2> DEFINE p   == IF ~call[c].ok THEN "failed"
                    ELSE IF call[c].waits = {} THEN "done" ELSE "await"
             rec == [call[c] EXCEPT !.pc = p]
  <2>1. /\ rec \in CallState /\ rec.pc = p /\ rec.owned = call[c].owned
        /\ rec.waits = call[c].waits /\ rec.asked = call[c].asked /\ rec.ok = call[c].ok
        /\ rec.got = call[c].got /\ rec.open = call[c].open
    BY DEF CallState, Pcs
  <2>2. Become(c, rec) /\ call[c].pc = "drop"
    BY <1>2 DEF Dropped
  <2> HIDE DEF rec
  <2>3. Knows(rec, Settled, lost, Here)
    BY <2>1, <2>2 DEF Knows, Reported
  <2> QED BY <2>1, <2>2, <2>3, CallGoesOn
<1>3. CASE AwaitAll(c)
  <2> DEFINE names == {w[1] : w \in call[c].waits}
             rec   == [call[c] EXCEPT !.pc = "realiases", !.open = names]
  <2>1. names \in SUBSET Names
    BY DEF CallState
  <2>2. Become(c, rec) /\ call[c].pc = "await" /\ Released(c)
    BY <1>3 DEF AwaitAll
  <2>3. \A n \in names : RowOf[n] \in Settled
    <3> SUFFICES ASSUME NEW w \in call[c].waits PROVE RowOf[w[1]] \in Settled
      OBVIOUS
    <3>1. w[1] \in Names /\ w[2] \in Calls /\ locks[w[1]] # w[2]
      BY <2>2 DEF Released, CallState
    <3> QED BY <3>1 DEF AnswerInv, FInv, Held, Awaited
  <2>4. \A n : n \in names <=> \E w \in call[c].waits : w[1] = n
    OBVIOUS
  <2> HIDE DEF names
  <2>5. /\ rec \in CallState /\ rec.pc = "realiases" /\ rec.owned = call[c].owned
        /\ rec.waits = call[c].waits /\ rec.asked = call[c].asked
        /\ rec.got = call[c].got /\ rec.open = names
    BY <2>1 DEF CallState, Pcs
  <2> HIDE DEF rec
  <2>6. Knows(rec, Settled, lost, Here)
    BY <2>2, <2>3, <2>4, <2>5 DEF Knows, Reported
  <2> QED BY <2>2, <2>5, <2>6, CallGoesOn
<1>4. CASE TimeOut(c)
  <2> DEFINE rec == Failed(c, "failed")
  <2>1. rec \in CallState /\ rec.owned = {} /\ rec.pc = "failed" /\ rec.waits = {}
    BY DEF CallState, Pcs, NewCall, Failed
  <2>2. call[c].owned = {} /\ Become(c, rec)
    BY <1>4 DEF TimeOut, AnswerInv, FInv, Covered, LatePcs
  <2> HIDE DEF rec
  <2>3. Knows(rec, Settled, lost, Here)
    BY <2>1 DEF Knows
  <2> QED BY <2>1, <2>2, <2>3, CallGoesOn
<1> QED BY <1>1, <1>2, <1>3, <1>4

LEMMA OthersKnow ==
    ASSUME AnswerInv, [Next]_vars, UNCHANGED call
    PROVE  CallsKnow' /\ Awaited'
<1>1. Settled \subseteq Settled' /\ lost \subseteq lost' /\ Here \subseteq Here'
  BY StoreGrows DEF AnswerInv
<1>2. \A c \in Calls : call[c] \in CallState
  BY DEF AnswerInv, FInv, CallsOK
<1>3. CallsKnow'
  BY <1>1, <1>2, KnowsKept DEF AnswerInv, CallsKnow
<1> QED BY <1>1, <1>3 DEF AnswerInv, Awaited

LEMMA AliasStillComes ==
    ASSUME AnswerInv, [Next]_vars
    PROVE  AliasComes'
<1> USE CacheAssumption DEF StoreOK, Servers
<1>g. StoreOK' /\ Settled \subseteq Settled'
  BY StoreGrows DEF AnswerInv
<1>t. call \in [Calls -> CallState] /\ StoreOK
  BY DEF AnswerInv, FInv, CallsOK
\* The call that is about to set an alias still is, or has done it, or has failed
<1>w. ASSUME NEW r \in Rows, NEW c \in Calls, call[c].pc = "setalias", call[c].cur = r
      PROVE  \/ r \in Settled'
             \/ call'[c] = call[c]
  <2>0. Knows(call[c], Settled, lost, Here)
    BY DEF AnswerInv, CallsKnow
  <2>1. CASE SetAlias(c)
    BY <1>g, <1>t, <1>w, <2>0, <2>1 DEF SetAlias, Knows, Here, Settled, Cached, ghosts
  <2>2. CASE Fail(c)
    BY <1>g, <1>w, <2>0, <2>2 DEF Fail, Knows, Settled
  <2>3. CASE ~SetAlias(c) /\ ~Fail(c)
    <3>1. UNCHANGED call \/ \E d \in Calls \ {c} : \E rec : Become(d, rec)
      <4>1. CASE UNCHANGED vars
        BY <4>1 DEF vars
      <4>2. ASSUME NEW r2 \in Rows, Environment(r2) PROVE UNCHANGED call
        BY <4>2 DEF Environment, Write, Invalidate, Age, Evict, Replicate
      <4>3. ASSUME NEW d \in Calls, Begin(d) \/ Step(d) \/ Fail(d) \/ TimeOut(d)
            PROVE  d # c /\ \E rec : Become(d, rec)
        <5>1. d # c
          BY <1>w, <2>3, <4>3
             DEF Begin, Step, TimeOut, ReadAliases, ReadValues, Acquire, Acquired, Fetch,
                 SetValue, Filled, Drop, Dropped, AwaitAll, RereadAliases, Reread
        <5>2. \E rec : Become(d, rec)
          BY <4>3
             DEF Begin, Step, Fail, TimeOut, ReadAliases, ReadValues, Acquire, Acquired,
                 Fetch, SetValue, SetAlias, Filled, Drop, Dropped, AwaitAll,
                 RereadAliases, Reread, Skip, Own, ServeStale, WaitFor
        <5> QED BY <5>1, <5>2
      <4> QED BY <4>1, <4>2, <4>3 DEF Next
    <3> QED BY <1>t, <3>1 DEF Become
  <2> QED BY <2>1, <2>2, <2>3
<1> SUFFICES ASSUME NEW s \in Servers, NEW r \in Rows, Cached(s, r)', r \notin Settled'
             PROVE  /\ ~value'[s][r].old
                    /\ \E c \in Calls : call'[c].pc = "setalias" /\ call'[c].cur = r
  BY DEF AliasComes
<1>0. r \notin Settled
  BY <1>g
\* The value was there before, under some server, or is set now
<1>1. ASSUME NEW s2 \in Servers, Cached(s2, r), value'[s][r] = value[s2][r]
      PROVE  /\ ~value'[s][r].old
             /\ \E c \in Calls : call'[c].pc = "setalias" /\ call'[c].cur = r
  <2>1. PICK c \in Calls : call[c].pc = "setalias" /\ call[c].cur = r /\ ~value[s2][r].old
    BY <1>0, <1>1 DEF AnswerInv, AliasComes
  <2> QED BY <1>1, <1>w, <2>1
<1>2. CASE value'[s][r] = value[s][r]
  BY <1>1, <1>2 DEF Cached
<1>3. ASSUME NEW c \in Calls, SetValue(c)
      PROVE  /\ ~value'[s][r].old
             /\ \E d \in Calls : call'[d].pc = "setalias" /\ call'[d].cur = r
  <2>1. PICK b \in call[c].batch :
            /\ value' = [value EXCEPT !["primary"][b.row] = [ver |-> b.ver, old |-> FALSE]]
            /\ Become(c, [call[c] EXCEPT
                   !.batch = @ \ {b}, !.got = @ \cup {b.row}, !.cur = b.row,
                   !.pc = IF \E n \in Slugs : RowOf[n] = b.row THEN "setalias" ELSE "set"])
    BY <1>3 DEF SetValue
  <2>2. b.row \in Rows
    BY <1>t DEF CallState
  <2>3. CASE s = "primary" /\ r = b.row
    <3>1. ~value'[s][r].old
      BY <1>t, <2>1, <2>2, <2>3
    <3>2. Slugged(r)
      BY <2>2, <2>3 DEF Settled, Cached, Slugged
    <3>3. call'[c].pc = "setalias" /\ call'[c].cur = r
      BY <1>t, <2>1, <2>3, <3>2 DEF Become, Slugged, CallState
    <3> QED BY <3>1, <3>3
  <2>4. CASE ~(s = "primary" /\ r = b.row)
    BY <1>2, <1>t, <2>1, <2>2, <2>4
  <2> QED BY <2>3, <2>4
<1>4. ASSUME NEW q \in Rows, Environment(q)
      PROVE  /\ ~value'[s][r].old
             /\ \E c \in Calls : call'[c].pc = "setalias" /\ call'[c].cur = r
  <2>1. CASE Write(q)
    BY <1>2, <2>1 DEF Write, server
  <2>2. CASE Invalidate(q) \/ Evict(q)
    <3>1. value'[s][r] = value[s][r] \/ value'[s][r] = Absent
      BY <1>t, <2>2 DEF Invalidate, Evict
    <3> QED BY <1>2, <3>1 DEF Cached
  <2>3. CASE Replicate(q)
    <3>1. value'[s][r] = value[s][r] \/ value'[s][r] = value["primary"][r]
      BY <1>t, <2>3 DEF Replicate
    <3> QED BY <1>1, <3>1 DEF Cached
  <2>4. CASE Age(q)
    <3>1. value'[s][r] = IF r # q \/ value[s][r] = Absent THEN value[s][r]
                         ELSE [value[s][r] EXCEPT !.old = TRUE]
      BY <1>t, <2>4 DEF Age
    <3>2. CASE value'[s][r] = value[s][r]
      BY <1>2, <3>2
    <3>3. CASE value'[s][r] # value[s][r]
      <4>1. r = q /\ Cached(s, r)
        BY <3>1, <3>3 DEF Cached
      <4>2. \E c \in Calls : call[c].cur = r
        BY <1>0, <4>1 DEF AnswerInv, AliasComes
      <4> QED BY <2>4, <4>1, <4>2 DEF Age
    <3> QED BY <3>2, <3>3
  <2> QED BY <1>4, <2>1, <2>2, <2>3, <2>4 DEF Environment
<1>5. ASSUME NEW c \in Calls, Begin(c) \/ Step(c) \/ Fail(c) \/ TimeOut(c)
      PROVE  UNCHANGED value \/ SetValue(c)
  BY <1>5 DEF Begin, Step, Fail, TimeOut, ReadAliases, ReadValues, Acquire, Acquired,
              Fetch, SetAlias, Filled, Drop, Dropped, AwaitAll, RereadAliases, Reread,
              server
<1> QED BY <1>2, <1>3, <1>4, <1>5 DEF Next, vars

LEMMA AnswerInit == Init => AnswerInv
<1> SUFFICES ASSUME Init PROVE AnswerInv
  OBVIOUS
<1> USE CacheAssumption
<1>1. FInv
  BY FillInit
<1>2. /\ value \in [Servers -> [Rows -> Values \cup {Absent}]]
      /\ alias = [s \in Servers |-> {r \in Rows : value[s][r] # Absent}]
      /\ \A r \in Rows : Cached("replica", r) => Cached("primary", r)
  <2>1. PICK v \in [Existing -> {Absent, [ver |-> 1, old |-> FALSE], [ver |-> 1, old |-> TRUE]}],
             late \in SUBSET Existing :
            LET primary == [r \in Rows |-> IF r \in Existing THEN v[r] ELSE Absent]
                replica == [r \in Rows |-> IF r \in late THEN Absent ELSE primary[r]]
            IN /\ value = [s \in Servers |-> IF s = "primary" THEN primary ELSE replica]
               /\ alias = [s \in Servers |-> {r \in Rows : value[s][r] # Absent}]
    BY DEF Init
  <2> DEFINE primary == [r \in Rows |-> IF r \in Existing THEN v[r] ELSE Absent]
             replica == [r \in Rows |-> IF r \in late THEN Absent ELSE primary[r]]
  <2>2. {Absent, [ver |-> 1, old |-> FALSE], [ver |-> 1, old |-> TRUE]}
            \subseteq Values \cup {Absent}
    BY DEF Values, Versions
  <2>3. primary \in [Rows -> Values \cup {Absent}]
    BY <2>2
  <2>4. replica \in [Rows -> Values \cup {Absent}]
    BY <2>3
  <2>5. \A r \in Rows : replica[r] # Absent => primary[r] # Absent
    OBVIOUS
  <2>6. value = [s \in Servers |-> IF s = "primary" THEN primary ELSE replica]
    BY <2>1
  <2> HIDE DEF primary, replica
  <2> QED BY <2>1, <2>3, <2>4, <2>5, <2>6 DEF Servers, Cached
<1>3. StoreOK
  BY <1>2 DEF StoreOK, Init
<1>4. call = [c \in Calls |-> NewCall]
  BY DEF Init
<1>5. CallsKnow /\ Awaited
  BY <1>4 DEF CallsKnow, Awaited, Knows, NewCall
<1>6. AliasComes
  BY <1>2 DEF AliasComes, Settled, Cached, Servers
<1> QED BY <1>1, <1>3, <1>5, <1>6 DEF AnswerInv

LEMMA AnswerNext ==
    ASSUME AnswerInv, [Next]_vars
    PROVE  AnswerInv'
<1>1. FInv' /\ StoreOK' /\ AliasComes'
  BY FillNext, StoreGrows, AliasStillComes DEF AnswerInv
<1>2. CallsKnow' /\ Awaited'
  <2>1. CASE UNCHANGED vars
    BY <2>1, OthersKnow DEF vars
  <2>2. ASSUME NEW c \in Calls, Begin(c) \/ Step(c) \/ Fail(c) \/ TimeOut(c)
        PROVE  CallsKnow' /\ Awaited'
    BY <2>2, ReadsKnow, AcquiresKnow, FetchesKnow, ReleasesKnow DEF Step
  <2>3. ASSUME NEW r \in Rows, Environment(r) PROVE UNCHANGED call
    BY <2>3 DEF Environment, Write, Invalidate, Age, Evict, Replicate
  <2> QED BY <2>1, <2>2, <2>3, OthersKnow DEF Next
<1> QED BY <1>1, <1>2 DEF AnswerInv

THEOREM AnswersHold == Spec => []AnswerInv
BY AnswerInit, AnswerNext, PTL DEF Spec

(***************************************************************************)
(* For any calls, rows, names and versions, get_cached_keys_raw_with_slug  *)
(* reports a row that exists as missing only when its keys were deleted or *)
(* evicted, or a fill of it failed.                                        *)
(***************************************************************************)
THEOREM FoundIfThere == Spec => []NoFalseNotFound
<1>1. AnswerInv => NoFalseNotFound
  BY DEF AnswerInv, CallsKnow, Knows, Reported, NoFalseNotFound
<1> QED BY <1>1, AnswersHold, PTL

----------------------------------------------------------------------------
(* Old values *)

\* What a fill still has to set is as new as the last deletion, or was overtaken
VersionsOK ==
    /\ cleared \in [Rows -> 0 .. MaxVersion] /\ \A r \in Rows : cleared[r] <= db[r]
    /\ \A c \in Calls : \A b \in call[c].batch :
          b.ver < cleared[b.row] => b.row \in raced

AgeInv == FInv /\ StoreOK /\ VersionsOK /\ OldOnlyByRace

LEMMA AgeKept ==
    ASSUME AgeInv, StoreOK', [Next]_vars
    PROVE  VersionsOK' /\ OldOnlyByRace'
<1> USE CacheAssumption DEF AgeInv, FInv, CallsOK, StoreOK, Servers
<1>1. CASE UNCHANGED <<db, value, cleared, raced>> /\
           \A c \in Calls : call'[c].batch \subseteq call[c].batch
  BY <1>1 DEF VersionsOK, OldOnlyByRace
<1>3. ASSUME NEW c \in Calls, Fetch(c) PROVE VersionsOK' /\ OldOnlyByRace'
  <2> DEFINE rows  == {RowOf[n] : n \in call[c].open} \cap Existing
             batch == {[row |-> r, ver |-> db[r]] : r \in rows}
             rec   == [call[c] EXCEPT !.pc = "set", !.batch = batch]
  <2>1. Become(c, rec) /\ UNCHANGED <<db, value, cleared, raced>>
    BY <1>3 DEF Fetch, server, ghosts
  <2>2. \A b \in batch : b.row \in Rows /\ b.ver = db[b.row]
    OBVIOUS
  <2> HIDE DEF batch
  <2>3. \A d \in Calls : \A b \in call'[d].batch : b \in call[d].batch \/ b \in batch
    BY <2>1 DEF Become, CallState
  <2>4. \A b \in batch : ~(b.ver < cleared[b.row])
    BY <2>2 DEF VersionsOK, Versions
  <2> QED BY <2>1, <2>3, <2>4 DEF VersionsOK, OldOnlyByRace
<1>4. ASSUME NEW c \in Calls, SetValue(c) PROVE VersionsOK' /\ OldOnlyByRace'
  <2>1. PICK b \in call[c].batch :
            /\ value' = [value EXCEPT !["primary"][b.row] = [ver |-> b.ver, old |-> FALSE]]
            /\ Become(c, [call[c] EXCEPT
                   !.batch = @ \ {b}, !.got = @ \cup {b.row}, !.cur = b.row,
                   !.pc = IF \E n \in Slugs : RowOf[n] = b.row THEN "setalias" ELSE "set"])
    BY <1>4 DEF SetValue
  <2>2. UNCHANGED <<db, cleared, raced>>
    BY <1>4 DEF SetValue, ghosts
  <2>3. \A d \in Calls : call'[d].batch \subseteq call[d].batch
    BY <2>1 DEF CallState, Become
  <2>4. b.row \in Rows /\ (b.ver < cleared[b.row] => b.row \in raced)
    BY DEF VersionsOK, CallState
  <2>5. VersionsOK'
    BY <2>2, <2>3 DEF VersionsOK
  <2>6. OldOnlyByRace'
    BY <2>1, <2>2, <2>4 DEF OldOnlyByRace
  <2> QED BY <2>5, <2>6
<1>5. ASSUME NEW c \in Calls, Begin(c) \/ Step(c) \/ Fail(c) \/ TimeOut(c),
             ~Fetch(c), ~SetValue(c)
      PROVE  VersionsOK' /\ OldOnlyByRace'
  <2>1. UNCHANGED <<db, value, cleared, raced>>
    BY <1>5 DEF Begin, Step, Fail, TimeOut, ReadAliases, ReadValues, Acquire, Acquired,
                SetAlias, Filled, Drop, Dropped, AwaitAll, RereadAliases, Reread,
                server, ghosts
  <2>2. call[c] \in CallState
    OBVIOUS
  <2>3. \A d \in Calls : call'[d].batch \subseteq call[d].batch
    <3> USE <2>2 DEF Become, CallState
    <3>1. CASE Begin(c)
      BY <3>1 DEF Begin
    <3>2. CASE ReadAliases(c)
      BY <3>2 DEF ReadAliases
    <3>3. CASE ReadValues(c)
      BY <3>3 DEF ReadValues
    <3>4. CASE RereadAliases(c)
      BY <3>4 DEF RereadAliases
    <3>5. CASE Reread(c)
      BY <3>5 DEF Reread
    <3>6. CASE Acquired(c)
      <4>1. PICK p \in {"drop", "fetch"} :
                call' = [call EXCEPT ![c] = [call[c] EXCEPT !.pc = p, !.stale = {}]]
        BY <3>6 DEF Acquired
      <4> QED BY <4>1
    <3>7. CASE SetAlias(c)
      BY <3>7 DEF SetAlias
    <3>8. CASE Filled(c)
      BY <3>8 DEF Filled
    <3>9. CASE Drop(c)
      BY <3>9 DEF Drop
    <3>10. CASE Dropped(c)
      BY <3>10 DEF Dropped
    <3>11. CASE AwaitAll(c)
      BY <3>11 DEF AwaitAll
    <3>12. CASE Acquire(c)
      <4>1. PICK n \in call[c].todo :
                Skip(c, n) \/ Own(c, n) \/ ServeStale(c, n) \/ WaitFor(c, n)
        BY <3>12 DEF Acquire
      <4>2. CASE Skip(c, n)
        BY <4>2 DEF Skip
      <4>3. CASE Own(c, n)
        BY <4>3 DEF Own
      <4>4. CASE ServeStale(c, n)
        BY <4>4 DEF ServeStale
      <4>5. CASE WaitFor(c, n)
        BY <4>5 DEF WaitFor
      <4> QED BY <4>1, <4>2, <4>3, <4>4, <4>5
    <3>13. CASE Fail(c)
      BY <3>13 DEF Fail, Failed, NewCall
    <3>14. CASE TimeOut(c)
      BY <3>14 DEF TimeOut, Failed, NewCall
    <3> QED BY <1>5, <3>1, <3>2, <3>3, <3>4, <3>5, <3>6, <3>7, <3>8, <3>9, <3>10, <3>11, <3>12, <3>13, <3>14 DEF Step
  <2> QED BY <1>1, <2>1, <2>3
<1>6. ASSUME NEW r \in Rows, Environment(r) PROVE VersionsOK' /\ OldOnlyByRace'
  <2>1. UNCHANGED call
    BY <1>6 DEF Environment, Write, Invalidate, Age, Evict, Replicate
  <2>2. CASE Write(r)
    BY <2>1, <2>2 DEF Write, VersionsOK, OldOnlyByRace, server, ghosts, Versions
  <2>3. CASE Invalidate(r)
    <3>1. /\ cleared' = [cleared EXCEPT ![r] = db[r]] /\ UNCHANGED db
          /\ value' = [value EXCEPT !["primary"][r] = Absent]
          /\ raced \subseteq raced'
          /\ \A c \in Calls : \A b \in call[c].batch :
                b.row = r /\ b.ver < db[r] => r \in raced'
      BY <2>3 DEF Invalidate
    <3>2. VersionsOK'
      BY <2>1, <3>1 DEF VersionsOK, Versions, CallState
    <3>3. OldOnlyByRace'
      BY <3>1 DEF OldOnlyByRace, VersionsOK
    <3> QED BY <3>2, <3>3
  <2>4. CASE Age(r)
    <3>1. /\ value' = [s \in Servers |->
              [value[s] EXCEPT ![r] = IF @ = Absent THEN @ ELSE [@ EXCEPT !.old = TRUE]]]
          /\ UNCHANGED <<db, cleared, raced>>
      BY <2>4 DEF Age, ghosts
    <3>2. \A v \in Values \cup {Absent} : [v EXCEPT !.old = TRUE].ver = v.ver
      BY DEF Values, Absent
    <3>3. \A q \in Rows : /\ value'["primary"][q].ver = value["primary"][q].ver
                          /\ value["primary"][q] = Absent => value'["primary"][q] = Absent
      BY <3>1, <3>2
    <3> QED BY <2>1, <3>1, <3>3 DEF VersionsOK, OldOnlyByRace
  <2>5. CASE Evict(r)
    BY <2>1, <2>5 DEF Evict, VersionsOK, OldOnlyByRace
  <2>6. CASE Replicate(r)
    <3>1. value'["primary"] = value["primary"] /\ UNCHANGED <<db, cleared, raced>>
      BY <2>6 DEF Replicate, ghosts
    <3> QED BY <2>1, <3>1 DEF VersionsOK, OldOnlyByRace
  <2> QED BY <1>6, <2>2, <2>3, <2>4, <2>5, <2>6 DEF Environment
<1>7. CASE UNCHANGED vars
  BY <1>7 DEF vars, VersionsOK, OldOnlyByRace
<1> QED BY <1>3, <1>4, <1>5, <1>6, <1>7 DEF Next

(***************************************************************************)
(* For any calls, rows and versions, the primary holds a value older than  *)
(* the last clear_cache of its row only if a fill that had read the row    *)
(* before was still to set it: no other way leads to a stale value.        *)
(***************************************************************************)
THEOREM OldByRaceAlone == Spec => []OldOnlyByRace
<1>1. Init => VersionsOK /\ OldOnlyByRace
  <2> SUFFICES ASSUME Init PROVE VersionsOK /\ OldOnlyByRace
    OBVIOUS
  <2>1. /\ \A r \in Rows : db[r] = 1
        /\ cleared = [r \in Rows |-> 0]
        /\ \A c \in Calls : call[c].batch = {}
    BY DEF Init, NewCall
  <2>2. \A r \in Rows : value["primary"][r] \in Values \cup {Absent}
    BY AnswerInit DEF AnswerInv, StoreOK, Servers
  <2> QED BY <2>1, <2>2, CacheAssumption
          DEF VersionsOK, OldOnlyByRace, Values, Versions, Absent
<1>2. AnswerInv /\ VersionsOK /\ OldOnlyByRace /\ [Next]_vars
        => VersionsOK' /\ OldOnlyByRace'
  BY AgeKept, StoreGrows DEF AnswerInv, AgeInv
<1> QED BY <1>1, <1>2, AnswersHold, PTL DEF Spec

----------------------------------------------------------------------------
(* Who refreshes what was served expired *)

\* Call k served row r for one of its names and asked for it by another, too
Twice(k, r) ==
    r \in k.served /\ \E n, m \in k.asked : n # m /\ RowOf[n] = r /\ RowOf[m] = r

\* Call k is about to fetch row r, or gave it up
Refresher(k, r) ==
    \/ Twice(k, r)
    \/ k.pc = "acquire" /\ \E n \in k.owned \cap k.open : RowOf[n] = r

\* What becomes of the names call k holds, when the rows F have been fetched
Fate(k, F) ==
    /\ k.owned \subseteq k.asked
    /\ k.pc = "acquire" => k.open \cup k.todo \subseteq k.asked
    /\ k.pc = "idle" => k.served = {}
    /\ \A n \in k.owned :
          \/ k.pc = "acquire" /\ n \in k.open
          \/ RowOf[n] \in F
          \/ Twice(k, RowOf[n])

ServedFate ==
    \A c \in Calls : \A r \in call[c].served \ filled :
        \E d \in Calls \ {c} : Refresher(call[d], r)

FatesOK == (\A c \in Calls : Fate(call[c], filled)) /\ ServedFate

\* What it takes for the step of call c, which becomes rec
LEMMA FateMoves ==
    ASSUME AnswerInv, FatesOK, NEW c \in Calls, NEW rec, Become(c, rec),
           filled \subseteq filled', Fate(rec, filled'),
           \A r : Refresher(call[c], r) => r \in filled' \/ Refresher(rec, r),
           \A r \in rec.served \ filled' :
               r \in call[c].served \/ \E d \in Calls \ {c} : Refresher(call[d], r)
    PROVE  FatesOK'
<1>1. /\ call'[c] = rec
      /\ \A d \in Calls \ {c} : call'[d] = call[d]
  BY DEF AnswerInv, FInv, CallsOK, Become
<1>2. ASSUME NEW d \in Calls PROVE Fate(call'[d], filled')
  BY <1>1 DEF FatesOK, Fate
<1>3. ASSUME NEW d \in Calls, NEW r \in call'[d].served \ filled'
      PROVE  \E e \in Calls \ {d} : Refresher(call'[e], r)
  <2>1. \E e \in Calls \ {d} : Refresher(call[e], r)
    BY <1>1 DEF FatesOK, ServedFate
  <2>2. PICK e \in Calls \ {d} : Refresher(call[e], r)
    BY <2>1
  <2>3. Refresher(call'[e], r)
    BY <1>1, <2>2
  <2> QED BY <2>3
<1> QED BY <1>2, <1>3 DEF FatesOK, ServedFate

\* A step outside the acquiring of locks that serves nothing
LEMMA FateStays ==
    ASSUME AnswerInv, FatesOK, NEW c \in Calls, NEW rec, Become(c, rec), UNCHANGED filled,
           rec.served = call[c].served, rec.asked = call[c].asked,
           rec.owned \subseteq call[c].owned,
           call[c].pc # "acquire", rec.pc \notin {"acquire", "idle"}
    PROVE  FatesOK'
<1>1. Fate(call[c], filled)
  BY DEF FatesOK
<1>2. Fate(rec, filled')
  BY <1>1 DEF Fate, Twice
<1>3. \A r : Refresher(call[c], r) => Refresher(rec, r)
  BY DEF Refresher, Twice
<1> QED BY <1>2, <1>3, FateMoves

LEMMA AcquireFates ==
    ASSUME AnswerInv, FatesOK, NEW c \in Calls, Acquire(c) \/ Acquired(c)
    PROVE  FatesOK'
<1>c. call[c] \in CallState /\ Knows(call[c], Settled, lost, Here) /\ Fate(call[c], filled)
  BY DEF AnswerInv, FInv, CallsOK, CallsKnow, FatesOK
<1>p. call[c].pc = "acquire"
  BY DEF Acquire, Acquired
<1> USE <1>c, <1>p, CacheAssumption
<1>1. CASE Acquire(c)
  <2>1. PICK n \in call[c].todo :
            Skip(c, n) \/ Own(c, n) \/ ServeStale(c, n) \/ WaitFor(c, n)
    BY <1>1 DEF Acquire
  <2>2. /\ n \in Names /\ n \in call[c].asked /\ n \notin call[c].owned
        /\ UNCHANGED filled
    BY <1>1 DEF CallState, Knows, Fate, Acquire, ghosts
  <2>3. CASE Skip(c, n)
    <3> DEFINE rec == [call[c] EXCEPT !.todo = @ \ {n}]
    <3>1. /\ rec.pc = "acquire" /\ rec.owned = call[c].owned
          /\ rec.asked = call[c].asked /\ rec.served = call[c].served
          /\ rec.open = call[c].open /\ rec.todo = call[c].todo \ {n}
      BY DEF CallState
    <3>2. Become(c, rec)
      BY <2>3 DEF Skip
    <3> HIDE DEF rec
    <3>3. Fate(rec, filled') /\ \A r : Refresher(call[c], r) => Refresher(rec, r)
      BY <2>2, <3>1 DEF Fate, Refresher, Twice
    <3> QED BY <2>2, <3>1, <3>2, <3>3, FateMoves
  <2>4. CASE Own(c, n)
    <3> DEFINE rec == [call[c] EXCEPT !.todo = @ \ {n}, !.owned = @ \cup {n}]
    <3>1. /\ rec.pc = "acquire" /\ rec.owned = call[c].owned \cup {n}
          /\ rec.asked = call[c].asked /\ rec.served = call[c].served
          /\ rec.open = call[c].open /\ rec.todo = call[c].todo \ {n}
      BY DEF CallState
    <3>2. Become(c, rec) /\ n \in call[c].open
      BY <2>4 DEF Own
    <3> HIDE DEF rec
    <3>3. Fate(rec, filled') /\ \A r : Refresher(call[c], r) => Refresher(rec, r)
      BY <2>2, <3>1, <3>2 DEF Fate, Refresher, Twice
    <3> QED BY <2>2, <3>1, <3>2, <3>3, FateMoves
  <2>5. CASE ServeStale(c, n)
    <3> DEFINE q   == RowOf[n]
               rec == [call[c] EXCEPT
                   !.todo = @ \ {n}, !.open = @ \ NamesOf({RowOf[n]}),
                   !.stale = @ \ {RowOf[n]},
                   !.got = @ \cup {RowOf[n]}, !.served = @ \cup {RowOf[n]}]
    <3>1. /\ rec.pc = "acquire" /\ rec.owned = call[c].owned
          /\ rec.asked = call[c].asked /\ rec.served = call[c].served \cup {q}
          /\ rec.open = call[c].open \ NamesOf({q}) /\ rec.todo = call[c].todo \ {n}
      BY DEF CallState
    <3>2. Become(c, rec) /\ locks[n] \in Calls
      BY <2>2, <2>5 DEF ServeStale, AnswerInv, FInv, CallsOK
    <3>3. \A m \in call[c].open : m \in rec.open \/ RowOf[m] = q
      BY <3>1 DEF NamesOf, CallState
    <3> HIDE DEF rec
    <3>4. \A r : Twice(call[c], r) => Twice(rec, r)
      BY <3>1 DEF Twice
    <3>5. ASSUME NEW m \in call[c].owned, RowOf[m] = q PROVE Twice(rec, q)
      BY <2>2, <3>1, <3>5 DEF Twice, Fate
    <3>6. Fate(rec, filled')
      BY <2>2, <3>1, <3>3, <3>4, <3>5 DEF Fate
    <3>7. \A r : Refresher(call[c], r) => Refresher(rec, r)
      BY <3>1, <3>3, <3>4, <3>5 DEF Refresher
    \* The call that holds n will fetch its row, has done so, or has given it up
    <3>8. q \in filled \/ \E d \in Calls \ {c} : Refresher(call[d], q)
      <4>1. n \in call[locks[n]].owned /\ locks[n] # c
        BY <2>2, <3>2 DEF AnswerInv, FInv, Held
      <4>2. Fate(call[locks[n]], filled)
        BY <3>2 DEF FatesOK
      <4>3. q \in filled \/ Refresher(call[locks[n]], q)
        BY <4>1, <4>2 DEF Fate, Refresher
      <4> QED BY <3>2, <4>1, <4>3
    <3> HIDE DEF q
    <3> QED BY <2>2, <3>1, <3>2, <3>6, <3>7, <3>8, FateMoves
  <2>6. CASE WaitFor(c, n)
    <3> DEFINE rec == [call[c] EXCEPT
                   !.todo = @ \ {n}, !.open = @ \ {n}, !.waits = @ \cup {<<n, locks[n]>>}]
    <3>1. /\ rec.pc = "acquire" /\ rec.owned = call[c].owned
          /\ rec.asked = call[c].asked /\ rec.served = call[c].served
          /\ rec.open = call[c].open \ {n} /\ rec.todo = call[c].todo \ {n}
      BY DEF CallState
    <3>2. Become(c, rec)
      BY <2>6 DEF WaitFor
    <3> HIDE DEF rec
    <3>3. Fate(rec, filled') /\ \A r : Refresher(call[c], r) => Refresher(rec, r)
      BY <2>2, <3>1 DEF Fate, Refresher, Twice
    <3> QED BY <2>2, <3>1, <3>2, <3>3, FateMoves
  <2> QED BY <2>1, <2>3, <2>4, <2>5, <2>6
<1>2. CASE Acquired(c)
  <2>1. PICK p \in {"drop", "fetch"} :
            /\ Become(c, [call[c] EXCEPT !.pc = p, !.stale = {}])
            /\ filled \subseteq filled'
            /\ \A n \in call[c].open : RowOf[n] \in filled'
    BY <1>2 DEF Acquired
  <2> DEFINE rec == [call[c] EXCEPT !.pc = p, !.stale = {}]
  <2>2. /\ rec.pc = p /\ rec.owned = call[c].owned /\ rec.asked = call[c].asked
        /\ rec.served = call[c].served
    BY DEF CallState
  <2> HIDE DEF rec
  <2>3. /\ Fate(rec, filled')
        /\ \A r : Refresher(call[c], r) => r \in filled' \/ Refresher(rec, r)
    BY <2>1, <2>2 DEF Fate, Refresher, Twice
  <2> QED BY <2>1, <2>2, <2>3, FateMoves DEF rec
<1> QED BY <1>1, <1>2

LEMMA FatesKept ==
    ASSUME AnswerInv, FatesOK, [Next]_vars
    PROVE  FatesOK'
<1>1. CASE UNCHANGED <<call, filled>>
  BY <1>1 DEF FatesOK, ServedFate
<1>2. ASSUME NEW r \in Rows, Environment(r) PROVE UNCHANGED <<call, filled>>
  BY <1>2 DEF Environment, Write, Invalidate, Age, Evict, Replicate, ghosts
<1>3. ASSUME NEW c \in Calls, Begin(c) \/ Step(c) \/ Fail(c) \/ TimeOut(c) PROVE FatesOK'
  <2>c. call[c] \in CallState /\ Knows(call[c], Settled, lost, Here) /\ Fate(call[c], filled)
    BY DEF AnswerInv, FInv, CallsOK, CallsKnow, FatesOK
  <2> USE <2>c
  <2>1. CASE Acquire(c) \/ Acquired(c)
    BY <2>1, AcquireFates
  <2>2. CASE Begin(c)
    <3>1. PICK A : Become(c, [call[c] EXCEPT !.pc = "aliases", !.asked = A, !.open = A])
      BY <2>2 DEF Begin
    <3> DEFINE rec == [call[c] EXCEPT !.pc = "aliases", !.asked = A, !.open = A]
    <3>2. /\ rec.pc = "aliases" /\ rec.owned = call[c].owned
          /\ rec.served = call[c].served
      BY DEF CallState
    <3>3. /\ call[c].owned = {} /\ call[c].served = {} /\ call[c].pc = "idle"
          /\ UNCHANGED filled
      BY <2>2 DEF Begin, Knows, Fate, ghosts
    <3> HIDE DEF rec
    <3>4. /\ Fate(rec, filled')
          /\ \A r : ~Refresher(call[c], r)
      BY <3>2, <3>3 DEF Fate, Refresher, Twice
    <3> QED BY <3>1, <3>2, <3>3, <3>4, FateMoves DEF rec
  <2>3. CASE ReadValues(c)
    <3> DEFINE fresh(s) == {r \in call[c].look : Fresh(s, r)}
               left(s)  == call[c].open \ NamesOf(fresh(s))
               rec(s)   == [call[c] EXCEPT
                   !.pc = "acquire", !.look = {}, !.open = left(s), !.todo = left(s),
                   !.got = fresh(s),
                   !.stale = {r \in call[c].look : Cached(s, r)} \ fresh(s)]
    <3>1. PICK s \in Servers : Become(c, rec(s))
      BY <2>3 DEF ReadValues
    <3>2. left(s) \subseteq call[c].open
      OBVIOUS
    <3> HIDE DEF fresh, left
    <3>3. /\ rec(s).pc = "acquire" /\ rec(s).owned = call[c].owned
          /\ rec(s).asked = call[c].asked /\ rec(s).served = call[c].served
          /\ rec(s).open = left(s) /\ rec(s).todo = left(s)
      BY DEF CallState
    <3>4. /\ call[c].owned = {} /\ call[c].open = call[c].asked
          /\ call[c].pc = "values" /\ UNCHANGED filled
      BY <2>3 DEF ReadValues, Knows, ghosts
    <3> HIDE DEF rec
    <3>5. /\ Fate(rec(s), filled')
          /\ \A r : Refresher(call[c], r) => Refresher(rec(s), r)
      BY <3>2, <3>3, <3>4 DEF Fate, Refresher, Twice
    <3> QED BY <3>1, <3>3, <3>4, <3>5, FateMoves
  <2>4. CASE ReadAliases(c)
    BY <2>4, FateStays DEF ReadAliases, CallState, ghosts
  <2>5. CASE Fetch(c)
    BY <2>5, FateStays DEF Fetch, CallState, ghosts
  <2>6. CASE SetValue(c)
    <3>1. PICK b \in call[c].batch, p \in {"set", "setalias"} :
              Become(c, [call[c] EXCEPT !.batch = @ \ {b}, !.got = @ \cup {b.row},
                                        !.cur = b.row, !.pc = p])
      BY <2>6 DEF SetValue
    <3> QED BY <2>6, <3>1, FateStays DEF SetValue, CallState, ghosts
  <2>7. CASE SetAlias(c)
    BY <2>7, FateStays DEF SetAlias, CallState, ghosts
  <2>8. CASE Filled(c)
    BY <2>8, FateStays DEF Filled, CallState, ghosts
  <2>9. CASE Drop(c)
    <3>1. PICK n \in call[c].owned : Become(c, [call[c] EXCEPT !.owned = @ \ {n}])
      BY <2>9 DEF Drop
    <3> QED BY <2>9, <3>1, FateStays DEF Drop, CallState, ghosts
  <2>10. CASE Dropped(c)
    <3>1. PICK p \in {"failed", "done", "await"} : Become(c, [call[c] EXCEPT !.pc = p])
      BY <2>10 DEF Dropped
    <3> QED BY <2>10, <3>1, FateStays DEF Dropped, CallState, ghosts
  <2>11. CASE AwaitAll(c)
    BY <2>11, FateStays DEF AwaitAll, CallState, ghosts
  <2>12. CASE RereadAliases(c)
    BY <2>12, FateStays DEF RereadAliases, CallState, ghosts
  <2>13. CASE Reread(c)
    BY <2>13, FateStays DEF Reread, CallState, ghosts
  <2>14. CASE Fail(c)
    BY <2>14, FateStays DEF Fail, Failed, NewCall, CallState
  <2>15. CASE TimeOut(c)
    BY <2>15, FateStays DEF TimeOut, Failed, NewCall, CallState, ghosts
  <2> QED BY <1>3, <2>1, <2>2, <2>3, <2>4, <2>5, <2>6, <2>7, <2>8, <2>9, <2>10, <2>11,
             <2>12, <2>13, <2>14, <2>15 DEF Step
<1> QED BY <1>1, <1>2, <1>3 DEF Next, vars

(***************************************************************************)
(* For any calls, rows and names: once every call has ended, a row that    *)
(* was served expired has been fetched, or another call that held a name   *)
(* of it was itself content with the expired value of another name.        *)
(***************************************************************************)
THEOREM StaleGetsRefreshed == Spec => []StaleIsRefreshed
<1>1. Init => FatesOK
  BY DEF Init, FatesOK, Fate, ServedFate, NewCall
<1>2. AnswerInv /\ FatesOK /\ [Next]_vars => FatesOK'
  BY FatesKept
<1>3. FatesOK => StaleIsRefreshed
  BY DEF FatesOK, ServedFate, Refresher, Twice, StaleIsRefreshed
<1> QED BY <1>1, <1>2, <1>3, AnswersHold, PTL DEF Spec
=============================================================================
