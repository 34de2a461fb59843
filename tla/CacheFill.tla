------------------------------ MODULE CacheFill ------------------------------
(***************************************************************************)
(* Reads through the cache of labrinth (packages/xredis/src/cache.rs,      *)
(* get_cached_keys_raw_with_slug): every row of the database is cached     *)
(* under its id, and its slug is an alias key that leads to the id.  A     *)
(* call reads what is cached, takes the process-local lock of every name   *)
(* it misses, fetches the names whose lock it got, drops its locks, waits  *)
(* for the calls that hold the others and reads the cache once more.       *)
(* The locks are those of KeyedLock.  Writers of the database delete the   *)
(* keys of a row after they commit.                                        *)
(***************************************************************************)
EXTENDS Naturals, FiniteSets

CONSTANTS
    Calls,      \* calls of get_cached_keys_raw_with_slug
    Rows,       \* rows, some of which the database has
    Names,      \* normalized ids and slugs
    RowOf,      \* the row each name stands for
    Slugs,      \* the names that are slugs
    Existing,   \* the rows the database has
    Asks,       \* the sets of names a call may ask for
    MaxVersion, \* bound: how often a row is written
    None        \* no call, no row, no value

ASSUME CacheAssumption ==
    /\ RowOf \in [Names -> Rows]
    /\ Slugs \subseteq Names /\ Existing \subseteq Rows /\ Asks \subseteq SUBSET Names
    /\ MaxVersion \in Nat \ {0}
    /\ None \notin Calls /\ None \notin Rows

VARIABLES
    db,      \* the version of each row in the database
    due,     \* rows that were written and whose keys are to be deleted
    value,   \* in the primary and the replica: the value cached for each row
    alias,   \* in both: the rows whose slug has its alias key
    locks,   \* the call that holds the lock of each name, or None
    call,    \* the local variables of each call
    lost,    \* history: rows whose keys were deleted or evicted, or whose fill failed
    raced,   \* history: rows whose keys were deleted during a fill that had read the old row
    cleared, \* history: the version of each row when its keys were last deleted
    filled   \* history: rows some call has begun to fetch

server == <<value, alias>>
ghosts == <<lost, raced, cleared, filled>>
vars   == <<db, due, value, alias, locks, call, lost, raced, cleared, filled>>

Servers  == {"primary", "replica"}
Versions == 1 .. MaxVersion
Values   == [ver : Versions, old : BOOLEAN]
Absent   == [ver |-> 0, old |-> FALSE]

Pcs == {"idle", "aliases", "values", "acquire", "fetch", "set", "setalias",
        "drop", "await", "realiases", "reread", "done", "failed"}

\* What a call keeps: ids, the rows to look up, fetch_ids, owned_locks,
\* expired_values, waiters, the rows answered, encoded_values and the row
\* whose alias is to be set
CallState ==
    [pc : Pcs, asked : SUBSET Names, open : SUBSET Names, look : SUBSET Rows,
     todo : SUBSET Names, owned : SUBSET Names, stale : SUBSET Rows,
     waits : SUBSET (Names \X Calls), got : SUBSET Rows, served : SUBSET Rows,
     batch : SUBSET [row : Rows, ver : Versions], cur : Rows \cup {None},
     ok : BOOLEAN]

NewCall ==
    [pc |-> "idle", asked |-> {}, open |-> {}, look |-> {}, todo |-> {},
     owned |-> {}, stale |-> {}, waits |-> {}, got |-> {}, served |-> {},
     batch |-> {}, cur |-> None, ok |-> TRUE]

\* value_identities: every name a value answers
NamesOf(R) == {n \in Names : RowOf[n] \in R}

Cached(s, r) == value[s][r] # Absent
Fresh(s, r)  == Cached(s, r) /\ ~value[s][r].old

Become(c, rec) == call' = [call EXCEPT ![c] = rec]

\* Values and aliases are set together; the replica may lag behind
Init ==
    /\ db = [r \in Rows |-> 1]
    /\ due = {}
    /\ \E v \in [Existing -> {Absent, [ver |-> 1, old |-> FALSE], [ver |-> 1, old |-> TRUE]}],
          late \in SUBSET Existing :
         LET primary == [r \in Rows |-> IF r \in Existing THEN v[r] ELSE Absent]
             replica == [r \in Rows |-> IF r \in late THEN Absent ELSE primary[r]]
         IN /\ value = [s \in Servers |-> IF s = "primary" THEN primary ELSE replica]
            /\ alias = [s \in Servers |-> {r \in Rows : value[s][r] # Absent}]
    /\ locks = [n \in Names |-> None]
    /\ call = [c \in Calls |-> NewCall]
    /\ lost = {} /\ raced = {} /\ filled = {}
    /\ cleared = [r \in Rows |-> 0]

----------------------------------------------------------------------------
(* Reading what is cached: get_cached_values *)

Begin(c) ==
    /\ call[c].pc = "idle"
    /\ \E A \in Asks \ {{}} :
         Become(c, [call[c] EXCEPT !.pc = "aliases", !.asked = A, !.open = A])
    /\ UNCHANGED <<db, due, server, locks, ghosts>>

\* The rows that the open names lead to: an id by itself, a slug by its alias key
Look(c, s) == {RowOf[n] : n \in call[c].open \ Slugs}
              \cup {RowOf[n] : n \in {m \in call[c].open \cap Slugs : RowOf[m] \in alias[s]}}

ReadAliases(c) ==
    /\ call[c].pc = "aliases"
    /\ \E s \in Servers :
         Become(c, [call[c] EXCEPT !.pc = "values", !.look = Look(c, s)])
    /\ UNCHANGED <<db, due, server, locks, ghosts>>

\* A value that is not expired answers all names of its row
ReadValues(c) ==
    /\ call[c].pc = "values"
    /\ \E s \in Servers :
         LET fresh == {r \in call[c].look : Fresh(s, r)}
             left  == call[c].open \ NamesOf(fresh)
         IN Become(c, [call[c] EXCEPT
                !.pc = "acquire", !.look = {}, !.open = left, !.todo = left, !.got = fresh,
                !.stale = {r \in call[c].look : Cached(s, r)} \ fresh])
    /\ UNCHANGED <<db, due, server, locks, ghosts>>

----------------------------------------------------------------------------
(* Acquiring the locks, in the arbitrary order of the map *)

\* A stale value has answered the name meanwhile
Skip(c, n) ==
    /\ n \notin call[c].open
    /\ Become(c, [call[c] EXCEPT !.todo = @ \ {n}])
    /\ UNCHANGED locks

\* Mutant of Own: the lock is not asked for
OwnAnyway(c, n) ==
    /\ n \in call[c].open
    /\ locks' = [locks EXCEPT ![n] = c]
    /\ Become(c, [call[c] EXCEPT !.todo = @ \ {n}, !.owned = @ \cup {n}])

Own(c, n) ==
    /\ n \in call[c].open /\ locks[n] = None
    /\ locks' = [locks EXCEPT ![n] = c]
    /\ Become(c, [call[c] EXCEPT !.todo = @ \ {n}, !.owned = @ \cup {n}])

\* Mutant of ServeStale: an expired value is good enough also when nobody is at it
ServeStaleAnyway(c, n) ==
    /\ n \in call[c].open
    /\ RowOf[n] \in call[c].stale
    /\ Become(c, [call[c] EXCEPT
           !.todo = @ \ {n}, !.open = @ \ NamesOf({RowOf[n]}),
           !.stale = @ \ {RowOf[n]},
           !.got = @ \cup {RowOf[n]}, !.served = @ \cup {RowOf[n]}])
    /\ UNCHANGED locks

\* Somebody else is at it: an expired value is good enough for now
ServeStale(c, n) ==
    /\ n \in call[c].open /\ locks[n] # None
    /\ RowOf[n] \in call[c].stale
    /\ Become(c, [call[c] EXCEPT
           !.todo = @ \ {n}, !.open = @ \ NamesOf({RowOf[n]}),
           !.stale = @ \ {RowOf[n]},
           !.got = @ \cup {RowOf[n]}, !.served = @ \cup {RowOf[n]}])
    /\ UNCHANGED locks

WaitFor(c, n) ==
    /\ n \in call[c].open /\ locks[n] # None
    /\ RowOf[n] \notin call[c].stale
    /\ Become(c, [call[c] EXCEPT
           !.todo = @ \ {n}, !.open = @ \ {n}, !.waits = @ \cup {<<n, locks[n]>>}])
    /\ UNCHANGED locks

Acquire(c) ==
    /\ call[c].pc = "acquire"
    /\ \E n \in call[c].todo :
         Skip(c, n) \/ Own(c, n) \/ ServeStale(c, n) \/ WaitFor(c, n)
    /\ UNCHANGED <<db, due, server, ghosts>>

\* The closure is called for what is left, if anything is
Acquired(c) ==
    /\ call[c].pc = "acquire" /\ call[c].todo = {}
    /\ IF call[c].open = {}
       THEN /\ Become(c, [call[c] EXCEPT !.pc = "drop", !.stale = {}])
            /\ UNCHANGED filled
       ELSE /\ Become(c, [call[c] EXCEPT !.pc = "fetch", !.stale = {}])
            /\ filled' = filled \cup {RowOf[n] : n \in call[c].open}
    /\ UNCHANGED <<db, due, server, locks, lost, raced, cleared>>

----------------------------------------------------------------------------
(* The fill: the closure, then for each row its value and its alias *)

Fetch(c) ==
    /\ call[c].pc = "fetch"
    /\ Become(c, [call[c] EXCEPT
           !.pc = "set",
           !.batch = {[row |-> r, ver |-> db[r]] :
                         r \in {RowOf[n] : n \in call[c].open} \cap Existing}])
    /\ UNCHANGED <<db, due, server, locks, ghosts>>

SetValue(c) ==
    /\ call[c].pc = "set"
    /\ \E b \in call[c].batch :
         /\ value' = [value EXCEPT !["primary"][b.row] = [ver |-> b.ver, old |-> FALSE]]
         /\ Become(c, [call[c] EXCEPT
                !.batch = @ \ {b}, !.got = @ \cup {b.row}, !.cur = b.row,
                !.pc = IF \E n \in Slugs : RowOf[n] = b.row THEN "setalias" ELSE "set"])
    /\ UNCHANGED <<db, due, alias, locks, ghosts>>

SetAlias(c) ==
    /\ call[c].pc = "setalias"
    /\ alias' = [alias EXCEPT !["primary"] = @ \cup {call[c].cur}]
    /\ Become(c, [call[c] EXCEPT !.pc = "set", !.cur = None])
    /\ UNCHANGED <<db, due, value, locks, ghosts>>

\* Mutant of Filled: the locks are kept until the other calls are done
FilledAndWaits(c) ==
    /\ call[c].pc = "set" /\ call[c].batch = {}
    /\ \A w \in call[c].waits : locks[w[1]] # w[2]
    /\ Become(c, [call[c] EXCEPT !.pc = "drop", !.open = {}, !.cur = None])
    /\ UNCHANGED <<db, due, server, locks, ghosts>>

Filled(c) ==
    /\ call[c].pc = "set" /\ call[c].batch = {}
    /\ Become(c, [call[c] EXCEPT !.pc = "drop", !.open = {}, !.cur = None])
    /\ UNCHANGED <<db, due, server, locks, ghosts>>

\* The call returns an error; what it asked for and served is kept as a history
Failed(c, p) ==
    [NewCall EXCEPT !.pc = p, !.ok = FALSE,
                    !.asked = call[c].asked, !.served = call[c].served]

\* Mutant of Fail: the error returns before the locks are dropped
FailHolding(c) ==
    /\ call[c].pc \in {"aliases", "values", "fetch", "set", "setalias", "realiases", "reread"}
    /\ Become(c, Failed(c, "failed"))
    /\ lost' = lost \cup {RowOf[n] : n \in call[c].owned}
    /\ UNCHANGED <<db, due, server, locks, raced, cleared, filled>>

\* Redis or the closure fails, the fill takes longer than FILL_TIMEOUT, or the
\* future of the call is dropped: whatever the call holds is released
Fail(c) ==
    /\ call[c].pc \in {"aliases", "values", "fetch", "set", "setalias", "realiases", "reread"}
    /\ Become(c, [Failed(c, "drop") EXCEPT !.owned = call[c].owned])
    /\ lost' = lost \cup {RowOf[n] : n \in call[c].owned}
    /\ UNCHANGED <<db, due, server, locks, raced, cleared, filled>>

----------------------------------------------------------------------------
(* drop(owned_locks), and what the waiters get *)

Drop(c) ==
    /\ call[c].pc = "drop"
    /\ \E n \in call[c].owned :
         /\ locks' = [locks EXCEPT ![n] = None]
         /\ Become(c, [call[c] EXCEPT !.owned = @ \ {n}])
    /\ UNCHANGED <<db, due, server, ghosts>>

\* A fill that failed is reported before anything is waited for
Dropped(c) ==
    /\ call[c].pc = "drop" /\ call[c].owned = {}
    /\ Become(c, [call[c] EXCEPT
           !.pc = IF ~call[c].ok THEN "failed"
                  ELSE IF call[c].waits = {} THEN "done" ELSE "await"])
    /\ UNCHANGED <<db, due, server, locks, ghosts>>

\* A call acquires a name at most once: a lock that is no longer that of the
\* call it was found with has been released by it
Released(c) == \A w \in call[c].waits : locks[w[1]] # w[2]

AwaitAll(c) ==
    /\ call[c].pc = "await" /\ Released(c)
    /\ Become(c, [call[c] EXCEPT
           !.pc = "realiases", !.open = {w[1] : w \in call[c].waits}])
    /\ UNCHANGED <<db, due, server, locks, ghosts>>

\* The deadline of WAIT_TIMEOUT, or the call is canceled while it waits
TimeOut(c) ==
    /\ call[c].pc = "await"
    /\ Become(c, Failed(c, "failed"))
    /\ UNCHANGED <<db, due, server, locks, ghosts>>

RereadAliases(c) ==
    /\ call[c].pc = "realiases"
    /\ Become(c, [call[c] EXCEPT !.pc = "reread", !.look = Look(c, "primary")])
    /\ UNCHANGED <<db, due, server, locks, ghosts>>

\* Mutant of Reread: the replica is asked
RereadReplica(c) ==
    /\ call[c].pc = "reread"
    /\ Become(c, [call[c] EXCEPT
           !.pc = "done", !.open = {}, !.look = {},
           !.got = @ \cup {r \in call[c].look : Cached("replica", r)}])
    /\ UNCHANGED <<db, due, server, locks, ghosts>>

\* Expired or not, what is cached now is the answer
Reread(c) ==
    /\ call[c].pc = "reread"
    /\ Become(c, [call[c] EXCEPT
           !.pc = "done", !.open = {}, !.look = {},
           !.got = @ \cup {r \in call[c].look : Cached("primary", r)}])
    /\ UNCHANGED <<db, due, server, locks, ghosts>>

----------------------------------------------------------------------------
(* Writers, time and Redis *)

Write(r) ==
    /\ r \in Existing /\ db[r] < MaxVersion
    /\ db' = [db EXCEPT ![r] = @ + 1]
    /\ due' = due \cup {r}
    /\ UNCHANGED <<server, locks, call, ghosts>>

\* Mutant of Invalidate: only the slug is cleared
InvalidateSlug(r) ==
    /\ r \in due
    /\ due' = due \ {r}
    /\ alias' = [alias EXCEPT !["primary"] = @ \ {r}]
    /\ lost' = lost \cup {r}
    /\ raced' = IF \E c \in Calls : \E b \in call[c].batch : b.row = r /\ b.ver < db[r]
                THEN raced \cup {r} ELSE raced
    /\ cleared' = [cleared EXCEPT ![r] = db[r]]
    /\ UNCHANGED <<db, value, locks, call, filled>>

\* clear_cache, in one DEL, after the commit
Invalidate(r) ==
    /\ r \in due
    /\ due' = due \ {r}
    /\ value' = [value EXCEPT !["primary"][r] = Absent]
    /\ alias' = [alias EXCEPT !["primary"] = @ \ {r}]
    /\ lost' = lost \cup {r}
    /\ raced' = IF \E c \in Calls : \E b \in call[c].batch : b.row = r /\ b.ver < db[r]
                THEN raced \cup {r} ELSE raced
    /\ cleared' = [cleared EXCEPT ![r] = db[r]]
    /\ UNCHANGED <<db, locks, call, filled>>

\* A value reaches actual_expiry: half an hour, never within one fill
Age(r) ==
    /\ \A c \in Calls : call[c].cur # r
    /\ \E s \in Servers : Fresh(s, r)
    /\ value' = [s \in Servers |->
                    [value[s] EXCEPT ![r] = IF @ = Absent THEN @ ELSE [@ EXCEPT !.old = TRUE]]]
    /\ UNCHANGED <<db, due, alias, locks, call, ghosts>>

\* A key reaches default_expiry or is evicted
Evict(r) ==
    /\ \/ Cached("primary", r) /\ value' = [value EXCEPT !["primary"][r] = Absent]
          /\ UNCHANGED alias
       \/ r \in alias["primary"] /\ alias' = [alias EXCEPT !["primary"] = @ \ {r}]
          /\ UNCHANGED value
    /\ lost' = lost \cup {r}
    /\ UNCHANGED <<db, due, locks, call, raced, cleared, filled>>

\* The replica catches up with one key
Replicate(r) ==
    /\ \/ value["replica"][r] # value["primary"][r]
          /\ value' = [value EXCEPT !["replica"][r] = value["primary"][r]]
          /\ UNCHANGED alias
       \/ (r \in alias["replica"]) # (r \in alias["primary"])
          /\ alias' = [alias EXCEPT !["replica"] =
                          IF r \in alias["primary"] THEN @ \cup {r} ELSE @ \ {r}]
          /\ UNCHANGED value
    /\ UNCHANGED <<db, due, locks, call, ghosts>>

----------------------------------------------------------------------------

Step(c) ==
    \/ ReadAliases(c) \/ ReadValues(c) \/ Acquire(c) \/ Acquired(c)
    \/ Fetch(c) \/ SetValue(c) \/ SetAlias(c) \/ Filled(c)
    \/ Drop(c) \/ Dropped(c) \/ AwaitAll(c) \/ RereadAliases(c) \/ Reread(c)

Environment(r) == Write(r) \/ Invalidate(r) \/ Age(r) \/ Evict(r) \/ Replicate(r)

Next ==
    \/ \E c \in Calls : Begin(c) \/ Step(c) \/ Fail(c) \/ TimeOut(c)
    \/ \E r \in Rows : Environment(r)

Spec == Init /\ [][Next]_vars

(***************************************************************************)
(* A call that is not waiting for a lock goes on: tokio polls it, Redis    *)
(* answers, and the closure returns, or the call fails, at the latest when *)
(* FILL_TIMEOUT passes.  No fairness is asked of failures, of WAIT_TIMEOUT *)
(* or of what happens around the calls.                                    *)
(***************************************************************************)
Fairness == \A c \in Calls : WF_vars(Step(c))

FairSpec == Spec /\ Fairness

----------------------------------------------------------------------------
(* Properties *)

\* Every variable keeps its type
TypeOK ==
    /\ db \in [Rows -> Versions]
    /\ due \subseteq Rows
    /\ value \in [Servers -> [Rows -> Values \cup {Absent}]]
    /\ alias \in [Servers -> SUBSET Rows]
    /\ locks \in [Names -> Calls \cup {None}]
    /\ call \in [Calls -> CallState]
    /\ lost \subseteq Rows /\ raced \subseteq Rows /\ filled \subseteq Rows
    /\ cleared \in [Rows -> 0 .. MaxVersion]

FillPcs == {"fetch", "set", "setalias"}

(***************************************************************************)
(* Single flight: no two calls fetch one name at a time.                   *)
(***************************************************************************)
OneFetchAtATime ==
    \A c, d \in Calls :
        c # d /\ call[c].pc \in FillPcs /\ call[d].pc \in FillPcs
            => call[c].open \cap call[d].open = {}

(***************************************************************************)
(* A call that waits for others holds no lock itself, and one that has     *)
(* ended, failed or been canceled has left none: the contract of           *)
(* apps/labrinth/tests/redis.rs:374.                                       *)
(***************************************************************************)
LatePcs == {"await", "realiases", "reread", "done", "failed"}

NothingHeld ==
    \A c \in Calls, n \in Names : call[c].pc \in LatePcs => locks[n] # c

(***************************************************************************)
(* A call reports a name as missing only if the database has no such row,  *)
(* or its keys were deleted or evicted, or a fill of it failed: otherwise  *)
(* a waiter finds in the primary what the call it waited for has set, by   *)
(* whatever name it asks.                                                  *)
(***************************************************************************)
NoFalseNotFound ==
    \A c \in Calls : call[c].pc = "done" =>
        \A n \in call[c].asked :
            RowOf[n] \in Existing => RowOf[n] \in call[c].got \cup lost

(***************************************************************************)
(* What is cached is older than the last deletion of its keys only if a    *)
(* fill that had read the row before the commit was still to set it then.  *)
(***************************************************************************)
OldOnlyByRace ==
    \A r \in Rows :
        value["primary"][r] # Absent /\ value["primary"][r].ver < cleared[r] => r \in raced

(***************************************************************************)
(* apps/labrinth/tests/redis.rs:450: "an expired cached value may serve a  *)
(* waiter immediately while exactly one writer refreshes it in the         *)
(* background".  Once every call has ended, a row that was served expired  *)
(* has been fetched, except when a call that held the lock of one of its   *)
(* names gave it up because another of its names was locked: two such      *)
(* calls may rely on each other.                                           *)
(***************************************************************************)
StaleIsRefreshed ==
    (\A c \in Calls : call[c].pc \in {"done", "failed", "idle"}) =>
        \A c \in Calls : \A r \in call[c].served \ filled :
            \E d \in Calls \ {c} :
                /\ r \in call[d].served
                /\ \E n, m \in call[d].asked : n # m /\ RowOf[n] = r /\ RowOf[m] = r

(***************************************************************************)
(* No deadlock among calls that wait for each other's names, and no call   *)
(* waits for a lock that a failed or canceled call has left: every call    *)
(* ends even if WAIT_TIMEOUT never passes.                                 *)
(***************************************************************************)
CallsReturn ==
    \A c \in Calls : call[c].pc # "idle" ~> call[c].pc \in {"done", "failed"}
=============================================================================
