# Verification of install jobs, cached reads, search indexing, payouts and billing

TLA+ models of five parts of this repository in which concurrency and failure
decide whether the program is right: the **install jobs** of the desktop app
(`packages/app-lib/src/install`), and of the API server `labrinth` the **cached reads**
(`packages/xredis/src/cache.rs` and its process-local locks), the **search index**
(`search/incremental.rs`, its consumer, and the full rebuild), the **payouts** of
creators (`routes/v3/payouts.rs`, `queue/payouts`) and the **billing** of subscriptions
(`routes/internal/billing.rs`, `queue/billing.rs`). Each part has a model with one
action per operation, instances that TLC checks, and theorems that TLAPS proves
for every value of the constants.

    tlc -workers 2 -config MCCore.cfg MCInstallJobs.tla      # a run
    tlapm CacheFillProofs.tla                                # a module of proofs

`PROJECT.json` names, for each definition, the lines it translates.

## The system

The repository is a monorepo: the API server `labrinth`, the desktop app
(`app-lib`, `app`, `app-frontend`), web frontends, API clients and libraries.

| Component | State it keeps | Operations | Hard behaviour | Module |
|---|---|---|---|---|
| Install job runner (`install/runner.rs`) | rows of `install_jobs` (status and a JSON state), one tokio task per job, a semaphore | start, retry, cancel, the worker and its ways to end | commands race with workers; a handler checks a status and writes it many awaits later; every step can fail | `InstallJobs` |
| Recovery and rollback (`install/recovery.rs`) | the backup of the instance directory | backup, `apply_cleanup`, restore, recovery at start-up | a crash at any point, also of the recovery; the directory, the rows and the backup change one after the other | `InstallJobs` |
| Job store (`install/store.rs`) | SQLite, with a foreign key from jobs to instances | conditional and unconditional updates, one transaction for success | the instance may be deleted under its job | `InstallJobs` |
| Life cycle of a job | its status | what statuses may follow each other | promised to the user interface whoever writes | `InstallLifecycle` |
| Cache locks (`cache/locking/local.rs`) | a map from keys to lock states, a flag and a `Notify` per lock | acquire, release on drop, wait with a deadline | the release and the wait touch three shared things without a common lock | `LockCoordinator`, which implements `KeyedLock` |
| Cached reads (`cache.rs`) | values under ids and aliases under slugs in Redis, on a primary and replicas | one call for many names: read, lock, fill, wait, read again | calls that hold and wait for each other; failed and canceled fills; expiry, eviction, replication, invalidation around them | `CacheFill` |
| Incremental search indexing (`search/incremental.rs`, `consume.rs`) | pending operations in memory, a Kafka topic, offsets | push, drain, consume, commit | failed sends, failed batches, redelivery, order of removals and changes | `SearchQueue` |
| Typesense backend (`search/backend/typesense`) | two collections and an alias per kind of document | incremental update, full rebuild | a rebuild of an hour beside updates; a failure between two aliases | `SearchQueue`, `SearchRebuild` |
| Project and version routes (`routes/v3`) | rows of projects and versions | edits, deletions, new versions | the read before the transaction decides what is pushed after it | the part that concerns search, in `SearchQueue` |
| Payouts (`routes/v3/payouts.rs`, `queue/payouts`) | rows of `payouts`, the balance they leave | create, cancel, webhooks, Mural's task, expiry | a provider's call between a read and a write; answers and webhooks lost, late, twice | `Payouts` |
| Billing (`routes/internal/billing.rs`, `queue/billing.rs`) | rows of `charges` and subscriptions | webhooks of Stripe, the charging and unprovisioning tasks, edits, refunds | each reads a row, calls Stripe or the servers, and writes the whole row back | `Billing` |
| Session and token queue (`queue/session.rs`) | sets in memory | add, index | a batch taken out of memory and then lost; cache cleared before the commit | not modelled |
| Sign-in flows, moderation, e-mail, file scan, server pings, sockets | database rows, flows in Redis | loops and handlers | mostly external services | not modelled |
| Launcher, processes, app cache, downloads, shared instances, accounts | files, child processes, a SQLite cache | launch, fetch, compare | input and output | not modelled |
| Frontends, API clients, `daedalus` | | | presentation, requests | not modelled |

How they interact. The app's frontend issues install commands; a handler prepares
the instance, writes the row of the job and spawns a worker; `State::init` runs the
recovery of what the last process left. The launcher refuses an instance whose
install stage is not `installed`, which is how a job that is never closed or
badly rolled back reaches the user. In the server every read of a project, user
or version goes through one function of `cache.rs`, from many requests of one
process at a time; writers commit to Postgres and delete keys afterwards, and
then push an operation for the search index, which a background loop sends to
Kafka and a consumer, in a process of its own, applies to Typesense from what the
database says by then. Payouts and billing share only the shape of their races:
a row read, a request to a provider, the row written, and the provider's webhook
for the same row at any time.

What makes each correct:

- *install jobs*: one owner per job; what an unfinished job did is undone from its
  row and its backup alone; an instance can be launched only when it is whole;
  every job ends; a failed rollback is kept so that a retry can finish it;
- *cache locks*: no lost wake-up, no lock left behind, one owner per key;
- *cached reads*: one fetch of a name at a time, no deadlock among calls, no lock
  left by an error, no false "not found", old values only where the code accepts
  them;
- *search index*: once everything about a project is consumed, searches show what
  the database says; a rebuild repairs what was lost and nobody notices it;
- *payouts*: nobody is paid more than was earned, and a status says what the
  provider did;
- *billing*: nobody pays twice for a charge, what is recorded as paid was paid, and
  a subscription is either paid for again or ended.

`PROJECT.json` lists the hazards of the code at their lines, with the properties
that would catch each, and a note where no property does.

## Install jobs

### State and actions

| Model | Code |
|---|---|
| `status`, `saved` | the columns `status` and `state` of `install_jobs`; of the state, the instance (target and cleanup), the rollback stage, whether a staging directory and a rollback error are recorded |
| `stage` | `instances.install_stage`; `unused` and `gone` for no row |
| `content` | the instance directory and the content rows: absent, partial, whole |
| `backup` | the staging directory of each job |
| `task` | a tokio task: the command handler and then, in the same slot, the worker it spawns; the recovery also runs in a slot |
| `app`, `todo` | how far `State::init` is, and the jobs the recovery has listed |

A step is one statement sent to SQLite or one change of the disk, so a crash, a
fault or another task can come between any two of them. `Start`, `Retry` and
`Cancel` are the commands up to their checks; `RetryPrepare`, `Queue`, `Lock`,
`Claim` finish them. `Permit`, `Claim`, `Lock` (relock), `Backup`, `Persist`, `Begin`,
`Apply`, `Complete`, `ClearStaging` are a worker that succeeds; `WorkError` and `OnError`
send it to `apply_cleanup` (`Clean`, `RemoveDir`, `CopyBack`, `RestoreMetadata`) and
`Finish`; `Strand` is the last resort of `spawn_job`. `Restart`, `Recover`, `InitReturns`
are the start of the app, `Reload` a second `State::init` in the same process.
`aim` remembers which caller runs a cleanup, because the callers differ in what
they do with its result.

Abstractions. Downloads are one first and one last change of the instance.
The stages `pack_installing` and `minecraft_installing` are one, and the restoring
of the previous stage inside `install_minecraft` is left out, since the cleanup
that follows sets the stage, or removes the instance, anyway. The wait for the permit and the reading of the
job after it are one step, and so is the re-reading of the job in
`complete_success`. A retry resets its state and prepares the instance in two
steps. `dismiss_job` only hides finished jobs and is not modelled.

`User` says when commands come: `"any"` time; `"serial"`, when a command on a job
waits for the previous one to return and the buttons of an instance that is being
installed are off, which is what the frontend does; `"careful"`, when besides
nothing else works on the job or its instance.

### Runs

| Run | Instance | Shows |
|---|---|---|
| `MCCore` | a new instance and an update of a shared one, one permit, one crash, careful | `TypeOK`, `NoStuckInstance`, `LaunchableIsWhole`, `OneOwner`, that `InstallJobs` implements `InstallLifecycle` (`RefinesLifecycle`), and under fairness `JobsFinish` |
| `MCFaults` | a shared update and a repair on two instances, two crashes, one fault, careful | `NoStuckInstance`, `NoBrokenInstance`, `DamageIsRecorded`: whatever is interrupted is undone, also when the recovery is interrupted or a rollback fails |
| `MCSerial` | both jobs on one instance, a crash, serial | `NoBrokenInstance`, `OneOwner` though the jobs overlap as far as the buttons allow |
| `MCAny` | one update, commands at any time, a crash, a reload, a fault and a removal | `ActiveCanRollBack`, the property that is also proved |

The bounds: two jobs are what a race needs (a worker of one and any command of the
other or of itself), and `MaxRunning = 1` makes the second one wait. One crash reaches
every intermediate state of a worker, a second one every intermediate state of
the recovery from it. One fault is enough for a failing rollback, since what comes
after a fault does not depend on how many more follow except that the job ends as
`failed` with its rollback error. Two or three task slots are as many as jobs have
simultaneous handlers in these instances. Task slots are interchangeable, hence
the symmetry, which no run with liveness uses.

Deadlock is not checked in any run of the project: jobs end, edits, payouts and
payments are bounded, the user need not issue another command, calls and
acquisitions are one-shot. The liveness properties say that what is under way
does end.

### Fairness

tokio polls every ready task, so every step of a task that has something to do
is weakly fair. The semaphore of the permits is a queue, so a waiter that is
passed over again and again is served in the end: strong fairness of `Permit`.
`State::init` is awaited: weak fairness of the recovery and of its return. Nothing is
assumed of commands, crashes, faults or removals; `WorkError` is not fair either.

### What the code does otherwise

The model has these behaviours; the runs above leave them out by a constant, and
with the other value TLC shows them.

- The instance of a running job is deleted (`MaxRemovals = 1` in `MCCore`): the foreign
  key refuses every later write of the row (`store.rs:305`), and `JobsFinish` fails.
- A retry on an instance that another job works on (already in `MCSerial`) captures
  the stage the other has set (`runner.rs:1293`), and its rollback restores it:
  `NoStuckInstance` fails.
- A reload of the web view (`MaxReloads = 1` in `MCCore`) recovers jobs that workers of this process
  are running (`recovery.rs:295`): `OneOwner` fails.
- A failing statement (`MaxFaults = 1` in `MCCore`) makes `spawn_job` strand a job that a cancel
  has claimed meanwhile (`runner.rs:538`): `OneOwner` and `RefinesLifecycle` fail.
- With two faults (`MaxFaults = 2` in `MCSerial`, also for a careful user) a second job of
  the instance captures the stage `installing` that a failed rollback has left:
  `NoStuckInstance` fails.
- A crash between the removal of a backup and the write of the row that forgets it
  (`runner.rs:151`) makes every later retry of the job fail; the instance is whole.

Described only, under "hazards": a crash between the creation of a new instance and
the row of its job leaves an instance nothing undoes; the rollback of a pack put
into an existing instance restores its stage and not its content; two retries of
one failed job both pass the check of its status when they come at the same time,
and the second puts a running job back in the queue; a cancel whose rollback
failed writes its status unconditionally.

## Cache locks and cached reads

### State and actions

`LockCoordinator` takes one step per access to shared memory. `locks` is the map,
`released` and `woken` the flag of a lock state and whether the `Notified` future of a
waiter was reached, `on` the lock state a waiter holds. `Own` and `Wait` are the two arms of
`acquire`, `Remove`, `Store` and `NotifyWaiters` the three statements of a release,
`Check`, `Register`, `Recheck`, `Wake` and `TimeOut` the loop of a waiter. `notify_waiters`
reaches the futures that exist and stores nothing, as tokio documents. A lock
state is known by the task that inserted it. `KeyedLock` is what this promises: one
holder per key, and a wait that answers Ok does so only after the release of the
holder it began for, not of a later one. The refinement keeps the outcomes apart: a
waiter that was told of the release is `returned`, one whose deadline passed `gaveup`,
and an owner is `released` once its entry is out of the map.

`CacheFill` is `get_cached_keys_raw_with_slug`, which every cached read goes
through, with the locks of `KeyedLock`: `call` holds the local variables of each
call, `value` and `alias` what Redis has, on the primary and on a replica.
`ReadAliases` and `ReadValues` are `get_cached_values`; `Acquire` is one turn of the loop over
the missing names (`Skip`, `Own`, `ServeStale`, `WaitFor`); `Acquired`, `Fetch`, `SetValue`,
`SetAlias`, `Filled` are the fill, each Redis command a step; `Fail` is an error of Redis
or of the closure, `FILL_TIMEOUT` around the closure, or the drop of the future;
`Drop` releases the locks one by one; `AwaitAll`, `TimeOut`, `RereadAliases`, `Reread` are
what the waiters do, on the primary. Around the calls, `Write` is a commit to
Postgres, `Invalidate` the `clear_cache` after it, `Age`, `Evict` and `Replicate` time and Redis.

Abstractions. A name is what `normalize_key` makes of an id or a slug, and each
stands for one row; other spellings of an id are left out. A value is the version
of its row and whether it is past its `actual_expiry`. A value does not age between
the two commands that set a row. The codecs and the settings are left out. A
call acquires a name at most once, so that a lock is released, for who waits for
it, when its holder is no longer the one found.

The variables `lost`, `raced`, `cleared` and `filled` are history: no action reads them;
they let a property say why a row may be missing or old.

### Runs

| Run | Instance | Shows |
|---|---|---|
| `MCLocks` | three acquisitions of one key and one of another | `NoLostWakeup`, that `LockCoordinator` implements `KeyedLock` (`ImplementsKeyedLock`), and under fairness `WaitersReturn` |
| `MCCache` | two calls that each ask for a row by its slug, or by id and slug; two versions of the row | `OneFetchAtATime`, `NothingHeld`, `NoFalseNotFound`, `OldOnlyByRace`, `StaleIsRefreshed`, and under fairness, without `WAIT_TIMEOUT`, `CallsReturn` |

The bounds: three acquisitions of a key are an owner, a waiter and a later owner
that the waiter must not wait for. Two calls with two names each can hold and wait
for each other, which is the one shape of a deadlock here; two names of one row
are besides the one way in which a call may fetch what another one waits for. Two
versions are one write, which is what may race with a fill; a second one only
repeats it.

### Fairness

In `LockCoordinator`, the steps of a release and of a waiter's loop are weakly fair:
a guard is dropped at the end of its call, which `FILL_TIMEOUT` bounds, and tokio polls a
future that was woken. In `CacheFill` the steps of a call are weakly fair for the
same reason: Redis and the closure answer or fail. `Fail` itself, `TimeOut` and the
environment are not fair, so the liveness properties do not rest on a deadline.

### What the code does otherwise

`redis.rs:450` of the tests says of an expired value that "exactly one writer
refreshes it". A call that asks for a row by two names and finds one of them
locked serves the old value and gives up the other name; two such calls may each
rely on the other, and nobody fetches the row. `StaleIsRefreshed` excuses exactly
this. The cache is not read again after a lock was got, so a name that was filled
and released a moment ago is fetched a second time. A waiter of a fill that failed
is told that its names do not exist, which is why `NoFalseNotFound` excuses such rows
(`lost`). A deletion of keys may fall into a fill that has read the row before the
commit, and the old value then stays until it expires, which `OldOnlyByRace` shows
to be the only way.

## The search index

### State and actions

| Model | Code |
|---|---|
| `status` | the rows of the projects: listed (searchable), unlisted or deleted |
| `edit` | each request: the project as it was read, then committed, then pushed |
| `queue`, `draining` | `PendingSearchIndexOperations` in memory, and the operations `drain` has taken out |
| `log`, `committed`, `position` | the topic, the offset of the consumer group, how far the running consumer has received |
| `step`, `work`, `built` | where `consume_batch` is, its batch, the documents built so far |
| `docs`, `exists`, `live` | the two collections of each alias, those that exist, the one the alias points to |
| `rstep`, `target`, `old`, `rest`, `chunk` | where `rebuild_index` is, the collections it fills and will delete, its cursor, the chunk in hand |

`ReadProject`, `CommitEdit`, `PushEdit`, `PushRemoval` are a request: the project is read
before the transaction, and what was read decides on the second push. `TakeQueue`,
`Send`, `SendFails` are `drain`, which puts back what it could not send. `Receive`,
`BuildVersions`, `BuildChanges`, the six requests of `apply_update` (`Apply`) and `Commit` are
the consumer. `CacheFails`, `ApiCrash`, `BatchFails`, `Restart` are what goes wrong: the
cache refuses after the commit, the process of the API ends, a batch fails in the
middle of a request, the consumer ends anywhere and another one goes on from the
committed offset. `SearchRebuild` adds the full rebuild, step by step, beside all of this.

Abstractions. A document is fresh, stale or absent: what it contains is compared
with the database and otherwise left out, so a commit ages the documents that show
what it changed, also those a consumer or a rebuild holds in memory. All versions
of a project are one document. The topic has one partition. A deletion is the
status `deleted`. `build_search_document_batch` reads the database at one moment. Offsets
count messages. The consumer and the rebuild read `ro_pool` (`background_task.rs:72,101`), which
is another database than the one edits are committed to when `READONLY_DATABASE_URL` is
set; the configurations in the repository leave it unset. All properties of the search
assume that it is the same database or does not lag behind the writes: with a replica
that does, a consumer builds a document from what an edit has already replaced, and
nothing repairs it before the next edit or rebuild. `withdrawn`, `lost` and `touched` are history: which projects were unlisted, of
which a failure has lost operations, and which changed since a rebuild began.

### Runs

| Run | Instance | Shows |
|---|---|---|
| `MCSearch` | one project, two edits at the same time, batches of two, two failures of any kind | `TypeOK`, `SettledIsCurrent`, `HiddenIsNotFound`, `ListedIsFound`, and under fairness `EventuallySettled` |
| `MCRebuild` | two projects, an edit, two rebuilds, one failure of a batch, of the API, of the cache or of a rebuild | `LiveExists`, `RebuildHeals`, `RebuildIsUnseen` |

The bounds: projects do not interact in the queue or in a batch except by its size,
so one project with two edits has every order of commits, pushes, messages and
batches; its edits yield up to four operations, more than a batch takes. Two failures
are a batch that fails or a send that arrives although it failed, and a restart
that delivers it again. In `MCRebuild`
the second project shows that one chunk does not disturb another, the second
rebuild goes on from whatever the first has left, and one failure is what there is
to heal. Projects are interchangeable there, hence the symmetry.

### Fairness

Requests run to their end, the loop of the queue and the consumer run for ever:
weak fairness of the steps of a request after its read, of `TakeQueue` and `Send`, and of the
consumer's. Edits and failures are not fair.

### What the code does otherwise

- A removal wins over every other message of its batch (`consume.rs:199`), and over later
  changes in the queue: a project that is unlisted and listed again within a batch is
  taken out and stays out until it is next edited. `ListedIsFound` excuses projects
  that have been withdrawn.
- An edit that lists a project pushes a change, which builds no version documents
  (`projects.rs:1193`), so `ListedIsFound` speaks of projects only.
- A batch that fails is not read again by the consumer that goes on, and the commit of
  a later one covers its offsets (`consume.rs:54`). A cache that refuses after the commit
  (`projects.rs:81`) and a crash of the API lose operations too. The properties of `SearchQueue`
  excuse the projects concerned (`lost`), and no others. `typesense/mod.rs:68` says
  that a rebuild "shouldn't be required in normal operation"; after these it is, and
  `RebuildHeals` says it is enough.
- An edit that is committed and applied after the rebuild has read its chunk and
  before it imports it is overwritten (`mod.rs:1271`); `RebuildHeals` speaks of projects
  nothing has touched since the rebuild began. Two rebuilds at once, from the task and
  by hand, would fill the same collections; the model has one at a time.
- `release_scheduled` (`background_task.rs:189`) lists projects and pushes nothing.

## Payouts

### State and actions

| Model | Code |
|---|---|
| `status`, `known` | rows of `payouts`, and whether they have a platform id |
| `create` | a request of `create_payout`: the row of its user is locked, the balance checked, the provider asked |
| `cancel` | a request of `cancel_payout`: the row read, the provider called, the row written |
| `events`, `hook` | the webhooks a provider sends, and the handlers that have found the row in transit |
| `sync`, `rows`, `plan` | the task that asks Mural and what it is about to write |
| `provider` | external: what PayPal, Tremendous or Mural have done |

`Lock`, `Check`, `Refuse`, `Ask`, `Execute`, `ExecuteFails`, `Record`, `RecordFailed`,
`RecordUnknown` are `create_payout` and the three flows; `AnswerLost` and `Stop` what may
cut them off. `HookPaid` writes whatever the row says, the other webhooks look for a
row in transit first (`HookRead`, `HookWrite`). `SyncBegin` to `SearchWrite` are the two parts
of Mural's task, `Expire` the 30 days of `process_payout`.

Abstractions. A payout is one unit, and what a user has earned does not change.
The task asks about at most `Limit` of the pending rows, any of them, since the query has a
`LIMIT` (100) and no order; the requests it then searches at Mural come in pages of as
many, and the page after the last is taken to be empty, which is what ends the loop.
Webhooks stay in `events` and may be handled any number of times, or never. `gap` is history: payouts
that are or may be paid and are not counted, because an answer was lost, the
process ended before the commit, or the row expired.

### Runs

| Run | Instance | Shows |
|---|---|---|
| `MCPayouts` | a payout by PayPal and one by Mural of a user who has earned one, one by Mural of another user; two of the three, a limit of one row, two failures of four kinds | `TypeOK`, `NeverOverpaid`, `StatusIsReal`, and under fairness `MuralIsSynced` |
| `MCUntracked` | violated | `UntrackedIsCounted`, what `paypal.rs:170` says |

The bounds: two payouts compete for the balance of one, which is what the lock of
the user's row is for, and the two methods differ in everything that follows (PayPal
and Tremendous do not, except in wording; the proofs cover any number of each).
Two payouts of two users by Mural are more than the limit of one: the task leaves one
of them out, and searches two pages. `MaxMade = 2` bounds how many of the payouts are
requested. Two failures allow a failing answer and a stop of the task that would
repair it.

### Fairness

`sync_payout_statuses` runs periodically: weak fairness of the steps of the task.
Requests, providers, webhooks, the expiry and failures are not fair.

### What the code does otherwise

- `MCUntracked`: PayPal's answer may lack the id of the item; the payout is recorded
  without it, as the comment demands, so no webhook finds it and it expires after 30
  days although it was paid: its amount is given back to the balance.
- A payout of PayPal or Tremendous that is canceled by its user stays `cancelling`: the
  webhook that confirms it looks for a row in transit, and what it writes before
  the cancel does is overwritten. No task looks at such a row; `MuralIsSynced` holds for
  Mural only.
- A webhook that comes before its row is committed finds nothing and is answered; the
  payout then waits for its expiry.
- The query of the task takes 100 pending rows in no order (`background_task.rs:337`,
  `mural.rs:174`). Rows that stay pending, because Mural has not settled them or gives errors
  for them, may be taken again and again, and a settled one beyond them never. `MuralIsSynced`
  therefore asks that from some time on no more rows are pending than the limit; without
  that it fails.

## Billing

### State and actions

| Model | Code |
|---|---|
| `charge`, `sub` | rows of `charges` (status, type, payment intent) of one subscription, and the status of the subscription |
| `intent`, `events`, `server` | external: Stripe's payment intents and webhooks, and what the servers give the customer |
| `hook`, `task`, `edit`, `ending` | the handlers of webhooks, `index_billing`, `edit_subscription` and `unprovision_subscriptions`, each with the rows as it read them |

`Buy` and `Redeem` are how a subscription begins or grows. `HookRead`, `HookWrite`,
`HookServe`, `HookCommit`, `HookFails` are `stripe_webhook`: the rows are read outside of the
transaction, and a payment that succeeded starts the server inside of it. `TaskRead`,
`TaskCancel`, `TaskPay`, `TaskCannotPay`, `TaskAnswerLost`, `TaskWrite` are the charging task,
`EditRead` to `EditRefused` the user's changes (a refund that ends a subscription writes the
same), `EndRead` to `EndCommit` the unprovisioning, `TaskStops` the end of the process. Every
write is `DBCharge::upsert`: all of the row, as it was read. What another transaction
has written and not committed is locked (`Locked`).

Abstractions. Amounts, taxes and dates are left out, so whatever may become due may
be due at any time. One purchase is under way at a time. The read of the
subscription in a webhook is part of `HookRead`. Payments that take a while are those in
`Delayed`.

Four variables are history. No action reads them; each records one cause for which
the code breaks a promise, and the properties name the ones they excuse:

| Variable | Records | Cause |
|---|---|---|
| `raced` | charges | the row was written by someone who had read it before it changed (`Race`), or for an event that is no news (`Old`): handled before, overtaken by the intent's next state, or of an intent that is not the charge's last one |
| `untold` | charges | a payment was made of which the task never learned: Stripe's answer was lost, or the process ended between the payment and the write of the row |
| `extra` | charges | a webhook made the charge because it found none to come, while another one was being paid |
| `reset` | the subscription | its status was overwritten while it was in use: by a purchase that takes a while, by a webhook with an older one, or by an unprovisioning at work |

### Runs

| Run | Instance | Shows |
|---|---|---|
| `MCBilling` | a subscription with a charge to come, a change of product with a slow payment, renewals, edits, one failure of four kinds; two of the tasks, webhooks and requests between their steps at a time, or one and a failure (`FewAtOnce`) | `TypeOK`, `PaidOnce`, `OneCharge` |
| `MCRenewals` | a first purchase, or a free subscription that is bought, with renewals, edits and overwritten rows | `SucceededIsPaid`, `NeverFree`, and under fairness `ProcessingEnds` and `CancelEnds` |

The bounds: three charges are the one that is paid, the next one and one that should
not be there; two intents are a payment and its repetition. Charges are overwritten,
paid twice and made twice in `MCBilling`, and it goes on past that: `PaidOnce` speaks of each charge and
`OneCharge` of each pair, so a cause recorded for one charge excuses nothing about the others.
`FewAtOnce` keeps its states few enough; `MCRenewals` and the theorems have no such
bound. No run has a renewal that takes a while to be paid, beyond the time
until its webhook comes; `PaidOnce`, `OneCharge`, `SucceededIsPaid` and `NeverFree` are proved with it, and
`ProcessingEnds` is checked for first payments that take a while.

### Fairness

Stripe delivers a webhook until it is answered and settles its payments, and
`index_subscriptions` runs periodically: weak fairness of the webhooks, of `Settle` for each
intent, and of the unprovisioning. The charging task is not fair, nor are users and failures.

### What the code does otherwise

All of these are in the model; the properties excuse them by the history variable
in brackets, or do not speak of them.

- The charging task writes the row it read before the call to Stripe over what the
  webhook wrote meanwhile (`queue/billing.rs:788`): a charge that was paid becomes one
  that is being processed, and stays so (`raced`).
- An edit reads the charge, asks Stripe, and writes it (`billing.rs:1126`): a charge that
  is being processed becomes open, and is taken a second time (`raced`).
- Events of one intent come in any order and are all written (`billing.rs:1862`): one that says
  the payment is being processed, after the one that it has succeeded (`raced`).
- The intent of a renewal has no idempotency key (`payments.rs:587`): when the answer is
  lost the charge is recorded as failed, and taken again (`untold`).
- The process ends between the payment of a renewal and the write of its row
  (`queue/billing.rs:733-789`): the charge is still open, and the next run of the task takes it
  again; the customer pays twice (`untold`).
- The webhook of an upgrade that is paid while the next charge is being processed does
  not find that one, since `get_open_subscription` looks for charges that wait, and makes
  another (`billing.rs:2323`). The comment above it says that the payment then was "a recurring or
  initial subscription charge". Two charges are to come (`extra`).
- A purchase that takes a while sets the subscription to unprovisioned, also when it was in
  use and only changes its product (`billing.rs:1963`); if the payment is declined it stays
  so (`reset`).
- Any answer of the servers counts as a suspension (`queue/billing.rs:931`), so a
  subscription may be unprovisioned while its server runs on; `CancelEnds` is
  checked without such failures.
- A webhook that provisions a subscription while it is being unprovisioned is
  overwritten (`queue/billing.rs:941`; `reset`).
- The upgrade of a free subscription that is paid for slowly and then declined leaves its
  charge as failed beside the one that expires. A second upgrade then finds the first of the
  two by its due date (`charge_item.rs:231`) and promotes it only if that is the expiring one
  (`billing.rs:950`), so two charges are to come. `OneCharge` is proved for the other
  cases only, and `MCBilling` has no free subscription with slow payments.

## Proofs

| Theorem | Says, for every value of the constants |
|---|---|
| `InstallJobsProofs!TypeCorrect` | `Spec => []TypeOK` |
| `InstallJobsProofs!ActiveJobsCanRollBack` | `ActiveCanRollBack`: every queued or running job has in its row what the recovery needs to undo it, for any use, faults and reloads |
| `InstallJobsProofs!OneOwnerHolds` | `OneOwner`, if `Calm` |
| `InstallJobsProofs!ImplementsLifecycle` | `InstallJobs` implements `InstallLifecycle` (`RefinesLifecycle`), if `Calm` |
| `InstallSitesProofs!NoStuck` | `NoStuckInstance`, if `Careful` |
| `InstallSitesProofs!LaunchesWhole` | `LaunchableIsWhole`, if `Careful` and `NoPack` |
| `InstallSitesProofs!DamageOnRecord` | `DamageIsRecorded`, if `Careful` and `NoPack` |
| `InstallSitesProofs!NothingBroken` | `NoBrokenInstance`, if `Careful` and `NoPack`, and nothing crashes or no job creates an instance |
| `LockCoordinatorProofs!WakeupsArrive` | `NoLostWakeup` |
| `LockCoordinatorProofs!LocksAreOwned` | `ListedIsOwned`: a lock in the map has an owner who will release it |
| `LockCoordinatorProofs!LockImplements` | `LockCoordinator` implements `KeyedLock` (`ImplementsKeyedLock`): a wait answers Ok only after the release of the holder it began for |
| `CacheFillProofs!SingleFlight` | `OneFetchAtATime` |
| `CacheFillProofs!LocksAreFreed` | `NothingHeld` |
| `CacheFillProofs!FoundIfThere` | `NoFalseNotFound` |
| `CacheFillProofs!OldByRaceAlone` | `OldOnlyByRace` |
| `CacheFillProofs!StaleGetsRefreshed` | `StaleIsRefreshed` |
| `SearchQueueProofs!TypeCorrect` | `Spec => []TypeOK` |
| `SearchQueueProofs!SettledCurrent` | `SettledIsCurrent`, whatever fails |
| `SearchQueueProofs!HiddenNotFound` | `HiddenIsNotFound`, whatever fails |
| `SearchQueueProofs!ListedFound` | `ListedIsFound`, whatever fails |
| `SearchRebuildProofs!LiveAlwaysExists` | `LiveExists`, wherever a rebuild ends |
| `SearchRebuildProofs!RebuildRepairs` | `RebuildHeals` |
| `SearchRebuildProofs!SearchSeesNoRebuild` | the action property `RebuildIsUnseen` |
| `PayoutsProofs!TypeCorrect` | `Spec => []TypeOK` |
| `PayoutsProofs!StatusReal` | `StatusIsReal` |
| `PayoutsProofs!Overpaid` | `NeverOverpaid` |
| `BillingProofs!TypeCorrect` | `Spec => []TypeOK` |
| `BillingProofs!SucceededPaid` | `SucceededIsPaid`, also past races and failures |
| `BillingProofs!NotFree` | `NeverFree`, also past races and failures |
| `BillingProofs!OnePayment` | `PaidOnce`: every charge not in `raced` or `untold` is paid at most once |
| `BillingProofs!OneChargeToCome` | `OneCharge`: of two charges to come one is in `raced`, `untold` or `extra`; if the upgrade of a free subscription is not paid for by a slow payment |

They rest on the assumptions the modules state about their constants
(`ConstantsAssumption`, `LockAssumption`, `CacheAssumption`, `SearchAssumption`,
`RebuildAssumption`, `PayoutsAssumption`, `BillingAssumption`), which TLC evaluates in the
runs, on the conditions the table names, and on nothing else: there is no bound
on jobs, instances, tasks, permits, calls, names, projects, edits, payouts, charges or
crashes, nor on faults where a condition does not exclude them. The conditions are:

- `Calm`: `User # "any" /\ MaxFaults = 0 /\ MaxReloads = 0`. The frontend waits for a command
  on a job to return before it offers the next one, so `"serial"` is how the app is
  used. Each of the three is needed: with commands at any time, with a reload, and with a fault
  (the last resort of `spawn_job` then runs beside a cancel that claimed the job)
  TLC finds two owners.
- `Careful`: `User = "careful"`, and the same about faults and reloads. With `"serial"` a retry
  on an instance that another job works on captures a stage that is not its own.
- `NoPack`: no job puts a pack into an existing instance. The rollback of such a job restores
  the stage and not the content (`recovery.rs:437`), so three of the properties are
  false of it; `NoStuckInstance` is not, and is proved with packs.
- A crash between the creation of an instance and the row of its job leaves an
  instance nobody owns, hence the last condition of `NothingBroken`.

`MCCore` is an instance of all of them but the last, `MCFaults` without its fault one of all of
them, and `MCSerial` one of `Calm`, so no condition is empty.

*Install jobs.* `ActiveCanRollBack` is not inductive: a row is written with a state a
task has carried since it read or made it, possibly long before. The invariant is
`IInv`: besides the types and the property, `TasksCarryUndo` says that a task which is
about to write its row or works on its instance carries a state that can be
rolled back, and that one which restores a backup knows the stage to restore. The
latter is also what types `stage`, and the former what gives a worker an instance, so
type correctness is proved along with it. Each action has its step; the helpers
(`Become`, `Goto`, `Fail`, `SaveState`, `Prepare`, `SetStage`) have lemmas.

`OneOwner` follows from `OwnersInv`. `TasksFit` says of each task what it knows of its
job's row: a command that prepares a job knows it to be neither queued nor running, an owner
that it is running. `TasksApart` says of two tasks of one job that they are not both
commands, both a setup or worker, or both owners. `RowsOrdered` is what a cancel of a
queued job relies on: there is nothing to restore yet. The one owner whose job is
not running is a worker whose claim failed because the instance was deleted, and with
it the row can no longer be written. The refinement is the same invariant again: whoever
writes a final status owns a running job, or is the cancel of a queued one.

*Instances.* `SitesInv` (in `InstallSitesProofs`) relates the rows to the disk. `Undoable` says how
far the instance of an active job may be damaged: not at all before the row names a
backup, and that backup is whole; the stage to restore is always `installed`. `Leaves` says
of the owner what its next step relies on: the instance shows as installing while it
works, the content is good before the success is written. `SitesApart` is that no two
active jobs share an instance, nor do a job and a setup, which is what the careful user
guarantees. `Listed` is that the recovery misses no active job, `Rested` that an instance
no active job works on is either installed and good, or not there. Without faults a
rollback error is never recorded and a cleanup can fail only because its instance is gone,
which `RowsKnow` and `Leaves` say too. `Born`, for the instances of new jobs, is that the setup
holds them until the row names them. Most of the proof is that the step of a task at one
instance leaves what is known about the others (`Steady` and the lemmas after it).

*Locks.* `NoLostWakeup` needs that a waiter waits for a task that became an owner
(`WaitsForOwner`) and that the flag is set exactly from the second statement of a
release on (`FlagIsSet`), which makes the second look of a waiter decisive. `LInv` is their
conjunction with `TypeOK` and `ListedIsOwned`. For the refinement each step is mapped to the
step of `KeyedLock` it takes, or to a stutter: `Remove` is the release, `Store` and
`NotifyWaiters` are invisible, and a waiter that answers Ok does so after the release
because of `FlagIsSet`; one whose deadline passed gives up, which is another step.

*Cached reads.* `FInv`: a call owns exactly the locks the map gives it (`Held`), and what it
may still fetch it owns or has yet to ask for (`Covered`). Two calls that fetch one
name would then hold one lock. `OneCall` and `SameLocks` say once what a step of one call must
keep; each action is an instance of one of them.

`NoFalseNotFound` needs to know, for each step of a call, where the answer to each of its
names is (`Knows`): found, still open, waited for, or in the primary under every name. A
row of the last kind is `Settled`, and that is what a waiter is told: the names it
waits for are held by the owner it found, or settled (`Awaited`). A value whose alias is
not set yet has a call that is about to set it (`AliasComes`). `AnswerInv` is their
conjunction. For `OldOnlyByRace` a batch in the hands of a call is as new as the last
deletion, or the row is in `raced` (`VersionsOK`). For `StaleIsRefreshed` a name that a call
holds is still to be fetched, or its row was fetched, or the call had served the row and asked
for it by two names (`Fate`); a call that serves a row expired has found another one in
this state (`ServedFate`).

*Search index.* A document that is stale, or there though its project is hidden, must
have a cure on its way, unless a failure has lost operations about the project: an
operation of the right kind that has not been sent, or lies in the topic behind the
committed offset (`Mended`). That is not inductive while a
batch is worked on, since a restart goes back to the committed offset and a commit
goes on from the position. `Inv` therefore says it twice: for what the index holds
from the committed offset, and for what the batch has built from the position,
where the documents that the rest of the batch will replace (`Replaces`) or will find to
be of a hidden project (`Finds`) are excepted. When nothing is on its way there is no
cure, hence nothing to be cured. A step of `apply_update` may be cut off anywhere, so the
lemma on a request is about any set of collections and projects.

`ListedIsFound` is the converse: a document that is missing though its project is listed. A
project that was never withdrawn has no removal anywhere (`NoRemoval`); if it has no
document, an operation about it is behind the committed offset, and behind the
position too unless the batch at hand brings the document (`Brings`). What the batch is to
remove was hidden when it was read, and has been listed since by an edit whose
operation is to come.

*Rebuild.* `Placed` says where the aliases point at each step: to the old collection, then
to the one that was created and filled, never to the one that is emptied.
`Written` says what the new collections hold of a project nothing has touched: nothing
while they are emptied, then what the cursor has passed except the chunk at hand, then
everything. An alias is moved only then, which is `RebuildHeals` and, step by step,
`RebuildIsUnseen`.

*Payouts.* `StatusIsReal` needs to know how far each request has come when the provider
has done something (`StageIsReal`), that a webhook says what the provider did
(`EventsAreReal`), and that the same is true of what a cancel and the task have read and
will write later (`PlansAreReal`), which holds because what they read is final. `RealInv`
is their conjunction. For `NeverOverpaid`, `Fits` says that a request that has
checked the balance leaves room for one payout, which `OneHolder`, the lock of the user's
row, keeps true; the lemmas about cardinalities (`OneMore` and those after it) stand between.

*Billing.* Types need that an event is about an intent made for a charge, and that a
success stays one (`Asked`). `Serving` says what a webhook that is about to commit and an
edit have read: a charge that waits, and another one than was paid. From these
a status `succeeded` is only ever written for an intent that succeeded, and the row that
`NeverFree` needs is written in the step that provisions the subscription.

The charges in neither `raced` nor `untold` are `Clean`. For `PaidOnce`, of a clean charge a
payment that was taken or may be is the last one, and the row says so, or
`index_billing` has just made it and is about to write that (`Single`). `Shaped` is what it
needs of the numbers of intents and of the rows the task works on, and `HistoryKept` that
no cause that was recorded is forgotten.

For `OneCharge`, the charges that are clean and not `extra` are `Good`, and one of them is due
(`OneDue`). A charge becomes due only where a webhook that has found none commits, or with the
first payment (`DueSteps`). A webhook that makes a charge and was not beside another is
`Alone`: it serves the only charge that was to come, or the first (`AddsFirst`), whose row it keeps
locked (`LockedOnce`), so no other does the same meanwhile (`OneAdds`) and no good charge becomes due
beside it (`AddsToNone`). `Recorded`, `Started` and `FirstIsFirst` are how a subscription begins: until
it has a row there is one payment, and afterwards always a charge to come.

## Only model-checked

- Liveness (`JobsFinish`, `WaitersReturn`, `CallsReturn`, `EventuallySettled`, `MuralIsSynced`,
  `ProcessingEnds`, `CancelEnds`), since fairness and `ENABLED` are beyond the prover.
- The properties of the instances with a fault: `MCFaults` checks `NoStuckInstance`,
  `NoBrokenInstance` and `DamageIsRecorded` with one. An invariant for any number of faults
  would have to follow each rollback that failed to the retry that repeats it, and there is
  none without a further condition: after two faults a second job on the instance captures
  the stage, or backs up the directory, that the failed rollback of another has left.
- `NoBrokenInstance` for the serial user with two jobs on one instance (`MCSerial`).
- `UntrackedIsCounted`, which is violated.

## Not modelled

The components marked so above: their work is input and output, presentation,
data types, or calls of external services, with little control of their own. That is
most of the repository's lines: what is modelled are the parts in which an order of
steps can be wrong. Inside the modelled components: dismissing and listing
jobs, progress reports as such; codecs and settings of the cache; the wording of
errors; malformed messages and the queries of the search; amounts, fees, currencies and
taxes, the division of advertising revenue, the listing of payment methods;
permissions. The amounts matter to the properties only through the balance, which
units show; a purchase beside another purchase, and two users of one server, would
make `Billing` larger than its checks allow.

## Plan

1. The instances with one fault: `SitesInv` with the jobs that have recorded a rollback
   error as a third kind besides active and over, for `NoStuckInstance` and
   `DamageIsRecorded` when no two jobs share an instance.
2. `SessionQueue`: sessions and tokens taken out of memory and written in one transaction,
   with the cache cleared before the commit (`queue/session.rs:129`), on the model of the
   cached reads. Property: a removed session is not used after its removal.
3. `dismiss_job`, and two purchases at a time.
