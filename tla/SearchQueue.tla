----------------------------- MODULE SearchQueue -----------------------------
(***************************************************************************)
(* Incremental indexing of projects: the handlers that edit a project and  *)
(* push an operation (apps/labrinth/src/routes/v3), the queue in memory    *)
(* that is drained into a Kafka topic (search/incremental.rs), and the     *)
(* consumer that turns a batch of messages into requests to Typesense      *)
(* (search/incremental/consume.rs, search/backend/typesense).              *)
(*                                                                         *)
(* The contents of a document are compared with the database only: a       *)
(* document is fresh when it says what the database says, stale once an    *)
(* edit of what it shows has been committed.  All versions of a project    *)
(* are one document.  A full rebuild is module SearchRebuild.              *)
(*                                                                         *)
(* The consumer and the rebuild read ro_pool (background_task.rs), another *)
(* database than the one edits are committed to when READONLY_DATABASE_URL *)
(* is set.  It is taken to be the same, or not to lag behind.              *)
(***************************************************************************)
EXTENDS Naturals, Sequences

CONSTANTS
    Projects,
    Editors,    \* requests that edit projects at the same time
    NoEdit,     \* a request that has not begun, or has been answered
    MaxEdits,   \* bound: how many edits begin
    MaxBatch,   \* SEARCH_INCREMENTAL_INDEX_BATCH_MAX_SIZE
    Faults,     \* the kinds of failure that happen
    MaxFaults   \* bound: how many failures happen

FaultKinds  == {"send", "cache", "api", "batch", "restart"}
Kinds       == {"change", "versions", "removal"}
Statuses    == {"listed", "unlisted", "deleted"}
Aliases     == {"projects", "versions"}
Collections == {"current", "alt"}
Docs        == {"none", "stale", "fresh"}
Ops         == [kind : Kinds, project : Projects]
Edits       == [stage : {"read", "committed", "pushed"}, project : Projects,
                listed : BOOLEAN, kind : Kinds, unlists : BOOLEAN]

ASSUME SearchAssumption ==
    /\ NoEdit \notin Edits
    /\ MaxEdits \in Nat /\ MaxFaults \in Nat /\ MaxBatch \in Nat \ {0}
    /\ Faults \subseteq FaultKinds

VARIABLES
    status,    \* the status of each project in the database
    edit,      \* where each request is
    edits,     \* edits begun so far
    faults,    \* failures so far
    queue,     \* PendingSearchIndexOperations of the IncrementalSearchQueue
    draining,  \* the operations drain has taken and not sent yet
    log,       \* the topic
    committed, \* the offset committed for the consumer group
    position,  \* the offset the running consumer has received up to
    step,      \* what consume_batch does next
    work,      \* the projects of the batch it works on
    built,     \* the documents it has built
    docs,      \* the documents of the collections
    exists,    \* the collections of each alias that exist
    live,      \* the collection each alias points to
    withdrawn, \* history: the projects that have been unlisted or deleted
    lost       \* history: the projects of which a failure has lost operations

requests == <<status, edit, edits, withdrawn>>
failures == <<faults, lost>>
producer == <<queue, draining>>
consumer == <<committed, position, step, work, built>>
index    == <<docs, exists, live>>
vars     == <<requests, failures, producer, log, consumer, index>>

Searchable == {p \in Projects : status[p] = "listed"}
NoDocs     == [p \in Projects |-> "none"]
NotBuilt   == [a \in Aliases |-> NoDocs]
Empty      == [k \in Kinds |-> {}]
NoWork     == [removal |-> {}, versions |-> {}, change |-> {}, edited |-> {}]

\* The index has just been rebuilt, and nothing is queued
Init ==
    /\ status \in [Projects -> {"listed", "unlisted"}]
    /\ edit = [e \in Editors |-> NoEdit]
    /\ edits = 0 /\ faults = 0
    /\ queue = Empty /\ draining = Empty
    /\ log = <<>> /\ committed = 0 /\ position = 0
    /\ step = "receive" /\ work = NoWork /\ built = NotBuilt
    /\ live = [a \in Aliases |-> "current"]
    /\ exists = [a \in Aliases |-> {"current"}]
    /\ docs = [a \in Aliases |-> [c \in Collections |-> [p \in Projects |->
                 IF c = "current" /\ p \in Searchable THEN "fresh" ELSE "none"]]]
    /\ withdrawn = {} /\ lost = {}

\* A failure of this kind, which loses operations about these projects
Fault(kind, ps) ==
    /\ kind \in Faults /\ faults < MaxFaults
    /\ faults' = faults + 1
    /\ lost' = lost \cup ps

----------------------------------------------------------------------------
(* The handlers *)

\* The project is read before the transaction begins
ReadProject(e, p) ==
    /\ edit[e] = NoEdit /\ edits < MaxEdits
    /\ edits' = edits + 1
    /\ edit' = [edit EXCEPT ![e] =
                  [stage |-> "read", project |-> p, listed |-> p \in Searchable,
                   kind |-> "change", unlists |-> FALSE]]
    /\ UNCHANGED <<status, withdrawn, failures, producer, log, consumer, index>>

\* The documents that show what an edit of this kind changes
Shows(kind) == IF kind = "change" THEN {"projects"} ELSE Aliases

Aged(ds, p) == [ds EXCEPT ![p] = IF @ = "fresh" THEN "stale" ELSE @]

\* The transaction; new is the status the edit asks for, or "keep"
CommitEdit(e, new, kind) ==
    /\ edit[e] # NoEdit /\ edit[e].stage = "read"
    /\ kind = "removal" <=> new = "deleted"
    /\ LET p == edit[e].project IN
       /\ status' = [status EXCEPT ![p] =
                       IF new = "keep" \/ @ = "deleted" THEN @ ELSE new]
       /\ withdrawn' = IF new \in {"unlisted", "deleted"} THEN withdrawn \cup {p}
                                                          ELSE withdrawn
       /\ docs' = [a \in Aliases |-> IF a \in Shows(kind)
                     THEN [c \in Collections |-> Aged(docs[a][c], p)] ELSE docs[a]]
       /\ built' = [a \in Aliases |-> IF a \in Shows(kind)
                      THEN Aged(built[a], p) ELSE built[a]]
    /\ edit' = [edit EXCEPT ![e].stage = "committed", ![e].kind = kind,
                            ![e].unlists = new = "unlisted"]
    /\ UNCHANGED <<edits, failures, producer, log, committed, position, step, work,
                   exists, live>>

\* PendingSearchIndexOperations::push_event, for operations of which no project
\* has both a removal and something else
Merge(q, ops) ==
    [k \in Kinds |-> IF k = "removal" THEN q[k] \cup ops[k]
                     ELSE (q[k] \ ops["removal"]) \cup (ops[k] \ q["removal"])]

One(kind, p) == [Empty EXCEPT ![kind] = {p}]

\* The caches have been cleared; a project that was listed when it was read and
\* is not any more is removed by a push of its own
PushEdit(e) ==
    /\ edit[e] # NoEdit /\ edit[e].stage = "committed"
    /\ queue' = Merge(queue, One(edit[e].kind, edit[e].project))
    /\ edit' = [edit EXCEPT ![e] = IF @.listed /\ @.unlists
                                   THEN [@ EXCEPT !.stage = "pushed"] ELSE NoEdit]
    /\ UNCHANGED <<status, edits, withdrawn, failures, draining, log, consumer, index>>

PushRemoval(e) ==
    /\ edit[e] # NoEdit /\ edit[e].stage = "pushed"
    /\ queue' = Merge(queue, One("removal", edit[e].project))
    /\ edit' = [edit EXCEPT ![e] = NoEdit]
    /\ UNCHANGED <<status, edits, withdrawn, failures, draining, log, consumer, index>>

\* clear_cache fails after the commit: the request fails, nothing is pushed
CacheFails(e) ==
    /\ edit[e] # NoEdit /\ edit[e].stage = "committed"
    /\ Fault("cache", {edit[e].project})
    /\ edit' = [edit EXCEPT ![e] = NoEdit]
    /\ UNCHANGED <<status, edits, withdrawn, producer, log, consumer, index>>

----------------------------------------------------------------------------
(* IncrementalSearchQueue::drain, every QUEUE_FLUSH_INTERVAL *)

TakeQueue ==
    /\ draining = Empty /\ queue # Empty
    /\ draining' = queue
    /\ queue' = Empty
    /\ UNCHANGED <<requests, failures, log, consumer, index>>

\* into_events: removals first, then changes, then changes of versions
Upcoming(kind) ==
    /\ kind # "removal" => draining["removal"] = {}
    /\ kind = "versions" => draining["change"] = {}

Send(kind, p) ==
    /\ p \in draining[kind] /\ Upcoming(kind)
    /\ log' = Append(log, [kind |-> kind, project |-> p])
    /\ draining' = [draining EXCEPT ![kind] = @ \ {p}]
    /\ UNCHANGED <<requests, failures, queue, consumer, index>>

\* mutant of SendFails: what has not been sent is forgotten
SendFailsForgets(kind, p, arrives) ==
    /\ Fault("send", {})
    /\ p \in draining[kind] /\ Upcoming(kind)
    /\ log' = IF arrives THEN Append(log, [kind |-> kind, project |-> p]) ELSE log
    /\ draining' = Empty
    /\ UNCHANGED <<requests, queue, consumer, index>>

\* What has not been sent is put back; the message may have arrived even so
SendFails(kind, p, arrives) ==
    /\ Fault("send", {})
    /\ p \in draining[kind] /\ Upcoming(kind)
    /\ log' = IF arrives THEN Append(log, [kind |-> kind, project |-> p]) ELSE log
    /\ queue' = Merge(queue, draining)
    /\ draining' = Empty
    /\ UNCHANGED <<requests, consumer, index>>

\* The projects of which operations have not been sent yet
Unsent ==
    {p \in Projects :
       \/ \E kind \in Kinds : p \in queue[kind] \cup draining[kind]
       \/ \E e \in Editors : /\ edit[e] # NoEdit /\ edit[e].stage # "read"
                             /\ edit[e].project = p}

\* The process of the API ends: its requests and its queue are gone
ApiCrash ==
    /\ Fault("api", Unsent)
    /\ edit' = [e \in Editors |-> NoEdit]
    /\ queue' = Empty /\ draining' = Empty
    /\ UNCHANGED <<status, edits, withdrawn, log, consumer, index>>

----------------------------------------------------------------------------
(* consume and consume_batch *)

Received(kind, n) ==
    {log[i].project : i \in {j \in position + 1 .. n : log[j].kind = kind}}

\* A batch is what has arrived in time; a removal wins over every other message
\* about its project, wherever it is in the batch
Receive(n) ==
    /\ step = "receive"
    /\ n > position /\ n <= Len(log) /\ n <= position + MaxBatch
    /\ position' = n
    /\ LET removal  == Received("removal", n)
           versions == Received("versions", n) \ removal IN
       work' = [removal  |-> removal,
                versions |-> versions,
                change   |-> (Received("change", n) \ removal) \ versions,
                edited   |-> Received("versions", n)]
    /\ step' = "buildVersions"
    /\ UNCHANGED <<requests, failures, producer, log, committed, built, index>>

\* mutant of Build: projects without documents are not removed
BuildOnly(ps, aliases, next) ==
    /\ built' = [a \in Aliases |-> [p \in Projects |->
                   IF a \in aliases /\ p \in ps \cap Searchable
                   THEN "fresh" ELSE built[a][p]]]
    /\ step' = next
    /\ UNCHANGED <<requests, failures, producer, log, committed, position, work, index>>

\* build_search_document_batch reads the database now; a project that is not
\* searchable yields no document and is removed (missing_project_document_ids)
Build(ps, aliases, next) ==
    /\ built' = [a \in Aliases |-> [p \in Projects |->
                   IF a \in aliases /\ p \in ps \cap Searchable
                   THEN "fresh" ELSE built[a][p]]]
    /\ work' = [work EXCEPT !.removal = @ \cup (ps \ Searchable)]
    /\ step' = next
    /\ UNCHANGED <<requests, failures, producer, log, committed, position, index>>

BuildVersions == step = "buildVersions" /\ Build(work.versions, Aliases, "buildChanges")

\* build_project_documents asks for no versions
BuildChanges == step = "buildChanges" /\ Build(work.change, {"projects"}, "removeVersions")

BuiltDocs(alias) == {p \in Projects : built[alias][p] # "none"}

\* The requests of apply_update, each about some documents of one alias: removals,
\* deletions of what is replaced, imports
InRequest == step \in {"removeVersions", "removeProjects", "clearVersions",
                       "clearProjects", "importProjects", "importVersions"}

\* mutant of AfterRequest: projects are imported before the old ones are deleted
AfterRequestImportsFirst ==
    IF step = "removeVersions" THEN "removeProjects"
    ELSE IF step = "removeProjects" THEN "clearVersions"
    ELSE IF step = "clearVersions" THEN "importProjects"
    ELSE IF step = "importProjects" THEN "clearProjects"
    ELSE IF step = "clearProjects" THEN "importVersions" ELSE "commit"

AfterRequest ==
    IF step = "removeVersions" THEN "removeProjects"
    ELSE IF step = "removeProjects" THEN "clearVersions"
    ELSE IF step = "clearVersions" THEN "clearProjects"
    ELSE IF step = "clearProjects" THEN "importProjects"
    ELSE IF step = "importProjects" THEN "importVersions" ELSE "commit"

Alias == IF step \in {"removeVersions", "clearVersions", "importVersions"}
         THEN "versions" ELSE "projects"

Ids == IF step \in {"removeVersions", "removeProjects"} THEN work.removal
       ELSE IF step = "clearVersions" THEN work.edited \cup BuiltDocs("versions")
       ELSE BuiltDocs(Alias)

New == IF step \in {"importProjects", "importVersions"} THEN built[Alias] ELSE NoDocs

Write(alias, cells, new) ==
    docs' = [docs EXCEPT ![alias] = [c \in Collections |-> [p \in Projects |->
               IF <<c, p>> \in cells THEN new[p] ELSE docs[alias][c][p]]]]

\* Every request goes to each of the collections that exist
Apply ==
    /\ InRequest
    /\ Write(Alias, exists[Alias] \X Ids, New)
    /\ step' = AfterRequest
    /\ UNCHANGED <<requests, failures, producer, log, committed, position, work, built,
                   exists, live>>

\* A request that is cut off has been carried out for some collections and projects
Partly(done) ==
    IF InRequest
    THEN done \subseteq exists[Alias] \X Ids /\ Write(Alias, done, New)
    ELSE done = {} /\ UNCHANGED docs

NextBatch ==
    /\ step' = "receive"
    /\ work' = NoWork
    /\ built' = NotBuilt

\* mutant of Commit: one offset too far
CommitNext ==
    /\ step = "commit"
    /\ committed' = position + 1
    /\ NextBatch
    /\ UNCHANGED <<requests, failures, producer, log, position, index>>

Commit ==
    /\ step = "commit"
    /\ committed' = position
    /\ NextBatch
    /\ UNCHANGED <<requests, failures, producer, log, position, index>>

\* A step fails, a request perhaps halfway; run logs it, sleeps and consumes with
\* the same consumer, which goes on after the messages it has received
BatchFails(done) ==
    /\ Fault("batch", work.removal \cup work.versions \cup work.change \cup work.edited)
    /\ step # "receive"
    /\ Partly(done)
    /\ NextBatch
    /\ UNCHANGED <<requests, producer, log, committed, position, exists, live>>

\* mutant of Restart: the new consumer goes on after the last message received
RestartGoesOn(done) ==
    /\ Fault("restart", {})
    /\ Partly(done)
    /\ NextBatch
    /\ UNCHANGED <<requests, producer, log, committed, position, exists, live>>

\* The process of the consumer ends, perhaps in the middle of a request, and
\* another goes on from the offset committed
Restart(done) ==
    /\ Fault("restart", {})
    /\ Partly(done)
    /\ position' = committed
    /\ NextBatch
    /\ UNCHANGED <<requests, producer, log, committed, exists, live>>

----------------------------------------------------------------------------

Commits ==
    \E e \in Editors, new \in {"keep", "listed", "unlisted", "deleted"}, kind \in Kinds :
       CommitEdit(e, new, kind)

Handlers ==
    \E e \in Editors :
       \/ \E p \in Projects : ReadProject(e, p)
       \/ PushEdit(e) \/ PushRemoval(e) \/ CacheFails(e)

Drain ==
    \/ TakeQueue
    \/ \E kind \in Kinds, p \in Projects :
          Send(kind, p) \/ \E arrives \in BOOLEAN : SendFails(kind, p, arrives)
    \/ ApiCrash

Consume ==
    \/ \E n \in position + 1 .. Len(log) : Receive(n)
    \/ BuildVersions \/ BuildChanges \/ Apply \/ Commit
    \/ \E done \in SUBSET (Collections \X Projects) : BatchFails(done) \/ Restart(done)

Next == Commits \/ Handlers \/ Drain \/ Consume

Spec == Init /\ [][Next]_vars

\* Requests run to their end, drain runs again and again, and so does consume
FairSpec ==
    /\ Spec
    /\ \A e \in Editors :
          /\ WF_vars(\E new \in {"keep", "listed", "unlisted", "deleted"}, kind \in Kinds :
                        CommitEdit(e, new, kind))
          /\ WF_vars(PushEdit(e)) /\ WF_vars(PushRemoval(e))
    /\ WF_vars(TakeQueue)
    /\ WF_vars(\E kind \in Kinds, p \in Projects : Send(kind, p))
    /\ WF_vars(\E n \in position + 1 .. Len(log) : Receive(n))
    /\ WF_vars(BuildVersions) /\ WF_vars(BuildChanges) /\ WF_vars(Apply) /\ WF_vars(Commit)

----------------------------------------------------------------------------
(* Properties *)

\* The variables have their types; in particular the consumer commits no offset
\* that it has not received.
TypeOK ==
    /\ status \in [Projects -> Statuses]
    /\ edit \in [Editors -> Edits \cup {NoEdit}]
    /\ edits \in 0 .. MaxEdits /\ faults \in 0 .. MaxFaults
    /\ queue \in [Kinds -> SUBSET Projects]
    /\ draining \in [Kinds -> SUBSET Projects]
    /\ log \in Seq(Ops)
    /\ committed \in 0 .. position /\ position \in 0 .. Len(log)
    /\ step \in {"receive", "buildVersions", "buildChanges", "removeVersions",
                "removeProjects", "clearVersions", "clearProjects", "importProjects",
                "importVersions", "commit"}
    /\ work \in [removal : SUBSET Projects, versions : SUBSET Projects,
                 change : SUBSET Projects, edited : SUBSET Projects]
    /\ built \in [Aliases -> [Projects -> Docs]]
    /\ docs \in [Aliases -> [Collections -> [Projects -> Docs]]]
    /\ exists \in [Aliases -> SUBSET Collections]
    /\ live \in [Aliases -> Collections]
    /\ withdrawn \subseteq Projects /\ lost \subseteq Projects

\* What a search sees of a project
Shown(alias, p) == docs[alias][live[alias]][p]

\* Nothing about the project is still on its way to the index
Settled(p) ==
    /\ \A e \in Editors : edit[e] # NoEdit /\ edit[e].project = p => edit[e].stage = "read"
    /\ \A kind \in Kinds : p \notin queue[kind] /\ p \notin draining[kind]
    /\ \A i \in committed + 1 .. Len(log) : log[i].project # p

\* Once everything about a project has been consumed, no document of it shows an
\* old state, whatever the order in which its edits were committed, pushed, sent,
\* batched, put back and received again, unless a failure has lost operations
\* about it.
SettledIsCurrent ==
    \A p \in Projects \ lost, a \in Aliases : Settled(p) => Shown(a, p) # "stale"

\* ... and a project that must not be found has no documents (the comment of
\* project_edit: "Remove no longer searchable projects from search index").
HiddenIsNotFound ==
    \A p \in Projects \ lost, a \in Aliases :
        Settled(p) /\ p \notin Searchable => Shown(a, p) = "none"

\* ... and a listed project is found, if it has never been unlisted: only a
\* removal that overtakes a later change can take a listed project out.
ListedIsFound ==
    \A p \in Projects \ lost :
        Settled(p) /\ p \in Searchable \ withdrawn => Shown("projects", p) = "fresh"

\* Once no more edits begin and no more failures happen, everything that was
\* pushed and not lost reaches the index: no operation waits for ever in the queue,
\* in drain or in the topic, also when a batch before it has failed.
EventuallySettled == \A p \in Projects : <>[](Settled(p) \/ p \in lost)
=============================================================================
