---------------------------- MODULE SearchRebuild ----------------------------
(***************************************************************************)
(* The full rebuild of the search index (rebuild_index of                  *)
(* apps/labrinth/src/search/backend/typesense/mod.rs, run by the task      *)
(* index-search) beside incremental indexing: it fills the collections     *)
(* that are not live, chunk by chunk, while apply_update writes to every   *)
(* collection that exists, then points the aliases to them and deletes the *)
(* old ones.  Like the consumer it reads ro_pool, which is taken not to    *)
(* lag behind what is committed.                                           *)
(***************************************************************************)
EXTENDS SearchQueue

CONSTANTS MaxRebuilds  \* bound: how many rebuilds begin

ASSUME RebuildAssumption == MaxRebuilds \in Nat

VARIABLES
    rstep,    \* what the rebuild does next
    target,   \* the collections it fills
    old,      \* the collections the aliases pointed to when it began
    rest,     \* the projects after its cursor
    chunk,    \* the documents of the chunk it has read
    rebuilds, \* rebuilds begun so far
    touched   \* history: the projects changed since the last rebuild began; all of
              \* them when it has failed

task  == <<rstep, target, old, rest, chunk, rebuilds, touched>>
rvars == <<vars, task>>

RInit ==
    /\ Init
    /\ rstep = "idle" /\ rebuilds = 0
    /\ target = live /\ old = live
    /\ rest = {} /\ chunk = NotBuilt
    /\ touched = Projects

Other(c) == IF c = "alt" THEN "current" ELSE "alt"

\* mutant of BeginRebuild: in place
BeginRebuildInPlace ==
    /\ rstep = "idle" /\ rebuilds < MaxRebuilds
    /\ rebuilds' = rebuilds + 1
    /\ old' = live /\ target' = live
    /\ rest' = Projects /\ touched' = {}
    /\ rstep' = "dropVersions"
    /\ UNCHANGED <<vars, chunk>>

BeginRebuild ==
    /\ rstep = "idle" /\ rebuilds < MaxRebuilds
    /\ rebuilds' = rebuilds + 1
    /\ old' = live
    /\ target' = [a \in Aliases |-> Other(live[a])]
    /\ rest' = Projects
    /\ touched' = {}
    /\ rstep' = "dropVersions"
    /\ UNCHANGED <<vars, chunk>>

\* delete_collection_if_exists
Drop(alias, c, next) ==
    /\ exists' = [exists EXCEPT ![alias] = @ \ {c}]
    /\ docs' = [docs EXCEPT ![alias][c] = NoDocs]
    /\ rstep' = next
    /\ UNCHANGED <<live, requests, failures, producer, log, consumer, target, old, rest,
                   chunk, rebuilds, touched>>

\* create_collection
Create(alias, next) ==
    /\ exists' = [exists EXCEPT ![alias] = @ \cup {target[alias]}]
    /\ rstep' = next
    /\ UNCHANGED <<docs, live, requests, failures, producer, log, consumer, target, old,
                   rest, chunk, rebuilds, touched>>

EmptyTarget ==
    \/ rstep = "dropVersions" /\ Drop("versions", target["versions"], "dropProjects")
    \/ rstep = "dropProjects" /\ Drop("projects", target["projects"], "createProjects")
    \/ rstep = "createProjects" /\ Create("projects", "createVersions")
    \/ rstep = "createVersions" /\ Create("versions", "read")

\* index_local: the searchable projects of the next ids; the cursor moves past them
ReadChunk(ids) ==
    /\ rstep = "read"
    /\ ids \subseteq rest /\ ids \cap Searchable # {}
    /\ chunk' = [a \in Aliases |-> [p \in Projects |->
                   IF p \in ids \cap Searchable THEN "fresh" ELSE "none"]]
    /\ rest' = rest \ ids
    /\ rstep' = "importProjects"
    /\ UNCHANGED <<vars, target, old, rebuilds, touched>>

ImportChunk(alias, next) ==
    /\ Write(alias, {target[alias]} \X {p \in Projects : chunk[alias][p] # "none"},
             chunk[alias])
    /\ rstep' = next
    /\ UNCHANGED <<exists, live, requests, failures, producer, log, consumer, target, old,
                   rest, chunk, rebuilds, touched>>

Import ==
    \/ rstep = "importProjects" /\ ImportChunk("projects", "importVersions")
    \/ rstep = "importVersions" /\ ImportChunk("versions", "read")

\* mutant of LastChunk: any chunk may be taken for the last one
LastChunkEarly ==
    /\ rstep = "read"
    /\ rstep' = "swapProjects"
    /\ UNCHANGED <<vars, target, old, rest, chunk, rebuilds, touched>>

\* index_local finds nothing after the cursor
LastChunk ==
    /\ rstep = "read" /\ rest \cap Searchable = {}
    /\ rstep' = "swapProjects"
    /\ UNCHANGED <<vars, target, old, rest, chunk, rebuilds, touched>>

\* upsert_alias
Point(alias, next) ==
    /\ live' = [live EXCEPT ![alias] = target[alias]]
    /\ rstep' = next
    /\ UNCHANGED <<docs, exists, requests, failures, producer, log, consumer, target, old,
                   rest, chunk, rebuilds, touched>>

Swap ==
    \/ rstep = "swapProjects" /\ Point("projects", "swapVersions")
    \/ rstep = "swapVersions" /\ Point("versions", "dropOldVersions")

\* mutant of Cleanup: the collection of the projects just filled is dropped
CleanupTarget ==
    \/ rstep = "dropOldVersions" /\ Drop("versions", old["versions"], "dropOldProjects")
    \/ rstep = "dropOldProjects" /\ Drop("projects", target["projects"], "idle")

Cleanup ==
    \/ rstep = "dropOldVersions" /\ Drop("versions", old["versions"], "dropOldProjects")
    \/ rstep = "dropOldProjects" /\ Drop("projects", old["projects"], "idle")

\* A request fails, or the process ends: what has been done stays
RebuildFails ==
    /\ Fault("batch", {})
    /\ rstep # "idle"
    /\ rstep' = "idle"
    /\ touched' = Projects
    /\ UNCHANGED <<requests, producer, log, consumer, index, target, old, rest, chunk,
                   rebuilds>>

Rebuild ==
    \/ BeginRebuild \/ EmptyTarget
    \/ \E ids \in SUBSET Projects : ReadChunk(ids)
    \/ Import \/ LastChunk \/ Swap \/ Cleanup \/ RebuildFails

----------------------------------------------------------------------------
(* Beside it, everything of SearchQueue *)

Differs(p) == \E a \in Aliases, c \in Collections : docs'[a][c][p] # docs[a][c][p]

EditBeside ==
    /\ \E e \in Editors, new \in {"keep", "listed", "unlisted", "deleted"}, kind \in Kinds :
          /\ CommitEdit(e, new, kind)
          /\ chunk' = [a \in Aliases |-> IF a \in Shows(kind)
                         THEN Aged(chunk[a], edit[e].project) ELSE chunk[a]]
          /\ touched' = touched \cup {edit[e].project}
    /\ UNCHANGED <<rstep, target, old, rest, rebuilds>>

UpdateBeside ==
    /\ Handlers \/ Drain \/ Consume
    /\ touched' = touched \cup {p \in Projects : Differs(p)}
    /\ UNCHANGED <<rstep, target, old, rest, chunk, rebuilds>>

RNext == Rebuild \/ EditBeside \/ UpdateBeside

RSpec == RInit /\ [][RNext]_rvars

----------------------------------------------------------------------------
(* Properties *)

\* A search always finds a collection behind each alias, at every step of a
\* rebuild, and after one that failed at any of them, between the two swaps too.
LiveExists == \A a \in Aliases : live[a] \in exists[a]

\* A rebuild repairs everything: whatever operations had been lost before it
\* (failed batches, a crash of the API, a cache that refused), the documents of a
\* project that nothing has touched since it began say what the database says.
RebuildHeals ==
    rstep = "idle" =>
       \A p \in Projects \ touched, a \in Aliases :
          Shown(a, p) = IF p \in Searchable THEN "fresh" ELSE "none"

\* A search does not notice a rebuild: no step of it takes away the current
\* document of a listed project that nothing has touched since it began.
RebuildIsUnseen ==
    [][Rebuild => \A p \in Searchable \ touched, a \in Aliases :
          Shown(a, p) = "fresh" => Shown(a, p)' = "fresh"]_rvars
=============================================================================
