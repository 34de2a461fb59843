-------------------------- MODULE SearchRebuildProofs --------------------------
(***************************************************************************)
(* Proofs about SearchRebuild, for any projects, requests, failures and    *)
(* bounds: a search always finds a collection, a rebuild that ends without *)
(* a failure repairs what nothing has touched beside it, and no step of it *)
(* takes away a document that was current.                                 *)
(***************************************************************************)
EXTENDS SearchRebuild, SearchQueueProofs

Emptying == {"dropVersions", "dropProjects", "createProjects", "createVersions"}
Filling  == {"read", "importProjects", "importVersions"}
Swapping == {"swapProjects", "swapVersions", "dropOldVersions", "dropOldProjects"}

\* The aliases that point to the collections filled already
Swapped == IF rstep = "swapVersions" THEN {"projects"}
           ELSE IF rstep \in {"dropOldVersions", "dropOldProjects"} THEN Aliases ELSE {}

\* The aliases of which the collection to fill has been created
Created == IF rstep = "createVersions" THEN {"projects"}
           ELSE IF rstep \in Filling \cup Swapping THEN Aliases ELSE {}

\* The aliases of which the collection to fill has been emptied
Emptied == IF rstep = "dropProjects" THEN {"versions"}
           ELSE IF rstep \in {"idle", "dropVersions"} THEN {} ELSE Aliases

RTypeOK ==
    /\ rstep \in {"idle"} \cup Emptying \cup Filling \cup Swapping
    /\ target \in [Aliases -> Collections] /\ old \in [Aliases -> Collections]
    /\ rest \subseteq Projects /\ touched \subseteq Projects
    /\ chunk \in [Aliases -> [Projects -> Docs]]

\* While the task runs, the collection it fills is never the one that it empties for
\* good: an alias points to the old one, which exists, until it is pointed to the new
\* one, which has been created.
Placed ==
    /\ LiveExists
    /\ rstep # "idle" => \A a \in Aliases :
          /\ target[a] # old[a]
          /\ live[a] = IF a \in Swapped THEN target[a] ELSE old[a]
          /\ a \in Created => target[a] \in exists[a]

PInv == TypeOK /\ RTypeOK /\ Placed

LEMMA RebuildTypes ==
    ASSUME PInv, Rebuild
    PROVE  TypeOK' /\ RTypeOK'
<1> USE RebuildAssumption, SearchAssumption
<1> USE DEF PInv, RTypeOK, Emptying, Filling, Swapping
<1>1. CASE BeginRebuild
  BY <1>1 DEF BeginRebuild, Other, TypeOK, Collections, vars, requests, failures, producer,
              consumer, index
<1>2. ASSUME NEW a \in Aliases, NEW c \in Collections,
             NEW next \in {"dropProjects", "createProjects", "dropOldProjects", "idle"},
             Drop(a, c, next)
      PROVE  TypeOK' /\ RTypeOK'
  <2>1. /\ docs' \in [Aliases -> [Collections -> [Projects -> Docs]]]
        /\ exists' \in [Aliases -> SUBSET Collections]
    BY <1>2 DEF Drop, TypeOK, NoDocs, Docs
  <2> QED
    BY <1>2, <2>1 DEF Drop, TypeOK, requests, failures, producer, consumer
<1>3. ASSUME NEW a \in Aliases, NEW next \in {"createVersions", "read"}, Create(a, next)
      PROVE  TypeOK' /\ RTypeOK'
  <2>1. exists' \in [Aliases -> SUBSET Collections]
    BY <1>3 DEF Create, TypeOK
  <2> QED
    BY <1>3, <2>1 DEF Create, TypeOK, requests, failures, producer, consumer
<1>4. ASSUME NEW ids \in SUBSET Projects, ReadChunk(ids) PROVE TypeOK' /\ RTypeOK'
  BY <1>4 DEF ReadChunk, TypeOK, Docs, vars, requests, failures, producer, consumer, index
<1>5. ASSUME NEW a \in Aliases, NEW next \in {"importVersions", "read"}, ImportChunk(a, next)
      PROVE  TypeOK' /\ RTypeOK'
  <2>1. docs' \in [Aliases -> [Collections -> [Projects -> Docs]]]
    BY <1>5, WriteType DEF ImportChunk
  <2> QED
    BY <1>5, <2>1 DEF ImportChunk, TypeOK, requests, failures, producer, consumer
<1>6. CASE LastChunk
  BY <1>6 DEF LastChunk, TypeOK, vars, requests, failures, producer, consumer, index
<1>7. ASSUME NEW a \in Aliases, NEW next \in {"swapVersions", "dropOldVersions"},
             Point(a, next)
      PROVE  TypeOK' /\ RTypeOK'
  <2>1. live' \in [Aliases -> Collections]
    BY <1>7 DEF Point, TypeOK
  <2> QED
    BY <1>7, <2>1 DEF Point, TypeOK, requests, failures, producer, consumer
<1>8. CASE RebuildFails
  BY <1>8 DEF RebuildFails, Fault, TypeOK, requests, failures, producer, consumer, index
<1>9. "projects" \in Aliases /\ "versions" \in Aliases
  BY DEF Aliases
<1>10. EmptyTarget \/ Cleanup => TypeOK' /\ RTypeOK'
  BY <1>2, <1>3, <1>9 DEF EmptyTarget, Cleanup
<1> QED
  BY <1>1, <1>4, <1>5, <1>6, <1>7, <1>8, <1>9, <1>10 DEF Rebuild, Import, Swap

LEMMA BesideTypes ==
    ASSUME PInv, EditBeside \/ UpdateBeside
    PROVE  TypeOK' /\ RTypeOK'
<1>1. Next
  BY DEF EditBeside, UpdateBeside, Next, Commits
<1>2. TypeOK'
  BY <1>1, TypeKept DEF PInv
<1>3. RTypeOK'
  <2>1. CASE EditBeside
    <3>1. PICK e \in Editors, new \in {"keep", "listed", "unlisted", "deleted"},
               kind \in Kinds :
             /\ CommitEdit(e, new, kind)
             /\ chunk' = [a \in Aliases |-> IF a \in Shows(kind)
                            THEN Aged(chunk[a], edit[e].project) ELSE chunk[a]]
             /\ touched' = touched \cup {edit[e].project}
      BY <2>1 DEF EditBeside
    <3>2. edit[e].project \in Projects
      BY <3>1 DEF CommitEdit, PInv, TypeOK, Edits
    <3>3. chunk' \in [Aliases -> [Projects -> Docs]]
      BY <3>1 DEF PInv, RTypeOK, Aged, Docs
    <3> QED
      BY <2>1, <3>1, <3>2, <3>3 DEF EditBeside, PInv, RTypeOK
  <2>2. CASE UpdateBeside
    BY <2>2 DEF UpdateBeside, PInv, RTypeOK
  <2> QED
    BY <2>1, <2>2
<1> QED
  BY <1>2, <1>3

\* Nothing beside a rebuild creates, deletes or points to a collection
LEMMA BesidePlaces ==
    ASSUME EditBeside \/ UpdateBeside
    PROVE  /\ exists' = exists /\ live' = live
           /\ rstep' = rstep /\ target' = target /\ old' = old /\ rest' = rest
<1>1. CASE EditBeside
  BY <1>1 DEF EditBeside, CommitEdit
<1>2. CASE UpdateBeside
  BY <1>2, ZenonT(40) DEF UpdateBeside, Handlers, Drain, Consume, ReadProject, PushEdit, PushRemoval,
              CacheFails, TakeQueue, Send, SendFails, ApiCrash, Receive, BuildVersions,
              BuildChanges, Build, Apply, Commit, BatchFails, Restart, index
<1> QED
  BY <1>1, <1>2

LEMMA PlacedKept ==
    ASSUME PInv, [RNext]_rvars
    PROVE  Placed'
<1> USE DEF PInv, RTypeOK, TypeOK, Placed, LiveExists
<1>1. CASE BeginRebuild
  BY <1>1 DEF BeginRebuild, Other, Collections, vars, index, Swapped, Created, Filling,
              Swapping
<1>2. CASE EmptyTarget
  BY <1>2 DEF EmptyTarget, Drop, Create, Swapped, Created, Filling, Swapping, Aliases
<1>3. CASE Cleanup
  BY <1>3 DEF Cleanup, Drop, Swapped, Created, Filling, Swapping, Aliases
<1>4. CASE Swap
  BY <1>4 DEF Swap, Point, Swapped, Created, Filling, Swapping, Aliases
<1>5. ASSUME NEW ids \in SUBSET Projects, ReadChunk(ids) PROVE Placed'
  BY <1>5 DEF ReadChunk, vars, index, Swapped, Created, Filling, Swapping
<1>6. CASE Import \/ LastChunk
  BY <1>6 DEF Import, ImportChunk, LastChunk, vars, index, Swapped, Created, Filling,
              Swapping
<1>7. CASE RebuildFails
  BY <1>7 DEF RebuildFails, index
<1>8. CASE EditBeside \/ UpdateBeside
  BY <1>8, BesidePlaces DEF Swapped, Created
<1>9. CASE UNCHANGED rvars
  BY <1>9 DEF rvars, vars, task, index, Swapped, Created
<1> QED
  BY <1>1, <1>2, <1>3, <1>4, <1>5, <1>6, <1>7, <1>8, <1>9 DEF RNext, Rebuild

LEMMA PInvKept == PInv /\ [RNext]_rvars => PInv'
<1> SUFFICES ASSUME PInv, [RNext]_rvars PROVE PInv'
  OBVIOUS
<1>1. TypeOK' /\ RTypeOK'
  <2>1. CASE UNCHANGED rvars
    BY <2>1 DEF rvars, vars, task, PInv, TypeOK, RTypeOK, requests, failures, producer,
                consumer, index
  <2> QED
    BY <2>1, RebuildTypes, BesideTypes DEF RNext
<1> QED
  BY <1>1, PlacedKept DEF PInv

LEMMA PInvHolds == RSpec => []PInv
<1>1. RInit => PInv
  <2> SUFFICES ASSUME RInit PROVE PInv
    OBVIOUS
  <2>1. TypeOK
    BY TypeBegins DEF RInit
  <2> QED
    BY <2>1 DEF RInit, Init, PInv, RTypeOK, Placed, LiveExists, TypeOK, NotBuilt, NoDocs,
                Docs
<1> QED
  BY <1>1, PInvKept, PTL DEF RSpec

\* At every step of a rebuild, of one that fails and of those after it, each alias
\* points to a collection that exists.
THEOREM LiveAlwaysExists == RSpec => []LiveExists
<1>1. PInv => LiveExists
  BY DEF PInv, Placed
<1> QED
  BY <1>1, PInvHolds, PTL

----------------------------------------------------------------------------
(* What a rebuild writes *)

\* The document the database asks for, and the one in the collection being filled
Wanted(p) == IF p \in Searchable THEN "fresh" ELSE "none"
Filled(a, p) == docs[a][target[a]][p]

\* The chunk is still to be imported for this alias
ToImport(a) == rstep = "importProjects" \/ (rstep = "importVersions" /\ a = "versions")

\* Of a project that nothing has touched: the collection is emptied, then holds the
\* documents of what the cursor has passed, but those of the chunk at hand, and then all.
Right(a, p) ==
    /\ rstep = "idle" => Shown(a, p) = Wanted(p)
    /\ rstep \in Emptying /\ a \in Emptied => Filled(a, p) = "none"
    /\ rstep \in Filling =>
          /\ Filled(a, p) \in {"none", Wanted(p)}
          /\ ToImport(a) => chunk[a][p] \in {"none", Wanted(p)}
          /\ p \in Searchable \ rest =>
                Filled(a, p) = "fresh" \/ (ToImport(a) /\ chunk[a][p] = "fresh")
    /\ rstep \in Swapping => Filled(a, p) = Wanted(p)

Written ==
    /\ rstep \in Emptying => rest = Projects
    /\ \A p \in Projects \ touched, a \in Aliases : Right(a, p)

\* What is not touched does not change beside a rebuild
LEMMA BesideUntouched ==
    ASSUME PInv, EditBeside \/ UpdateBeside, NEW p \in Projects \ touched'
    PROVE  /\ p \in Projects \ touched
           /\ Wanted(p)' = Wanted(p) /\ (p \in Searchable' <=> p \in Searchable)
           /\ \A a \in Aliases, c \in Collections : docs'[a][c][p] = docs[a][c][p]
           /\ \A a \in Aliases : chunk'[a][p] = chunk[a][p]
<1>1. CASE EditBeside
  <2>1. PICK e \in Editors, new \in {"keep", "listed", "unlisted", "deleted"},
             kind \in Kinds :
           /\ CommitEdit(e, new, kind)
           /\ chunk' = [a \in Aliases |-> IF a \in Shows(kind)
                          THEN Aged(chunk[a], edit[e].project) ELSE chunk[a]]
           /\ touched' = touched \cup {edit[e].project}
    BY <1>1 DEF EditBeside
  <2>2. p # edit[e].project /\ p \in Projects \ touched
    BY <2>1
  <2>3. p \in Searchable' <=> p \in Searchable
    BY <2>1, <2>2 DEF CommitEdit, PInv, TypeOK, Searchable
  <2>4. \A a \in Aliases : chunk'[a][p] = chunk[a][p]
    BY <2>1, <2>2 DEF PInv, RTypeOK, Aged
  <2>5. \A a \in Aliases, c \in Collections : docs'[a][c][p] = docs[a][c][p]
    BY <2>1, <2>2 DEF CommitEdit, PInv, TypeOK, Aged
  <2> QED
    BY <2>2, <2>3, <2>4, <2>5 DEF Wanted
<1>2. CASE UpdateBeside
  <2>1. status' = status /\ chunk' = chunk
    BY <1>2 DEF UpdateBeside, Handlers, Drain, Consume, ReadProject, PushEdit, PushRemoval,
                CacheFails, TakeQueue, Send, SendFails, ApiCrash, Receive, BuildVersions,
                BuildChanges, Build, Apply, Commit, BatchFails, Restart, requests
  <2>2. p \in Projects \ touched /\ ~Differs(p)
    BY <1>2 DEF UpdateBeside
  <2> QED
    BY <2>1, <2>2 DEF Wanted, Searchable, Differs
<1> QED
  BY <1>1, <1>2

\* What a request of the rebuild does to the documents
LEMMA DropDocs ==
    ASSUME TypeOK, NEW a \in Aliases, NEW c \in Collections, NEW next, Drop(a, c, next),
           NEW b \in Aliases, NEW d \in Collections, NEW p \in Projects
    PROVE  docs'[b][d][p] = IF b = a /\ d = c THEN "none" ELSE docs[b][d][p]
  BY DEF Drop, TypeOK, NoDocs

LEMMA ImportDocs ==
    ASSUME TypeOK, RTypeOK, NEW a \in Aliases, NEW next, ImportChunk(a, next),
           NEW b \in Aliases, NEW d \in Collections, NEW p \in Projects
    PROVE  docs'[b][d][p] = IF b = a /\ d = target[a] /\ chunk[a][p] # "none"
                            THEN chunk[a][p] ELSE docs[b][d][p]
<1>1. PICK cells : cells = {target[a]} \X {q \in Projects : chunk[a][q] # "none"}
  OBVIOUS
<1>2. <<d, p>> \in cells <=> d = target[a] /\ chunk[a][p] # "none"
  BY <1>1
<1>3. Write(a, cells, chunk[a])
  BY <1>1 DEF ImportChunk
<1> QED
  BY <1>2, <1>3 DEF Write, TypeOK

LEMMA WrittenKept ==
    ASSUME PInv, Written, [RNext]_rvars
    PROVE  Written'
<1> USE DEF PInv
<1> SUFFICES /\ (rstep \in Emptying => rest = Projects)'
             /\ \A p \in Projects \ touched', a \in Aliases : Right(a, p)'
  BY DEF Written
<1> USE DEF Written, Right, ToImport, Emptying, Filling, Swapping, Filled, Shown
<1>1. CASE BeginRebuild
  BY <1>1 DEF BeginRebuild, Emptied
<1>2. CASE EmptyTarget
  <2>1. /\ status' = status /\ target' = target /\ rest' = rest /\ touched' = touched
        /\ live' = live /\ Searchable' = Searchable
    BY <1>2 DEF EmptyTarget, Drop, Create, requests, Searchable
  <2>2. rest = Projects /\ rstep \in Emptying
    BY <1>2 DEF EmptyTarget
  <2>3. ASSUME NEW p \in Projects \ touched', NEW a \in Aliases PROVE Right(a, p)'
    <3> DEFINE doc == docs[a][target[a]][p]
    <3>1. /\ rstep = "dropVersions" /\ rstep' = "dropProjects" /\ a = "versions"
             => docs'[a][target[a]][p] = "none"
          /\ rstep = "dropProjects" => rstep' = "createProjects"
             /\ docs'[a][target[a]][p] = IF a = "projects" THEN "none" ELSE doc
          /\ rstep = "createProjects" => rstep' = "createVersions"
             /\ docs'[a][target[a]][p] = doc
          /\ rstep = "createVersions" => rstep' = "read" /\ docs'[a][target[a]][p] = doc
          /\ rstep = "dropVersions" => rstep' = "dropProjects"
      <4>1. target[a] \in Collections /\ target["versions"] \in Collections
            /\ target["projects"] \in Collections /\ "versions" \in Aliases
            /\ "projects" \in Aliases
        BY DEF RTypeOK, Aliases
      <4> QED
        BY <1>2, <4>1, DropDocs DEF EmptyTarget, Drop, Create
    <3>2. a \in Emptied => doc = "none"
      BY <2>1, <2>2, <2>3
    <3> QED
      BY <2>1, <2>2, <3>1, <3>2 DEF Emptied, Aliases
  <2> QED
    BY <2>1, <2>2, <2>3
<1>3. ASSUME NEW ids \in SUBSET Projects, ReadChunk(ids)
      PROVE  \A p \in Projects \ touched', a \in Aliases : Right(a, p)'
  BY <1>3 DEF ReadChunk, vars, requests, index, Wanted, Searchable
<1>4. CASE Import
  <2>1. /\ Searchable' = Searchable /\ target' = target /\ rest' = rest
        /\ touched' = touched /\ chunk' = chunk /\ rstep \in Filling /\ rstep' \in Filling
    BY <1>4 DEF Import, ImportChunk, requests, Searchable
  <2>2. ASSUME NEW p \in Projects \ touched', NEW a \in Aliases PROVE Right(a, p)'
    <3>0. target[a] \in Collections /\ "versions" \in Aliases /\ "projects" \in Aliases
      BY DEF RTypeOK, Aliases
    <3>1. CASE rstep = "importProjects"
      <4>0. ImportChunk("projects", "importVersions") /\ rstep' = "importVersions"
        BY <1>4, <3>1 DEF Import, ImportChunk
      <4>1. docs'[a][target[a]][p] = IF a = "projects" /\ chunk[a][p] # "none"
                                     THEN chunk[a][p] ELSE docs[a][target[a]][p]
        <5>1. docs'[a][target[a]][p] =
                 IF a = "projects" /\ target[a] = target["projects"] /\ chunk["projects"][p] # "none"
                 THEN chunk["projects"][p] ELSE docs[a][target[a]][p]
          BY <2>2, <3>0, <4>0, ImportDocs
        <5> QED
          BY <5>1
      <4> QED
        BY <2>1, <2>2, <3>1, <4>0, <4>1 DEF Wanted, Aliases
    <3>2. CASE rstep = "importVersions"
      <4>0. ImportChunk("versions", "read") /\ rstep' = "read"
        BY <1>4, <3>2 DEF Import, ImportChunk
      <4>1. docs'[a][target[a]][p] = IF a = "versions" /\ chunk[a][p] # "none"
                                     THEN chunk[a][p] ELSE docs[a][target[a]][p]
        <5>1. docs'[a][target[a]][p] =
                 IF a = "versions" /\ target[a] = target["versions"] /\ chunk["versions"][p] # "none"
                 THEN chunk["versions"][p] ELSE docs[a][target[a]][p]
          BY <2>2, <3>0, <4>0, ImportDocs
        <5> QED
          BY <5>1
      <4> QED
        BY <2>1, <2>2, <3>2, <4>0, <4>1 DEF Wanted
    <3> QED
      BY <1>4, <3>1, <3>2 DEF Import
  <2> QED
    BY <2>1, <2>2
<1>5. CASE LastChunk
  BY <1>5 DEF LastChunk, vars, requests, index, Wanted, Searchable
<1>6. CASE Swap
  BY <1>6 DEF Swap, Point, requests, Wanted, Searchable
<1>7. CASE Cleanup
  <2>1. /\ Searchable' = Searchable /\ target' = target /\ touched' = touched
        /\ live' = live /\ rstep \in Swapping /\ rstep' \in {"dropOldProjects", "idle"}
    BY <1>7 DEF Cleanup, Drop, requests, Searchable
  <2>2. ASSUME NEW p \in Projects \ touched', NEW a \in Aliases PROVE Right(a, p)'
    <3>1. /\ target[a] \in Collections /\ old["versions"] \in Collections
          /\ old["projects"] \in Collections /\ "versions" \in Aliases
          /\ "projects" \in Aliases
          /\ target[a] # old[a] /\ live[a] = target[a]
      BY <1>7 DEF RTypeOK, Placed, Swapped, Aliases, Cleanup
    <3>2. docs'[a][target[a]][p] = docs[a][target[a]][p]
      BY <1>7, <3>1, DropDocs DEF Cleanup
    <3> QED
      BY <2>1, <2>2, <3>1, <3>2 DEF Wanted
  <2> QED
    BY <2>1, <2>2
<1>8. CASE RebuildFails
  BY <1>8 DEF RebuildFails
<1>9. CASE EditBeside \/ UpdateBeside
  <2>1. ASSUME NEW p \in Projects \ touched', NEW a \in Aliases PROVE Right(a, p)'
    <3>1. target[a] \in Collections /\ live[a] \in Collections
      BY DEF RTypeOK, TypeOK
    <3> QED
      BY <1>9, <2>1, <3>1, BesidePlaces, BesideUntouched DEF Emptied
  <2> QED
    BY <1>9, <2>1, BesidePlaces
<1>10. CASE UNCHANGED rvars
  BY <1>10 DEF rvars, vars, task, requests, index, Wanted, Searchable, Emptied
<1> QED
  BY <1>1, <1>2, <1>3, <1>4, <1>5, <1>6, <1>7, <1>8, <1>9, <1>10 DEF RNext, Rebuild,
     ReadChunk

LEMMA WrittenHolds == RSpec => []Written
<1>1. RInit => Written
  BY DEF RInit, Written, Emptying
<1> QED
  BY <1>1, WrittenKept, PInvHolds, PTL DEF RSpec

\* Whatever had been lost before it, a rebuild that ends shows of every project that
\* nothing has touched since it began what the database says.
THEOREM RebuildRepairs == RSpec => []RebuildHeals
<1>1. Written => RebuildHeals
  BY DEF Written, Right, RebuildHeals, Wanted
<1> QED
  BY <1>1, WrittenHolds, PTL

\* No step of a rebuild takes away the current document of a listed project that nothing
\* has touched since it began.
THEOREM SearchSeesNoRebuild == RSpec => RebuildIsUnseen
<1>1. ASSUME PInv, Written, Rebuild, NEW p \in Searchable \ touched, NEW a \in Aliases,
             Shown(a, p) = "fresh"
      PROVE  Shown(a, p)' = "fresh"
  <2> USE DEF PInv, Shown
  <2>0. /\ p \in Projects \ touched /\ live[a] \in Collections
        /\ target["versions"] \in Collections /\ target["projects"] \in Collections
        /\ old["versions"] \in Collections /\ old["projects"] \in Collections
        /\ "versions" \in Aliases /\ "projects" \in Aliases
    BY <1>1 DEF Searchable, TypeOK, RTypeOK, Aliases
  <2>1. CASE \/ BeginRebuild \/ LastChunk \/ RebuildFails
             \/ \E ids \in SUBSET Projects : ReadChunk(ids)
    BY <1>1, <2>1 DEF BeginRebuild, LastChunk, RebuildFails, ReadChunk, vars, index
  <2>2. CASE EmptyTarget
    <3>1. live' = live /\ live[a] # target[a]
      BY <1>1, <2>2 DEF EmptyTarget, Drop, Create, Placed, Swapped
    <3> QED
      BY <1>1, <2>0, <2>2, <3>1, DropDocs DEF EmptyTarget, Create
  <2>3. CASE Cleanup
    <3>1. live' = live /\ live[a] # old[a]
      BY <1>1, <2>3 DEF Cleanup, Drop, Placed, Swapped
    <3> QED
      BY <1>1, <2>0, <2>3, <3>1, DropDocs DEF Cleanup
  <2>4. CASE Import
    <3>1. live' = live /\ live[a] # target[a]
      BY <1>1, <2>4 DEF Import, ImportChunk, Placed, Swapped
    <3> QED
      BY <1>1, <2>0, <2>4, <3>1, ImportDocs DEF Import
  <2>5. CASE Swap
    <3>1. /\ docs' = docs /\ live'[a] \in {live[a], target[a]}
          /\ docs[a][target[a]][p] = "fresh"
      BY <1>1, <2>0, <2>5 DEF Swap, Point, TypeOK, Written, Right, Swapping, Filled, Wanted
    <3> QED
      BY <1>1, <3>1
  <2> QED
    BY <1>1, <2>1, <2>2, <2>3, <2>4, <2>5 DEF Rebuild
<1>2. PInv /\ Written /\ [RNext]_rvars =>
        [Rebuild => \A p \in Searchable \ touched, a \in Aliases :
            Shown(a, p) = "fresh" => Shown(a, p)' = "fresh"]_rvars
  BY <1>1
<1> QED
  BY <1>2, PInvHolds, WrittenHolds, PTL DEF RSpec, RebuildIsUnseen
=============================================================================
