-------------------------- MODULE SearchQueueProofs --------------------------
(***************************************************************************)
(* Proofs about SearchQueue, for any projects, requests, failures and      *)
(* bounds: its type invariant, and that a project about which nothing is   *)
(* on its way any more and nothing was lost is shown as the database has   *)
(* it, not at all if it is hidden, and for certain if it is listed.        *)
(***************************************************************************)
EXTENDS SearchQueue, TLAPS

LEMMA OneType ==
    ASSUME NEW kind \in Kinds, NEW p \in Projects
    PROVE  One(kind, p) \in [Kinds -> SUBSET Projects]
  BY DEF One, Empty

LEMMA MergeType ==
    ASSUME NEW q \in [Kinds -> SUBSET Projects], NEW ops \in [Kinds -> SUBSET Projects]
    PROVE  Merge(q, ops) \in [Kinds -> SUBSET Projects]
  BY DEF Merge, Kinds

LEMMA WriteType ==
    ASSUME TypeOK, NEW alias \in Aliases, NEW cells, NEW new \in [Projects -> Docs],
           Write(alias, cells, new)
    PROVE  docs' \in [Aliases -> [Collections -> [Projects -> Docs]]]
  BY DEF Write, TypeOK

LEMMA NewType ==
    ASSUME TypeOK
    PROVE  Alias \in Aliases /\ New \in [Projects -> Docs] /\ Ids \subseteq Projects
  BY DEF TypeOK, Alias, New, Ids, BuiltDocs, Aliases, Docs, NoDocs

LEMMA PartlyType ==
    ASSUME TypeOK, NEW done, Partly(done)
    PROVE  docs' \in [Aliases -> [Collections -> [Projects -> Docs]]]
  BY NewType, WriteType DEF Partly, TypeOK

\* Every step keeps the types; a rebuild beside these steps needs this of them.
LEMMA TypeKept == TypeOK /\ [Next]_vars => TypeOK'
<1> USE SearchAssumption DEF failures
<1> SUFFICES ASSUME TypeOK, [Next]_vars PROVE TypeOK'
  OBVIOUS
<1>1. ASSUME NEW e \in Editors, NEW new \in {"keep", "listed", "unlisted", "deleted"},
             NEW kind \in Kinds, CommitEdit(e, new, kind)
      PROVE  TypeOK'
  <2>1. edit[e] \in Edits /\ edit[e].project \in Projects
    BY <1>1 DEF CommitEdit, TypeOK, Edits
  <2>2. status' \in [Projects -> Statuses] /\ withdrawn' \subseteq Projects
    BY <1>1, <2>1 DEF CommitEdit, TypeOK, Statuses
  <2>3. edit' \in [Editors -> Edits \cup {NoEdit}]
    BY <1>1, <2>1 DEF CommitEdit, TypeOK, Edits
  <2>4. docs' \in [Aliases -> [Collections -> [Projects -> Docs]]]
    BY <1>1, <2>1 DEF CommitEdit, TypeOK, Aged, Docs
  <2>5. built' \in [Aliases -> [Projects -> Docs]]
    BY <1>1, <2>1 DEF CommitEdit, TypeOK, Aged, Docs
  <2> QED
    BY <1>1, <2>2, <2>3, <2>4, <2>5 DEF CommitEdit, TypeOK, producer
<1>2. CASE Handlers
  <2>1. ASSUME NEW e \in Editors, NEW p \in Projects, ReadProject(e, p) PROVE TypeOK'
    BY <2>1 DEF ReadProject, TypeOK, Edits, Kinds, Searchable, producer, consumer, index
  <2>2. ASSUME NEW e \in Editors, PushEdit(e) PROVE TypeOK'
    <3>1. edit[e] \in Edits
      BY <2>2 DEF PushEdit, TypeOK
    <3>2. queue' \in [Kinds -> SUBSET Projects]
      BY <2>2, <3>1, OneType, MergeType DEF PushEdit, TypeOK, Edits
    <3>3. edit' \in [Editors -> Edits \cup {NoEdit}]
      BY <2>2, <3>1 DEF PushEdit, TypeOK, Edits
    <3> QED
      BY <2>2, <3>2, <3>3 DEF PushEdit, TypeOK, consumer, index
  <2>3. ASSUME NEW e \in Editors, PushRemoval(e) PROVE TypeOK'
    <3>1. edit[e] \in Edits /\ "removal" \in Kinds
      BY <2>3 DEF PushRemoval, TypeOK, Kinds
    <3>2. queue' \in [Kinds -> SUBSET Projects]
      BY <2>3, <3>1, OneType, MergeType DEF PushRemoval, TypeOK, Edits
    <3> QED
      BY <2>3, <3>2 DEF PushRemoval, TypeOK, consumer, index
  <2>4. ASSUME NEW e \in Editors, CacheFails(e) PROVE TypeOK'
    <3>1. edit[e].project \in Projects
      BY <2>4 DEF CacheFails, TypeOK, Edits
    <3> QED
      BY <2>4, <3>1 DEF CacheFails, Fault, TypeOK, producer, consumer, index
  <2> QED
    BY <1>2, <2>1, <2>2, <2>3, <2>4 DEF Handlers
<1>3. CASE Drain
  <2>1. CASE TakeQueue
    BY <2>1 DEF TakeQueue, TypeOK, Empty, requests, consumer, index
  <2>2. ASSUME NEW kind \in Kinds, NEW p \in Projects, Send(kind, p) PROVE TypeOK'
    <3>1. log' \in Seq(Ops) /\ Len(log') = Len(log) + 1
      BY <2>2 DEF Send, TypeOK, Ops
    <3> QED
      BY <2>2, <3>1 DEF Send, TypeOK, requests, consumer, index
  <2>3. ASSUME NEW kind \in Kinds, NEW p \in Projects, NEW arrives \in BOOLEAN,
               SendFails(kind, p, arrives)
        PROVE  TypeOK'
    <3>1. log' \in Seq(Ops) /\ Len(log') \in {Len(log), Len(log) + 1}
      <4>1. Append(log, [kind |-> kind, project |-> p]) \in Seq(Ops)
            /\ Len(Append(log, [kind |-> kind, project |-> p])) = Len(log) + 1
        BY DEF TypeOK, Ops
      <4> QED
        BY <2>3, <4>1 DEF SendFails, TypeOK
    <3>2. queue' \in [Kinds -> SUBSET Projects]
      BY <2>3, MergeType DEF SendFails, TypeOK
    <3> QED
      BY <2>3, <3>1, <3>2 DEF SendFails, Fault, TypeOK, Empty, requests, consumer, index
  <2>4. CASE ApiCrash
    BY <2>4 DEF ApiCrash, Fault, Unsent, TypeOK, Empty, consumer, index
  <2> QED
    BY <1>3, <2>1, <2>2, <2>3, <2>4 DEF Drain
<1>4. CASE Consume
  <2>1. ASSUME NEW n \in position + 1 .. Len(log), Receive(n) PROVE TypeOK'
    <3>1. ASSUME NEW j \in position + 1 .. n PROVE log[j].project \in Projects
      <4>1. log \in Seq(Ops) /\ position \in Nat /\ Len(log) \in Nat
        BY DEF TypeOK
      <4>2. j \in 1 .. Len(log)
        BY <4>1
      <4>3. log[j] \in Ops
        BY <4>1, <4>2
      <4> QED
        BY <4>3 DEF Ops
    <3>2. \A kind : Received(kind, n) \subseteq Projects
      BY <3>1 DEF Received
    <3> QED
      BY <2>1, <3>2 DEF Receive, TypeOK, requests, producer, index
  <2>2. ASSUME NEW ps \in SUBSET Projects, NEW aliases,
               NEW next \in {"buildChanges", "removeVersions"}, Build(ps, aliases, next)
        PROVE  TypeOK'
    BY <2>2 DEF Build, TypeOK, Docs, Searchable, requests, producer, index
  <2>3. CASE BuildVersions
    BY <2>2, <2>3 DEF BuildVersions, TypeOK
  <2>4. CASE BuildChanges
    BY <2>2, <2>4 DEF BuildChanges, TypeOK
  <2>5. CASE Apply
    <3>1. docs' \in [Aliases -> [Collections -> [Projects -> Docs]]]
      BY <2>5, NewType, WriteType DEF Apply
    <3>2. AfterRequest \in {"removeProjects", "clearVersions", "clearProjects",
                            "importProjects", "importVersions", "commit"}
      BY <2>5 DEF Apply, InRequest, AfterRequest
    <3> QED
      BY <2>5, <3>1, <3>2 DEF Apply, TypeOK, requests, producer
  <2>6. CASE Commit
    BY <2>6 DEF Commit, NextBatch, TypeOK, NoWork, NotBuilt, NoDocs, Docs, requests,
                producer, index
  <2>7. ASSUME NEW done, BatchFails(done) PROVE TypeOK'
    <3>1. docs' \in [Aliases -> [Collections -> [Projects -> Docs]]]
      BY <2>7, PartlyType DEF BatchFails
    <3> QED
      BY <2>7, <3>1 DEF BatchFails, NextBatch, Fault, TypeOK, NoWork, NotBuilt, NoDocs,
                        Docs, requests, producer
  <2>8. ASSUME NEW done, Restart(done) PROVE TypeOK'
    <3>1. docs' \in [Aliases -> [Collections -> [Projects -> Docs]]]
      BY <2>8, PartlyType DEF Restart
    <3> QED
      BY <2>8, <3>1 DEF Restart, NextBatch, Fault, TypeOK, NoWork, NotBuilt, NoDocs,
                        Docs, requests, producer
  <2> QED
    BY <1>4, <2>1, <2>3, <2>4, <2>5, <2>6, <2>7, <2>8 DEF Consume
<1>5. CASE UNCHANGED vars
  BY <1>5 DEF vars, TypeOK, requests, producer, consumer, index
<1> QED
  BY <1>1, <1>2, <1>3, <1>4, <1>5 DEF Next, Commits

LEMMA TypeBegins == Init => TypeOK
  BY SearchAssumption DEF Init, TypeOK, failures, Empty, NoWork, NotBuilt, NoDocs, Statuses,
     Docs, Aliases, Collections, Kinds

\* Every variable keeps its type, whatever fails.
THEOREM TypeCorrect == Spec => []TypeOK
  BY TypeBegins, TypeKept, PTL DEF Spec
----------------------------------------------------------------------------
(* The inductive invariant *)

\* The kinds of operation after which a document of this alias is right
Repairs(a) == IF a = "projects" THEN Kinds ELSE {"versions", "removal"}

\* An operation of these kinds has not been sent yet, or is in the topic after
\* this offset
Queued(p, ks) ==
    \/ \E e \in Editors : /\ edit[e] # NoEdit /\ edit[e].stage = "committed"
                          /\ edit[e].project = p /\ edit[e].kind \in ks
    \/ \E k \in ks : p \in queue[k] \/ p \in draining[k]

InLog(p, ks, from) ==
    \E i \in from + 1 .. Len(log) : log[i].project = p /\ log[i].kind \in ks

Coming(p, ks, from) == Queued(p, ks) \/ InLog(p, ks, from)

\* If a document is in this state, what would repair it is still to come
Mended(a, p, doc, from) ==
    /\ doc = "stale" => Coming(p, Repairs(a), from)
    /\ doc # "none" /\ p \notin Searchable => Coming(p, Kinds, from)

\* The rest of the batch replaces the document, by nothing or by what was built
Replaces(a, p) ==
    \/ step \in {"buildVersions", "buildChanges", "removeVersions"} /\ p \in work.removal
    \/ step = "removeProjects" /\ a = "projects" /\ p \in work.removal
    \/ /\ step \in {"buildVersions", "buildChanges", "removeVersions", "removeProjects",
                    "clearVersions"}
       /\ a = "versions" /\ p \in work.edited
    \/ step = "buildVersions" /\ p \in work.versions
    \/ step \in {"buildVersions", "buildChanges"} /\ a = "projects" /\ p \in work.change
    \/ /\ InRequest \/ step = "buildChanges"
       /\ ~(step = "importVersions" /\ a = "projects")
       /\ built[a][p] # "none"

\* The batch is about to find that a hidden project has no documents
Finds(p) ==
    \/ step = "buildVersions" /\ p \in work.versions \cup work.change
    \/ step = "buildChanges" /\ p \in work.change

Kept(a, p) == docs[a]["current"][p]

Inv ==
    /\ live = [a \in Aliases |-> "current"]
    /\ exists = [a \in Aliases |-> {"current"}]
    /\ step \in {"receive", "buildVersions"} => built = NotBuilt
    /\ \A p \in Projects, a \in Aliases :
          built[a][p] # "none" => p \in work.versions \cup work.change
    /\ \A p \in Projects \ lost, a \in Aliases :
          /\ Mended(a, p, Kept(a, p), committed)
          /\ Mended(a, p, built[a][p], position)
          /\ Kept(a, p) = "stale" /\ ~Replaces(a, p) => Coming(p, Repairs(a), position)
          /\ Kept(a, p) # "none" /\ p \notin Searchable /\ ~Replaces(a, p) /\ ~Finds(p)
                => Coming(p, Kinds, position)

LEMMA ComingFromCommitted ==
    ASSUME TypeOK, NEW p, NEW ks, Coming(p, ks, position)
    PROVE  Coming(p, ks, committed)
<1>1. committed \in Nat /\ position \in Nat /\ committed <= position /\ Len(log) \in Nat
  BY DEF TypeOK
<1>2. position + 1 .. Len(log) \subseteq committed + 1 .. Len(log)
  BY <1>1
<1> QED
  BY <1>2 DEF Coming, InLog

\* A push loses neither what is in the queue nor what it adds, unless a removal is there
LEMMA MergeKeeps ==
    ASSUME NEW q \in [Kinds -> SUBSET Projects], NEW ops \in [Kinds -> SUBSET Projects],
           NEW ks \in SUBSET Kinds, "removal" \in ks, NEW p \in Projects,
           NEW k \in ks, p \in q[k] \/ p \in ops[k]
    PROVE  \E l \in ks : p \in Merge(q, ops)[l]
<1>1. CASE p \in q["removal"] \cup ops["removal"]
  BY <1>1 DEF Merge, Kinds
<1>2. CASE p \notin q["removal"] \cup ops["removal"]
  BY <1>2 DEF Merge, Kinds
<1> QED
  BY <1>1, <1>2

\* What a message appended to the topic leaves there
LEMMA AppendKeeps ==
    ASSUME TypeOK, NEW m \in Ops, log' = Append(log, m)
    PROVE  /\ Len(log) \in Nat /\ Len(log') = Len(log) + 1 /\ log'[Len(log) + 1] = m
           /\ \A i \in 1 .. Len(log) : log'[i] = log[i]
<1>1. log \in Seq(Ops)
  BY DEF TypeOK
<1> QED
  BY <1>1

\* No step of the handlers or of drain loses an operation unawares
LEMMA ProducerKeeps ==
    ASSUME SearchAssumption, TypeOK, Handlers \/ Drain,
           NEW p \in Projects, p \notin lost', NEW ks \in SUBSET Kinds, "removal" \in ks
    PROVE  /\ Coming(p, ks, position) => Coming(p, ks, position)'
           /\ Coming(p, ks, committed) => Coming(p, ks, committed)'
<1> USE SearchAssumption
<1> DEFINE OpIn(f, i) == f[i].project = p /\ f[i].kind \in ks
           After(from) == \/ Queued(p, ks)'
                          \/ \E i \in from + 1 .. Len(log') : OpIn(log', i)
<1>1. ASSUME NEW e \in Editors, NEW q \in Projects, ReadProject(e, q)
      PROVE  log' = log /\ (Queued(p, ks) => Queued(p, ks)')
  BY <1>1 DEF ReadProject, producer, TypeOK, Edits, Queued
<1>2. ASSUME NEW e \in Editors, PushEdit(e)
      PROVE  log' = log /\ (Queued(p, ks) => Queued(p, ks)')
  <2>1. edit[e] \in Edits
    BY <1>2 DEF PushEdit, TypeOK
  <2>2. One(edit[e].kind, edit[e].project) \in [Kinds -> SUBSET Projects]
    BY <2>1, OneType DEF Edits
  <2>3. \A k \in ks : p \in queue[k] => \E l \in ks : p \in queue'[l]
    BY <1>2, <2>2, MergeKeeps DEF PushEdit, TypeOK
  <2>4. ASSUME edit[e].project = p, edit[e].kind \in ks PROVE \E l \in ks : p \in queue'[l]
    <3>1. p \in One(edit[e].kind, edit[e].project)[edit[e].kind]
      BY <2>1, <2>4 DEF One, Empty, Edits
    <3> QED
      BY <1>2, <2>2, <2>4, <3>1, MergeKeeps DEF PushEdit, TypeOK
  <2>5. \A f \in Editors : f # e => edit'[f] = edit[f]
    BY <1>2 DEF PushEdit, TypeOK
  <2>6. draining' = draining /\ log' = log
    BY <1>2 DEF PushEdit
  <2> QED
    BY <2>3, <2>4, <2>5, <2>6 DEF Queued
<1>3. ASSUME NEW e \in Editors, PushRemoval(e)
      PROVE  log' = log /\ (Queued(p, ks) => Queued(p, ks)')
  <2>1. edit[e] \in Edits /\ edit[e].stage = "pushed" /\ "removal" \in Kinds
    BY <1>3 DEF PushRemoval, TypeOK, Kinds
  <2>2. One("removal", edit[e].project) \in [Kinds -> SUBSET Projects]
    BY <2>1, OneType DEF Edits
  <2>3. \A k \in ks : p \in queue[k] => \E l \in ks : p \in queue'[l]
    BY <1>3, <2>2, MergeKeeps DEF PushRemoval, TypeOK
  <2>4. \A f \in Editors : f # e => edit'[f] = edit[f]
    BY <1>3 DEF PushRemoval, TypeOK
  <2>5. draining' = draining /\ log' = log
    BY <1>3 DEF PushRemoval
  <2> QED
    BY <2>1, <2>3, <2>4, <2>5 DEF Queued
<1>4. ASSUME TakeQueue PROVE log' = log /\ (Queued(p, ks) => Queued(p, ks)')
  <2>1. edit' = edit /\ log' = log /\ draining' = queue
    BY <1>4 DEF TakeQueue, requests
  <2>2. \A k \in ks : p \notin draining[k]
    BY <1>4 DEF TakeQueue, Empty
  <2> QED
    BY <2>1, <2>2 DEF Queued
<1>5. ASSUME NEW kind \in Kinds, NEW q \in Projects, Send(kind, q),
             NEW from \in 0 .. Len(log), Queued(p, ks) \/ InLog(p, ks, from)
      PROVE  After(from)
  <2>1. edit' = edit /\ queue' = queue
    BY <1>5 DEF Send, requests
  <2>2. [kind |-> kind, project |-> q] \in Ops
    BY DEF Ops
  <2>3. /\ Len(log) \in Nat /\ Len(log') = Len(log) + 1
        /\ log'[Len(log) + 1] = [kind |-> kind, project |-> q]
        /\ \A i \in 1 .. Len(log) : log'[i] = log[i]
    BY <1>5, <2>2, AppendKeeps DEF Send
  <2>4. CASE InLog(p, ks, from)
    BY <2>3, <2>4 DEF InLog
  <2>5. CASE p = q /\ kind \in ks
    <3>1. OpIn(log', Len(log) + 1) /\ Len(log) + 1 \in from + 1 .. Len(log')
      BY <2>3, <2>5
    <3> QED
      BY <3>1
  <2>6. CASE Queued(p, ks) /\ ~(p = q /\ kind \in ks)
    <3>1. \A k \in ks : p \in draining[k] => p \in draining'[k]
      BY <1>5, <2>6 DEF Send, TypeOK
    <3>2. Queued(p, ks)'
      BY <2>1, <2>6, <3>1 DEF Queued
    <3> QED
      BY <3>2
  <2> QED
    BY <1>5, <2>4, <2>5, <2>6
<1>6. ASSUME NEW kind \in Kinds, NEW q \in Projects, NEW arrives \in BOOLEAN,
             SendFails(kind, q, arrives),
             NEW from \in 0 .. Len(log), Queued(p, ks) \/ InLog(p, ks, from)
      PROVE  After(from)
  <2>1. edit' = edit /\ queue' = Merge(queue, draining)
    BY <1>6 DEF SendFails, requests
  <2>2. [kind |-> kind, project |-> q] \in Ops
    BY DEF Ops
  <2>3. Queued(p, ks) => Queued(p, ks)'
    BY <2>1, MergeKeeps DEF Queued, TypeOK
  <2>4. CASE InLog(p, ks, from)
    <3>1. CASE log' = log
      BY <2>4, <3>1 DEF InLog
    <3>2. CASE log' = Append(log, [kind |-> kind, project |-> q])
      BY <2>2, <2>4, <3>2, AppendKeeps DEF InLog
    <3> QED
      BY <1>6, <3>1, <3>2 DEF SendFails
  <2> QED
    BY <1>6, <2>3, <2>4
<1>71. ASSUME NEW e \in Editors, CacheFails(e)
      PROVE  log' = log /\ (Queued(p, ks) => Queued(p, ks)')
  <2>1. edit[e].project # p /\ \A f \in Editors : f # e => edit'[f] = edit[f]
    BY <1>71 DEF CacheFails, Fault, TypeOK
  <2>2. queue' = queue /\ draining' = draining /\ log' = log
    BY <1>71 DEF CacheFails, producer
  <2> QED
    BY <2>1, <2>2 DEF Queued
<1>72. ASSUME ApiCrash PROVE log' = log /\ (Queued(p, ks) => Queued(p, ks)')
  <2>1. p \notin Unsent /\ log' = log
    BY <1>72 DEF ApiCrash, Fault
  <2>2. ~Queued(p, ks)
    BY <2>1 DEF Queued, Unsent
  <2> QED
    BY <2>1, <2>2
<1>7. ASSUME NEW from \in 0 .. Len(log), Queued(p, ks) \/ InLog(p, ks, from)
      PROVE  After(from)
  <2>1. (\E e \in Editors : CacheFails(e)) \/ ApiCrash =>
           log' = log /\ (Queued(p, ks) => Queued(p, ks)')
    BY <1>71, <1>72
  <2>2. log' = log /\ (Queued(p, ks) => Queued(p, ks)') => After(from)
    BY <1>7 DEF InLog
  <2> HIDE DEF After
  <2>3. CASE Handlers
    BY <1>1, <1>2, <1>3, <2>1, <2>2, <2>3 DEF Handlers
  <2>4. CASE Drain
    BY <1>4, <1>5, <1>6, <1>7, <2>1, <2>2, <2>4 DEF Drain
  <2> QED
    BY <2>3, <2>4
<1>8. position' = position /\ committed' = committed
  BY DEF Handlers, Drain, ReadProject, PushEdit, PushRemoval, CacheFails, TakeQueue, Send,
         SendFails, ApiCrash, consumer
<1>9. position \in 0 .. Len(log) /\ committed \in 0 .. Len(log)
  BY DEF TypeOK
<1>10. Coming(p, ks, position) => Coming(p, ks, position)'
  BY <1>7, <1>8, <1>9 DEF Coming, InLog
<1>11. Coming(p, ks, committed) => Coming(p, ks, committed)'
  BY <1>7, <1>8, <1>9 DEF Coming, InLog
<1> QED
  BY <1>10, <1>11

LEMMA RepairsType ==
    ASSUME NEW a \in Aliases
    PROVE  Repairs(a) \in SUBSET Kinds /\ "removal" \in Repairs(a)
           /\ Kinds \in SUBSET Kinds /\ "removal" \in Kinds
  BY DEF Repairs, Kinds

\* What the steps of the consumer leave alone
LEMMA SameComing ==
    ASSUME edit' = edit, queue' = queue, draining' = draining, log' = log, NEW p, NEW ks
    PROVE  /\ position' = position => (Coming(p, ks, position)' <=> Coming(p, ks, position))
           /\ committed' = committed =>
                 (Coming(p, ks, committed)' <=> Coming(p, ks, committed))
           /\ position' = committed => (Coming(p, ks, position)' <=> Coming(p, ks, committed))
           /\ committed' = position => (Coming(p, ks, committed)' <=> Coming(p, ks, position))
  BY DEF Coming, Queued, InLog

\* A request writes to the one collection that exists
LEMMA WriteKept ==
    ASSUME TypeOK, NEW done, Write(Alias, done, New), NEW a \in Aliases, NEW p \in Projects
    PROVE  Kept(a, p)' = IF a = Alias /\ <<"current", p>> \in done THEN New[p] ELSE Kept(a, p)
<1>1. docs'[a]["current"][p] = IF a = Alias /\ <<"current", p>> \in done
                               THEN New[p] ELSE docs[a]["current"][p]
  BY NewType DEF TypeOK, Write, Collections
<1> QED
  BY <1>1 DEF Kept

\* Building documents disturbs nothing but what is replaced later
LEMMA BuildKeeps ==
    ASSUME TypeOK, Inv, position' = position, committed' = committed,
           edit' = edit, queue' = queue, draining' = draining, log' = log,
           status' = status, docs' = docs, exists' = exists, live' = live, lost' = lost,
           step' \in {"buildChanges", "removeVersions"},
           \A a \in Aliases, p \in Projects :
              \/ built'[a][p] \in {built[a][p], "none"}
              \/ built'[a][p] = "fresh" /\ p \in Searchable,
           \A p \in Projects, a \in Aliases :
              /\ Replaces(a, p) => Replaces(a, p)'
              /\ Finds(p) /\ p \notin Searchable => Replaces(a, p)' \/ Finds(p)'
              /\ built'[a][p] # "none" => p \in work'.versions \cup work'.change
    PROVE  Inv'
<1>1. ASSUME NEW p \in Projects \ lost, NEW a \in Aliases
      PROVE  /\ Mended(a, p, Kept(a, p), committed)'
             /\ Mended(a, p, built[a][p], position)'
             /\ Kept(a, p)' = "stale" /\ ~Replaces(a, p)' => Coming(p, Repairs(a), position)'
             /\ Kept(a, p)' # "none" /\ p \notin Searchable' /\ ~Replaces(a, p)'
                   /\ ~Finds(p)' => Coming(p, Kinds, position)'
  <2>1. /\ Coming(p, Kinds, committed)' <=> Coming(p, Kinds, committed)
        /\ Coming(p, Repairs(a), committed)' <=> Coming(p, Repairs(a), committed)
        /\ Coming(p, Kinds, position)' <=> Coming(p, Kinds, position)
        /\ Coming(p, Repairs(a), position)' <=> Coming(p, Repairs(a), position)
    BY SameComing
  <2>2. Searchable' = Searchable /\ Kept(a, p)' = Kept(a, p)
    BY DEF Searchable, Kept
  <2> QED
    BY <2>1, <2>2 DEF Inv, Mended
<1> QED
  BY <1>1 DEF Inv

LEMMA SettledHasNothing ==
    ASSUME TypeOK, NEW p \in Projects, Settled(p), NEW ks \in SUBSET Kinds
    PROVE  ~Coming(p, ks, committed)
  BY DEF Settled, Coming, Queued, InLog

\* What would mend each document is still to come.
THEOREM Invariance == Spec => []Inv
<1> USE SearchAssumption DEF failures
<1>1. Init => Inv
  BY DEF Init, Inv, Mended, Kept, NotBuilt, NoDocs, Replaces, Aliases, Collections
<1>2. TypeOK /\ Inv /\ [Next]_vars => Inv'
  <2> SUFFICES ASSUME TypeOK, Inv, [Next]_vars PROVE Inv'
    OBVIOUS
  <2>0. lost \subseteq lost'
    BY ZenonT(40) DEF Next, Commits, Handlers, Drain, Consume, CommitEdit, ReadProject, PushEdit,
           PushRemoval, CacheFails, TakeQueue, Send, SendFails, ApiCrash, Receive,
           BuildVersions, BuildChanges, Build, Apply, Commit, BatchFails, Restart, Fault, vars
  <2> USE <2>0 DEF Inv
  <2>1. ASSUME NEW e \in Editors, NEW new \in {"keep", "listed", "unlisted", "deleted"},
               NEW kind \in Kinds, CommitEdit(e, new, kind)
        PROVE  Inv'
    <3>0. PICK q \in Projects : edit[e].project = q
      BY <2>1 DEF CommitEdit, TypeOK, Edits
    <3>1. edit[e] \in Edits /\ edit[e].project = q /\ edit[e].stage = "read"
      BY <2>1, <3>0 DEF CommitEdit, TypeOK
    <3>2. /\ queue' = queue /\ draining' = draining /\ log' = log
          /\ position' = position /\ committed' = committed
          /\ step' = step /\ work' = work /\ live' = live /\ exists' = exists
      BY <2>1 DEF CommitEdit, producer
    <3>3. /\ edit'[e] \in Edits /\ edit'[e].stage = "committed"
          /\ edit'[e].project = q /\ edit'[e].kind = kind
          /\ \A f \in Editors : f # e => edit'[f] = edit[f]
      BY <2>1, <3>1 DEF CommitEdit, TypeOK, Edits
    <3>4. \A p, ks : Queued(p, ks) => Queued(p, ks)'
      BY <3>1, <3>2, <3>3 DEF Queued
    <3>5. \A ks : kind \in ks => Queued(q, ks)'
      BY <3>3 DEF Queued, Edits
    <3>6. \A p, ks : /\ Coming(p, ks, position) => Coming(p, ks, position)'
                     /\ Coming(p, ks, committed) => Coming(p, ks, committed)'
      BY <3>2, <3>4 DEF Coming, InLog
    <3>7. \A ks : kind \in ks => Coming(q, ks, position)' /\ Coming(q, ks, committed)'
      BY <3>5 DEF Coming
    <3>8. \A p \in Projects : p # q => (p \in Searchable <=> p \in Searchable')
      BY <2>1, <3>1 DEF CommitEdit, TypeOK, Searchable
    <3>9. \A p \in Projects, a \in Aliases :
             /\ \/ Kept(a, p)' = Kept(a, p)
                \/ /\ Kept(a, p)' = "stale" /\ Kept(a, p) = "fresh"
                   /\ p = q /\ a \in Shows(kind)
             /\ \/ built'[a][p] = built[a][p]
                \/ /\ built'[a][p] = "stale" /\ built[a][p] = "fresh"
                   /\ p = q /\ a \in Shows(kind)
      BY <2>1, <3>1 DEF CommitEdit, TypeOK, Kept, Aged, Collections
    <3>10. \A a \in Aliases : a \in Shows(kind) => kind \in Repairs(a)
      BY DEF Shows, Repairs, Kinds, Aliases
    <3>11. \A p \in Projects, a \in Aliases :
              /\ Replaces(a, p)' <=> Replaces(a, p)
              /\ Finds(p)' <=> Finds(p)
      BY <3>2, <3>9 DEF Replaces, Finds, InRequest
    <3>12. step' \in {"receive", "buildVersions"} => built' = NotBuilt
      BY <2>1, <3>1, <3>2 DEF CommitEdit, NotBuilt, NoDocs, Aged, TypeOK
    <3>13. ASSUME NEW p \in Projects \ lost', NEW a \in Aliases
           PROVE  /\ Mended(a, p, Kept(a, p), committed)'
                  /\ Mended(a, p, built[a][p], position)'
                  /\ Kept(a, p)' = "stale" /\ ~Replaces(a, p)' =>
                        Coming(p, Repairs(a), position)'
                  /\ Kept(a, p)' # "none" /\ p \notin Searchable' /\ ~Replaces(a, p)'
                        /\ ~Finds(p)' => Coming(p, Kinds, position)'
      <4>1. CASE p = q
        <5>1. Coming(p, Kinds, position)' /\ Coming(p, Kinds, committed)'
          BY <3>7, <4>1
        <5>2. a \in Shows(kind) => /\ Coming(p, Repairs(a), position)'
                                   /\ Coming(p, Repairs(a), committed)'
          BY <3>7, <3>10, <4>1
        <5> QED
          BY <3>6, <3>9, <3>11, <5>1, <5>2 DEF Mended
      <4>2. CASE p # q
        BY <3>6, <3>8, <3>9, <3>11, <4>2 DEF Mended
      <4> QED
        BY <4>1, <4>2
    <3>14. \A a \in Aliases, p \in Projects :
              built'[a][p] # "none" => p \in work'.versions \cup work'.change
      BY <3>2, <3>9
    <3> QED
      BY <3>2, <3>12, <3>13, <3>14
  <2>2. CASE Handlers \/ Drain
    <3>1. /\ status' = status /\ consumer' = consumer /\ index' = index
      BY <2>2 DEF Handlers, Drain, ReadProject, PushEdit, PushRemoval, CacheFails, TakeQueue,
                  Send, SendFails, ApiCrash, requests
    <3>2. ASSUME NEW p \in Projects \ lost', NEW a \in Aliases
          PROVE  /\ Coming(p, Repairs(a), position) => Coming(p, Repairs(a), position)'
                 /\ Coming(p, Repairs(a), committed) => Coming(p, Repairs(a), committed)'
                 /\ Coming(p, Kinds, position) => Coming(p, Kinds, position)'
                 /\ Coming(p, Kinds, committed) => Coming(p, Kinds, committed)'
      BY <2>2, RepairsType, ProducerKeeps
    <3>3. ASSUME NEW p \in Projects \ lost', NEW a \in Aliases
          PROVE  /\ Mended(a, p, Kept(a, p), committed)'
                 /\ Mended(a, p, built[a][p], position)'
                 /\ Kept(a, p)' = "stale" /\ ~Replaces(a, p)' =>
                       Coming(p, Repairs(a), position)'
                 /\ Kept(a, p)' # "none" /\ p \notin Searchable' /\ ~Replaces(a, p)'
                       /\ ~Finds(p)' => Coming(p, Kinds, position)'
      <4>1. /\ Kept(a, p)' = Kept(a, p) /\ built' = built /\ Searchable' = Searchable
            /\ Replaces(a, p)' <=> Replaces(a, p)
            /\ Finds(p)' <=> Finds(p)
        BY <3>1 DEF consumer, index, Kept, Searchable, Replaces, Finds, InRequest
      <4> QED
        BY <3>2, <4>1 DEF Mended
    <3> QED
      BY <3>1, <3>3 DEF consumer, index
  <2>3. ASSUME NEW n \in position + 1 .. Len(log), Receive(n) PROVE Inv'
    <3>1. /\ step = "receive" /\ step' = "buildVersions" /\ position' = n
          /\ edit' = edit /\ queue' = queue /\ draining' = draining /\ log' = log
          /\ committed' = committed /\ built' = built /\ status' = status
          /\ docs' = docs /\ exists' = exists /\ live' = live
      BY <2>3 DEF Receive, requests, producer, index
    <3>2. /\ work'.removal = Received("removal", n)
          /\ work'.versions = Received("versions", n) \ work'.removal
          /\ work'.change = (Received("change", n) \ work'.removal) \ work'.versions
          /\ work'.edited = Received("versions", n)
      BY <2>3 DEF Receive
    <3>3. ASSUME NEW p, NEW ks, Coming(p, ks, position)
          PROVE  Coming(p, ks, position)' \/ \E k \in ks : p \in Received(k, n)
      <4>1. CASE Queued(p, ks)
        BY <3>1, <4>1 DEF Coming, Queued
      <4>2. CASE InLog(p, ks, position)
        <5>1. PICK i \in position + 1 .. Len(log) : log[i].project = p /\ log[i].kind \in ks
          BY <4>2 DEF InLog
        <5>2. CASE i <= n
          <6>1. i \in {j \in position + 1 .. n : log[j].kind = log[i].kind}
            BY <5>1, <5>2 DEF TypeOK
          <6>2. p \in Received(log[i].kind, n)
            BY <5>1, <6>1 DEF Received
          <6> QED
            BY <5>1, <6>2
        <5>3. CASE ~(i <= n)
          <6>1. i \in n + 1 .. Len(log)
            BY <5>1, <5>3 DEF TypeOK
          <6> QED
            BY <3>1, <5>1, <6>1 DEF Coming, InLog
        <5> QED
          BY <5>2, <5>3
      <4> QED
        BY <3>3, <4>1, <4>2 DEF Coming
    <3>4. ASSUME NEW p \in Projects, NEW a \in Aliases, NEW k \in Kinds, p \in Received(k, n)
          PROVE  /\ k \in Repairs(a) => Replaces(a, p)'
                 /\ Replaces(a, p)' \/ Finds(p)'
      BY <3>1, <3>2, <3>4 DEF Kinds, Repairs, Replaces, Finds, Aliases
    <3>5. ASSUME NEW p \in Projects \ lost', NEW a \in Aliases
          PROVE  /\ Mended(a, p, Kept(a, p), committed)'
                 /\ Mended(a, p, built[a][p], position)'
                 /\ Kept(a, p)' = "stale" /\ ~Replaces(a, p)' =>
                       Coming(p, Repairs(a), position)'
                 /\ Kept(a, p)' # "none" /\ p \notin Searchable' /\ ~Replaces(a, p)'
                       /\ ~Finds(p)' => Coming(p, Kinds, position)'
      <4>1. Kept(a, p)' = Kept(a, p) /\ Searchable' = Searchable /\ built'[a][p] = "none"
        BY <3>1 DEF Kept, Searchable, NotBuilt, NoDocs
      <4>2. ~Replaces(a, p) /\ ~Finds(p)
        BY <3>1 DEF Replaces, Finds, InRequest
      <4>3. /\ Coming(p, Kinds, committed)' <=> Coming(p, Kinds, committed)
            /\ Coming(p, Repairs(a), committed)' <=> Coming(p, Repairs(a), committed)
        BY <3>1, SameComing
      <4>4. Mended(a, p, Kept(a, p), committed)' /\ Mended(a, p, built[a][p], position)'
        BY <4>1, <4>3 DEF Mended
      <4>5. ASSUME Kept(a, p)' = "stale", ~Replaces(a, p)'
            PROVE  Coming(p, Repairs(a), position)'
        BY <3>3, <3>4, <4>1, <4>2, <4>5, RepairsType
      <4>6. ASSUME Kept(a, p)' # "none", p \notin Searchable', ~Replaces(a, p)', ~Finds(p)'
            PROVE  Coming(p, Kinds, position)'
        BY <3>3, <3>4, <4>1, <4>2, <4>6
      <4> QED
        BY <4>4, <4>5, <4>6
    <3>6. \A a \in Aliases, p \in Projects : built'[a][p] = "none"
      BY <3>1 DEF NotBuilt, NoDocs
    <3> QED
      BY <3>1, <3>5, <3>6
  <2>4. CASE BuildVersions
    <3>1. /\ step = "buildVersions" /\ step' = "buildChanges" /\ position' = position
          /\ edit' = edit /\ queue' = queue /\ draining' = draining /\ log' = log
          /\ committed' = committed /\ status' = status
          /\ docs' = docs /\ exists' = exists /\ live' = live /\ lost' = lost
          /\ work'.removal = work.removal \cup (work.versions \ Searchable)
          /\ work'.change = work.change /\ work'.edited = work.edited
          /\ work'.versions = work.versions
      BY <2>4 DEF BuildVersions, Build, requests, producer, index, TypeOK
    <3>2. \A a \in Aliases, p \in Projects :
             built'[a][p] = IF p \in work.versions \cap Searchable THEN "fresh" ELSE "none"
      BY <2>4, <3>1 DEF BuildVersions, Build, NotBuilt, NoDocs
    <3>3. ASSUME NEW p \in Projects, NEW a \in Aliases
          PROVE  /\ Replaces(a, p) => Replaces(a, p)'
                 /\ Finds(p) /\ p \notin Searchable => Replaces(a, p)' \/ Finds(p)'
                 /\ built'[a][p] # "none" => p \in work'.versions \cup work'.change
      BY <3>1, <3>2 DEF Replaces, Finds, InRequest, Aliases
    <3> HIDE DEF Inv
    <3> QED
      BY <3>1, <3>2, <3>3, BuildKeeps
  <2>5. CASE BuildChanges
    <3>1. /\ step = "buildChanges" /\ step' = "removeVersions" /\ position' = position
          /\ edit' = edit /\ queue' = queue /\ draining' = draining /\ log' = log
          /\ committed' = committed /\ status' = status
          /\ docs' = docs /\ exists' = exists /\ live' = live /\ lost' = lost
          /\ work'.removal = work.removal \cup (work.change \ Searchable)
          /\ work'.edited = work.edited
          /\ work'.change = work.change /\ work'.versions = work.versions
      BY <2>5 DEF BuildChanges, Build, requests, producer, index, TypeOK
    <3>2. \A a \in Aliases, p \in Projects :
             built'[a][p] = IF a = "projects" /\ p \in work.change \cap Searchable
                            THEN "fresh" ELSE built[a][p]
      BY <2>5 DEF BuildChanges, Build
    <3>3. ASSUME NEW p \in Projects, NEW a \in Aliases
          PROVE  /\ Replaces(a, p) => Replaces(a, p)'
                 /\ Finds(p) /\ p \notin Searchable => Replaces(a, p)' \/ Finds(p)'
                 /\ built'[a][p] # "none" => p \in work'.versions \cup work'.change
      BY <3>1, <3>2 DEF Replaces, Finds, InRequest, Aliases
    <3> HIDE DEF Inv
    <3> QED
      BY <3>1, <3>2, <3>3, BuildKeeps
  <2>6. CASE Apply
    <3>1. /\ InRequest /\ step' = AfterRequest /\ position' = position
          /\ edit' = edit /\ queue' = queue /\ draining' = draining /\ log' = log
          /\ committed' = committed /\ status' = status /\ work' = work /\ built' = built
          /\ exists' = exists /\ live' = live /\ Write(Alias, exists[Alias] \X Ids, New)
      BY <2>6 DEF Apply, requests, producer
    <3>2. ASSUME NEW p \in Projects, NEW a \in Aliases
          PROVE  Kept(a, p)' = IF a = Alias /\ p \in Ids THEN New[p] ELSE Kept(a, p)
      <4>1. exists[Alias] = {"current"}
        BY NewType
      <4>2. PICK done : done = exists[Alias] \X Ids
        OBVIOUS
      <4>3. <<"current", p>> \in done <=> p \in Ids
        BY <4>1, <4>2
      <4>4. Write(Alias, done, New)
        BY <3>1, <4>2
      <4> HIDE DEF Inv
      <4> QED
        BY <4>3, <4>4, WriteKept
    <3>3. ASSUME NEW p \in Projects, NEW a \in Aliases
          PROVE  IF a = Alias /\ p \in Ids
                 THEN Kept(a, p)' \in {"none", built[a][p]}
                 ELSE Kept(a, p)' = Kept(a, p) /\ (Replaces(a, p) => Replaces(a, p)')
      <4>1. New[p] \in {"none", built[Alias][p]}
        BY DEF New, NoDocs
      <4>2. ASSUME ~(a = Alias /\ p \in Ids), Replaces(a, p) PROVE Replaces(a, p)'
        BY <3>1, <4>2 DEF Replaces, InRequest, AfterRequest, Alias, Ids, BuiltDocs, Aliases
      <4> QED
        BY <3>2, <4>1, <4>2
    <3>4. step' \notin {"receive", "buildVersions", "buildChanges"} /\ ~\E p : Finds(p)
      BY <3>1 DEF InRequest, AfterRequest, Finds
    <3>5. ASSUME NEW p \in Projects \ lost', NEW a \in Aliases
          PROVE  /\ Mended(a, p, Kept(a, p), committed)'
                 /\ Mended(a, p, built[a][p], position)'
                 /\ Kept(a, p)' = "stale" /\ ~Replaces(a, p)' =>
                       Coming(p, Repairs(a), position)'
                 /\ Kept(a, p)' # "none" /\ p \notin Searchable' /\ ~Replaces(a, p)'
                       /\ ~Finds(p)' => Coming(p, Kinds, position)'
      <4>1. /\ Coming(p, Kinds, committed)' <=> Coming(p, Kinds, committed)
            /\ Coming(p, Repairs(a), committed)' <=> Coming(p, Repairs(a), committed)
            /\ Coming(p, Kinds, position)' <=> Coming(p, Kinds, position)
            /\ Coming(p, Repairs(a), position)' <=> Coming(p, Repairs(a), position)
        BY <3>1, SameComing
      <4>2. /\ Coming(p, Kinds, position) => Coming(p, Kinds, committed)
            /\ Coming(p, Repairs(a), position) => Coming(p, Repairs(a), committed)
        BY ComingFromCommitted
      <4>3. Searchable' = Searchable /\ built'[a][p] = built[a][p]
        BY <3>1 DEF Searchable
      <4> QED
        BY <3>3, <3>4, <4>1, <4>2, <4>3 DEF Mended
    <3> QED
      BY <3>1, <3>4, <3>5
  <2>7. CASE Commit
    <3>1. /\ step = "commit" /\ step' = "receive" /\ position' = position
          /\ edit' = edit /\ queue' = queue /\ draining' = draining /\ log' = log
          /\ committed' = position /\ status' = status /\ built' = NotBuilt
          /\ docs' = docs /\ exists' = exists /\ live' = live
      BY <2>7 DEF Commit, NextBatch, requests, producer, index
    <3>2. ASSUME NEW p \in Projects \ lost', NEW a \in Aliases
          PROVE  /\ Mended(a, p, Kept(a, p), committed)'
                 /\ Mended(a, p, built[a][p], position)'
                 /\ Kept(a, p)' = "stale" /\ ~Replaces(a, p)' =>
                       Coming(p, Repairs(a), position)'
                 /\ Kept(a, p)' # "none" /\ p \notin Searchable' /\ ~Replaces(a, p)'
                       /\ ~Finds(p)' => Coming(p, Kinds, position)'
      <4>1. /\ Coming(p, Kinds, committed)' <=> Coming(p, Kinds, position)
            /\ Coming(p, Repairs(a), committed)' <=> Coming(p, Repairs(a), position)
            /\ Coming(p, Kinds, position)' <=> Coming(p, Kinds, position)
            /\ Coming(p, Repairs(a), position)' <=> Coming(p, Repairs(a), position)
        BY <3>1, SameComing
      <4>2. ~Replaces(a, p) /\ ~Finds(p)
        BY <3>1 DEF Replaces, Finds, InRequest
      <4>3. Kept(a, p)' = Kept(a, p) /\ Searchable' = Searchable /\ built'[a][p] = "none"
        BY <3>1 DEF Kept, Searchable, NotBuilt, NoDocs
      <4> QED
        BY <4>1, <4>2, <4>3 DEF Mended
    <3>3. \A a \in Aliases, p \in Projects : built'[a][p] = "none"
      BY <3>1 DEF NotBuilt, NoDocs
    <3> QED
      BY <3>1, <3>2, <3>3
  <2>8. ASSUME NEW done, Restart(done) PROVE Inv'
    <3>1. /\ step' = "receive" /\ position' = committed
          /\ edit' = edit /\ queue' = queue /\ draining' = draining /\ log' = log
          /\ committed' = committed /\ status' = status /\ built' = NotBuilt
          /\ exists' = exists /\ live' = live /\ Partly(done)
      BY <2>8 DEF Restart, NextBatch, requests, producer
    <3>2. ASSUME NEW p \in Projects, NEW a \in Aliases
          PROVE  Kept(a, p)' \in {Kept(a, p), "none", built[a][p]}
      <4>1. CASE InRequest
        <5>1. New[p] \in {"none", built[Alias][p]}
          BY DEF New, NoDocs
        <5>2. Kept(a, p)' = IF a = Alias /\ <<"current", p>> \in done
                            THEN New[p] ELSE Kept(a, p)
          <6> HIDE DEF Inv
          <6> QED
            BY <3>1, <4>1, WriteKept DEF Partly
        <5> QED
          BY <5>1, <5>2
      <4>2. CASE ~InRequest
        BY <3>1, <4>2 DEF Partly, Kept
      <4> QED
        BY <4>1, <4>2
    <3>3. ASSUME NEW p \in Projects \ lost', NEW a \in Aliases
          PROVE  /\ Mended(a, p, Kept(a, p), committed)'
                 /\ Mended(a, p, built[a][p], position)'
                 /\ Kept(a, p)' = "stale" /\ ~Replaces(a, p)' =>
                       Coming(p, Repairs(a), position)'
                 /\ Kept(a, p)' # "none" /\ p \notin Searchable' /\ ~Replaces(a, p)'
                       /\ ~Finds(p)' => Coming(p, Kinds, position)'
      <4>1. /\ Coming(p, Kinds, committed)' <=> Coming(p, Kinds, committed)
            /\ Coming(p, Repairs(a), committed)' <=> Coming(p, Repairs(a), committed)
            /\ Coming(p, Kinds, position)' <=> Coming(p, Kinds, committed)
            /\ Coming(p, Repairs(a), position)' <=> Coming(p, Repairs(a), committed)
        BY <3>1, SameComing
      <4>2. /\ Coming(p, Kinds, position) => Coming(p, Kinds, committed)
            /\ Coming(p, Repairs(a), position) => Coming(p, Repairs(a), committed)
        BY ComingFromCommitted
      <4>3. Searchable' = Searchable /\ built'[a][p] = "none"
        BY <3>1 DEF Searchable, NotBuilt, NoDocs
      <4> QED
        BY <3>2, <4>1, <4>2, <4>3 DEF Mended
    <3>4. \A a \in Aliases, p \in Projects : built'[a][p] = "none"
      BY <3>1 DEF NotBuilt, NoDocs
    <3> QED
      BY <3>1, <3>3, <3>4
  <2>9. CASE UNCHANGED vars
    BY <2>9 DEF vars, requests, producer, consumer, index, Mended, Coming, Queued, InLog,
                Kept, Replaces, Finds, InRequest, Searchable
  <2>10. ASSUME NEW done, BatchFails(done) PROVE Inv'
    <3>1. /\ step' = "receive" /\ position' = position
          /\ edit' = edit /\ queue' = queue /\ draining' = draining /\ log' = log
          /\ committed' = committed /\ status' = status /\ built' = NotBuilt
          /\ exists' = exists /\ live' = live /\ Partly(done)
      BY <2>10 DEF BatchFails, NextBatch, requests, producer
    <3>2. ASSUME NEW p \in Projects \ lost'
          PROVE  p \notin work.removal \cup work.versions \cup work.change \cup work.edited
      BY <2>10 DEF BatchFails, Fault
    <3>3. ASSUME NEW p \in Projects \ lost', NEW a \in Aliases
          PROVE  /\ built[a][p] = "none" /\ ~Replaces(a, p) /\ ~Finds(p)
                 /\ Kept(a, p)' \in {Kept(a, p), "none"}
      <4>1. built[a][p] = "none" /\ ~Replaces(a, p) /\ ~Finds(p)
        BY <3>2 DEF Replaces, Finds
      <4>2. CASE InRequest
        <5>1. a = Alias => New[p] = "none"
          BY <4>1 DEF New, NoDocs
        <5>2. Kept(a, p)' = IF a = Alias /\ <<"current", p>> \in done
                            THEN New[p] ELSE Kept(a, p)
          <6> HIDE DEF Inv
          <6> QED
            BY <3>1, <4>2, WriteKept DEF Partly
        <5> QED
          BY <4>1, <5>1, <5>2
      <4>3. CASE ~InRequest
        BY <3>1, <4>1, <4>3 DEF Partly, Kept
      <4> QED
        BY <4>2, <4>3
    <3>4. ASSUME NEW p \in Projects \ lost', NEW a \in Aliases
          PROVE  /\ Mended(a, p, Kept(a, p), committed)'
                 /\ Mended(a, p, built[a][p], position)'
                 /\ Kept(a, p)' = "stale" /\ ~Replaces(a, p)' =>
                       Coming(p, Repairs(a), position)'
                 /\ Kept(a, p)' # "none" /\ p \notin Searchable' /\ ~Replaces(a, p)'
                       /\ ~Finds(p)' => Coming(p, Kinds, position)'
      <4>1. /\ Coming(p, Kinds, committed)' <=> Coming(p, Kinds, committed)
            /\ Coming(p, Repairs(a), committed)' <=> Coming(p, Repairs(a), committed)
            /\ Coming(p, Kinds, position)' <=> Coming(p, Kinds, position)
            /\ Coming(p, Repairs(a), position)' <=> Coming(p, Repairs(a), position)
        BY <3>1, SameComing
      <4>2. Searchable' = Searchable /\ built'[a][p] = "none"
        BY <3>1 DEF Searchable, NotBuilt, NoDocs
      <4> QED
        BY <3>3, <4>1, <4>2 DEF Mended
    <3>5. \A a \in Aliases, p \in Projects : built'[a][p] = "none"
      BY <3>1 DEF NotBuilt, NoDocs
    <3> QED
      BY <3>1, <3>4, <3>5
  <2>11. CASE Consume
    BY <2>3, <2>4, <2>5, <2>6, <2>7, <2>8, <2>10, <2>11 DEF Consume
  <2> QED
    BY <2>1, <2>2, <2>9, <2>11 DEF Next, Commits
<1> QED
  BY <1>1, <1>2, TypeCorrect, PTL DEF Spec

\* Nothing stale is shown of a project about which nothing is on its way.
THEOREM SettledCurrent == Spec => []SettledIsCurrent
<1>1. TypeOK /\ Inv => SettledIsCurrent
  <2> SUFFICES ASSUME TypeOK, Inv, NEW p \in Projects \ lost, NEW a \in Aliases, Settled(p)
               PROVE  Shown(a, p) # "stale"
    BY DEF SettledIsCurrent
  <2>1. ~Coming(p, Repairs(a), committed)
    BY RepairsType, SettledHasNothing
  <2> QED
    BY <2>1 DEF Inv, Mended, Kept, Shown
<1> QED
  BY <1>1, TypeCorrect, Invariance, PTL

\* A hidden project about which nothing is on its way has no documents.
THEOREM HiddenNotFound == Spec => []HiddenIsNotFound
<1>1. TypeOK /\ Inv => HiddenIsNotFound
  <2> SUFFICES ASSUME TypeOK, Inv, NEW p \in Projects \ lost, NEW a \in Aliases, Settled(p),
                      p \notin Searchable
               PROVE  Shown(a, p) = "none"
    BY DEF HiddenIsNotFound
  <2>1. ~Coming(p, Kinds, committed)
    BY RepairsType, SettledHasNothing
  <2> QED
    BY <2>1 DEF Inv, Mended, Kept, Shown
<1> QED
  BY <1>1, TypeCorrect, Invariance, PTL

----------------------------------------------------------------------------
(* A listed project is found *)

\* No operation that removes the project is anywhere
NoRemoval(p) ==
    /\ \A e \in Editors : edit[e] # NoEdit /\ edit[e].project = p =>
          \/ edit[e].stage = "read"
          \/ edit[e].stage = "committed" /\ edit[e].kind # "removal" /\ ~edit[e].unlists
    /\ p \notin queue["removal"] /\ p \notin draining["removal"]
    /\ \A i \in 1 .. Len(log) : ~(log[i].project = p /\ log[i].kind = "removal")

\* The batch is about to read the project, or still has to write what it has built of it
Brings(p) ==
    \/ Finds(p)
    \/ /\ InRequest \/ step = "buildChanges"
       /\ step # "importVersions"
       /\ built["projects"][p] # "none"

InBatch == work.removal \cup work.versions \cup work.change \cup work.edited

\* A listed project without a document has an operation to come, also one after the
\* batch if the batch does not bring the document; and when the batch is to remove
\* it, as it was hidden when the batch read it, it has been listed since.
ListedKept(p) ==
    /\ Kept("projects", p) = "none" => Coming(p, Kinds, committed)
    /\ Kept("projects", p) = "none" /\ ~Brings(p) => Coming(p, Kinds, position)
    /\ p \in work.removal => Coming(p, Kinds, position)

ListedInv ==
    /\ \A p \in Projects \ withdrawn : NoRemoval(p)
    /\ \A p \in InBatch : InLog(p, Kinds, committed)
    /\ \A p \in Projects \ lost : p \in Searchable \ withdrawn => ListedKept(p)

\* What a step of the producer does to the topic: nothing, or one more message
LEMMA TopicGrows ==
    ASSUME TypeOK, Handlers \/ Drain
    PROVE  \/ log' = log
           \/ \E kind \in Kinds, p \in Projects :
                 /\ p \in draining[kind]
                 /\ log' = Append(log, [kind |-> kind, project |-> p])
  BY DEF Handlers, Drain, ReadProject, PushEdit, PushRemoval, CacheFails, TakeQueue, Send,
         SendFails, ApiCrash

\* Only a withdrawn project has removals
LEMMA RemovalsKept ==
    ASSUME SearchAssumption, TypeOK, \A p \in Projects \ withdrawn : NoRemoval(p), Next,
           NEW p \in Projects \ withdrawn'
    PROVE  NoRemoval(p)'
<1> USE SearchAssumption
<1>1. ASSUME NEW e \in Editors, NEW new \in {"keep", "listed", "unlisted", "deleted"},
             NEW kind \in Kinds, CommitEdit(e, new, kind)
      PROVE  NoRemoval(p)'
  <2>1. /\ edit[e] \in Edits /\ queue' = queue /\ draining' = draining /\ log' = log
        /\ withdrawn' = IF new \in {"unlisted", "deleted"}
                        THEN withdrawn \cup {edit[e].project} ELSE withdrawn
    BY <1>1 DEF CommitEdit, TypeOK, producer
  <2>2. edit'[e] = [edit[e] EXCEPT !.stage = "committed", !.kind = kind,
                                   !.unlists = new = "unlisted"]
        /\ \A f \in Editors : f # e => edit'[f] = edit[f]
    BY <1>1 DEF CommitEdit, TypeOK
  <2>3. /\ edit'[e].project = edit[e].project /\ edit'[e].stage = "committed"
        /\ edit'[e].kind = kind /\ (edit'[e].unlists <=> new = "unlisted")
    BY <2>1, <2>2 DEF Edits
  <2>4. kind = "removal" => new = "deleted"
    BY <1>1 DEF CommitEdit
  <2>5. NoRemoval(p)
    BY <2>1
  <2>6. edit[e].project = p => kind # "removal" /\ new # "unlisted"
    BY <2>1, <2>4
  <2> QED
    BY <2>1, <2>2, <2>3, <2>5, <2>6 DEF NoRemoval
<1>2. CASE Handlers \/ Drain
  <2>1. withdrawn' = withdrawn /\ NoRemoval(p)
    <3>1. withdrawn' = withdrawn
      BY <1>2 DEF Handlers, Drain, ReadProject, PushEdit, PushRemoval, CacheFails, TakeQueue,
                  Send, SendFails, ApiCrash, requests
    <3> QED
      BY <3>1
  <2>2. \A i \in 1 .. Len(log') : ~(log'[i].project = p /\ log'[i].kind = "removal")
    <3>1. CASE log' = log
      BY <2>1, <3>1 DEF NoRemoval
    <3>2. ASSUME NEW kind \in Kinds, NEW q \in Projects, q \in draining[kind],
                 log' = Append(log, [kind |-> kind, project |-> q])
          PROVE  \A i \in 1 .. Len(log') : ~(log'[i].project = p /\ log'[i].kind = "removal")
      <4>1. [kind |-> kind, project |-> q] \in Ops
        BY DEF Ops
      <4>2. /\ Len(log) \in Nat /\ Len(log') = Len(log) + 1
            /\ log'[Len(log) + 1] = [kind |-> kind, project |-> q]
            /\ \A i \in 1 .. Len(log) : log'[i] = log[i]
        BY <3>2, <4>1, AppendKeeps
      <4>3. ~(q = p /\ kind = "removal")
        BY <2>1, <3>2 DEF NoRemoval
      <4>4. ASSUME NEW i \in 1 .. Len(log') PROVE i \in 1 .. Len(log) \/ i = Len(log) + 1
        BY <4>2
      <4> QED
        BY <2>1, <4>2, <4>3, <4>4 DEF NoRemoval
    <3> QED
      BY <1>2, <3>1, <3>2, TopicGrows
  <2>3. p \notin queue'["removal"] /\ p \notin draining'["removal"]
    <3> USE DEF NoRemoval, TypeOK
    <3>0. "removal" \in Kinds
      BY DEF Kinds
    <3>1. ASSUME NEW e \in Editors, PushEdit(e) PROVE p \notin queue'["removal"]
      <4>1. edit[e] \in Edits /\ draining' = draining
        BY <3>1 DEF PushEdit
      <4>2. p \notin One(edit[e].kind, edit[e].project)["removal"]
        BY <2>1, <3>1, <4>1 DEF PushEdit, One, Empty, Edits, Kinds
      <4> QED
        BY <2>1, <3>0, <3>1, <4>2 DEF PushEdit, Merge
    <3>2. ASSUME NEW e \in Editors, PushRemoval(e) PROVE p \notin queue'["removal"]
      <4>1. edit[e] \in Edits /\ edit[e].project # p
        BY <2>1, <3>2 DEF PushRemoval
      <4>2. p \notin One("removal", edit[e].project)["removal"]
        BY <4>1, <3>0 DEF One, Empty
      <4> QED
        BY <2>1, <3>0, <3>2, <4>2 DEF PushRemoval, Merge
    <3>3. (\E e \in Editors : \/ \E q \in Projects : ReadProject(e, q)
                              \/ CacheFails(e)) \/ TakeQueue \/ ApiCrash =>
             p \notin queue'["removal"] /\ p \notin draining'["removal"]
      BY <2>1, <3>0 DEF ReadProject, CacheFails, TakeQueue, ApiCrash, Empty, producer
    <3>4. ASSUME NEW kind \in Kinds, NEW q \in Projects,
                 Send(kind, q) \/ \E arrives \in BOOLEAN : SendFails(kind, q, arrives)
          PROVE  p \notin queue'["removal"] /\ p \notin draining'["removal"]
      <4>1. CASE Send(kind, q)
        BY <2>1, <3>0, <4>1 DEF Send
      <4>2. ASSUME NEW arrives \in BOOLEAN, SendFails(kind, q, arrives)
            PROVE  p \notin queue'["removal"] /\ p \notin draining'["removal"]
        BY <2>1, <3>0, <4>2 DEF SendFails, Merge, Empty
      <4> QED
        BY <3>4, <4>1, <4>2
    <3>5. \A e \in Editors : PushEdit(e) \/ PushRemoval(e) => draining' = draining
      BY DEF PushEdit, PushRemoval
    <3> HIDE DEF NoRemoval, TypeOK
    <3> QED
      BY <1>2, <2>1, <3>1, <3>2, <3>3, <3>4, <3>5 DEF Handlers, Drain, NoRemoval
  <2>4. ASSUME NEW e \in Editors, edit'[e] # NoEdit, edit'[e].project = p
        PROVE  \/ edit'[e].stage = "read"
               \/ /\ edit'[e].stage = "committed"
                  /\ edit'[e].kind # "removal" /\ ~edit'[e].unlists
    <3>1. \/ edit'[e] = edit[e]
          \/ edit'[e].stage = "read"
          \/ edit[e].unlists /\ edit[e].project = p /\ edit[e].stage = "committed"
             /\ edit[e] # NoEdit
      <4>1. ASSUME NEW f \in Editors, NEW q \in Projects, ReadProject(f, q)
            PROVE  edit'[e] = edit[e] \/ edit'[e].stage = "read"
        BY <4>1 DEF ReadProject, TypeOK
      <4>2. ASSUME NEW f \in Editors, PushEdit(f), edit'[e] # edit[e]
            PROVE  edit[e].unlists /\ edit[e].project = p /\ edit[e].stage = "committed"
                   /\ edit[e] # NoEdit
        <5>1. f = e /\ edit[e] \in Edits
          BY <4>2 DEF PushEdit, TypeOK
        <5>2. edit'[e] = [edit[e] EXCEPT !.stage = "pushed"] /\ edit[e].unlists
          BY <2>4, <4>2, <5>1 DEF PushEdit, TypeOK
        <5> QED
          BY <2>4, <4>2, <5>1, <5>2 DEF PushEdit, Edits
      <4>3. ASSUME NEW f \in Editors, PushRemoval(f) \/ CacheFails(f)
            PROVE  edit'[e] = edit[e]
        BY <2>4, <4>3 DEF PushRemoval, CacheFails, TypeOK
      <4>4. CASE Drain
        BY <2>4, <4>4 DEF Drain, TakeQueue, Send, SendFails, ApiCrash, requests
      <4> QED
        BY <1>2, <4>1, <4>2, <4>3, <4>4 DEF Handlers
    <3> QED
      BY <2>1, <2>4, <3>1 DEF NoRemoval
  <2> QED
    BY <2>2, <2>3, <2>4 DEF NoRemoval
<1>3. CASE Consume
  <2>1. edit' = edit /\ queue' = queue /\ draining' = draining /\ log' = log
        /\ withdrawn' = withdrawn
    BY <1>3 DEF Consume, Receive, BuildVersions, BuildChanges, Build, Apply, Commit,
                BatchFails, Restart, requests, producer
  <2> QED
    BY <2>1 DEF NoRemoval
<1> QED
  BY <1>1, <1>2, <1>3 DEF Next, Commits

\* The messages of the batch are after the offset committed
LEMMA BatchUncommitted ==
    ASSUME SearchAssumption, TypeOK, \A p \in InBatch : InLog(p, Kinds, committed), [Next]_vars
    PROVE  (\A p \in InBatch : InLog(p, Kinds, committed))'
<1> USE SearchAssumption
<1>1. CASE Handlers \/ Drain
  <2>1. work' = work /\ committed' = committed
    BY <1>1 DEF Handlers, Drain, ReadProject, PushEdit, PushRemoval, CacheFails, TakeQueue,
                Send, SendFails, ApiCrash, consumer
  <2>2. CASE log' = log
    BY <2>1, <2>2 DEF InBatch, InLog
  <2>3. ASSUME NEW kind \in Kinds, NEW q \in Projects,
               log' = Append(log, [kind |-> kind, project |-> q]),
               NEW p, InLog(p, Kinds, committed)
        PROVE  InLog(p, Kinds, committed)'
    <3>1. [kind |-> kind, project |-> q] \in Ops
      BY DEF Ops
    <3>2. Len(log) \in Nat /\ Len(log') = Len(log) + 1
          /\ \A i \in 1 .. Len(log) : log'[i] = log[i]
      BY <2>3, <3>1, AppendKeeps
    <3>3. committed \in Nat
      BY DEF TypeOK
    <3> QED
      BY <2>1, <2>3, <3>2, <3>3 DEF InLog
  <2> QED
    BY <1>1, <2>1, <2>2, <2>3, TopicGrows DEF InBatch
<1>2. ASSUME NEW n \in position + 1 .. Len(log), Receive(n)
      PROVE  (\A p \in InBatch : InLog(p, Kinds, committed))'
  <2>1. /\ log' = log /\ committed' = committed
        /\ work'.removal = Received("removal", n)
        /\ work'.versions \subseteq Received("versions", n)
        /\ work'.change \subseteq Received("change", n)
        /\ work'.edited = Received("versions", n)
    BY <1>2 DEF Receive, producer
  <2>2. ASSUME NEW kind, NEW p \in Received(kind, n), kind \in Kinds
        PROVE  InLog(p, Kinds, committed)
    <3>1. PICK i \in position + 1 .. n : log[i].kind = kind /\ log[i].project = p
      BY <2>2 DEF Received
    <3>2. i \in committed + 1 .. Len(log)
      BY <3>1 DEF TypeOK
    <3> QED
      BY <2>2, <3>1, <3>2 DEF InLog
  <2> QED
    BY <2>1, <2>2 DEF InBatch, InLog, Kinds
<1>3. CASE BuildVersions \/ BuildChanges
  <2>1. /\ log' = log /\ committed' = committed
        /\ work'.removal \subseteq work.removal \cup work.versions \cup work.change
        /\ work'.versions = work.versions /\ work'.change = work.change
        /\ work'.edited = work.edited
    BY <1>3 DEF BuildVersions, BuildChanges, Build, producer, TypeOK
  <2> QED
    BY <2>1 DEF InBatch, InLog
<1>4. CASE Commit \/ \E done : BatchFails(done) \/ Restart(done)
  <2>1. work' = NoWork
    BY <1>4 DEF Commit, BatchFails, Restart, NextBatch
  <2> QED
    BY <2>1 DEF NoWork, InBatch
<1>5. CASE Commits \/ Apply \/ UNCHANGED vars
  <2>1. work' = work /\ committed' = committed /\ log' = log
    BY <1>5 DEF Commits, CommitEdit, Apply, vars, producer, consumer
  <2> QED
    BY <2>1 DEF InBatch, InLog
<1> QED
  BY <1>1, <1>2, <1>3, <1>4, <1>5 DEF Next, Consume

\* What a request of the batch does to the document that shows a project
LEMMA WrittenIsBuilt ==
    ASSUME TypeOK, Inv, InRequest, NEW done, Write(Alias, done, New), NEW p \in Projects
    PROVE  Kept("projects", p)' = IF Alias = "projects" /\ <<"current", p>> \in done
                                  THEN New[p] ELSE Kept("projects", p)
  BY WriteKept DEF Aliases

LEMMA ListedStays ==
    ASSUME SearchAssumption, TypeOK, Inv, ListedInv, [Next]_vars,
           NEW p \in Projects \ lost', p \in (Searchable \ withdrawn)'
    PROVE  ListedKept(p)'
<1> USE SearchAssumption
<1>0. lost \subseteq lost' /\ withdrawn \subseteq withdrawn'
  BY ZenonT(40) DEF Next, Commits, Handlers, Drain, Consume, CommitEdit, ReadProject, PushEdit,
         PushRemoval, CacheFails, TakeQueue, Send, SendFails, ApiCrash, Receive,
         BuildVersions, BuildChanges, Build, Apply, Commit, BatchFails, Restart, Fault, vars,
         requests, failures
<1>1. ASSUME NEW e \in Editors, NEW new \in {"keep", "listed", "unlisted", "deleted"},
             NEW kind \in Kinds, CommitEdit(e, new, kind)
      PROVE  ListedKept(p)'
  <2>1. /\ edit[e] \in Edits /\ edit[e].stage = "read"
        /\ queue' = queue /\ draining' = draining /\ log' = log
        /\ position' = position /\ committed' = committed /\ step' = step /\ work' = work
    BY <1>1 DEF CommitEdit, TypeOK, producer
  <2>2. /\ edit'[e] \in Edits /\ edit'[e].stage = "committed"
        /\ edit'[e].project = edit[e].project /\ edit'[e].kind = kind
        /\ \A f \in Editors : f # e => edit'[f] = edit[f]
    BY <1>1, <2>1 DEF CommitEdit, TypeOK, Edits
  <2>3. CASE edit[e].project = p
    <3>1. Queued(p, Kinds)'
      BY <2>2, <2>3 DEF Queued, Edits
    <3> QED
      BY <3>1 DEF ListedKept, Coming
  <2>4. CASE edit[e].project # p
    <3>1. p \in Searchable \ withdrawn
      BY <1>0, <1>1, <2>1, <2>4 DEF CommitEdit, Searchable, TypeOK
    <3>2. Kept("projects", p)' = Kept("projects", p)
          /\ built'["projects"][p] = built["projects"][p]
      BY <1>1, <2>1, <2>4 DEF CommitEdit, TypeOK, Kept, Aged, Aliases, Collections
    <3>3. Queued(p, Kinds) => Queued(p, Kinds)'
      BY <2>1, <2>2 DEF Queued
    <3>4. /\ Coming(p, Kinds, committed) => Coming(p, Kinds, committed)'
          /\ Coming(p, Kinds, position) => Coming(p, Kinds, position)'
      BY <2>1, <3>3 DEF Coming, InLog
    <3>5. Brings(p)' <=> Brings(p)
      BY <2>1, <3>2 DEF Brings, Finds, InRequest
    <3> QED
      BY <1>0, <2>1, <3>1, <3>2, <3>4, <3>5 DEF ListedInv, ListedKept
  <2> QED
    BY <2>3, <2>4
<1>2. CASE Handlers \/ Drain
  <2>1. status' = status /\ withdrawn' = withdrawn /\ consumer' = consumer /\ index' = index
    BY <1>2 DEF Handlers, Drain, ReadProject, PushEdit, PushRemoval, CacheFails, TakeQueue,
                Send, SendFails, ApiCrash, requests
  <2>2. p \in Projects \ lost /\ p \in Searchable \ withdrawn
    BY <1>0, <2>1 DEF Searchable
  <2>3. /\ Coming(p, Kinds, committed) => Coming(p, Kinds, committed)'
        /\ Coming(p, Kinds, position) => Coming(p, Kinds, position)'
    <3>1. Kinds \in SUBSET Kinds /\ "removal" \in Kinds
      BY DEF Kinds
    <3> QED
      BY <1>2, <3>1, ProducerKeeps
  <2>4. /\ Kept("projects", p)' = Kept("projects", p) /\ work' = work
        /\ Brings(p)' <=> Brings(p)
    BY <2>1 DEF consumer, index, Kept, Brings, Finds, InRequest
  <2> QED
    BY <2>2, <2>3, <2>4 DEF ListedInv, ListedKept
<1>3. CASE Consume
  <2>1. /\ status' = status /\ withdrawn' = withdrawn
        /\ edit' = edit /\ queue' = queue /\ draining' = draining /\ log' = log
    BY <1>3 DEF Consume, Receive, BuildVersions, BuildChanges, Build, Apply, Commit,
                BatchFails, Restart, requests, producer
  <2>2. p \in Projects \ lost /\ p \in Searchable \ withdrawn /\ ListedKept(p)
    BY <1>0, <2>1 DEF Searchable, ListedInv
  <2>3. ASSUME NEW n \in position + 1 .. Len(log), Receive(n) PROVE ListedKept(p)'
    <3>1. /\ step = "receive" /\ step' = "buildVersions" /\ position' = n
          /\ committed' = committed /\ built' = built /\ docs' = docs
          /\ work'.removal = Received("removal", n)
          /\ work'.versions = Received("versions", n) \ work'.removal
          /\ work'.change = (Received("change", n) \ work'.removal) \ work'.versions
      BY <2>3 DEF Receive, index
    <3>2. p \notin work'.removal
      <4>1. ASSUME NEW i \in position + 1 .. n
            PROVE  ~(log[i].kind = "removal" /\ log[i].project = p)
        <5>1. i \in 1 .. Len(log)
          BY DEF TypeOK
        <5> QED
          BY <2>2, <5>1 DEF ListedInv, NoRemoval
      <4> QED
        BY <3>1, <4>1 DEF Received
    <3>3. ~Brings(p) /\ Kept("projects", p)' = Kept("projects", p)
      BY <3>1 DEF Brings, Finds, InRequest, Kept
    <3>4. Coming(p, Kinds, committed)' <=> Coming(p, Kinds, committed)
      BY <2>1, <3>1, SameComing
    <3>5. ASSUME Coming(p, Kinds, position) PROVE Coming(p, Kinds, position)' \/ Brings(p)'
      <4>1. CASE Queued(p, Kinds)
        BY <2>1, <4>1 DEF Coming, Queued
      <4>2. CASE InLog(p, Kinds, position)
        <5>1. PICK i \in position + 1 .. Len(log) : log[i].project = p /\ log[i].kind \in Kinds
          BY <4>2 DEF InLog
        <5>2. CASE i <= n
          <6>1. p \in Received(log[i].kind, n)
            BY <5>1, <5>2 DEF Received, TypeOK
          <6>2. p \in work'.versions \cup work'.change
            BY <3>1, <3>2, <5>1, <6>1 DEF Kinds
          <6> QED
            BY <3>1, <6>2 DEF Brings, Finds
        <5>3. CASE ~(i <= n)
          <6>1. i \in n + 1 .. Len(log)
            BY <5>1, <5>3 DEF TypeOK
          <6> QED
            BY <2>1, <3>1, <5>1, <6>1 DEF Coming, InLog
        <5> QED
          BY <5>2, <5>3
      <4> QED
        BY <3>5, <4>1, <4>2 DEF Coming
    <3> QED
      BY <2>2, <3>2, <3>3, <3>4, <3>5 DEF ListedKept
  <2>4. CASE BuildVersions \/ BuildChanges
    <3>1. /\ position' = position /\ committed' = committed /\ docs' = docs
          /\ work'.versions = work.versions /\ work'.change = work.change
          /\ p \in work'.removal => p \in work.removal
      BY <2>2, <2>4 DEF BuildVersions, BuildChanges, Build, index, TypeOK
    <3>2. /\ step = "buildVersions" => step' = "buildChanges"
             /\ (p \in work.versions => built'["projects"][p] = "fresh")
          /\ step = "buildChanges" => step' = "removeVersions"
             /\ (p \in work.change => built'["projects"][p] = "fresh")
             /\ (built["projects"][p] # "none" => built'["projects"][p] # "none")
          /\ step \in {"buildVersions", "buildChanges"}
      BY <2>2, <2>4 DEF BuildVersions, BuildChanges, Build, Aliases
    <3>3. Brings(p) => Brings(p)'
      BY <3>1, <3>2 DEF Brings, Finds, InRequest
    <3>4. /\ Coming(p, Kinds, committed)' <=> Coming(p, Kinds, committed)
          /\ Coming(p, Kinds, position)' <=> Coming(p, Kinds, position)
      BY <2>1, <3>1, SameComing
    <3>5. Kept("projects", p)' = Kept("projects", p)
      BY <3>1 DEF Kept
    <3> QED
      BY <2>2, <3>1, <3>3, <3>4, <3>5 DEF ListedKept
  <2>5. CASE Apply
    <3>1. /\ InRequest /\ step' = AfterRequest /\ position' = position
          /\ committed' = committed /\ work' = work /\ built' = built
          /\ Write(Alias, exists[Alias] \X Ids, New)
      BY <2>5 DEF Apply
    <3>2. Kept("projects", p)' = IF Alias = "projects" /\ p \in Ids
                                 THEN New[p] ELSE Kept("projects", p)
      <4>1. exists[Alias] = {"current"}
        BY NewType DEF Inv
      <4>2. PICK done : done = exists[Alias] \X Ids
        OBVIOUS
      <4>3. <<"current", p>> \in done <=> p \in Ids
        BY <4>1, <4>2
      <4> QED
        BY <3>1, <4>2, <4>3, WrittenIsBuilt
    <3>3. /\ Coming(p, Kinds, committed)' <=> Coming(p, Kinds, committed)
          /\ Coming(p, Kinds, position)' <=> Coming(p, Kinds, position)
      BY <2>1, <3>1, SameComing
    <3>4. Coming(p, Kinds, position) => Coming(p, Kinds, committed)
      BY ComingFromCommitted
    <3>5. built["projects"][p] # "none" => Coming(p, Kinds, committed)
      BY DEF Inv, ListedInv, InBatch, Aliases, Coming
    <3>6. /\ step = "removeVersions" => Kept("projects", p)' = Kept("projects", p)
                                        /\ step' = "removeProjects"
          /\ step = "removeProjects" => (Kept("projects", p)' = Kept("projects", p)
                                         \/ p \in work.removal)
                                        /\ step' = "clearVersions"
          /\ step = "clearVersions" => Kept("projects", p)' = Kept("projects", p)
                                       /\ step' = "clearProjects"
          /\ step = "clearProjects" => (Kept("projects", p)' = Kept("projects", p)
                                        \/ built["projects"][p] # "none")
                                       /\ step' = "importProjects"
          /\ step = "importProjects" => \/ Kept("projects", p)' # "none"
                                        \/ Kept("projects", p)' = Kept("projects", p)
                                           /\ built["projects"][p] = "none"
          /\ step = "importVersions" => Kept("projects", p)' = Kept("projects", p)
      BY <3>1, <3>2 DEF Alias, Ids, New, AfterRequest, BuiltDocs, NoDocs
    <3>7. /\ Brings(p) <=> step # "importVersions" /\ built["projects"][p] # "none"
          /\ Brings(p)' <=> step' # "importVersions" /\ step' # "commit"
                            /\ built["projects"][p] # "none"
      BY <3>1 DEF Brings, Finds, InRequest, AfterRequest
    <3>8. step' \in {"removeProjects", "clearVersions", "clearProjects", "importProjects",
                     "importVersions", "commit"}
      BY <3>1 DEF AfterRequest
    <3>9. step = "importProjects" => step' = "importVersions"
      BY <3>1 DEF AfterRequest
    <3> QED
      BY <2>2, <3>1, <3>3, <3>4, <3>5, <3>6, <3>7, <3>8, <3>9 DEF ListedKept, InRequest
  <2>6. CASE Commit
    <3>1. /\ step = "commit" /\ step' = "receive" /\ position' = position
          /\ committed' = position /\ docs' = docs /\ work' = NoWork
      BY <2>6 DEF Commit, NextBatch, index
    <3>2. /\ Coming(p, Kinds, committed)' <=> Coming(p, Kinds, position)
          /\ Coming(p, Kinds, position)' <=> Coming(p, Kinds, position)
      BY <2>1, <3>1, SameComing
    <3>3. ~Brings(p) /\ Kept("projects", p)' = Kept("projects", p)
      BY <3>1 DEF Brings, Finds, InRequest, Kept
    <3> QED
      BY <2>2, <3>1, <3>2, <3>3 DEF ListedKept, NoWork
  <2>7. ASSUME NEW done, Restart(done) PROVE ListedKept(p)'
    <3>1. /\ position' = committed /\ committed' = committed /\ work' = NoWork
          /\ Partly(done)
      BY <2>7 DEF Restart, NextBatch
    <3>2. /\ Coming(p, Kinds, committed)' <=> Coming(p, Kinds, committed)
          /\ Coming(p, Kinds, position)' <=> Coming(p, Kinds, committed)
      BY <2>1, <3>1, SameComing
    <3>3. Kept("projects", p)' = Kept("projects", p) \/ p \in InBatch
      <4>1. CASE InRequest
        <5>1. Write(Alias, done, New) /\ done \subseteq exists[Alias] \X Ids
          BY <3>1, <4>1 DEF Partly
        <5>2. Alias = "projects" /\ p \in Ids => p \in InBatch
          <6>1. built["projects"][p] # "none" => p \in InBatch
            BY DEF Inv, InBatch, Aliases
          <6> QED
            BY <4>1, <6>1 DEF InRequest, Alias, Ids, BuiltDocs, InBatch
        <5>3. <<"current", p>> \in done => p \in Ids
          BY <5>1
        <5>4. Kept("projects", p)' = IF Alias = "projects" /\ <<"current", p>> \in done
                                     THEN New[p] ELSE Kept("projects", p)
          BY <4>1, <5>1, WrittenIsBuilt
        <5> QED
          BY <5>2, <5>3, <5>4
      <4>2. CASE ~InRequest
        BY <3>1, <4>2 DEF Partly, Kept
      <4> QED
        BY <4>1, <4>2
    <3>4. p \in InBatch => Coming(p, Kinds, committed)
      BY DEF ListedInv, Coming
    <3> QED
      BY <2>2, <3>1, <3>2, <3>3, <3>4 DEF ListedKept, NoWork
  <2>8. ASSUME NEW done, BatchFails(done) PROVE ListedKept(p)'
    <3>1. /\ position' = position /\ committed' = committed /\ work' = NoWork
          /\ Partly(done) /\ step # "receive" /\ p \notin InBatch
      BY <2>8 DEF BatchFails, NextBatch, Fault, InBatch
    <3>2. /\ Coming(p, Kinds, committed)' <=> Coming(p, Kinds, committed)
          /\ Coming(p, Kinds, position)' <=> Coming(p, Kinds, position)
      BY <2>1, <3>1, SameComing
    <3>3. built["projects"][p] = "none"
      BY <3>1 DEF Inv, InBatch, Aliases
    <3>4. ~Brings(p)
      BY <3>1, <3>3 DEF Brings, Finds, InBatch
    <3>5. Kept("projects", p)' = Kept("projects", p)
      <4>1. CASE InRequest
        <5>1. Write(Alias, done, New) /\ done \subseteq exists[Alias] \X Ids
          BY <3>1, <4>1 DEF Partly
        <5>2. ~(Alias = "projects" /\ p \in Ids)
          BY <3>1, <3>3, <4>1 DEF InRequest, Alias, Ids, BuiltDocs, InBatch
        <5>3. <<"current", p>> \in done => p \in Ids
          BY <5>1
        <5>4. Kept("projects", p)' = IF Alias = "projects" /\ <<"current", p>> \in done
                                     THEN New[p] ELSE Kept("projects", p)
          BY <4>1, <5>1, WrittenIsBuilt
        <5> QED
          BY <5>2, <5>3, <5>4
      <4>2. CASE ~InRequest
        BY <3>1, <4>2 DEF Partly, Kept
      <4> QED
        BY <4>1, <4>2
    <3> QED
      BY <2>2, <3>1, <3>2, <3>4, <3>5 DEF ListedKept, NoWork
  <2> QED
    BY <1>3, <2>3, <2>4, <2>5, <2>6, <2>7, <2>8 DEF Consume
<1>4. CASE UNCHANGED vars
  <2>1. p \in Projects \ lost /\ p \in Searchable \ withdrawn /\ ListedKept(p)
    BY <1>4 DEF vars, requests, failures, Searchable, ListedInv
  <2> QED
    BY <1>4, <2>1 DEF vars, requests, producer, consumer, index, ListedKept, Coming, Queued,
                      InLog, Kept, Brings, Finds, InRequest
<1> QED
  BY <1>1, <1>2, <1>3, <1>4 DEF Next, Commits

THEOREM ListedKnown == Spec => []ListedInv
<1>1. Init => ListedInv
  BY DEF Init, ListedInv, NoRemoval, InBatch, NoWork, ListedKept, Kept, Searchable, Empty,
         Kinds, Aliases, Collections
<1>2. TypeOK /\ Inv /\ ListedInv /\ [Next]_vars => ListedInv'
  <2> SUFFICES ASSUME TypeOK, Inv, ListedInv, [Next]_vars PROVE ListedInv'
    OBVIOUS
  <2>1. ASSUME NEW p \in Projects \ withdrawn' PROVE NoRemoval(p)'
    <3>1. CASE Next
      BY <2>1, <3>1, RemovalsKept, SearchAssumption DEF ListedInv
    <3>2. CASE UNCHANGED vars
      BY <2>1, <3>2 DEF vars, requests, producer, ListedInv, NoRemoval
    <3> QED
      BY <3>1, <3>2
  <2>2. (\A p \in InBatch : InLog(p, Kinds, committed))'
    BY BatchUncommitted, SearchAssumption DEF ListedInv
  <2>3. ASSUME NEW p \in Projects \ lost', p \in (Searchable \ withdrawn)'
        PROVE  ListedKept(p)'
    BY <2>3, ListedStays, SearchAssumption
  <2> QED
    BY <2>1, <2>2, <2>3 DEF ListedInv
<1> QED
  BY <1>1, <1>2, TypeCorrect, Invariance, PTL DEF Spec

\* A listed project that has never been withdrawn, about which nothing is on its way and
\* nothing was lost, is found.
THEOREM ListedFound == Spec => []ListedIsFound
<1>1. TypeOK /\ Inv /\ ListedInv => ListedIsFound
  <2> SUFFICES ASSUME TypeOK, Inv, ListedInv, NEW p \in Projects \ lost, Settled(p),
                      p \in Searchable \ withdrawn
               PROVE  Shown("projects", p) = "fresh"
    BY DEF ListedIsFound
  <2>1. ~Coming(p, Kinds, committed) /\ ~Coming(p, Repairs("projects"), committed)
    BY SettledHasNothing DEF Repairs
  <2>2. Kept("projects", p) \in Docs /\ Shown("projects", p) = Kept("projects", p)
    BY DEF TypeOK, Kept, Shown, Inv, Aliases, Collections
  <2>3. Kept("projects", p) \notin {"none", "stale"}
    BY <2>1 DEF Inv, Mended, ListedInv, ListedKept, Aliases
  <2> QED
    BY <2>2, <2>3 DEF Docs
<1> QED
  BY <1>1, TypeCorrect, Invariance, ListedKnown, PTL
=============================================================================
