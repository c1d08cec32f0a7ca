--------------------------- MODULE IndexMaintenance ---------------------------
(***************************************************************************)
(* A local index of tracked documents: packages/index/src/index-manager.ts  *)
(* with the integration that feeds it, peerborne-index-integration.ts, and  *)
(* the store it writes, idb-index-storage.ts.                               *)
(*                                                                          *)
(* One index.  Operations of one document run in turn; those of an index    *)
(* generation wait until it is initialised and behind a rebuild; lifecycle  *)
(* operations run in turn.  A row is the version of its document, as the    *)
(* generation that wrote it indexed it.  The store's calls may fail.        *)
(*                                                                          *)
(* One session of the integration, which begins with an empty store and     *)
(* ends before dispose(): rows of an earlier session, which carry no        *)
(* version and are checked field by field against the definition, and a     *)
(* manager that outlives its integration are not modelled.                  *)
(***************************************************************************)
EXTENDS Integers, Sequences, FiniteSets

CONSTANTS
    Paths,          \* documents under the index's prefix
    InvalidVersions,\* versions whose fields the index definition rejects
    MaxVersion,     \* bound: changes of a document
    MaxGenerations, \* bound: definitions
    MaxWork,        \* bound: operations waiting of a path when it is tracked or untracked
    MaxLifecycle,   \* bound: lifecycle operations waiting at a time
    MaxRebuilds,    \* bound: rebuilds
    MaxFailures     \* bound: failures of the store

ASSUME IndexAssumption ==
    /\ InvalidVersions \subseteq Nat
    /\ {MaxVersion, MaxGenerations, MaxWork, MaxLifecycle, MaxRebuilds, MaxFailures} \subseteq Nat

VARIABLES
    content,        \* the version of each document
    tracked,        \* _trackedDocuments
    live,           \* _indexGenerations: the generation in force, 0 for none
    generations,    \* what became of each one: "ready" settles, or fails
    lifecycle,      \* _indexLifecycleOperations: those that wait, in turn
    broken,         \* the last one to settle was rejected and is still chained on
    work,           \* _documentOperations of each path
    rebuild,        \* the exclusive operation of the generation
    rebuilds, failures,
    rows,           \* the object store
    tainted,        \* paths whose last write failed
    query,          \* the latest query of the subscription
    shown,          \* the last result its callback saw
    reader          \* a query that waits for what was asked before it

indexVars == <<content, tracked, live, generations, lifecycle, broken, work, rebuild, rebuilds, failures,
               rows, tainted, query, shown, reader>>

NoRow == [version |-> 0, generation |-> 0]
NoRows == [p \in Paths |-> NoRow]
NoRebuild == [stage |-> "none", generation |-> 0, docs |-> NoRows, prior |-> {}, left |-> {}]
NoReader == [stage |-> "none", generation |-> 0, ahead |-> [p \in Paths |-> 0], need |-> [p \in Paths |-> 0], got |-> NoRows]

Versions(r) == [p \in Paths |-> r[p].version]

(* _notifySubscribers and subscribe: the subscription asks again, and only  *)
(* the answer to its latest question is shown.  Nothing is asked of an      *)
(* index that does not exist: its result is undefined at once.              *)
_notifySubscribers(g) ==
    query' = [stage |-> IF g = 0 THEN "answered" ELSE "asked", generation |-> g, result |-> NoRows]

-----------------------------------------------------------------------------
(* Lifecycle                                                                *)

defineIndex ==
    /\ live = 0 /\ Len(generations) < MaxGenerations /\ Len(lifecycle) < MaxLifecycle
    /\ live' = Len(generations) + 1
    /\ generations' = Append(generations, "pending")
    /\ lifecycle' = Append(lifecycle, [kind |-> "define", generation |-> Len(generations) + 1])
    /\ UNCHANGED <<content, tracked, broken, work, rebuild, rebuilds, failures, rows, tainted, query, shown, reader>>

removeIndex ==
    /\ Len(generations) > 0 /\ Len(lifecycle) < MaxLifecycle
    /\ lifecycle' = Append(lifecycle, [kind |-> "remove", generation |-> live])
    /\ live' = 0
    /\ IF live = 0 THEN UNCHANGED query ELSE _notifySubscribers(0)
    /\ UNCHANGED <<content, tracked, generations, broken, work, rebuild, rebuilds, failures, rows, tainted, shown, reader>>

Fails(fails) == ~fails \/ failures < MaxFailures
Failed(fails) == failures' = failures + IF fails THEN 1 ELSE 0

ChainRejected == broken

(* initialize() of the store keeps the rows of an unchanged definition.     *)
_initializeRows(same) == IF same THEN rows ELSE NoRows

DefineRuns(same, fails) ==
    LET g == Head(lifecycle).generation
    IN  /\ lifecycle # <<>> /\ Head(lifecycle).kind = "define"
        /\ ~ChainRejected /\ Fails(fails) /\ Failed(fails)
        /\ lifecycle' = Tail(lifecycle)
        /\ broken' = (fails /\ Len(lifecycle) > 1)
        /\ generations' = [generations EXCEPT ![g] = IF fails THEN "failed" ELSE "ready"]
        /\ live' = IF fails /\ live = g THEN 0 ELSE live
        /\ rows' = IF fails THEN rows ELSE _initializeRows(same)
        /\ UNCHANGED <<content, tracked, work, rebuild, rebuilds, tainted, query, shown, reader>>

(* A definition chained on a failed removal is rejected without running.    *)
DefineRejected ==
    LET g == Head(lifecycle).generation
    IN  /\ lifecycle # <<>> /\ Head(lifecycle).kind = "define"
        /\ ChainRejected
        /\ lifecycle' = Tail(lifecycle)
        /\ generations' = [generations EXCEPT ![g] = "failed"]
        /\ live' = IF live = g THEN 0 ELSE live
        /\ UNCHANGED <<content, tracked, broken, work, rebuild, rebuilds, failures, rows, tainted, query, shown, reader>>

InFlight(p, g) == work[p] # <<>> /\ Head(work[p]).stage # "queued" /\ Head(work[p]).generation = g

OperationsSettled(g) == (\A p \in Paths : ~InFlight(p, g)) /\ (rebuild.stage = "none" \/ rebuild.generation # g)

RemoveRuns(fails) ==
    /\ lifecycle # <<>> /\ Head(lifecycle).kind = "remove"
    /\ OperationsSettled(Head(lifecycle).generation)
    /\ Fails(fails) /\ Failed(fails)
    /\ lifecycle' = Tail(lifecycle)
    /\ broken' = fails
    /\ rows' = IF fails THEN rows ELSE NoRows
    /\ UNCHANGED <<content, tracked, live, generations, work, rebuild, rebuilds, tainted, query, shown, reader>>

-----------------------------------------------------------------------------
(* Documents                                                                *)

(* updateIndex and removeFromIndex capture the version and the generation.  *)
_enqueueDocumentOperation(p, kind, version) ==
    work' = IF live = 0 THEN work
            ELSE [work EXCEPT ![p] = Append(@, [kind |-> kind, version |-> version, generation |-> live,
                                                stage |-> "queued", behind |-> 0, existing |-> 0])]

changes(p) ==
    /\ content[p] < MaxVersion
    /\ content' = [content EXCEPT ![p] = @ + 1]
    /\ IF p \in tracked THEN _enqueueDocumentOperation(p, "update", content[p] + 1) ELSE UNCHANGED work
    /\ UNCHANGED <<tracked, live, generations, lifecycle, broken, rebuild, rebuilds, failures, rows, tainted, query, shown, reader>>

trackDocument(p) ==
    /\ p \notin tracked /\ content[p] > 0
    /\ Len(work[p]) < MaxWork
    /\ tracked' = tracked \cup {p}
    /\ _enqueueDocumentOperation(p, "update", content[p])
    /\ UNCHANGED <<content, live, generations, lifecycle, broken, rebuild, rebuilds, failures, rows, tainted, query, shown, reader>>

untrackDocument(p) ==
    /\ p \in tracked
    /\ Len(work[p]) < MaxWork
    /\ tracked' = tracked \ {p}
    /\ _enqueueDocumentOperation(p, "remove", 0)
    /\ UNCHANGED <<content, live, generations, lifecycle, broken, rebuild, rebuilds, failures, rows, tainted, query, shown, reader>>

(* An operation of p settles.  A removal asked for after a reader's query   *)
(* takes nothing from what that query is owed; one it waits for that fails  *)
(* rejects it.                                                              *)
Settles(p, deletes, fails) ==
    /\ work' = [work EXCEPT ![p] = Tail(@)]
    /\ rebuild' = [rebuild EXCEPT !.prior = @ \ {p}]
    /\ reader' = IF fails /\ reader.ahead[p] = 1 THEN NoReader
                 ELSE [reader EXCEPT !.ahead[p] = IF @ > 0 THEN @ - 1 ELSE 0,
                                     !.need[p] = IF deletes /\ reader.ahead[p] = 0 THEN 0 ELSE @]

(* It takes the barrier of its generation as it is: the rebuild it waits    *)
(* for, if any, is the one under way.                                       *)
_runIndexOperation(p) ==
    LET op == Head(work[p])
    IN  /\ work[p] # <<>> /\ op.stage = "queued" /\ live = op.generation
        /\ work' = [work EXCEPT ![p][1].stage = "waiting",
                                ![p][1].behind = IF rebuild.generation = live THEN rebuilds ELSE 0]
        /\ UNCHANGED <<content, tracked, live, generations, lifecycle, broken, rebuild, rebuilds, failures, rows, tainted, query, shown, reader>>

PassesBarrier(op) == generations[op.generation] = "ready"
MayRun(op) == generations[op.generation] = "ready" /\ (op.behind = rebuilds => rebuild.stage = "none")

(* Skipped, because the generation is gone by the time its turn comes or    *)
(* once it waited; or rejected with the definition it waits for.            *)
OperationSkipped(p) ==
    LET op == Head(work[p])
        rejected == op.stage = "waiting" /\ generations[op.generation] = "failed"
    IN  /\ work[p] # <<>> /\ live # op.generation
        /\ op.stage = "queued" \/ rejected \/ (op.stage = "waiting" /\ MayRun(op))
        /\ Settles(p, FALSE, rejected)
        /\ IF op.kind = "remove" /\ ~rejected THEN _notifySubscribers(live) ELSE UNCHANGED query
        /\ UNCHANGED <<content, tracked, live, generations, lifecycle, broken, rebuilds, failures, rows, tainted, shown>>

(* The row is read, or removed when the document is or its fields are bad.  *)
OperationReads(p) ==
    LET op == Head(work[p])
    IN  /\ work[p] # <<>> /\ op.stage = "waiting" /\ MayRun(op) /\ live = op.generation
        /\ op.kind = "update" /\ op.version \notin InvalidVersions
        /\ work' = [work EXCEPT ![p][1].stage = "read", ![p][1].existing = rows[p].version]
        /\ UNCHANGED <<content, tracked, live, generations, lifecycle, broken, rebuild, rebuilds, failures, rows, tainted, query, shown, reader>>

OperationDeletes(p, fails) ==
    LET op == Head(work[p])
    IN  /\ work[p] # <<>> /\ op.stage = "waiting" /\ MayRun(op) /\ live = op.generation
        /\ op.kind = "remove" \/ op.version \in InvalidVersions
        /\ Fails(fails) /\ Failed(fails)
        /\ rows' = IF fails THEN rows ELSE [rows EXCEPT ![p] = NoRow]
        /\ tainted' = IF fails THEN tainted \cup {p} ELSE tainted \ {p}
        /\ IF fails THEN UNCHANGED query ELSE _notifySubscribers(live)
        /\ Settles(p, TRUE, fails)
        /\ UNCHANGED <<content, tracked, live, generations, lifecycle, broken, rebuilds, shown>>

(* An unchanged row is not written.                                         *)
OperationWrites(p, fails) ==
    LET op == Head(work[p])
        unchanged == op.existing = op.version
    IN  /\ work[p] # <<>> /\ op.stage = "read"
        /\ Fails(fails) /\ Failed(fails) /\ ~(unchanged /\ fails)
        /\ rows' = IF fails \/ unchanged THEN rows
                   ELSE [rows EXCEPT ![p] = [version |-> op.version, generation |-> op.generation]]
        /\ tainted' = IF fails THEN tainted \cup {p} ELSE tainted \ {p}
        /\ IF fails \/ unchanged THEN UNCHANGED query ELSE _notifySubscribers(live)
        /\ Settles(p, FALSE, fails)
        /\ UNCHANGED <<content, tracked, live, generations, lifecycle, broken, rebuilds, shown>>

-----------------------------------------------------------------------------
(* rebuildIndex takes the documents as they are and waits for the           *)
(* operations in flight; those that start later wait behind it.             *)

rebuildIndex ==
    /\ live # 0 /\ rebuild.stage = "none" /\ rebuilds < MaxRebuilds
    /\ rebuilds' = rebuilds + 1
    /\ rebuild' = [stage |-> "waiting", generation |-> live,
                   docs |-> [p \in Paths |-> IF p \in tracked /\ content[p] \notin InvalidVersions
                                             THEN [version |-> content[p], generation |-> live] ELSE NoRow],
                   prior |-> {p \in Paths : InFlight(p, live)}, left |-> {}]
    /\ UNCHANGED <<content, tracked, live, generations, lifecycle, broken, work, failures, rows, tainted, query, shown, reader>>

RebuildClears(fails) ==
    /\ rebuild.stage = "waiting" /\ generations[rebuild.generation] # "pending" /\ rebuild.prior = {}
    /\ fails => live = rebuild.generation
    /\ Fails(fails) /\ Failed(fails)
    /\ tainted' = IF fails THEN Paths ELSE tainted
    /\ IF live = rebuild.generation /\ ~fails
       THEN /\ rows' = NoRows
            /\ rebuild' = [rebuild EXCEPT !.stage = "writing", !.left = {p \in Paths : rebuild.docs[p] # NoRow}]
       ELSE rebuild' = NoRebuild /\ UNCHANGED rows
    /\ UNCHANGED <<content, tracked, live, generations, lifecycle, broken, work, rebuilds, query, shown, reader>>

RebuildWrites(p) ==
    /\ rebuild.stage = "writing" /\ p \in rebuild.left
    /\ IF live = rebuild.generation
       THEN rows' = [rows EXCEPT ![p] = rebuild.docs[p]] /\ rebuild' = [rebuild EXCEPT !.left = @ \ {p}]
       ELSE rebuild' = NoRebuild /\ UNCHANGED rows
    /\ UNCHANGED <<content, tracked, live, generations, lifecycle, broken, work, rebuilds, failures, tainted, query, shown, reader>>

RebuildEnds(fails) ==
    /\ rebuild.stage = "writing" /\ Fails(fails) /\ Failed(fails)
    /\ fails \/ rebuild.left = {}
    /\ rebuild' = NoRebuild
    /\ tainted' = IF fails THEN Paths ELSE {}
    /\ IF fails THEN UNCHANGED query ELSE _notifySubscribers(live)
    /\ UNCHANGED <<content, tracked, live, generations, lifecycle, broken, work, rebuilds, rows, shown, reader>>

-----------------------------------------------------------------------------
(* Queries                                                                  *)

QueryExecutes ==
    /\ query.stage = "asked" /\ generations[query.generation] # "pending"
    /\ query' = IF live = query.generation THEN [query EXCEPT !.stage = "answered", !.result = rows]
                ELSE [query EXCEPT !.stage = "rejected"]
    /\ UNCHANGED <<content, tracked, live, generations, lifecycle, broken, work, rebuild, rebuilds, failures, rows, tainted, shown, reader>>

QueryAnswered ==
    /\ query.stage = "answered"
    /\ IF query.generation = live \/ query.generation = 0
       THEN shown' = Versions(query.result) /\ query' = [query EXCEPT !.stage = "shown"]
       ELSE query' = [query EXCEPT !.stage = "rejected"] /\ UNCHANGED shown
    /\ UNCHANGED <<content, tracked, live, generations, lifecycle, broken, work, rebuild, rebuilds, failures, rows, tainted, reader>>

(* A query that asks for 'indexed' consistency first flushes.               *)
ReaderAsks ==
    /\ reader.stage = "none" /\ live # 0 /\ generations[live] = "ready"
    /\ reader' = [stage |-> "flushing", generation |-> live,
                  ahead |-> [p \in Paths |-> Len(work[p])],
                  need |-> [p \in Paths |->
                      IF work[p] # <<>> /\ work[p][Len(work[p])].generation = live
                      THEN work[p][Len(work[p])].version ELSE rows[p].version],
                  got |-> NoRows]
    /\ UNCHANGED <<content, tracked, live, generations, lifecycle, broken, work, rebuild, rebuilds, failures, rows, tainted, query, shown>>

flush == reader.stage = "flushing" /\ \A p \in Paths : reader.ahead[p] = 0

ReaderReads ==
    /\ flush /\ lifecycle = <<>>
    /\ reader' = IF live = reader.generation THEN [reader EXCEPT !.stage = "read", !.got = rows] ELSE NoReader
    /\ UNCHANGED <<content, tracked, live, generations, lifecycle, broken, work, rebuild, rebuilds, failures, rows, tainted, query, shown>>

-----------------------------------------------------------------------------
IndexInit ==
    /\ content = [p \in Paths |-> 0] /\ tracked = {} /\ live = 0 /\ generations = <<>>
    /\ lifecycle = <<>> /\ broken = FALSE /\ work = [p \in Paths |-> <<>>]
    /\ rebuild = NoRebuild /\ rebuilds = 0 /\ failures = 0 /\ rows = NoRows /\ tainted = {}
    /\ query = [stage |-> "shown", generation |-> 0, result |-> NoRows]
    /\ shown = Versions(NoRows) /\ reader = NoReader

IndexNext ==
    \/ defineIndex
    \/ removeIndex
    \/ \E same, fails \in BOOLEAN : DefineRuns(same, fails)
    \/ DefineRejected
    \/ \E fails \in BOOLEAN : RemoveRuns(fails)
    \/ \E p \in Paths : changes(p)
    \/ \E p \in Paths : trackDocument(p)
    \/ \E p \in Paths : untrackDocument(p)
    \/ \E p \in Paths : OperationSkipped(p)
    \/ \E p \in Paths : _runIndexOperation(p)
    \/ \E p \in Paths : OperationReads(p)
    \/ \E p \in Paths, fails \in BOOLEAN : OperationDeletes(p, fails)
    \/ \E p \in Paths, fails \in BOOLEAN : OperationWrites(p, fails)
    \/ rebuildIndex
    \/ \E fails \in BOOLEAN : RebuildClears(fails)
    \/ \E p \in Paths : RebuildWrites(p)
    \/ \E fails \in BOOLEAN : RebuildEnds(fails)
    \/ QueryExecutes
    \/ QueryAnswered
    \/ ReaderAsks
    \/ ReaderReads

IndexSpec == IndexInit /\ [][IndexNext]_indexVars

-----------------------------------------------------------------------------
Settled == lifecycle = <<>> /\ rebuild.stage = "none" /\ \A p \in Paths : work[p] = <<>>
(* Once everything asked of it has settled, the index holds the current     *)
(* version of a document it has a row for, and no row of one that is no     *)
(* longer tracked: updates, removals and rebuilds in flight together do not *)
(* leave an old version behind.                                             *)
IndexConverges ==
    Settled /\ live # 0 =>
        \A p \in Paths \ tainted :
            rows[p] # NoRow => p \in tracked /\ rows[p].version = content[p]

(* A generation that can be queried holds no row of an earlier one, and a   *)
(* removed index no row at all, whichever operations were in flight or      *)
(* failed when it was removed.                                              *)
NoRowsOfRemovedIndex ==
    /\ live # 0 /\ generations[live] = "ready" => \A p \in Paths : rows[p] # NoRow => rows[p].generation = live
    /\ live = 0 /\ Settled /\ ~broken => rows = NoRows

(* The last result a subscription was shown is that of the settled index.   *)
ShownIsCurrent ==
    Settled /\ tainted = {} /\ failures = 0 /\ query.stage = "shown" => shown = Versions(rows)

(* A query that asks for 'indexed' consistency sees every update asked for  *)
(* before it, unless a rebuild came between.                                *)
ReadsIndexed ==
    reader.stage = "read" /\ rebuilds = 0 =>
        \A p \in Paths : p \in tracked /\ reader.need[p] \notin InvalidVersions =>
            reader.got[p].version >= reader.need[p]

(* An index that has settled holds nothing but current versions of tracked  *)
(* documents, whatever was changed, redefined or rebuilt meanwhile; a       *)
(* removed index has no rows, a query sees what was indexed before it was   *)
(* asked, and the subscription shows the answer to its last question.       *)
IndexFollows == IndexConverges /\ NoRowsOfRemovedIndex /\ ShownIsCurrent /\ ReadsIndexed
===============================================================================
