---------------------------- MODULE DocumentSync ----------------------------
(***************************************************************************)
(* How the replicas of one (legacy path) document exchange changes over    *)
(* GossipSub: PeerborneDocument._makeChange, endChange, sync, snapshot,     *)
(* _pruneChanges, _gcPrunedBlocks and _handleSyncRequest, with the change   *)
(* tree helpers of merkle-cross-links.ts and blockstore-gc.ts.              *)
(*                                                                          *)
(* A change is content addressed by its own block only, so the tree a       *)
(* message carries is the sender's account of the history.  Every tree the  *)
(* code builds is a spine of inline nodes (each change above the tree it    *)
(* extends) with leaves: deferred cross-links, and the access-control       *)
(* changes that pruning re-attaches where it cuts the spine.  Messages are  *)
(* never removed from the network: a message may be lost, delayed, repeated *)
(* or overtaken.  One replica's operations run in its mutation queue, one   *)
(* at a time; only the garbage collector spreads over several queue slots.  *)
(***************************************************************************)
EXTENDS Naturals, Sequences, FiniteSets, SequencesExt

CONSTANTS
  InitialWriters,   \* replicas the founding change made writers
  LateWriters,      \* replicas a later access-control change makes writers
  MAX_RECENT_TIPS,
  MAX_CROSS_LINKS,
  SnapshotInterval, \* compaction: changes between two snapshots
  MinChanges,       \* compaction: changes before the first snapshot
  KeepRecentNodes,  \* compaction: document nodes a pruned tree keeps
  GcAfterPrune,     \* compaction: delete the blocks of pruned changes
  Editors,          \* bound: the replicas that make changes
  MaxChanges,       \* bound: changes made by all replicas together
  MaxGrants,        \* bound: access-control changes among them
  MaxExtras         \* bound: failed fetches, publications and ACL merges,
                    \* explicit snapshots and answers to sync requests

Replicas == InitialWriters \cup LateWriters

ASSUME ConstantsAssumption ==
  /\ Replicas \subseteq Nat \ {0} /\ Editors \subseteq Replicas
  /\ MAX_RECENT_TIPS \in Nat \ {0} /\ MAX_CROSS_LINKS \in Nat
  /\ SnapshotInterval \in Nat \ {0} /\ MinChanges \in Nat /\ KeepRecentNodes \in Nat \ {0}
  /\ GcAfterPrune \in BOOLEAN
  /\ {MaxChanges, MaxGrants, MaxExtras} \subseteq Nat

VARIABLES
  rep,      \* [Replicas -> the in-memory state of the document]
  blocks,   \* [Replicas -> the change blocks in the local blockstore]
  gc,       \* [Replicas -> NoLease or the lease of the running collection]
  net,      \* the sync messages published so far
  below,    \* for every change made, the changes below its node (history)
  told,     \* [Replicas -> the hashes passed to remote-update handlers] (history)
  extras    \* faults, explicit snapshots and answered requests so far

vars == <<rep, blocks, gc, net, below, told, extras>>

NoSnapshot == [count |-> 0]
NoLease == [todo |-> {}]

(* A change: its author, its number among the author's changes, its kind. *)
Genesis == <<0, 0, "acl">>
Made == DOMAIN below
IsDoc(c) == c[3] = "doc"
Docs(S) == {c \in S : IsDoc(c)}
Acls(S) == S \ Docs(S)

(* String comparison of two CIDs, here the order of authors and numbers. *)
CidAfter(c, d) == c[1] > d[1] \/ (c[1] = d[1] /\ c[2] > d[2])

-----------------------------------------------------------------------------
(* Change trees.  A tree is the sequence of its spine nodes, root first.    *)

Children(t, i) ==
  t[i].sparse \cup t[i].acl \cup (IF i < Len(t) THEN {t[i + 1].cid} ELSE {})

Inline(t) == UNION {{t[i].cid} \cup t[i].acl : i \in DOMAIN t}

CollectTreeCIDs(t) == UNION {{t[i].cid} \cup Children(t, i) : i \in DOMAIN t}

TreeContainsCid(t, c) == c \in CollectTreeCIDs(t)

(* The children of the spine nodes that `known` admits as parents. *)
CollectReferencedAncestors(t, known) ==
  UNION {Children(t, i) : i \in {j \in DOMAIN t : t[j].cid \in known}}

(* The spine nodes mergeRemoteSyncTree walks: it stops at a known CID. *)
NewSpine(t, hashes) ==
  SelectInSeq(t, LAMBDA n : n.cid \in hashes)

UnknownPrefix(t, hashes) ==
  LET k == NewSpine(t, hashes) IN IF k = 0 THEN t ELSE SubSeq(t, 1, k - 1)

(* mergeRemoteSyncTree in walk order: the spine, then the inline leaves. *)
MergeRemoteSyncTree(t, hashes) ==
  LET p == UnknownPrefix(t, hashes)
      spine == [i \in DOMAIN p |-> p[i].cid]
      leaves == UNION {p[i].acl : i \in DOMAIN p} \ (hashes \cup ToSet(spine))
      sparse == UNION {p[i].sparse : i \in DOMAIN p}
  IN  [inline |-> spine \o SetToSeq(leaves),
       missing |-> sparse \ (hashes \cup ToSet(spine) \cup leaves)]

(* Two full descriptions of one CID must agree, and no path may return to   *)
(* a node it left: the receiver refuses any other tree as a whole.          *)
ValidateRemoteSyncTreeAliases(t) ==
  /\ IsInjective([i \in DOMAIN t |-> t[i].cid])
  /\ \A i, j \in DOMAIN t : t[i].cid \in t[j].acl => Children(t, i) = {}
  /\ \A i, j \in DOMAIN t : i <= j => t[i].cid \notin t[j].sparse \cup t[j].acl

(* The candidates all of whose delivered children are known or selected. *)
SelectAncestryClosedNodes(t, candidates, hashes) ==
  UNION {S \in SUBSET candidates :
           \A i \in DOMAIN t :
             t[i].cid \in S => Children(t, i) \subseteq hashes \cup S}

(* Least recently used tips are evicted first. *)
TrackTip(tips, c) ==
  LET s == Append(SelectSeq(tips, LAMBDA x : x # c), c)
  IN  IF Len(s) > MAX_RECENT_TIPS THEN Tail(s) ELSE s

TrackTips(tips, s) == FoldLeft(TrackTip, tips, s)

(* The newest tips other than the primary parent and the new change. *)
SelectCrossLinks(tips, parent, c) ==
  LET s == SelectSeq(tips, LAMBDA x : x # parent /\ x # c)
  IN  {s[i] : i \in {j \in DOMAIN s : Len(s) - j < MAX_CROSS_LINKS}}

-----------------------------------------------------------------------------
(* One replica's state *)

Root(s) == s.tree[1].cid
WritersOf(s) == IF s.acl = {Genesis} THEN InitialWriters ELSE Replicas
CurrentFrontier(s) == s.hashes \ s.refs

(* The bookkeeping of _makeChange for change c, before publication. *)
Node(s, c) ==
  [cid |-> c, sparse |-> SelectCrossLinks(s.tips, Root(s), c), acl |-> {}]

Attach(s, c) ==
  LET n == Node(s, c) IN
  [s EXCEPT !.hashes = @ \cup {c}, !.refs = @ \cup {Root(s)} \cup n.sparse,
            !.tips = TrackTip(@, c), !.tree = <<n>> \o @]

ShouldCompact(s) == s.count >= MinChanges /\ s.since >= SnapshotInterval

(* The access-control changes below spine node k that have a payload. *)
PreservedACL(t, k) == Acls(t[k].acl \cup Inline(SubSeq(t, k + 1, Len(t))))

(* Breadth-first count of document nodes when spine node i is visited:      *)
(* the queue holds the leaves of a node after the node below it.            *)
VisitedDocs(t, i) ==
  Cardinality(Docs({t[j].cid : j \in 1..i}))
    + FoldFunctionOnSet(+, 0, [j \in DOMAIN t |-> Cardinality(Docs(t[j].sparse))],
                        1..(i - 2))

ShouldPruneDocumentChildren(t, i) ==
  IsDoc(t[i].cid) /\ VisitedDocs(t, i) >= KeepRecentNodes

(* Mutant: the access-control changes below the cut are dropped. *)
PruneAll(t) ==
  LET cuts == {i \in DOMAIN t : ShouldPruneDocumentChildren(t, i)}
  IN  IF cuts = {} THEN [tree |-> t, pruned |-> {}]
      ELSE LET k == CHOOSE i \in cuts : \A j \in cuts : i <= j
               cut == Children(t, k) \cup CollectTreeCIDs(SubSeq(t, k + 1, Len(t)))
           IN  [tree |-> Append(SubSeq(t, 1, k - 1),
                                [cid |-> t[k].cid, acl |-> {}, sparse |-> {}]),
                pruned |-> Docs(cut)]

(* Cut the spine at the first document node beyond the limit and re-attach  *)
(* the access-control changes of the part cut off as leaves.                *)
PruneChanges(t) ==
  LET cuts == {i \in DOMAIN t : ShouldPruneDocumentChildren(t, i)}
  IN  IF cuts = {} THEN [tree |-> t, pruned |-> {}]
      ELSE LET k == CHOOSE i \in cuts : \A j \in cuts : i <= j
               cut == Children(t, k) \cup CollectTreeCIDs(SubSeq(t, k + 1, Len(t)))
               inl == PreservedACL(t, k)
           IN  [tree |-> Append(SubSeq(t, 1, k - 1),
                                [cid |-> t[k].cid, acl |-> inl,
                                 sparse |-> Acls(cut) \ inl]),
                pruned |-> Docs(cut)]

(* _snapshotUnlocked by writer r, with pruning. *)
SnapshotUnlocked(s, r) ==
  LET p == PruneChanges(s.tree) IN
  [s EXCEPT !.snap = [count |-> s.count, boundary |-> Root(s), state |-> s.doc, by |-> r],
            !.since = 0, !.tree = p.tree,
            !.cand = IF GcAfterPrune THEN @ \cup p.pruned ELSE @]

MaybeCompact(s, r) ==
  IF ShouldCompact(s) /\ r \in WritersOf(s) THEN SnapshotUnlocked(s, r) ELSE s

(* _refreshLastSyncMessageFromSync: replace the served tree by one that     *)
(* mentions its root.                                                       *)
RefreshLastSync(s, t) ==
  IF TreeContainsCid(t, Root(s)) /\ t[1].cid # Root(s) THEN [s EXCEPT !.tree = t] ELSE s

SnapshotIsNewer(a, b) ==
  \/ a.count > b.count
  \/ a.count = b.count /\ a # NoSnapshot /\ (b = NoSnapshot \/ CidAfter(a.boundary, b.boundary))

ApplySnapshot(s, a) ==
  IF a # NoSnapshot /\ SnapshotIsNewer(a, s.snap) /\ a.by \in WritersOf(s)
  THEN [s EXCEPT !.doc = @ \cup a.state, !.snap = a, !.since = 0,
                 !.count = IF a.count > @ THEN a.count ELSE @,
                 !.hashes = @ \cup {a.boundary}]
  ELSE s

(* The changes of a set recorded as applied, in the order of s. *)
Record(st, s) ==
  LET new == ToSet(s)
      n == Cardinality(Docs(new))
  IN  [st EXCEPT !.doc = @ \cup Docs(new), !.acl = @ \cup Acls(new),
                 !.hashes = @ \cup new, !.count = @ + n, !.since = @ + n,
                 !.tips = TrackTips(@, s)]

-----------------------------------------------------------------------------
Init ==
  /\ rep = [r \in Replicas |->
              [hashes |-> {Genesis}, doc |-> {}, acl |-> {Genesis}, refs |-> {},
               tips |-> <<Genesis>>, snap |-> NoSnapshot, count |-> 0, since |-> 0,
               tree |-> <<[cid |-> Genesis, sparse |-> {}, acl |-> {}]>>, cand |-> {}]]
  /\ blocks = [r \in Replicas |-> IF r \in InitialWriters THEN {Genesis} ELSE {}]
  /\ gc = [r \in Replicas |-> NoLease]
  /\ net = {}
  /\ below = (Genesis :> {})
  /\ told = [r \in Replicas |-> {Genesis}]
  /\ extras = 0

NewCid(r, kind) == <<r, Cardinality({c \in Made : c[1] = r}) + 1, kind>>

(* The change exists from the moment its block is stored. *)
PutBlock(r, c) ==
  /\ Cardinality(Made) <= MaxChanges
  /\ r \in Editors \cap WritersOf(rep[r])
  /\ blocks' = [blocks EXCEPT ![r] = @ \cup {c}]
  /\ LET kids == {Root(rep[r])} \cup Node(rep[r], c).sparse
     IN  below' = below @@ (c :> kids \cup UNION {below[k] : k \in kids})

Publish(r, s) == net' = net \cup {[by |-> r, tree |-> s.tree, snap |-> NoSnapshot]}

Extra == extras < MaxExtras /\ extras' = extras + 1

(* change() and endChange(): apply locally, attach, sign, publish, compact. *)
MakeChange(r) ==
  LET c == NewCid(r, "doc")
      s == Attach([rep[r] EXCEPT !.doc = @ \cup {c}], c)
  IN  /\ PutBlock(r, c)
      /\ Publish(r, s)
      /\ rep' = [rep EXCEPT ![r] =
                   MaybeCompact([s EXCEPT !.count = @ + 1, !.since = @ + 1], r)]
      /\ UNCHANGED <<gc, told, extras>>

(* change() throws: nothing is rolled back.  Signing fails before the tree  *)
(* is replaced, publication after it, a local handler after publication.    *)
ChangeFails(r, at) ==
  LET c == NewCid(r, "doc")
      s == Attach([rep[r] EXCEPT !.doc = @ \cup {c}], c)
  IN  /\ Extra /\ PutBlock(r, c)
      /\ IF at = "handler" THEN Publish(r, s) ELSE UNCHANGED net
      /\ rep' = [rep EXCEPT ![r] =
                   IF at = "sign" THEN [s EXCEPT !.tree = rep[r].tree] ELSE s]
      /\ UNCHANGED <<gc, told>>

(* The change as endChange() applies and records it. *)
Recorded(s, c) ==
  [Attach([s EXCEPT !.doc = @ \cup {c}], c) EXCEPT !.count = @ + 1, !.since = @ + 1]

(* The fields restored from copies (the document of an immutable provider), *)
(* and the references added since, which are removed.                       *)
Restored(before, made) ==
  [made EXCEPT !.doc = before.doc, !.tree = before.tree, !.count = before.count,
               !.since = before.since, !.tips = before.tips, !.refs = @ \cap before.refs]

(* Mutant: the hash of the failed change stays recorded. *)
RolledBackButHash(before, made) == Restored(before, made)

(* The hashes added since the transaction began are removed as well. *)
RolledBack(before, made) == [Restored(before, made) EXCEPT !.hashes = @ \cap before.hashes]

(* endChange() throws; a local handler fails only after publication. *)
TransactionFails(r, sent) ==
  LET c == NewCid(r, "doc")
      s == Recorded(rep[r], c)
  IN  /\ Extra /\ PutBlock(r, c)
      /\ IF sent THEN Publish(r, s) ELSE UNCHANGED net
      /\ rep' = [rep EXCEPT ![r] = RolledBack(@, s)]
      /\ UNCHANGED <<gc, told>>

CanGrant == Cardinality(Acls(Made)) <= MaxGrants

(* A staged writer addition: the ACL and the tree change after publication. *)
GrantWriter(r) ==
  LET c == NewCid(r, "acl")
      s == Attach(rep[r], c)
  IN  /\ CanGrant /\ PutBlock(r, c)
      /\ Publish(r, s)
      /\ rep' = [rep EXCEPT ![r] = [s EXCEPT !.acl = @ \cup {c}]]
      /\ UNCHANGED <<gc, told, extras>>

(* The publication fails (or its outcome is unknown) and is rolled back. *)
GrantFails(r, sent) ==
  LET c == NewCid(r, "acl")
      s == Attach(rep[r], c)
  IN  /\ CanGrant /\ Extra /\ PutBlock(r, c)
      /\ IF sent THEN Publish(r, s) ELSE UNCHANGED net
      /\ UNCHANGED <<rep, gc, told>>

(* snapshot(): an explicit compaction. *)
Snapshot(r) ==
  /\ Extra /\ r \in WritersOf(rep[r]) /\ SnapshotUnlocked(rep[r], r) # rep[r]
  /\ rep' = [rep EXCEPT ![r] = SnapshotUnlocked(@, r)]
  /\ UNCHANGED <<blocks, gc, net, below, told>>

-----------------------------------------------------------------------------
(* Receiving a message *)

(* Signed by a current writer, and a tree that validates. *)
Accepted(s, m) == m.by \in WritersOf(s) /\ ValidateRemoteSyncTreeAliases(m.tree)

(* The access-control pre-pass over the whole tree, then the snapshot. *)
PrePass(s, m) == ApplySnapshot([s EXCEPT !.acl = @ \cup Acls(Inline(m.tree))], m.snap)

Boundaries(s, m) == PrePass(s, m).hashes \ s.hashes

(* Everything delivered but the root is referenced, whether it applies. *)
Referenced(s, t) == [s EXCEPT !.refs = @ \cup (CollectTreeCIDs(t) \ {t[1].cid})]

Available(c) == \E q \in Replicas : c \in blocks[q]

(* sync(): the inline changes, then the deferred ones that can be fetched.  *)
(* A fetch that fails is only logged.                                       *)
Sync(r, m) ==
  /\ r # m.by /\ Accepted(rep[r], m)
  /\ \E s \in {Referenced(PrePass(rep[r], m), m.tree)} :
     \E e \in {MergeRemoteSyncTree(m.tree, s.hashes)} :
     \E direct \in {Record(s, Reverse(e.inline))} :
     \E got \in SUBSET {c \in e.missing : Available(c)} :
       /\ IF got = e.missing THEN UNCHANGED extras ELSE Extra
       /\ \E order \in SetToSeqs(got) :
          \E all \in {RefreshLastSync(Record(direct, order), m.tree)} :
            rep' = [rep EXCEPT ![r] = MaybeCompact(all, r)]
       /\ blocks' = [blocks EXCEPT ![r] = @ \cup got]
       /\ told' = [told EXCEPT ![r] =
                     @ \cup ToSet(e.inline) \cup got \cup Boundaries(rep[r], m)]
  /\ UNCHANGED <<gc, net, below>>

(* The access-control provider certifies that it refused a change in the    *)
(* pre-pass: the earlier entries are merged, nothing else is applied.       *)
PrePassRefused(r, m) ==
  /\ r # m.by /\ Extra /\ Accepted(rep[r], m)
  /\ \E merged \in SUBSET Acls(Inline(m.tree)) :
       /\ merged # Acls(Inline(m.tree))
       /\ rep' = [rep EXCEPT ![r] = [@ EXCEPT !.acl = @ \cup merged]]
  /\ UNCHANGED <<blocks, gc, net, below, told>>

(* rejectCertifiedACLMerge for a change sent inline: what was merged before *)
(* it is recorded if its ancestry is known; the references of the others    *)
(* are withdrawn, and no document change of the message is applied.         *)
WithdrawReferences(s, before, t) ==
  [s EXCEPT !.refs = before \cup CollectReferencedAncestors(t, s.hashes)]

(* What was recorded before the refusal propagates. *)
Notify(r, direct, got) == told' = [told EXCEPT ![r] = @ \cup direct \cup got]

DirectRefused(r, m) ==
  LET s == PrePass(rep[r], m)
      e == MergeRemoteSyncTree(m.tree, s.hashes)
  IN  /\ r # m.by /\ Extra /\ Accepted(rep[r], m)
      /\ \E i \in DOMAIN e.inline :
           LET done == Acls({e.inline[j] : j \in 1..(i - 1)})
               keep == SelectAncestryClosedNodes(m.tree, done, s.hashes)
               order == SelectSeq(e.inline, LAMBDA c : c \in keep)
           IN  /\ ~IsDoc(e.inline[i])
               /\ rep' = [rep EXCEPT ![r] =
                    WithdrawReferences(Record(s, Reverse(order)), s.refs, m.tree)]
               /\ Notify(r, keep, {})
          /\ UNCHANGED <<blocks, gc, net, below>>

(* The same for a fetched change: the workers in flight settle and what     *)
(* they applied is recorded and notified, but the tree is not refreshed.    *)
FetchedRefused(r, m) ==
  LET s == PrePass(rep[r], m)
      e == MergeRemoteSyncTree(m.tree, s.hashes)
      direct == Record(s, Reverse(e.inline))
      can == {c \in e.missing : Available(c)}
  IN  /\ r # m.by /\ Extra /\ Accepted(rep[r], m)
      /\ \E c \in Acls(can) : \E got \in SUBSET (can \ {c}) :
           /\ rep' = [rep EXCEPT ![r] =
                WithdrawReferences(Record(direct, SetToSeq(got)), s.refs, m.tree)]
           /\ blocks' = [blocks EXCEPT ![r] = @ \cup got \cup {c}]
           /\ Notify(r, ToSet(e.inline), got)
          /\ UNCHANGED <<gc, net, below>>

(* Replica r answers a request of q that does not know its root or its      *)
(* snapshot: its tree as it is, with the snapshot q lacks.                  *)
HandleSyncRequest(r, q) ==
  LET s == rep[r]
      known == {Root(rep[q])} \cup ToSet(rep[q].tips)
                 \cup (IF rep[q].snap = NoSnapshot THEN {} ELSE {rep[q].snap.boundary})
      sent == IF s.snap = rep[q].snap THEN NoSnapshot ELSE s.snap
  IN  /\ r # q /\ Extra
      /\ r \in WritersOf(s)
      /\ Root(s) \notin known \/ sent # NoSnapshot
      /\ net' = net \cup {[by |-> r, tree |-> s.tree, snap |-> sent]}
      /\ UNCHANGED <<rep, blocks, gc, below, told>>

-----------------------------------------------------------------------------
(* Garbage collection under a lease *)

Live(s) ==
  CollectTreeCIDs(s.tree) \cup ToSet(s.tips)
    \cup (IF s.snap = NoSnapshot THEN {} ELSE {s.snap.boundary})

FilterDeletableCIDs(s) == s.cand \ Live(s)

(* One queue slot selects the candidates and remembers what it looked at. *)
GcCapture(r) ==
  LET s == rep[r] IN
  /\ gc[r] = NoLease /\ s.snap # NoSnapshot /\ FilterDeletableCIDs(s) # {}
  /\ gc' = [gc EXCEPT ![r] = [todo |-> FilterDeletableCIDs(s), tree |-> s.tree,
                              snap |-> s.snap, tips |-> s.tips]]
  /\ UNCHANGED <<rep, blocks, net, below, told, extras>>

GcLeaseIsCurrent(l, s) == l.tree = s.tree /\ l.snap = s.snap /\ l.tips = s.tips

Rest(l, c) == IF l.todo = {c} THEN NoLease ELSE [l EXCEPT !.todo = @ \ {c}]

(* One queue slot per candidate: check the lease, delete.  A pinned block   *)
(* and a failed deletion leave the candidate; a stale lease ends the pass.  *)
GcDelete(r) ==
  \E c \in gc[r].todo :
    /\ GcLeaseIsCurrent(gc[r], rep[r])
    /\ blocks' = [blocks EXCEPT ![r] = @ \ {c}]
    /\ rep' = [rep EXCEPT ![r].cand = @ \ {c}]
    /\ gc' = [gc EXCEPT ![r] = Rest(@, c)]
    /\ UNCHANGED <<net, below, told, extras>>

GcKeep(r) ==
  /\ gc[r] # NoLease
  /\ \/ \E c \in gc[r].todo : gc' = [gc EXCEPT ![r] = Rest(@, c)]
     \/ ~GcLeaseIsCurrent(gc[r], rep[r]) /\ gc' = [gc EXCEPT ![r] = NoLease]
  /\ UNCHANGED <<rep, blocks, net, below, told, extras>>

-----------------------------------------------------------------------------
Next ==
  \E r \in Replicas :
    \/ MakeChange(r)
    \/ \E at \in {"sign", "publish", "handler"} : ChangeFails(r, at)
    \/ \E sent \in BOOLEAN : TransactionFails(r, sent)
    \/ \E sent \in BOOLEAN : GrantFails(r, sent)
    \/ GrantWriter(r)
    \/ Snapshot(r)
    \/ \E m \in net : Sync(r, m)
    \/ \E m \in net : PrePassRefused(r, m)
    \/ \E m \in net : DirectRefused(r, m)
    \/ \E m \in net : FetchedRefused(r, m)
    \/ \E q \in Replicas : HandleSyncRequest(r, q)
    \/ GcCapture(r) \/ GcDelete(r) \/ GcKeep(r)

Spec == Init /\ [][Next]_vars

-----------------------------------------------------------------------------
(* Properties *)

(* One spine node of a tree over the changes made. *)
NodeOK(n) == n.cid \in Made /\ n.sparse \subseteq Made /\ n.acl \subseteq Acls(Made)

(* The state of every replica is well formed; tips are bounded and without  *)
(* repetition.                                                              *)
TypeOK ==
  /\ \A r \in Replicas :
       LET s == rep[r] IN
       /\ s.hashes \cup s.refs \cup s.cand \cup ToSet(s.tips) \subseteq Made
       /\ s.doc \subseteq Docs(Made) /\ s.acl \subseteq Acls(Made)
       /\ Len(s.tips) <= MAX_RECENT_TIPS /\ IsInjective(s.tips)
       /\ \A i \in DOMAIN s.tree : NodeOK(s.tree[i])
       /\ blocks[r] \subseteq Made /\ told[r] \subseteq Made
  /\ extras \in 0..MaxExtras

(* A hash is never remembered as seen unless its change is in the document: *)
(* redelivery of a known hash is skipped, so a hash recorded without its    *)
(* change (by a rolled-back transaction, a refused message, a snapshot that *)
(* does not hold its boundary) would lose the change for good.              *)
KnownApplied ==
  \A r \in Replicas : Docs(rep[r].hashes) \subseteq rep[r].doc

(* The frontier (_hashes minus _referencedAncestors) stands for everything  *)
(* the replica has seen: each known change is a head or an ancestor of one. *)
(* A reference recorded for a change that was refused would hide a head.    *)
FrontierCovers ==
  \A r \in Replicas :
    LET heads == CurrentFrontier(rep[r])
    IN  rep[r].hashes \subseteq heads \cup UNION {below[c] : c \in heads}

(* Garbage collection never deletes a block that the served tree, a recent  *)
(* tip or the snapshot boundary still names when the deletion happens.      *)
LiveBlocksKept ==
  [][\A r \in Replicas : (blocks[r] \ blocks'[r]) \cap Live(rep[r]) = {}]_vars

(* A replica that makes a snapshot of its own keeps every access-control    *)
(* change in the pruned tree, with its payload where it had one: whoever    *)
(* loads from it still learns who may write.                                *)
AclSurvivesPruning ==
  [][\A r \in Replicas :
       (rep'[r].snap # rep[r].snap /\ rep'[r].snap.by = r /\ Root(rep'[r]) = Root(rep[r]))
       => /\ Acls(CollectTreeCIDs(rep[r].tree)) \subseteq CollectTreeCIDs(rep'[r].tree)
          /\ Acls(Inline(rep[r].tree)) \subseteq Inline(rep'[r].tree)]_vars

(* No replica publishes a tree that the alias validation of its receivers   *)
(* refuses, whatever it merged, adopted and pruned before: such a tree      *)
(* would be the base of all its later messages.                             *)
TreesValidate == \A m \in net : ValidateRemoteSyncTreeAliases(m.tree)

(* Every change of another replica that is recorded has been handed to the  *)
(* remote-update handlers, because a retry skips recorded hashes; the       *)
(* boundary of an applied snapshot is the exception, see DirectRefused.     *)
Told ==
  \A r \in Replicas : \A c \in rep[r].hashes :
    \/ c[1] = r
    \/ c \in told[r]
    \/ \E m \in net : m.snap # NoSnapshot /\ m.snap.boundary = c

(* The change count a replica compacts with is never behind the snapshot it *)
(* holds, so that its next snapshot is newer to everyone than the one it    *)
(* replaces.                                                                *)
CountCoversSnapshot ==
  \A r \in Replicas : rep[r].snap.count <= rep[r].count

(* Replacing the served tree never loses coverage: every change it named is *)
(* still named, unless the replica pruned it itself (merkle-cross-links.ts, *)
(* treeContainsCid: "the cache can be safely replaced without losing        *)
(* served-frontier coverage").                                              *)
CoverageNeverShrinks ==
  [][\A r \in Replicas :
       rep'[r].snap = rep[r].snap
         => CollectTreeCIDs(rep[r].tree) \subseteq CollectTreeCIDs(rep'[r].tree)]_vars

(* What a replica recorded it has applied, told of and covers with its      *)
(* frontier: nothing it will skip is missing from it.                       *)
ChangesCovered == KnownApplied /\ FrontierCovers /\ Told

(* What a replica serves stands by itself: its trees validate, the blocks   *)
(* they name are kept, pruning leaves the access-control history in them,   *)
(* and its snapshots supersede the ones they replace.                       *)
TreesServed ==
  /\ [](TreesValidate /\ CountCoversSnapshot)
  /\ LiveBlocksKept /\ AclSurvivesPruning
=============================================================================
