# TLA+ models of Peerborne

Peerborne synchronises CRDT documents between browsers without a trusted
server. This directory models, checks and proves properties of it: the
**coordinated document** of `packages/core` with the write-ahead journal and the
group security coordinator it stands on, the older (BeeKEM) document path with
its access control, keys, load and synchronisation, and the services around a
document: indexes, framework bindings, relay.

- [Inventory](#inventory)
- [Modules](#modules)
- [Runs](#runs)
- [Proofs](#proofs)
- [What is not covered](#what-is-not-covered)
- [Observations](#observations)
- [Plan](#plan)

Commands, in this directory:

    tlc -workers 2 -config JournalShared.cfg DocumentJournal
    tlc -workers 2 -config Group.cfg MCGroupSecurity
    tlapm GroupSecurity_proofs.tla

`PROJECT.json` lists components, runs, mutants, hazards and theorems, and maps
every definition that models code to its source lines.

## Inventory

Paths are relative to `src/packages/core/src` unless they start with `src/`.

| Component | State | Operations | Talks to |
| --- | --- | --- | --- |
| **Replay journal** `document-replay-journal.ts` | head, accepted publication bindings, pending bindings, retained count and bytes, a `failed` flag | `restore`, `prepare`, `commit` and `discard` of a prepared entry, `pendingPublications`, `publicationSent`, `needsCheckpoint` | its store, the rollback anchor |
| **Journal store** `document-journal-store.ts` | rows, head record, staged entry, outbox | one transaction each for snapshot, stage, commit, discard, outbox read, publication sent | IndexedDB, shared by tabs, or memory |
| **Coordinated document** `coordinated-document.ts` | document, receipts per author, receipt context, persisted role revision, modes open, failed and closed | `change`, `receive`, `applyAuthorityUpdate`, `activate`/recover, publication, `close` | journal, gate, authority log, CRDT session, pubsub |
| **Authority log** `document-authority-log.ts` | chain of signed role records | `signUpdate`, `applyUpdate`, `restore`, `capture`, `export` | coordinator, document |
| **Operation gate** `group-document-operation.ts` | local and shared budget, phase of each operation, retained work | `run`, `work.observe`, cancel, finish | coordinator's exclusive queue |
| **Security coordinator** `group-security-coordinator.ts` | group state, control chain, deliveries, poisoned flag, exclusive queue | bootstrap, key packages, propose, commit, receive, join, deliver, recover | group store, anchor, network, MLS provider |
| **Group store, anchor, durable acceptance** `group-state-store.ts`, `group-security-*.ts` | sealed group states by revision, rollback anchor | load, compare-and-swap, quarantine, advance, poison, retire | IndexedDB, protector |
| **Membership control records** `membership-control-record.ts` | signed records of a group's changes | create, verify, accept | coordinator |
| **Invitations** `invitation-*.ts`, `pending-welcome-buffer.ts` | offers, replay claims, buffered Welcomes | accept, answer, park, prune, replay | document node |
| **Document node** `peerborne-document.ts`, `peerborne.ts`, `connection.ts` | change DAG, ACL, keys, handlers, registry | open, load, change, sync, compact, GC, close | libp2p, blockstore |
| **Initial load** `load-quorum*.ts` | votes of a round | probe, tally, narrow, apply | document node |
| **Sync requests** `policy/sync-request.ts` | clock, replay ledger, spacing | request, answer | document node |
| **Access control** `ucan-acl.ts`, `acl-chain.ts`, `acl.ts` | capability entries, hash chain, member lists | grant, revoke, merge, verify | document node |
| **Key management** `beekem/`, `keychain*.ts` | ratchet tree, key history | add, remove, update, Welcome, restore, merge | document node |
| **CRDT adapters** `src/packages/{automerge,yjs,loro}` | documents, member lists, keychains | stage, claim, merge | document node |
| **Framework bindings** `src/packages/{react,redux,store,vue,svelte,tanstack-db}` | open documents, subscriptions | open, close, change, release | document node |
| **Indexes and federated search** `src/packages/index` | rows, advertisements | update, rebuild, query, search | document node, peers |
| **Relay** `src/relay-server/src` | topic and peer index, connection and traffic limits | subscribe, disconnect, reconcile, meter | libp2p |
| **Wire codecs and crypto helpers** | none | encode, hash, sign | all |
| **Proof project and tests** `src/verification`, `*.test.ts` | none | | |

### How the modelled parts interact

    application ── change/receive ──> CoordinatedDocument ── prepare/commit ──> DocumentReplayJournal
                                        │        │                                   │        │
                                        │        └─ capture ──> DocumentAuthorityLog │        └─ compareAndSwap ─> anchor
                                        └─ runDocumentOperation ─> gate ─> queue     └─ transactions ─> store
                                                                           │
    pubsub <── retrySecurityPublications ── outbox          coordinator ── group store, group anchor, MLS provider

A change is prepared outside any lock (key derivation, signature, encryption,
journal staging), becomes visible in a short synchronous step if the group
context and the roles are still those it was prepared for, and is then accepted
by the journal. Its frame may go to pubsub only after that. The coordinator
serves the group context; its own state goes through a second pair of store and
anchor. The BeeKEM path has one mutation queue per document instead: loads,
syncs, ACL merges, key changes and invitations take turns in it, while stream
deadlines, verifications and notifications run beside it.

### What is hard

- Two stores that fail separately (store and anchor), calls that take effect
  although they report an error, crashes between the two, storage that falls
  back to an older image, several tabs or processes over one storage key.
- Publication at least once, but never of a change that was not accepted; no
  sequence number with two different frames, across crashes and reuse.
- Group context and role history that change independently of each other and of
  the operations in preparation; competing and dishonest records.
- Timers racing commits, callbacks that never settle, budgets that must not leak
  or be overdrawn.
- State read before an await and used after it: votes, writer lists, ACL caches,
  registries, activations; a wall clock that jumps.
- Messages late, twice, out of order, or before what they depend on: change
  trees, ACL changes, keys, Welcomes, join requests.

`PROJECT.json` has the hazards with their lines and the properties that guard
them.

### What makes each part correct

- *Journal*: one linear accepted history; what is acknowledged survives; frames
  go out only after acceptance and do go out; the journal stays openable;
  checkpoints are asked for in time.
- *Coordinated document*: no equivocation; receipts match content; only
  authorized content, in its context; causal closure; restart loses nothing.
- *Gate*: exact credits; bounded work; a cancelled operation is never applied;
  commits only in the captured context; callers are answered.
- *Coordinator*: usable processes serve one line of states; records promised are
  delivered; poisoned and removed are terminal; honest members agree on history
  and roster although one member signs what it likes.
- *Invitation, load, sync*: one link admits one recipient; what is loaded was
  agreed on by distinct authorities; what is recorded as seen was applied.
- *Access and keys*: a removed member stays removed, is without later keys and
  can be revoked; replicas agree on current keys.
- *Services*: answers once, to members; one open instance per path; indexes
  follow documents; bindings hold what the node has open; the relay stays within
  its limits; all delivery ends.

## Modules

| Module | Models |
| --- | --- |
| **Coordinated path** | |
| `DocumentJournal` | journal, store, anchor, publication loop, faults; inductive invariants and refinement mapping |
| `AcceptedLog` | what the journal promises: one append-only log |
| `CoordinatedDocument` | documents, role histories, receipts, over journals reduced to their promise |
| `DocumentOperationGate` | budgets, preparation, cancellation, commit turn, release |
| `GroupSecurity` | coordinators sharing a group store and an anchor: key packages, create, join, commit, remove, outbox, forks, restart |
| `GroupLineage` | what the coordinators promise together: one line that grows at its end and may stop for good |
| `MembershipControl` | control records between honest members and one that signs what it likes |
| **BeeKEM path** | |
| `DocumentLoad` | initial load and quorum against honest and Byzantine peers |
| `DocumentSync` | exchange, snapshot, pruning and garbage collection of change trees |
| `DocumentMembership` | role changes of a document with ACL cache, key tree leaves and staged commits |
| `DocumentWelcome` | Welcomes and path updates, the buffer of early ones, the first load's drain |
| `Invitation` | offers, claims, replay guard, founder and recipient processes |
| `DocumentSession` | register, open and close of legacy and coordinated documents, with the node replaced at any await; batches of change functions |
| `SharedProtocols`, `UpdateNotifications` | stream deadlines and aborts; notification of handlers |
| `SyncRequests` | clock, freshness, replay ledger and answers |
| `MemberList`, `UCANACL`, `ACLChain` | replicated member lists, capabilities over them, hash chain of changes |
| `BeeKEM`, `KeychainHistory` | ratchet tree with its arithmetic; key histories of both adapters |
| **Around a document** | |
| `IndexMaintenance`, `IndexQuery`, `FederatedSearch`, `RoutingAdvertisements` | index updates and rebuilds, planned and paged queries, search over peers, its registry |
| `DocumentStore`, `ReactDocuments`, `ReduxDocuments` | framework bindings |
| `RelayServer` | topic registry and metered gateway of the relay |
| **Checking and proof** | |
| `MC*` | instances for TLC: symmetry sets, small sets, scenarios |
| `DocumentJournalSafety_proofs`, `DocumentJournalStorage_proofs` | theorems about the journal |
| `DocumentOperationGate_proofs`, `CoordinatedDocument_proofs`, `GroupSecurity_proofs` | theorems about gate, document and coordinator |
| `DocumentLoad_proofs`, `Invitation_proofs` | theorems about load and invitation |
| `Services_proofs` | theorems about sync requests, sessions, transactions, indexes and the relay |

The header of a module says which source it models, what an action stands for
and what is abstracted; the comment of an operator that is not plain from its
name says which code it is. Operators whose comment begins with *A bug* or
*Mutant* are wrong versions of the definition after them, which no module uses.
Every property is broken by such a version under its own configuration
(`PROJECT.json`, "mutants"), which shows that it can fail; a property that is a
conjunction of several has further ones in its module for its other parts.

Rules common to all modules: signatures, hashes, digests and encryption are
perfect and injective, random values never collide, a payload is an identity or
a small number. An action is the code between two awaits that another actor may
slip into; a queue of the code that excludes them makes a whole operation one
action. A call that reports an error after it took effect is the step that takes
effect, followed by the failure.

### DocumentJournal

Every `Owner` is a `DocumentReplayJournal` object over the same storage key. An
action is one stretch of code between two awaits on shared state, and `pc[o]`
says where the owner is; `"failed"` is the `failed` flag.

| Code | Actions |
| --- | --- |
| `restore()` | `LoadSnapshot`, `LoadAnchor`, `FinishAnchor`, `RecheckAnchor`, `DiscardStaged`, `FinishRestore`, `RejectOutbox` |
| `prepare()`, `discard()` | `BeginPrepare`, `CheckAnchor`, `Stage`, `Discard` |
| `commit()` of the prepared entry | `CommitStore`, `VerifyHead`, `SwapAnchor`, `ConfirmAnchor`, `RefuseConfirm` |
| `pendingPublications()`, `publicationSent()`, `retrySecurityPublications` | `ListOutbox`, `ReleaseOutbox`, `Publish`, `PublicationSent` |
| errors and environment | `RejectCall`, `AbortBatch`, `Crash`, `Reopen`, `LandLate`, `Backup`, `Rollback` |

A preparation is a fresh number that stands for its random token, its entry
digest, its frame and its change. What is read back was written by some owner.
Entry contents are the set of changes they carry, sizes are small numbers, and
the byte limit of the outbox is merged with its count limit. An anchor swap in
flight when its caller gives up may also land later (`late`). The documentation
asks for one owner per journal; several are modelled because two tabs can open
one anyway and the code defends itself against it. The in-memory store follows
the same contract as the IndexedDB one and is not a second module.

### CoordinatedDocument

Every member runs one document over its own journal. The journal is reduced to
the promise shown by `DocumentJournal`: `commit()` resolves with the entry
accepted, or fails with the entry accepted or not, and recovery returns the
accepted entries in order from the last checkpoint. A frame is a record with
author, context, role head, sequence, the parent's number, and the changes it
depends on; a frame sent is in `net` for ever, so it may be delivered late, any
number of times, or never.

| Code | Actions |
| --- | --- |
| `change()`, `receive()`, `apply()` | `BeginChange`, `BeginReceive`, `Finalize`, `Cancel`, `JournalCommit` |
| `applyAuthorityUpdate()` | `BeginRole`, `RoleCheckpoint`, `JournalCommit` |
| `DocumentAuthorityLog` | `Sign`, `ApplyUpdate`, `Provision` (restore) |
| group transitions, as the document sees them | `AdvanceEpoch` |
| publication retry, `close()`, construction and recovery | `Publish`, `Close`, `Open` |
| environment | `Crash` |

Frames that are rejected and replays change no state, so they are no actions.
Preparation and installation of a role record are one step, because `commit`
checks again what `prepare` found. One controller is fixed; rosters are sets of
writers; competing records for one context are possible.

### DocumentOperationGate

One record per call of `run()`. `at` is where its asynchronous function is,
`phase` the phase variable, `answer` how the promise given to the caller has
settled (`Promise.race`), `result` how the function will settle.

| Code | Actions |
| --- | --- |
| admission, `reserve()` | `Run` |
| `capture` hook in the exclusive queue | `Capture` |
| preparation and `work.observe` | `Observe`, `Settle`, `Quarantine`, `EndPrepare` |
| `deriveDocumentEncryptionMaterial` | `BeginDerive`, `EndDerive` |
| `commit` hook, `finish()` | `BeginCommit`, `Finish` |
| timer and signal | `Cancel` |
| `finally` block | `StopTimer`, `Release` |
| other tasks of the coordinator | `BeginTransition`, `EndTransition`, `ChangeRole` |

The queue is the name of the task in it. Guard and finalizer are arbitrary
callbacks: they may refuse, throw, or return something they should not, a
promise included.

### GroupSecurity and MembershipControl

A record of `co[o]` is a process: its provider, its coordinator's memory, the
state its operation aims at (`want`) and how far that operation is. A control
record is the chain of operation ids that leads to it, so a record fixes its
ancestors; a store commitment is the snapshot it commits to.

| Code | Actions |
| --- | --- |
| key packages, creation, joining | `CreatePackage`, `RetryPackage`, `Bootstrap`, `Join`, `Import` |
| commits made, applied, and removal of this member | `CreateCommit`, `ApplyCommit`, `AcceptLocalRemoval`, `RetireAnchor`, `RetireRefused`, `PrepareFails` |
| write to the store and its confirmation | `Write`, `WriteRefused`, `Confirm`, `ConfirmFails` |
| anchor, reconciliation after an ambiguous answer, rollback of the provider | `AdvanceAnchor`, `AdvanceFails`, `Reconcile`, `PersistAmbiguity`, `Undo` |
| restore of a coordinator with its replay window | `Restore` |
| forks | `DetectFork`, `AuditFork` |
| outbox delivery, acceptance or failure of a receiver, terminal notice | `FlushOutbox`, `SendAccepted`, `SendFails`, `NoticeTerminal` |
| environment | `Crash`, `Replace` (a new process), `TakeBackup`, `SetBack` |

Reads that verify store and anchor against a remembered value are part of the
step they precede, since no value comes back once it was replaced (and when the
store is set back, the anchor no longer matches). What a record's payload must
say to be accepted is not looked at here: `MembershipControl` models it, without
stores and crashes, for following members, for joiners, and for one dishonest
member that signs records over commits and Welcomes of its own or of others.

### Modules of the other parts

- `DocumentLoad` numbers the states of the shared history; a forged one is a
  number no honest peer held. One replica loads, once or more, from peers that
  answer, withhold or lie, while writers change.
- `DocumentSync` keeps trees as the spine of inline nodes with deferred leaves
  that every tree built by the code is. Messages are never removed.
- `DocumentMembership` reduces BeeKEM to its leaves and the key of each;
  `BeeKEM` is the tree itself, with commits that race and restarts from old
  checkpoints, and compares its iterative arithmetic with a recursive reference.
- `MemberList` and `KeychainHistory` hold the operations of the CRDT libraries
  as the adapters use them: past and dependencies of an operation, paths of
  authored entries. The libraries are external.
- `Invitation` follows founder and recipient through every await, with the clock
  and restarts; `DocumentWelcome` has the receive side of the keys that follow.
- `ReactDocuments`, `ReduxDocuments` and `DocumentStore` each hold the document
  node reduced to one open document per path (`registerDocument`), which
  `DocumentSession` models.
- `IndexQuery` explores conditions as trees over rows, and compares the planned,
  paged walk of an index with a scan.

## Runs

All runs pass except the last, which is expected to find a violation. Distinct
states are those TLC reports, after symmetry reduction where there is one.

| Run | Instance | States | Checks |
| --- | --- | --- | --- |
| `JournalShared` | two owners, three entries, outbox of one, two preparations, a fault, fairness | 294 k | `Reopenable`, `NoPublicationLost`, `RefinesAcceptedLog`, `JournalServes` |
| `JournalRecovery` | one owner at a time fills rows, bytes and outbox; or two owners, two faults and a store that falls back to two earlier images | 824 k | `AccountsKept`, `ViewIsAcceptedPrefix`, `AckedSurvives`, `PublishedOnlyAccepted` |
| `Document` | two members, three contexts, two changes each, checkpoint after two entries; faults, or role records and their histories | 1.2 M | `NoEquivocation`, `ReceiptsExact`, `HistoryKept`, `JournalRecovers`, `ContentAdmitted` |
| `Gate` | two operations compete for two coordinators' budgets, or meet a transition and a role change of one | 807 k | `WorkAccounted`, `CancelledNeverApplied`, `AppliedInContext`, `CallerAnswered` |
| `Group` | two processes; joins, or a store set back, or two commits in the outbox; windows of one and two | 367 k | `OneLine`, `PromisesKept`, `RefinesLineage`, `OutboxDrains` |
| `Invitation` | two offers and two recipients at once; or one offer with repeated, aborted, expired and unusable requests | 502 k | `OneTimeLink` |
| `LoadQuorum` | an honest peer, a Byzantine authority behind two, quorum of two of three, two loads | 806 k | `LoadSound`, `LoadEnds` |
| `SyncChanges` | three replicas, three changes, a grant, every limit at its smallest | 311 k | `ChangesCovered`, `TreesServed` |
| `Access` | keychains, lists, capabilities, chain, role changes, control records | 332 k | `KeysKept`, `ListsSound`, `RevocationHolds`, `MembersAgree` |
| `Services` | sync requests, sessions, transactions, index, key tree, bindings | 812 k | `RequestsAccounted`, `SessionsExclusive`, `IndexFollows`, `TreeKeepsSecrets`, `BindingsSettle` |
| `Delivery` | protocols, notifications, search, queries, relay, gateway, routing, Welcomes | 194 k | `ObserversServed`, `SearchesExact`, `RelayBounded`, `WelcomesKept`, `DeliveryEnds` |
| `SyncCoverage` | two replicas, six changes, the limits of the code | stops at the violation | `CoverageNeverShrinks` |

A run with several *scenarios* or *components* chooses one in its initial state.
A scenario bounds the model further than the constants do, so that what takes
many steps in one respect has few in the others. Components of `Access`,
`Services` and `Delivery` are modules that share no state; a behaviour is one of
the chosen component while the others stay in their initial state, so a state
of the run is a state of one component and nothing is multiplied.

### What they show

- **Journal.** Two tabs, a store and an anchor, with crashes at any await and
  late swaps, implement one append-only log of which open journals see prefixes.
  While storage keeps what it acknowledged, no interleaving leaves a journal
  that refuses to open, queued frames go out, and some owner is current again
  and again. If storage does fall back, a journal that opens nevertheless shows
  exactly the accepted history up to its head.
- **Documents.** Receipts and content agree through compaction, restart and
  change of context; a number that went out is never used for another frame; a
  restart from a journal has the role history its entries name.
- **Gate.** Budgets match the operations in progress, retained work included;
  `aborted` and `timeout` are promises that nothing was or will be applied, and
  a timer gives every caller an answer.
- **Group.** Of processes that share a store, the usable ones are on one line,
  which grows at its end only; poisoned and removed are final; a record told to
  be committed is delivered or still in the outbox.
- **Invitation, load, sync.** One recipient per link; what is installed was
  agreed on by distinct authorities, is fresh and whole; what a replica records
  as seen it has applied and serves.
- **Access, keys.** Removal is effective and revocable, honest members share one
  history and roster, replicas choose one current key.
- **Services, delivery.** Answers go once and to members, one instance per path
  is open, indexes equal their definition once settled, bindings hold what the
  node has open, limits of the relay are exact and every delivery ends.

`SyncCoverage` is a disagreement of code and comment: `treeContainsCid`
(`merkle-cross-links.ts:742`) takes a deferred link to the cached root for the
root with all below it, and the replica then serves a tree without the changes
below that root, which the comments at `merkle-cross-links.ts:725` and
`peerborne-document.ts:2761` exclude.

### Bounds

- *Faults and preparations.* Recovery starts from store, anchor and what is in
  flight. Two preparations and a fault give an entry that lost its anchor
  update, a second owner racing it, and a failure of the recovery itself; a
  third preparation passes a checkpoint. Fallback images are the empty store
  (eviction) and one older image.
- *Limits.* Entries, bytes, outbox, replay windows and buffers of one to four
  are met from below, and what would exceed them is refused; `Headroom` stays at
  least as large as a delta, as 18 MiB are in the code. Some limits are not put
  to the test by the runs: two relay peers with one topic each cannot exceed the
  global topic cap, nor two sessions the connection cap. The theorem
  `RelayStaysBounded` covers every value of these.
- *Sync requests.* With an interval of two and times up to four, two requests can
  be answered, of one requester or of two, the second after the ledger forgot the
  first. The ledger has room for one, so a remembered request is refused for lack
  of room too; that the replay check alone would refuse it in a larger ledger is
  what the theorem `RequestsAreAccounted` adds.
- *Sessions.* Two instances for one path, two nodes, one failure: `initialize()`
  may replace the node at every await of an open, a creation or a close.
- *Documents.* Two changes per author give a sequence, a parent and a reuse
  after a fault; two contexts show receipts starting over, three a history that
  skips one.
- *Group.* Two epochs after creation, an outbox of two and windows of one and
  two show pruning, a narrower window after a wider one, and acknowledgement of
  one record of two. One fault is enough for an ambiguous write; the process
  that replaces it meets the other one as a rival.
- *Load.* Two of three peers is the smallest quorum a Byzantine authority with
  two peers can try to reach alone; two contents give a stale answer.
- *Sync.* Three changes with pruning at one retained node cut a tree twice.
- *Invitation.* One recipient too many, and two lives of a process. An offer is
  created in two steps: the slot is checked, the offer is signed, and the slot is
  checked again before it is registered.
- *Scenarios of `Access`.* Three keys let two replicas append to one path at the
  same time and merge (`MaxAuthored`); one replica stages at a time
  (`OneStaged`). Mutations of the lists are queued at one replica at a
  time (`OneQueued`), as replicas never wait for each other; of two calls of a
  chain the later one is genuine (`GenuineSecond`).
- Calls, versions, updates and checks are counted by the `Max...` constants that
  the modules comment as bounds; two or three let one call overlap another and a
  third see the result.

Deadlock is not checked: the bounds stop every behaviour in the end, and an idle
journal, document, gate or relay may wait for its caller for ever.

### Fairness

Nothing is ever assumed about new requests, faults, remote peers or callbacks.

- *Journal* (`LiveSpec`): a call that has begun goes on (`WF` of restore and
  commit steps), the application reopens a failed journal, and the publication
  loop is run again: every change runs `retrySecurityPublications`, and when
  that fails the error tells the application to call it again. This is an
  obligation of the application, without which frames may wait in the outbox.
- *Gate* (`TimerFairness`): timers fire and settled promises are observed.
  Nothing is assumed about preparations, nested work or the anchor.
- *Group*: an operation that has begun goes on, a poisoned process is replaced
  and restored, the outbox is flushed again, and a receiver that is asked again
  and again accepts at last (`SF` of `SendAccepted`); without that no outbox
  drains.
- *Load*: timers of probes and responses fire, decisions are taken, the mutation
  queue goes on.
- *Protocols, search*: deadlines fire, grace timers end, workers go on.
  *Notifications*: ACL operations settle and queued tasks run. *Relay*: the
  periodic reconciliation. *Welcomes*: the queue goes on, and a drain waiting in
  it gets its turn (`SF`), as it is first in, first out.

## Proofs

TLAPS checks all of these, for every value of the constants that satisfies the
assumptions named in the modules (`SizeAssumption`, `BoundAssumption`,
`ConstantsAssumption`, `GroupConstants`, `LoadConstants`,
`InvitationAssumption`, `SyncRequestAssumption`, `SessionAssumption`,
`RelayAssumption`, `GatewayAssumption`). Those ask for natural numbers and for what the code
guarantees of its limits: at least two journal entries, a nonempty outbox,
deltas no larger than the headroom; a controller that is in every roster; adding
and removing operations that differ; finitely many authorities, some of them
trusted, and a quorum configuration that `validateLoadQuorumConfig` accepts; an
invitation lifetime no shorter than the processing window. Nothing is assumed of
how many peers share an authority or how many authorities lie, or of when a node
is replaced.

| Theorem | Statement |
| --- | --- |
| `TypeCorrect` | `Spec => []TypeOK` for the journal, its byte bounds included |
| `InvariantHolds` | `Spec => []JournalInv`, the inductive invariant of the journal |
| `ViewIsHistory` | `Spec => []ViewIsAcceptedPrefix` |
| `AckedIsDurable` | `Spec => []AckedSurvives` |
| `PublicationAfterAcceptance` | `Spec => []PublishedOnlyAccepted` |
| `JournalImplementsLog` | `Spec => RefinesAcceptedLog`: the journal implements `AcceptedLog` |
| `AlwaysReopenable` | `Spec => []Reopenable` |
| `AcceptedFramesKept` | `Spec => []NoPublicationLost` |
| `AccountsExactlyKept` | `Spec => []AccountsKept` |
| `CancelledSafe` | `Spec => []CancelledNeverApplied` for the gate |
| `CommitInContext` | `Spec => AppliedInContext` for the gate, an action property |
| `AccountsExact` | `Spec => []WorkAccounted` for the gate |
| `DocumentInvariant` | `Spec => []DocumentInv`, the inductive invariant of the document |
| `NeverEquivocates` | `Spec => []NoEquivocation` |
| `ReceiptsAreExact` | `Spec => []ReceiptsExact` |
| `HistoryIsKept` | `Spec => []HistoryKept` |
| `JournalSuffices` | `Spec => []JournalRecovers` |
| `AdmissionChecked` | `Spec => ContentAdmitted`, an invariant and an action property |
| `GroupInvariant` | `Spec => []GroupInv`, the inductive invariant of the coordinator |
| `UsableOnOneLine` | `Spec => []OneLine` |
| `PromisesAreKept` | `Spec => []PromisesKept` |
| `ImplementsLineage` | `Spec => RefinesLineage`: the coordinators implement `GroupLineage` |
| `LoadInvariant` | `Spec => []LoadInv`, the inductive invariant of the load |
| `LoadIsSound` | `Spec => []LoadSound` |
| `InvitationInvariant` | `Spec => []InvitationInv`, the inductive invariant of the invitation |
| `LinkIsOneTime` | `Spec => []OneTimeLink` |
| `RequestInvariant` | `SyncRequestSpec => []RequestInv`, the inductive invariant of sync requests |
| `RequestsAreAccounted` | `SyncRequestSpec => RequestsAccounted`, invariants and action properties |
| `SessionInvariant` | `SessionSpec => []SessionInv`, the inductive invariant of instances |
| `TransactionInvariant` | `TransactionSpec => []TransactionInv`, the inductive invariant of transactions |
| `SessionsAreExclusive` | `SessionSpec /\ TransactionSpec => SessionsExclusive` |
| `IndexInvariant` | `IndexSpec => []IndexInv`, the inductive invariant of an index |
| `IndexFollowsDocuments` | `IndexSpec => []IndexFollows` |
| `RegistryInvariant`, `GatewayInvariant` | `[]RelayInv` of the topic registry, `[]GatewayInv` of the gateway |
| `RelayStaysBounded` | `RelaySpec /\ GatewaySpec => RelayBounded` |

With these, every safety property of the runs of journal, gate, document and
coordinator, of the load and of the invitation is a theorem. Every proof has one lemma or step per action of the
module, under it one step per part of the invariant that the action can disturb,
and lemmas for what each operator of the module does to the parts it touches.

**Journal.** What an owner shows is not inductive, because it depends on entries
that other owners, late swaps and old images of the store may bring back.
`JournalInv` therefore speaks of everything that is held anywhere: an entry in
the log, in flight, staged or stored extends an accepted one, and a checkpoint
among them has all that precedes it (`KnownInv`); the log is one chain ending at
the anchor (`LogInv`); a store image is accepted history with at most one newer
row, or its chain check fails (`ImageInv`); an open owner has accepted history
up to its head (`OwnerInv`). Nothing says that storage keeps what was written,
so rollbacks preserve it. The swap from the parent's commitment makes the log
grow by one entry, and it is also the only step that the refinement maps to an
append: every other step of every owner, crashes and rollbacks included, is a
stutter or the move of one owner's view along the log.

**Journal over honest storage.** `Reopenable`, `NoPublicationLost` and the
agreement of memory and rows have the premise `backups = {}`: storage keeps what
it acknowledged. `StorageInv` says what that gives. `StoreKept`: the store is
never behind the anchor and at most one row ahead of it, and its outbox holds
accepted frames that did not go out yet. `OwnerKept`: what an owner remembers is
what the rows say, unless another owner committed after it loaded them. One
owner commits at a time, because a commit needs a head at the store's revision
and an anchor that is never behind the head. That the premise is met for good is
part of the model: a behaviour either takes images of its store, which then may
come back, or does not. Entries, bytes and bindings are sums and unions over the
rows, so the module states how staging, committing, discarding and dequeuing
change them.

**Gate.** `PhaseInv` says that only `finish()` makes an operation committed,
that a cancelled one does not get there and a committed one is no longer
cancelled. `TurnInv` says that an operation in its commit turn has the queue, so
that the context it has read cannot change under it. One lemma per action shows
how it moves one operation; `QuietStep`, `FinishStep` and `QueueStep` combine
them. The budgets (`CreditInv`) are sums of the charges of the operations that
hold credits, a coordinator's over its own and the shared one over all: a sum
over a finite set grows and shrinks by the charge of the one that enters or
leaves it, an admission is within the limits by its guard, and a release by what
the invariant says was charged.

**Coordinated document.** `DocumentInv` has four layers, each inductive relative
to those before it.
- `HistoryInv`: every role log, in memory or in a journal entry, is a path of
  signed records, and an entry under way carries a beginning of its member's.
- `AuthorityInv`: what is in a document, a journal or a frame under way is
  explained by such a path: its author was a writer in its context.
- `ReplayInv`: every journal replays without a refusal, and replayed from its
  last checkpoint, with the entry under way on top, it gives exactly the content
  and the receipts in memory.
- `PublicationInv`: what was acknowledged, queued or let out is in the journal
  of its author, so that a number that went out is in the receipts of every
  recovery and is not used again.

Two histories that end in the same record agree; that is proved by the least
position at which they would differ, as the natural numbers are well founded,
since induction theorems with an operator parameter are out of reach. TLC
evaluated the four layers on the run of the document before they were proved.

**Security coordinator.** None of its properties is inductive: that two usable
processes are on one line depends on what a process wrote before it crashed, and
on what an old image of the store may bring back. `GroupInv` has two parts.
`World` says of the store, of its older copy and of the anchor that their
outbox, replay and head fit together (`Fits`), that every record they hold is in
their outbox, was accepted or came with an invitation (`Sent`), and that what is
anchored was verified with one of the windows in use. `CoInv` says of each process what its
operation aims at (`CoType`), that its memory is a state of the anchored line
while it serves or writes (`OnLine`), that the provider is in step with it
(`InStep`), that what it wrote was verified first (`Checked`), and that it
neither forgets nor repeats a key package (`PackagesAimed`). The lemma
`PruningVerifies` is why several replay windows may be in use over one store:
what a wider window keeps still verifies once it is pruned to a narrower one.
The refinement of `GroupLineage` maps the line to the anchor: only an advance of
the anchor extends or stops it, and only a completed operation reports a record
as committed, whose membership in the line is `OnLine`.

**Load.** `LoadSound` speaks of what a session has decided; why it may decide so
lies in what its peers prepared, sent and signed before. `LoadInv` adds
- `Provenance`: every message of an honest peer, prepared, under way or kept by
  a Byzantine one for a replay, answers an earlier challenge or serves a state
  that was held since this session began;
- `VotesAttributed`: a vote counts for one authority the session trusts, and the
  vote of an honest authority names a state held since;
- `PhaseInv` and `ApplyInv`: which stage, digest, place in the cohort and state
  of the application go with each phase, so that what is installed in the queue
  slot is what was fetched for the digest the quorum agreed on.

`QuorumFresh` then is a pigeonhole: the signers of the winning votes are at least
`Q` distinct authorities (`tally` counts one vote per authority, whatever number
of peers speaks for it), so if fewer trusted ones lie, one of them is honest.
The order of the cohort is proved from the filters over the connection list:
positions, ranks and least elements of finite sets of naturals.

**Invitation.** Sole claimant and one reader at a time are not inductive either:
a stream that has passed every check may be anywhere between its awaits.
`Claims` says that every operation was started for the claim of its offer;
`Turns`, that only the stream at the front of an offer's queue claims, and never
while its request is being onboarded or already has an answer; `Exclusive`, that
an operation changes the membership only as the head of the mutation queue, and
publishes a reader only into an empty slot; `Membership`, that whoever was let in
has a leaf and that it is one at most; `Answers`, that bundles and remembered
answers attest the membership of their request. The step from these to the
action property `RetryAnswered` is that a stream leaves without an answer only
before its request has one, or when its own peer has gone.

**Services.** That a request is answered once says nothing of the ledger, which
forgets: `RequestInv` adds that until a request is too old to be admitted again
the ledger has its exact time (`LedgerExact`), on a clock that never runs back
(`advanceSyncRequestClock`), and how the times of the last answer, of the one
being made and of the clock lie to each other (`AnswerTimes`), which gives the
interval whatever the wall clock does. `SessionInv` ties an instance to the
route, listener, topic and validator it has on the node it was opened on
(`Subscribed`); what is registered and not subscribed is activating, about to be
closed, or left by a close that threw because the node was being replaced, so a
late close of another instance finds nothing of it to undo. `TransactionInv` orders what is committed,
in the commit and pending. `IndexFollows` speaks of an index at rest; `IndexInv`
says why it comes to that. Of every row, and of every row a rebuild will still
write, it is current or the last operation of its document will make it so, and
that operation runs after the rebuild (`RowsSettle`); only the first operation of
a document has begun, those of the generation in force come last
(`OperationsInOrder`), and a rebuild that writes is alone, because what had begun
before it has settled and what begins later waits for it (`RebuildExclusive`).
While a generation is ready no lifecycle operation is queued, so rows of another
one are there only until the removal at the head of the queue has run
(`LifecycleInOrder`, `RowsOwned`). For the registry of topics both indexes are shown to
be projections of one relation; a step changes one topic, so the caps are kept
by one element more than a set below them. The rate of a session is kept by
`Metered`: the bytes carried and the tokens left stay below the burst and the
rate up to the last refill, and a refill adds the rate of the time since then.

**Only model-checked.**
- Liveness: `JournalServes`, `CallerAnswered`, `OutboxDrains`, `LoadEnds`,
  `DeliveryEnds`. Liveness under fairness, and `ENABLED`, are out of the
  prover's reach.
- What recursive operators compute, and the modules that declare one: `BeeKEM`,
  `DocumentWelcome`, `IndexQuery`, `MembershipControl`. Induction over data
  cannot be done with the provers at hand, and a module that reaches a recursive
  operator has no arithmetic backend. The same holds of what the recursive
  functions of the other modules compute for every input.
- `ChangesCovered` and `TreesServed` of synchronisation: what a tree contains is
  defined by recursion over it, and that its operations keep it needs induction
  over trees. `CoverageNeverShrinks` is violated, see above.
- The properties of `Access`, and those of `Services` and `Delivery` not named
  above: most are a conjunction over several components, one of which is a
  module just named. The others could be proved, see [Plan](#plan).

## What is not covered

- **Wire codecs, serialisation, cryptography**: pure conversions, taken as
  injective and unforgeable. The merge of Automerge, Yjs and Loro belongs to
  those libraries; here a change is an element of a set with its dependencies,
  and member lists and keychains are built from library operations as the
  Automerge and Yjs adapters do. The Loro adapter has no model.
- **Coordinated path**: field-level write paths, the variant without a journal,
  byte budgets of the group store, handing over the controller role. Convergence
  is not claimed: `src/docs/coordinated-document-security.md` lists redelivery
  and rebasing of old-epoch edits as future work.
- **Document node**: connection retries, checkpoint encoding, progress reports.
- **Load**: unreadable, foreign and mismatching responses are one kind of
  unusable response.
- **Sync**: the depth limit of 512, and what the document does after an ACL
  change that fails without having been certified.
- **Bindings**: the Vue and Svelte wrappers of the store, the TanStack DB
  collection, the peer list and the initialisation of Redux. In Redux the close
  that follows a failed open is taken to release.
- **Indexes**: storage back ends and the query language; rows that an earlier
  session persisted, which carry no version and are checked field by field
  against the definition; `dispose()`. **Relay**: readiness
  reports and the name rules of topics.
- The Dafny annotations of the policy functions
  (`src/docs/formal-verification.md`) verify single functions and are not
  repeated.

## Observations

The run `SyncCoverage` shows the one disagreement with a comment. What follows
are consequences of the code that the models made visible; where a property has
an exception for one, its module says so.

*Coordinated path*
- When another owner dequeues a frame, or `publicationSent` fails after its
  transaction, the binding stays in `pendingPublicationBindings`. A checkpoint
  may then be refused until `pendingPublications()` or a reopen refreshes memory.
- `needsCheckpoint` asks one entry earlier than the store would refuse.
- If a role record is installed in memory, its checkpoint fails, the group then
  moves on and the process crashes, the history in the journal can no longer be
  extended by `applyUpdate`, whose context has passed; it has to be restored
  from another member's export. `activate()` refuses until it is.
- A frame that a member missed, or an edit of a left epoch, blocks the later
  frames of its author (`coordinated-document.ts:405`).
- When a preparation throws while work it started is going on, the caller's
  answer waits for that work; `CoordinatedDocument` does not get there. Work
  whose settlement cannot be observed keeps its credits until the process ends.
- Before an anchor exists, a group store that is set back forgets the key
  packages it handed out. A joiner does not compare the intermediate records of
  its chain with the provider's changes, so a dishonest member can have it join
  a line that following members refuse.

*Sync and load*
- A snapshot whose boundary is an ACL change can be recorded as seen by a
  receiver whose message carries that change only as a reference; the grant is
  then never merged. A change refused after its snapshot was applied never
  notifies handlers of the boundary.
- A root fetched through a cross-link makes a later full tree with that root be
  skipped; a deferred change that could not be fetched is not retried; of
  concurrent snapshots the one with more changes replaces the other although
  neither contains the other; applying again can inflate the count.
- A catch-up is retried, three times at most, only for a change of writers.

*Access and keys*
- Concurrent addition and removal of one key under Automerge makes both replicas
  reject each other's history. A read of the writer keys may return the list
  from before a merge that is applied but not settled.
- `update()` and `compact()` of BeeKEM are not called by the document; a tree of
  one leaf that called `update()` would restore at generation 0.
- A Welcome parked before its writer's key is known is replayed only by the next
  merge of the readers' ACL.

*Services*
- After the wall clock went back, own sync requests are skipped until it catches
  up. A handler that was unsubscribed after a notification captured it may still
  be called.
- `open()` of an open instance throws, and `close()` then closes the open
  document but leaves its first listener.
- A query during a rebuild sees a partial index without saying so; a write that
  fails on a later index, and a rebuild that fails, notify no subscriber; a
  failed removal blocks a redefinition.
- Once a routing tombstone is evicted, an older advertisement that has not
  expired is accepted. A topic refused at a cap is not retried, and a subscriber
  at its own cap is not counted for a topic others keep.
- Mounting again right after the last unmount can find the path still registered,
  and the failed activation is retried only when another one succeeds. After a
  failed close a later `stop()` of the store reports `closed`. In Redux a close
  that is slow removes the entry of a document opened meanwhile, and overlapping
  opens can show the content of the reference that lost; a close that rejects
  leaves an unsubscribed reference in the store. Redux is checked without slow
  closes.
- A document opened while its node is being stopped is deaf. If an open fails
  and its `close()` finds no node, the registration stays; when the next start
  fails too, `close()` and `initialize()` go on refusing each other.

## Plan

Done: the models of all parts above, their runs, the proofs of every safety
property of the coordinated path and of its abstract specifications, and those of
the initial load, the invitation, sync requests, sessions, indexes and the relay.

Worth proving next, in this order:

1. `BindingsSettle` of the bindings.
2. `RevocationHolds` for `DocumentMembership` and `ACLChain`.
3. The parts of `ChangesCovered` that do not need induction over trees.
