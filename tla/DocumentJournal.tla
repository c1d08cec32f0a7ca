------------------------- MODULE DocumentJournal -------------------------
(***************************************************************************)
(* The write-ahead journal of a coordinated document:                      *)
(*   DocumentReplayJournal           (document-replay-journal.ts)          *)
(*   IndexedDBDocumentJournalStore   (document-journal-store.ts)           *)
(*   DocumentJournalRollbackAnchor   (an application service)              *)
(*                                                                         *)
(* Every Owner is one DocumentReplayJournal object over the same storage   *)
(* key: two tabs, or the successive incarnations of one.  One action is    *)
(* one stretch of code between two awaits that touch shared state.  An     *)
(* IndexedDB transaction is atomic; the anchor is a separate store with a  *)
(* compare-and-swap, and a swap whose caller gave up may land late.        *)
(*                                                                         *)
(* A preparation is identified by a fresh number, which stands for all the *)
(* random values drawn in it: the staging token, the publication token,    *)
(* the nonces, hence also the digest of the accepted entry (0 is the ZERO  *)
(* parent) and the digest of the outbound frame, and the change itself.    *)
(* AEAD authentication is perfect: what is read back is something that     *)
(* some owner wrote.                                                       *)
(***************************************************************************)
EXTENDS Naturals, FiniteSets

CONSTANTS
    Owner,        \* journal objects over one storage key
    MaxEntries,   \* MAX_DOCUMENT_JOURNAL_ENTRIES
    MaxBytes,     \* MAX_DOCUMENT_JOURNAL_BYTES
    Headroom,     \* the 18 MiB kept free by needsCheckpoint
    MaxOutbox,    \* 16 publications
    DeltaSize,    \* stored sizes of a delta entry
    SnapSize,     \* stored sizes of a checkpoint entry
    MaxPrep,      \* bound: preparations in a behaviour
    MaxFaults,    \* bound: crashes and rejected I/O calls in a behaviour
    MaxBackups    \* bound: store images that storage can fall back to

ASSUME SizeAssumption ==
    /\ MaxEntries \in Nat /\ MaxEntries >= 2
    /\ MaxOutbox \in Nat \ {0}
    /\ MaxBytes \in Nat /\ Headroom \in Nat /\ Headroom <= MaxBytes
    /\ DeltaSize \subseteq 1..Headroom
    /\ SnapSize \subseteq Nat \ {0}

ASSUME BoundAssumption ==
    MaxPrep \in Nat /\ MaxFaults \in Nat /\ MaxBackups \in Nat

VARIABLES
    store,     \* the IndexedDB rows of the key
    anchor,    \* the rollback anchor: [rev, id]; rev = 0 is "undefined"
    late,      \* anchor swaps whose caller gave up before they took effect
    backups,   \* store images storage may fall back to (rollback, eviction);
               \* {} for storage that keeps what it acknowledged
    pc,        \* pc[o]: where owner o is; "failed" is the failed flag
    head,      \* head[o]: this.head
    ledger,    \* ledger[o]: acceptedPublicationBindings
    pendingBindings,  \* pendingPublicationBindings
    retained,  \* retained[o]: [count, bytes], entryCount and retainedBytes
    view,      \* view[o]: the changes the owner's caller has been given
    snap,      \* snap[o]: the store image captured by a running read
    prep,      \* prep[o]: the entry of the running preparation
    batch,     \* batch[o]: frames the publication loop still has to send
    sending,   \* sending[o]: the frame published and not yet settled
    fresh,     \* number of preparations begun so far
    faults,    \* number of faults so far
    log,       \* history: the entries the anchor went through
    acked,     \* history: changes whose commit() resolved
    published  \* history: frames handed to pubsub

owned   == <<head, ledger, pendingBindings, retained, view>>
outbox  == <<batch, sending>>
history == <<log, acked, published>>
bounds  == <<fresh, faults>>
vars == <<store, anchor, late, backups, pc, owned, snap, prep, outbox, bounds,
          history>>

-----------------------------------------------------------------------------
(* Values *)

Binding == [tok : Nat, rev : Nat]   \* PublicationBinding; also a queued frame
Anchor  == [rev : Nat, id : Nat]
NoAnchor == [rev |-> 0, id |-> 0]

Entry == [rev : Nat, ckpt : BOOLEAN, parent : Nat, id : Nat, size : Nat,
          ops : SUBSET Nat, binds : SUBSET Binding]
NoEntry == [rev |-> 0, ckpt |-> FALSE, parent |-> 0, id |-> 0, size |-> 0,
            ops |-> {}, binds |-> {}]

\* The publication an entry carries, if its item had an outboundFrame.
OwnBinding(e) == [tok |-> e.id, rev |-> e.rev]
HasFrame(e)   == OwnBinding(e) \in e.binds

EmptyStore == [revision |-> 0, rows |-> [r \in {} |-> NoEntry], bytes |-> 0,
               pubs |-> {}, pending |-> NoEntry]

\* The digest of the newest row; ZERO for an empty journal.
LastId(s) == IF s.revision = 0 THEN 0 ELSE s.rows[s.revision].id

-----------------------------------------------------------------------------
(* Policies (policy/journal-store.ts, policy/document-journal.ts) *)

\* classifyJournalStage and, when the item has a frame, planJournalPublication
classifyJournalStage(s, expected, e) ==
    IF s.revision # expected \/ s.pending # NoEntry THEN "conflict"
    ELSE IF \/ e.size > MaxBytes
            \/ ~e.ckpt /\ Cardinality(DOMAIN s.rows) >= MaxEntries
            \/ ~e.ckpt /\ e.size > MaxBytes - s.bytes
         THEN "capacity"
    ELSE IF HasFrame(e) /\ OwnBinding(e) \in s.pubs THEN "duplicate"
    ELSE IF HasFrame(e) /\ Cardinality(s.pubs) >= MaxOutbox THEN "capacity"
    ELSE "accept"

\* isJournalCommitCurrent, and the re-planned publication inside commit
isJournalCommitCurrent(s, expected, e) ==
    /\ s.revision = expected
    /\ s.pending # NoEntry /\ s.pending.id = e.id
    /\ s.pending.ckpt = e.ckpt /\ s.pending.size = e.size
    /\ HasFrame(e) => /\ OwnBinding(e) \notin s.pubs
                      /\ Cardinality(s.pubs) < MaxOutbox

\* Mutant: the commitment of the newest row is not compared.
RecoveryByRevision(s, a) ==
    IF s.revision = a.rev THEN "current"
    ELSE IF s.revision = a.rev + 1 /\ s.rows[s.revision].parent = a.id
         THEN "finish-anchor"
    ELSE "reject"

classifyDocumentJournalRecovery(s, a) ==
    IF s.revision = a.rev /\ LastId(s) = a.id THEN "current"
    ELSE IF s.revision = a.rev + 1 /\ s.rows[s.revision].parent = a.id
         THEN "finish-anchor"
    ELSE "reject"

\* The bindings that restore collects from the retained entries ...
RestoredLedger(rows) == UNION {rows[r].binds : r \in DOMAIN rows}

\* ... each admitted by canRecordDocumentPublicationBinding
BindingsAdmitted(rows) ==
    /\ Cardinality(RestoredLedger(rows)) <= MaxEntries + MaxOutbox
    /\ \A r \in DOMAIN rows : \A b \in rows[r].binds :
          /\ 1 <= b.rev /\ b.rev <= r
          /\ rows[r].ckpt \/ b.rev = r
          /\ \A q \in DOMAIN rows : \A c \in rows[q].binds :
                b.tok = c.tok => q = r /\ b = c

\* The causal chain check of restore over the retained rows.
ChainValid(s) ==
    /\ \A r \in DOMAIN s.rows :
          /\ s.rows[r].rev = r
          /\ (r - 1) \in DOMAIN s.rows => /\ s.rows[r].parent = s.rows[r-1].id
                                          /\ ~s.rows[r].ckpt
          /\ (r - 1) \notin DOMAIN s.rows /\ ~s.rows[r].ckpt =>
                r = 1 /\ s.rows[r].parent = 0
    /\ s.revision # 0 => s.revision \in DOMAIN s.rows

\* Mutant: only the newest entry's frame is admitted.
NewestPublicationOnly(pubs, accepted, revision) ==
    \A p \in pubs : p \in accepted /\ p.rev = revision

\* isAcceptedDocumentPublicationToken for every queued publication
PublicationsBound(pubs, accepted, revision) ==
    \A p \in pubs : p \in accepted /\ 1 <= p.rev /\ p.rev <= revision

\* Mutant: no room is kept for the next delta.
NeedsCheckpointLate(o) ==
    \/ retained[o].count >= MaxEntries - 1
    \/ retained[o].bytes >= MaxBytes

needsCheckpoint(o) ==
    \/ retained[o].count >= MaxEntries - 1
    \/ retained[o].bytes > MaxBytes - Headroom

-----------------------------------------------------------------------------
(* Transactions of IndexedDBDocumentJournalStore, and the anchor's swap *)

Staged(s, e) == [s EXCEPT !.pending = e]

\* A mutant: a checkpoint's frame is not queued.
CommittedDropsFrame(s, e) ==
    [revision |-> e.rev,
     rows     |-> [r \in (IF e.ckpt THEN {} ELSE DOMAIN s.rows) \cup {e.rev} |->
                     IF r = e.rev THEN e ELSE s.rows[r]],
     bytes    |-> IF e.ckpt THEN e.size ELSE s.bytes + e.size,
     pubs     |-> IF HasFrame(e) /\ ~e.ckpt THEN s.pubs \cup {OwnBinding(e)}
                  ELSE s.pubs,
     pending  |-> NoEntry]

\* A checkpoint replaces every older row; a delta is appended.
Committed(s, e) ==
    [revision |-> e.rev,
     rows     |-> [r \in (IF e.ckpt THEN {} ELSE DOMAIN s.rows) \cup {e.rev} |->
                     IF r = e.rev THEN e ELSE s.rows[r]],
     bytes    |-> IF e.ckpt THEN e.size ELSE s.bytes + e.size,
     pubs     |-> IF HasFrame(e) THEN s.pubs \cup {OwnBinding(e)} ELSE s.pubs,
     pending  |-> NoEntry]

Discarded(s, e) ==
    IF s.pending # NoEntry /\ s.pending.id = e.id
    THEN [s EXCEPT !.pending = NoEntry] ELSE s

Unqueued(s, b) == [s EXCEPT !.pubs = @ \ {b}]

AnchorOf(e) == [rev |-> e.rev, id |-> e.id]
ParentOf(e) == [rev |-> e.rev - 1, id |-> e.parent]

\* Mutant: the anchor is written without comparing.
AdvanceBlindly(expected, e) ==
    /\ anchor' = AnchorOf(e)
    /\ log' = log \cup {e}

\* compareAndSwap(expected, next) that succeeds; e is the entry anchored.
Advance(expected, e) ==
    /\ anchor = expected
    /\ anchor' = AnchorOf(e)
    /\ log' = log \cup {e}

Goto(o, l) == pc' = [pc EXCEPT ![o] = l]

\* A call goes on (Step), or ends and drops its local variables (Exit).
Step(o, l) == Goto(o, l) /\ UNCHANGED <<snap, prep>>
Exit(o, l) == /\ Goto(o, l)
              /\ snap' = [snap EXCEPT ![o] = EmptyStore]
              /\ prep' = [prep EXCEPT ![o] = NoEntry]

-----------------------------------------------------------------------------
(* restore() *)

\* Reads the recovery snapshot.  A new object starts from "off".
LoadSnapshot(o) ==
    /\ pc[o] = "off"
    /\ snap' = [snap EXCEPT ![o] = store]
    /\ Goto(o, "anchoring")
    /\ UNCHANGED <<store, anchor, late, backups, owned, prep, outbox, bounds,
                   history>>

\* A staged entry seen in the snapshot is discarded before the outbox is read.
AfterAnchor(s) == IF s.pending = NoEntry THEN "reading" ELSE "discarding"

\* The chain and binding checks over the snapshot, and the anchor's verdict.
ClassifySnapshot(s, a) ==
    IF ChainValid(s) /\ BindingsAdmitted(s.rows)
    THEN classifyDocumentJournalRecovery(s, a) ELSE "reject"

LoadAnchor(o) ==
    /\ pc[o] = "anchoring"
    /\ LET verdict == ClassifySnapshot(snap[o], anchor) IN
       \/ verdict = "current" /\ Step(o, AfterAnchor(snap[o]))
       \/ verdict = "finish-anchor" /\ Step(o, "finishing")
       \/ verdict = "reject" /\ Exit(o, "failed")
    /\ UNCHANGED <<store, anchor, late, backups, owned, outbox, bounds, history>>

\* The entry that restore or commit is about to anchor.
Candidate(o) ==
    IF pc[o] = "finishing" THEN snap[o].rows[snap[o].revision] ELSE prep[o]

\* An accepted entry whose anchor update was lost is anchored now.
FinishAnchor(o) ==
    /\ pc[o] = "finishing"
    /\ \/ /\ Advance(ParentOf(Candidate(o)), Candidate(o))
          /\ Step(o, "rechecking")
       \/ /\ anchor # ParentOf(Candidate(o))
          /\ Exit(o, "failed")
          /\ UNCHANGED <<anchor, log>>
    /\ UNCHANGED <<store, late, backups, owned, outbox, bounds, acked, published>>

RecheckAnchor(o) ==
    /\ pc[o] = "rechecking"
    /\ IF anchor = [rev |-> snap[o].revision, id |-> LastId(snap[o])]
       THEN Step(o, AfterAnchor(snap[o])) ELSE Exit(o, "failed")
    /\ UNCHANGED <<store, anchor, late, backups, owned, outbox, bounds, history>>

\* The staged entry may belong to another owner that is still running.
DiscardStaged(o) ==
    /\ pc[o] = "discarding"
    /\ store' = Discarded(store, snap[o].pending)
    /\ Step(o, "reading")
    /\ UNCHANGED <<anchor, late, backups, owned, outbox, bounds, history>>

\* Mutant: queued frames are not matched with accepted tokens.
OutboxUnbound(pubs, accepted, revision) == Cardinality(pubs) <= MaxOutbox

\* readPublications admits a queue of at most MaxOutbox accepted frames.
OutboxReadable(pubs, accepted, revision) ==
    /\ Cardinality(pubs) <= MaxOutbox
    /\ PublicationsBound(pubs, accepted, revision)

FinishRestore(o) ==
    /\ pc[o] = "reading"
    /\ OutboxReadable(store.pubs, RestoredLedger(snap[o].rows), snap[o].revision)
    /\ ledger' = [ledger EXCEPT ![o] = RestoredLedger(snap[o].rows)]
    /\ pendingBindings' = [pendingBindings EXCEPT ![o] = store.pubs]
    /\ head' = [head EXCEPT ![o] = [rev |-> snap[o].revision,
                                    id  |-> LastId(snap[o])]]
    /\ retained' = [retained EXCEPT ![o] =
                      [count |-> Cardinality(DOMAIN snap[o].rows),
                       bytes |-> snap[o].bytes]]
    /\ view' = [view EXCEPT ![o] =
                  UNION {snap[o].rows[r].ops : r \in DOMAIN snap[o].rows}]
    /\ Exit(o, "idle")
    /\ UNCHANGED <<store, anchor, late, backups, outbox, bounds, history>>

RejectOutbox(o) ==
    /\ pc[o] = "reading"
    /\ ~OutboxReadable(store.pubs, RestoredLedger(snap[o].rows),
                       snap[o].revision)
    /\ Exit(o, "failed")
    /\ UNCHANGED <<store, anchor, late, backups, owned, outbox, bounds, history>>

-----------------------------------------------------------------------------
(* prepare(), commit() and discard() of a preparation *)

\* Mutants: a checkpoint does not carry the bindings of queued frames; a
\* checkpoint is taken from the document before the change is applied.
NewEntryUnbound(o, ckpt, frame, size) ==
    LET n == fresh + 1 IN
    [rev |-> head[o].rev + 1, ckpt |-> ckpt, parent |-> head[o].id, id |-> n,
     size |-> size, ops |-> IF ckpt THEN view[o] \cup {n} ELSE {n},
     binds |-> IF frame THEN {[tok |-> n, rev |-> head[o].rev + 1]} ELSE {}]
NewEntryOldSnapshot(o, ckpt, frame, size) ==
    [NewEntryUnbound(o, ckpt, frame, size) EXCEPT
        !.ops = IF ckpt THEN view[o] ELSE @,
        !.binds = IF ckpt THEN pendingBindings[o] \cup @ ELSE @]

\* The item's kind: a checkpoint or a delta, with or without an outbound frame
\* (a received change and a role transition have none).
NewEntry(o, ckpt, frame, size) ==
    LET n == fresh + 1
        own == IF frame THEN {[tok |-> n, rev |-> head[o].rev + 1]} ELSE {}
    IN [rev |-> head[o].rev + 1, ckpt |-> ckpt, parent |-> head[o].id, id |-> n,
        size |-> size,
        ops |-> IF ckpt THEN view[o] \cup {n} ELSE {n},
        binds |-> IF ckpt THEN pendingBindings[o] \cup own ELSE own]

\* candidateBindings before the new binding is recorded
RetainedLedger(o, ckpt) == IF ckpt THEN pendingBindings[o] ELSE ledger[o]

\* canRetainDocumentPublicationBindings, canRecordDocumentPublicationBinding
BindingsRecordable(o, ckpt, frame) ==
    /\ ckpt => /\ Cardinality(pendingBindings[o]) <= MaxOutbox
               /\ pendingBindings[o] \subseteq ledger[o]
    /\ frame => Cardinality(RetainedLedger(o, ckpt)) < MaxEntries + MaxOutbox

\* prepare() up to its first await.  A checkpoint that would carry more than
\* MaxOutbox bindings is refused with a capacity error and changes nothing.
BeginPrepare(o, ckpt, frame, size) ==
    /\ pc[o] = "idle"
    /\ fresh < MaxPrep
    /\ needsCheckpoint(o) => ckpt
    /\ LET e == NewEntry(o, ckpt, frame, size) IN
       \/ /\ BindingsRecordable(o, ckpt, frame)
          /\ Cardinality(e.binds) <= MaxOutbox
          /\ Goto(o, "checking")
          /\ prep' = [prep EXCEPT ![o] = e]
          /\ UNCHANGED snap
       \/ ~BindingsRecordable(o, ckpt, frame) /\ Exit(o, "failed")
    /\ fresh' = fresh + 1
    /\ UNCHANGED <<store, anchor, late, backups, owned, outbox, faults, history>>

\* "Document journal anchor changed": another owner committed meanwhile.
CheckAnchor(o) ==
    /\ pc[o] = "checking"
    /\ IF anchor = head[o] THEN Step(o, "staging") ELSE Exit(o, "failed")
    /\ UNCHANGED <<store, anchor, late, backups, owned, outbox, bounds, history>>

\* store.stage(): only a capacity error leaves the journal usable.
Stage(o) ==
    /\ pc[o] = "staging"
    /\ LET verdict == classifyJournalStage(store, head[o].rev, prep[o]) IN
       \/ /\ verdict = "accept"
          /\ store' = Staged(store, prep[o])
          /\ Step(o, "prepared")
       \/ /\ verdict # "accept"
          /\ Exit(o, IF verdict = "capacity" THEN "idle" ELSE "failed")
          /\ UNCHANGED store
    /\ UNCHANGED <<anchor, late, backups, owned, outbox, bounds, history>>

Discard(o) ==
    /\ pc[o] = "prepared"
    /\ store' = Discarded(store, prep[o])
    /\ Exit(o, "idle")
    /\ UNCHANGED <<anchor, late, backups, owned, outbox, bounds, history>>

CommitStore(o) ==
    /\ pc[o] = "prepared"
    /\ IF isJournalCommitCurrent(store, head[o].rev, prep[o])
       THEN /\ store' = Committed(store, prep[o])
            /\ Step(o, "verifying")
       ELSE /\ Exit(o, "failed")
            /\ UNCHANGED store
    /\ UNCHANGED <<anchor, late, backups, owned, outbox, bounds, history>>

\* loadAcceptedHead() must return the entry just written.
VerifyHead(o) ==
    /\ pc[o] = "verifying"
    /\ IF store.revision = prep[o].rev /\ LastId(store) = prep[o].id
       THEN Step(o, "swapping") ELSE Exit(o, "failed")
    /\ UNCHANGED <<store, anchor, late, backups, owned, outbox, bounds, history>>

SwapAnchor(o) ==
    /\ pc[o] = "swapping"
    /\ \/ /\ Advance(head[o], prep[o])
          /\ Step(o, "confirming")
       \/ /\ anchor # head[o]
          /\ Exit(o, "failed")
          /\ UNCHANGED <<anchor, log>>
    /\ UNCHANGED <<store, late, backups, owned, outbox, bounds, acked, published>>

\* commit() resolves once the anchor reads back as the new head.
ConfirmAnchor(o) ==
    /\ pc[o] = "confirming"
    /\ anchor = AnchorOf(prep[o])
    /\ LET e == prep[o]
           own == IF HasFrame(e) THEN {OwnBinding(e)} ELSE {}
       IN
       /\ ledger' = [ledger EXCEPT ![o] = RetainedLedger(o, e.ckpt) \cup own]
       /\ pendingBindings' = [pendingBindings EXCEPT ![o] = @ \cup own]
       /\ head' = [head EXCEPT ![o] = AnchorOf(e)]
       /\ retained' = [retained EXCEPT ![o] =
                         IF e.ckpt THEN [count |-> 1, bytes |-> e.size]
                         ELSE [count |-> @.count + 1, bytes |-> @.bytes + e.size]]
       /\ view' = [view EXCEPT ![o] = @ \cup e.ops]
       /\ acked' = acked \cup {e.id}
    /\ Exit(o, "idle")
    /\ UNCHANGED <<store, anchor, late, backups, outbox, bounds, log, published>>

RefuseConfirm(o) ==
    /\ pc[o] = "confirming"
    /\ anchor # AnchorOf(prep[o])
    /\ Exit(o, "failed")
    /\ UNCHANGED <<store, anchor, late, backups, owned, outbox, bounds, history>>

-----------------------------------------------------------------------------
(* pendingPublications(), the publication loop and publicationSent() *)

\* retrySecurityPublications runs one batch at a time.
ListOutbox(o) ==
    /\ pc[o] = "idle" /\ batch[o] = {} /\ sending[o] = {}
    /\ IF OutboxReadable(store.pubs, ledger[o], head[o].rev)
       THEN /\ Goto(o, "listed")
            /\ snap' = [snap EXCEPT ![o] = store]
            /\ UNCHANGED prep
       ELSE Exit(o, "failed")
    /\ UNCHANGED <<store, anchor, late, backups, owned, outbox, bounds, history>>

\* Frames leave the journal only while the anchor is this owner's head.
ReleaseOutbox(o) ==
    /\ pc[o] = "listed"
    /\ IF anchor = head[o]
       THEN /\ pendingBindings' = [pendingBindings EXCEPT ![o] = snap[o].pubs]
            /\ batch' = [batch EXCEPT ![o] = snap[o].pubs]
            /\ Exit(o, "idle")
       ELSE /\ Exit(o, "failed")
            /\ UNCHANGED <<pendingBindings, batch>>
    /\ UNCHANGED <<store, anchor, late, backups, head, ledger, retained, view,
                   sending, bounds, history>>

\* pubsub.publish runs outside the journal's queue.
Publish(o, b) ==
    /\ pc[o] # "off" /\ b \in batch[o] /\ sending[o] = {}
    /\ published' = published \cup {b.tok}
    /\ sending' = [sending EXCEPT ![o] = {b}]
    /\ UNCHANGED <<store, anchor, late, backups, pc, owned, snap, prep, batch,
                   bounds, log, acked>>

\* publicationSent does not look at the failed flag.
PublicationSent(o, b) ==
    /\ pc[o] \in {"idle", "failed"} /\ b \in sending[o]
    /\ store' = Unqueued(store, b)
    /\ pendingBindings' = [pendingBindings EXCEPT ![o] = @ \ {b}]
    /\ batch' = [batch EXCEPT ![o] = @ \ {b}]
    /\ sending' = [sending EXCEPT ![o] = {}]
    /\ UNCHANGED <<anchor, late, backups, pc, head, ledger, retained, view, snap,
                   prep, bounds, history>>

-----------------------------------------------------------------------------
(* Faults *)

\* The pcs at which a call to the store or the anchor is in flight.  A call
\* that took effect and then reports an error is the step that took effect
\* followed by a failure at the next one.
Waiting == {"anchoring", "finishing", "rechecking", "discarding", "reading",
            "checking", "staging", "prepared", "verifying", "swapping",
            "confirming", "listed"}

\* A swap in flight when its caller gives up is lost, or lands later.
Abandon(o) ==
    \/ UNCHANGED late
    \/ /\ pc[o] \in {"finishing", "swapping"}
       /\ late' = late \cup {Candidate(o)}

Fault == faults < MaxFaults /\ faults' = faults + 1

\* A rejected I/O call: every catch block but publicationSent's sets failed.
RejectCall(o) ==
    /\ Fault
    /\ pc[o] \in Waiting
    /\ Abandon(o)
    /\ Exit(o, "failed")
    /\ UNCHANGED <<store, anchor, backups, owned, outbox, fresh, history>>

\* pubsub rejects, or publicationSent does (its transaction may have been
\* applied): the loop stops, and pendingPublicationBindings keeps the frame.
AbortBatch(o) ==
    /\ Fault
    /\ pc[o] # "off" /\ batch[o] # {}
    /\ \/ UNCHANGED store
       \/ \E b \in sending[o] : /\ pc[o] \in {"idle", "failed"}
                                /\ store' = Unqueued(store, b)
    /\ batch' = [batch EXCEPT ![o] = {}]
    /\ sending' = [sending EXCEPT ![o] = {}]
    /\ UNCHANGED <<anchor, late, backups, pc, owned, snap, prep, fresh, history>>

\* The object is gone: a crash, a closed tab, or a reopen after failed.
Forget(o) ==
    /\ head' = [head EXCEPT ![o] = NoAnchor]
    /\ ledger' = [ledger EXCEPT ![o] = {}]
    /\ pendingBindings' = [pendingBindings EXCEPT ![o] = {}]
    /\ retained' = [retained EXCEPT ![o] = [count |-> 0, bytes |-> 0]]
    /\ view' = [view EXCEPT ![o] = {}]
    /\ batch' = [batch EXCEPT ![o] = {}]
    /\ sending' = [sending EXCEPT ![o] = {}]
    /\ Exit(o, "off")

Crash(o) ==
    /\ Fault
    /\ pc[o] # "off"
    /\ Abandon(o)
    /\ Forget(o)
    /\ UNCHANGED <<store, anchor, backups, fresh, history>>

Reopen(o) ==
    /\ pc[o] = "failed"
    /\ Forget(o)
    /\ UNCHANGED <<store, anchor, late, backups, bounds, history>>

\* A swap whose caller gave up reaches the anchor.
LandLate ==
    \E e \in late :
        /\ \/ Advance(ParentOf(e), e)
           \/ anchor # ParentOf(e) /\ UNCHANGED <<anchor, log>>
        /\ late' = late \ {e}
        /\ UNCHANGED <<store, backups, pc, owned, snap, prep, outbox, bounds,
                       acked, published>>

\* The browser restores an older image of the database, or evicts it.
Backup ==
    /\ backups # {} /\ Cardinality(backups) < MaxBackups
    /\ store \notin backups
    /\ backups' = backups \cup {store}
    /\ UNCHANGED <<store, anchor, late, pc, owned, snap, prep, outbox, bounds,
                   history>>

Rollback ==
    /\ Fault
    /\ store' \in backups
    /\ UNCHANGED <<anchor, late, backups, pc, owned, snap, prep, outbox, fresh,
                   history>>

-----------------------------------------------------------------------------

Init ==
    /\ store = EmptyStore /\ anchor = NoAnchor /\ late = {}
    /\ backups \in {{}, {EmptyStore}} /\ (MaxBackups = 0 => backups = {})
    /\ pc = [o \in Owner |-> "off"]
    /\ head = [o \in Owner |-> NoAnchor]
    /\ ledger = [o \in Owner |-> {}]
    /\ pendingBindings = [o \in Owner |-> {}]
    /\ retained = [o \in Owner |-> [count |-> 0, bytes |-> 0]]
    /\ view = [o \in Owner |-> {}]
    /\ snap = [o \in Owner |-> EmptyStore]
    /\ prep = [o \in Owner |-> NoEntry]
    /\ batch = [o \in Owner |-> {}]
    /\ sending = [o \in Owner |-> {}]
    /\ fresh = 0 /\ faults = 0
    /\ log = {} /\ acked = {} /\ published = {}

Restore(o) ==
    \/ LoadSnapshot(o) \/ LoadAnchor(o) \/ FinishAnchor(o) \/ RecheckAnchor(o)
    \/ DiscardStaged(o) \/ FinishRestore(o) \/ RejectOutbox(o)

Prepare(o) ==
    \/ \E frame \in BOOLEAN, ckpt \in BOOLEAN :
          \E size \in IF ckpt THEN SnapSize ELSE DeltaSize :
             BeginPrepare(o, ckpt, frame, size)
    \/ CheckAnchor(o) \/ Stage(o) \/ Discard(o)

Commit(o) ==
    \/ CommitStore(o) \/ VerifyHead(o) \/ SwapAnchor(o) \/ ConfirmAnchor(o)
    \/ RefuseConfirm(o)

Deliver(o) ==
    \/ ListOutbox(o) \/ ReleaseOutbox(o)
    \/ \E b \in batch[o] : Publish(o, b)
    \/ \E b \in sending[o] : PublicationSent(o, b)

Next ==
    \/ \E o \in Owner : \/ Restore(o) \/ Prepare(o) \/ Commit(o) \/ Deliver(o)
                        \/ RejectCall(o) \/ AbortBatch(o) \/ Crash(o) \/ Reopen(o)
    \/ LandLate \/ Backup \/ Rollback

Spec == Init /\ [][Next]_vars

\* The application reopens a failed journal and keeps retrying publications; a
\* preparation that has begun is committed or discarded.
Fairness ==
    \A o \in Owner :
        /\ WF_vars(Restore(o))
        /\ WF_vars(CheckAnchor(o) \/ Stage(o) \/ Commit(o))
        /\ WF_vars(Deliver(o))
        /\ WF_vars(Reopen(o))

LiveSpec == Spec /\ Fairness

-----------------------------------------------------------------------------
(* Properties *)

\* The pcs of an object whose restore() has resolved and that has not failed.
Opened == {"idle", "checking", "staging", "prepared", "verifying", "swapping",
           "confirming", "listed"}

Current(o) == pc[o] \in Opened /\ head[o] = anchor

\* The bounds readHead demands of a stored head hold for what is staged too.
IsStore(s) ==
    /\ s.bytes <= MaxBytes
    /\ s.pending # NoEntry =>
          s.pending.size + (IF s.pending.ckpt THEN 0 ELSE s.bytes) <= MaxBytes
    /\ s \in [revision : Nat, rows : [DOMAIN s.rows -> Entry], bytes : Nat,
              pubs : SUBSET Binding, pending : Entry]
    /\ DOMAIN s.rows \subseteq Nat /\ IsFiniteSet(DOMAIN s.rows)

TypeOK ==
    /\ IsStore(store) /\ (\A b \in backups : IsStore(b))
    /\ snap = [o \in Owner |-> snap[o]] /\ \A o \in Owner : IsStore(snap[o])
    /\ anchor \in Anchor /\ late \subseteq Entry
    /\ pc \in [Owner -> Waiting \cup {"off", "idle", "failed"}]
    /\ head \in [Owner -> Anchor]
    /\ ledger \in [Owner -> SUBSET Binding]
    /\ pendingBindings \in [Owner -> SUBSET Binding]
    /\ retained \in [Owner -> [count : Nat, bytes : Nat]]
    /\ view \in [Owner -> SUBSET Nat]
    /\ prep \in [Owner -> Entry]
    /\ batch \in [Owner -> SUBSET Binding]
    /\ sending \in [Owner -> SUBSET Binding]
    /\ fresh \in Nat /\ faults \in Nat
    /\ log \subseteq Entry /\ acked \subseteq Nat /\ published \subseteq Nat

\* What an open journal has handed to its document is exactly the accepted
\* history up to its head, also after rows were pruned by checkpoints, after a
\* crash between the store's commit and the anchor's, and after a rollback of
\* the store: no change is lost, resurrected or taken from another branch.
ViewIsAcceptedPrefix ==
    \A o \in Owner : pc[o] \in Opened =>
        view[o] = {e.id : e \in {x \in log : x.rev <= head[o].rev}}

\* A change whose commit() resolved is known to every owner that is current.
AckedSurvives ==
    \A o \in Owner : Current(o) => acked \subseteq view[o]

\* "Publication only after acceptance": no frame reaches pubsub unless the
\* anchor went through the entry that carries it, even if storage rolls back.
PublishedOnlyAccepted == published \subseteq {e.id : e \in log}

\* While storage keeps what it acknowledged, the journal can be opened from any
\* reachable state: no interleaving of owners, crashes and late swaps leaves a
\* store that restore() would reject as rolled back, or an outbox it cannot bind.
Reopenable ==
    backups = {} =>
        /\ ClassifySnapshot(store, anchor) # "reject"
        /\ OutboxReadable(store.pubs, RestoredLedger(store.rows), store.revision)

\* On such storage an accepted frame stays queued until it has been handed to
\* pubsub.
NoPublicationLost ==
    backups = {} =>
        \A e \in log : HasFrame(e) => OwnBinding(e) \in store.pubs \/ e.id \in published

\* The bindings and byte count a current owner keeps in memory are the ones
\* another restore() would compute from the rows that storage has kept.
MemoryMatchesRows ==
    \A o \in Owner : backups = {} /\ Current(o) /\ store.revision = head[o].rev =>
        /\ ledger[o] = RestoredLedger(store.rows)
        /\ retained[o] = [count |-> Cardinality(DOMAIN store.rows),
                          bytes |-> store.bytes]

\* needsCheckpoint asks early enough: a delta that prepare() let through never
\* meets the entry or byte limit in stage().
DeltaFits ==
    \A o \in Owner :
        /\ backups = {} /\ pc[o] = "staging" /\ Current(o) /\ ~prep[o].ckpt
        /\ store.revision = head[o].rev
        => /\ Cardinality(DOMAIN store.rows) < MaxEntries
           /\ prep[o].size <= MaxBytes - store.bytes

\* Every accepted frame is eventually handed to pubsub.
FramesDelivered ==
    \A n \in 1..MaxPrep :
        (\E e \in log : e.id = n /\ HasFrame(e)) ~> n \in published

\* Some owner is always open and current again.
Recovers == []<>(\E o \in Owner : pc[o] = "idle" /\ head[o] = anchor)

\* An open journal keeps going: its frames go out, and some owner is current.
JournalServes == FramesDelivered /\ Recovers

\* What a current owner accounts for is what storage holds, and with it a delta
\* it let through fits.
AccountsKept == MemoryMatchesRows /\ DeltaFits

-----------------------------------------------------------------------------
(* The inductive invariant behind ViewIsAcceptedPrefix, AckedSurvives and     *)
(* PublishedOnlyAccepted.  It holds whatever storage rolls back to.           *)

AcceptedUpTo(r) == {e.id : e \in {x \in log : x.rev <= r}}
AcceptedId(n) == \E e \in log : e.id = n
IsAccepted(a) == a = NoAnchor \/ \E e \in log : AnchorOf(e) = a

\* Every entry that is held anywhere, and every store image.
Images == {store} \cup backups \cup {snap[o] : o \in Owner}
Known ==
    log \cup late \cup {e \in {prep[o] : o \in Owner} : e # NoEntry}
        \cup UNION {{s.rows[r] : r \in DOMAIN s.rows} : s \in Images}

\* An entry extends an accepted one, and a checkpoint holds all that precedes it.
GoodEntry(e) ==
    /\ e.id \in 1..fresh /\ e.rev # 0 /\ IsAccepted(ParentOf(e))
    /\ e.ops = (IF e.ckpt THEN AcceptedUpTo(e.rev - 1) ELSE {}) \cup {e.id}
    /\ \A b \in e.binds : b.tok = e.id \/ AcceptedId(b.tok)

KnownInv ==
    /\ \A e \in Known : GoodEntry(e)
    /\ \A e, f \in Known : e.id = f.id => e = f

LogInv ==
    /\ \A e \in log : e.rev <= anchor.rev
    /\ \A e, f \in log : e.rev = f.rev => e = f
    /\ \A r \in 1..anchor.rev : \E e \in log : e.rev = r
    /\ IsAccepted(anchor)

\* All rows of an image but the newest are accepted, unless a row was appended
\* to a rolled-back store, in which case the chain check fails.
GoodImage(s) ==
    /\ \E lo \in 1..(s.revision + 1) : DOMAIN s.rows = lo..s.revision
    /\ \A r \in DOMAIN s.rows : s.rows[r].rev = r
    /\ ChainValid(s) =>
          \A r \in DOMAIN s.rows : r # s.revision => s.rows[r] \in log

ImageInv == \A s \in Images : GoodImage(s)

Preparing == {"checking", "staging", "prepared", "verifying", "swapping",
              "confirming"}

OwnerInv(o) ==
    /\ pc[o] \in Opened => /\ IsAccepted(head[o])
                           /\ view[o] = AcceptedUpTo(head[o].rev)
    /\ pc[o] \in Preparing => prep[o] # NoEntry /\ ParentOf(prep[o]) = head[o]
    /\ pc[o] \in {"finishing", "rechecking", "discarding", "reading"} =>
          ChainValid(snap[o])
    /\ pc[o] = "finishing" => snap[o].revision # 0
    /\ pc[o] \in {"rechecking", "discarding", "reading"} =>
          snap[o].revision = 0 \/ snap[o].rows[snap[o].revision] \in log
    /\ pc[o] = "listed" => snap[o].pubs \subseteq ledger[o]
    /\ \A b \in ledger[o] \cup pendingBindings[o] \cup batch[o] \cup sending[o] :
          AcceptedId(b.tok)

HistoryInv == \A n \in acked \cup published : AcceptedId(n)

\* The whole of it.
JournalInv ==
    /\ TypeOK /\ KnownInv /\ LogInv /\ ImageInv /\ HistoryInv
    /\ \A o \in Owner : OwnerInv(o)

-----------------------------------------------------------------------------
(* The inductive invariant behind Reopenable, NoPublicationLost and           *)
(* AccountsKept, for storage that keeps what it acknowledged: the store is    *)
(* never behind the anchor and at most one row ahead, and what owners         *)
(* remember of it is still so unless another owner has committed.             *)

\* The store has held e as its newest row, and may have gone on since.
Written(e) == /\ e.rev <= store.revision
              /\ e.rev = store.revision => store.rows[e.rev] = e

\* The store has had the rows of s, and may have gone on since.
Follows(s) ==
    /\ s.revision <= store.revision
    /\ s.revision = store.revision => s.rows = store.rows /\ s.bytes = store.bytes

Ahead == store.revision = anchor.rev + 1 /\ store.rows[store.revision].parent = anchor.id

FrameKept(e) == HasFrame(e) => OwnBinding(e) \in store.pubs \/ e.id \in published

StoreKept ==
    /\ ChainValid(store) /\ BindingsAdmitted(store.rows)
    /\ IsFiniteSet(RestoredLedger(store.rows))
    /\ Ahead \/ (store.revision = anchor.rev /\ LastId(store) = anchor.id)
    /\ OutboxReadable(store.pubs, RestoredLedger(store.rows), store.revision)
    /\ \A e \in late : Written(e)
    /\ \A e \in log : FrameKept(e)
    /\ store.revision # 0 => FrameKept(store.rows[store.revision])

OwnOf(e) == IF HasFrame(e) THEN {OwnBinding(e)} ELSE {}

\* The store holds these bindings, in this many rows of this many bytes, and
\* queues no frame but these.
Holds(binds, count, bytes, pubs) ==
    /\ RestoredLedger(store.rows) = binds
    /\ Cardinality(DOMAIN store.rows) = count /\ store.bytes = bytes
    /\ store.pubs \subseteq pubs

\* What owner o remembers once its preparation is committed.
HoldsAfter(o, e) ==
    Holds(RetainedLedger(o, e.ckpt) \cup OwnOf(e),
          IF e.ckpt THEN 1 ELSE retained[o].count + 1,
          IF e.ckpt THEN e.size ELSE retained[o].bytes + e.size,
          pendingBindings[o] \cup OwnOf(e))

\* What prepare() found is still so: only the owner itself changes it.
PreparedFrom(o, e) ==
    /\ e.binds = (IF e.ckpt THEN pendingBindings[o] ELSE {}) \cup OwnOf(e)
    /\ BindingsRecordable(o, e.ckpt, HasFrame(e))
    /\ Cardinality(e.binds) <= MaxOutbox /\ IsFiniteSet(e.binds)
    /\ ~e.ckpt => ~needsCheckpoint(o) /\ e.size <= Headroom

Reading == {"anchoring", "finishing", "rechecking", "discarding", "reading", "listed"}
Storing == {"verifying", "swapping", "confirming"}

OwnerKept(o) ==
    /\ pc[o] \in Reading => Follows(snap[o])
    /\ pc[o] \in Preparing => PreparedFrom(o, prep[o])
    /\ pc[o] \in Storing => /\ Written(prep[o])
                            /\ store.revision = prep[o].rev => HoldsAfter(o, prep[o])
    /\ pc[o] \in Opened /\ store.revision = head[o].rev =>
          /\ Holds(ledger[o], retained[o].count, retained[o].bytes, pendingBindings[o])
          /\ pc[o] = "listed" => store.pubs \subseteq snap[o].pubs
    /\ \A b \in sending[o] : b.tok \in published
    /\ IsFiniteSet(pendingBindings[o])
    /\ pc[o] = "listed" => IsFiniteSet(snap[o].pubs)

StorageInv == backups = {} => StoreKept /\ \A o \in Owner : OwnerKept(o)

-----------------------------------------------------------------------------
(* Refinement *)

\* The accepted ids in revision order.
AcceptedIds == [r \in 1..anchor.rev |-> (CHOOSE e \in log : e.rev = r).id]

Abstract == INSTANCE AcceptedLog WITH
    Item <- 1..MaxPrep,
    accepted <- AcceptedIds,
    open <- [o \in Owner |-> pc[o] \in Opened],
    view <- [o \in Owner |-> IF pc[o] \in Opened THEN view[o] ELSE {}]

\* Two owners, a store that may roll back and an anchor behave like one
\* append-only log that open owners see prefixes of.
RefinesAcceptedLog == Abstract!Spec
=============================================================================
