------------------------- MODULE CoordinatedDocument -------------------------
(***************************************************************************)
(* Group members editing one coordinated document                          *)
(* (packages/core/src/coordinated-document.ts) under a signed role history *)
(* (document-authority-log.ts).                                            *)
(*                                                                         *)
(* Every member runs its own CoordinatedDocument over its own journal.  A  *)
(* change is signed with the author's sequence number in the current group *)
(* context and the hash of the author's previous frame; a receiver keeps   *)
(* one receipt (sequence, hash) per author and applies only the exact next *)
(* frame.  A new group context blocks content until the controller's next  *)
(* role record is installed, and resets the receipts.                      *)
(*                                                                         *)
(* The journal appears here as what module DocumentJournal shows of it: an *)
(* entry is accepted as a whole or not at all, an error of commit() leaves *)
(* open which, and restore() returns the accepted entries in order from    *)
(* the last checkpoint on.  Signatures, hashes and encryption are perfect. *)
(* The hash of a frame is its author and a number that author never uses   *)
(* again; the hash of a role record is its index in `signed'.              *)
(***************************************************************************)
EXTENDS Naturals, Sequences, FiniteSets, Functions

CONSTANTS Member,      \* the group, one process each
          Controller,  \* the member with role 3 in every role record
          Rosters,     \* the sets of writers a role record may name
          MaxEpoch,    \* bound on group contexts
          MaxRecords,  \* bound on role records the controller signs
          MaxChanges,  \* bound on changes an author commits
          MaxWal,      \* accepted entries at which needsCheckpoint holds
          MaxOutbox,   \* frames the journal's outbox holds
          MaxFaults    \* bound on crashes and ambiguous journal errors

ASSUME ConstantsAssumption ==
  /\ Controller \in Member
  /\ Rosters \subseteq SUBSET Member
  /\ \A w \in Rosters : Controller \in w
  /\ {MaxEpoch, MaxRecords, MaxWal, MaxOutbox} \subseteq Nat \ {0}
  /\ {MaxChanges, MaxFaults} \subseteq Nat

VARIABLES
  epoch,   \* epoch[m]: the context of m's coordinator (documentContext)
  signed,  \* role records signed so far, the genesis first
  log,     \* log[m]: the record ids of m's DocumentAuthorityLog, <<>> if none
  mem,     \* mem[m]: the fields of m's CoordinatedDocument
  wal,     \* wal[m]: the accepted entries of m's journal
  outbox,  \* outbox[m]: the frames m's journal has queued for publication
  net,     \* frames handed to pubsub: may arrive late, repeatedly or never
  made,    \* made[m]: changes m has committed in memory
  acked,   \* acked[m]: content that a call which resolved at m made durable
  faults   \* faults so far

vars == <<epoch, signed, log, mem, wal, outbox, net, made, acked, faults>>

-----------------------------------------------------------------------------
(* Data *)

NoReceipt == [seq |-> 0, n |-> 0]
NoReceipts == [a \in Member |-> NoReceipt]

FrameId(f) == <<f.author, f.n>>
Ids(frames) == {FrameId(f) : f \in frames}

(* No operation in the document's queue. *)
Idle == [stage |-> "idle"]

(* A document that is not constructed, or whose process is gone. *)
Off == [mode |-> "off", doc |-> {}, receipts |-> NoReceipts, rctx |-> 0,
        persisted |-> 0, op |-> Idle]

(* DocumentAuthorityLog: the newest record, and what it says. *)
HeadOf(m) == log[m][Len(log[m])]
Role(m) == signed[HeadOf(m)]

(* capture() throws unless the newest role record is for this context. *)
Captures(m) == log[m] # <<>> /\ Role(m).ctx = epoch[m]

(* validateNext: the record continues this history in a fresh context. *)
ValidNext(m, i) ==
  /\ signed[i].parent = HeadOf(m)
  /\ signed[i].ctx > Role(m).ctx

(* Mutant: receipts are kept when the group context changes. *)
ReceiptsForEver(m) == mem[m].receipts

(* The receipts apply() works with: those of another context do not count. *)
ReceiptsFor(m) ==
  IF mem[m].rctx = epoch[m] THEN mem[m].receipts ELSE NoReceipts

(* admitContentSequence(...) = 'apply'. *)
Admits(receipt, f) == f.seq = receipt.seq + 1 /\ f.parent = receipt.n

Accept(rs, f) == [rs EXCEPT ![f.author] = [seq |-> f.seq, n |-> f.n]]

Known(rs) == {a \in Member : rs[a] # NoReceipt}

-----------------------------------------------------------------------------
(* The journal entry apply() prepares for frame f.  A delta carries one    *)
(* receipt; a checkpoint carries the document and every receipt.  The role *)
(* history is written with a checkpoint, and whenever the journal may not  *)
(* hold the current one yet.                                               *)

(* Mutant: the role history is written once per opening. *)
EntryRecordsOnce(m, ckpt) ==
  IF ckpt \/ mem[m].persisted = 0 THEN log[m] ELSE <<>>

EntryRecords(m, ckpt) ==
  IF ckpt \/ mem[m].persisted # Len(log[m]) THEN log[m] ELSE <<>>

(* Mutant: a checkpoint carries the receipt of its own frame only. *)
EntryReceiptsOwn(rs, f, ckpt) == Restrict(Accept(rs, f), {f.author})

EntryReceipts(rs, f, ckpt) ==
  IF ckpt THEN Restrict(Accept(rs, f), Known(Accept(rs, f)))
          ELSE Restrict(Accept(rs, f), {f.author})

(* Mutant: a checkpoint carries the change, not the document. *)
EntryContentDelta(m, f, ckpt) == {f}

EntryContent(m, f, ckpt) == IF ckpt THEN mem[m].doc \cup {f} ELSE {f}

ContentEntry(m, f) ==
  LET ckpt == Len(wal[m]) >= MaxWal IN
    [ckpt |-> ckpt, ctx |-> epoch[m], content |-> EntryContent(m, f, ckpt),
     receipts |-> EntryReceipts(ReceiptsFor(m), f, ckpt),
     head |-> HeadOf(m), records |-> EntryRecords(m, ckpt)]

(* The entry of applyAuthorityUpdate. *)
RoleEntry(m) ==
  [ckpt |-> TRUE, ctx |-> epoch[m], content |-> mem[m].doc,
   receipts |-> <<>>, head |-> HeadOf(m), records |-> log[m]]

(* Acceptance by the journal: a checkpoint replaces the older entries. *)
Accepted(w, entry) == IF entry.ckpt THEN <<entry>> ELSE Append(w, entry)

-----------------------------------------------------------------------------
(* recover(): what the entries of a journal rebuild.  Receipts start over  *)
(* at a checkpoint and at every change of context.                         *)

ReplayStart(w, k) ==
  CHOOSE s \in 1 .. k :
    /\ s = 1 \/ w[s].ckpt \/ w[s].ctx # w[s - 1].ctx
    /\ \A j \in (s + 1) .. k : ~w[j].ckpt /\ w[j].ctx = w[j - 1].ctx

(* The receipts after the first k entries. *)
ReplayedReceipts(w, k) ==
  IF k = 0 THEN NoReceipts
  ELSE [a \in Member |->
          LET from == {j \in ReplayStart(w, k) .. k : a \in DOMAIN w[j].receipts}
          IN  IF from = {} THEN NoReceipt
              ELSE w[CHOOSE j \in from : \A i \in from : i <= j].receipts[a]]

ReplayedContent(w) == UNION {w[k].content : k \in DOMAIN w}

(* 'Journal replay prefix is invalid' does not occur. *)
ReplayValid(w) ==
  \A k \in DOMAIN w : ~w[k].ckpt =>
    \A a \in DOMAIN w[k].receipts :
      w[k].receipts[a].seq =
        1 + (IF k = ReplayStart(w, k) THEN 0
             ELSE ReplayedReceipts(w, k - 1)[a].seq)

(* The configured authority extends the head of every accepted entry. *)
ExtendsHeads(m) == \A k \in DOMAIN wal[m] : wal[m][k].head \in Range(log[m])

Recovered(m) ==
  [Off EXCEPT !.mode = "open",
     !.doc = ReplayedContent(wal[m]),
     !.receipts = ReplayedReceipts(wal[m], Len(wal[m])),
     !.rctx = IF wal[m] = <<>> THEN 0 ELSE wal[m][Len(wal[m])].ctx]

(* The newest nonempty authorityRecords of a journal, <<>> if none. *)
StoredRecords(w) ==
  LET full == {k \in DOMAIN w : w[k].records # <<>>} IN
    IF full = {} THEN <<>>
    ELSE w[CHOOSE k \in full : \A j \in full : j <= k].records

-----------------------------------------------------------------------------
Init ==
  /\ epoch = [m \in Member |-> 1]
  /\ \E w \in Rosters : signed = <<[parent |-> 0, ctx |-> 1, writers |-> w]>>
  /\ log = [m \in Member |-> <<1>>]
  /\ mem = [m \in Member |-> [Off EXCEPT !.mode = "open"]]
  /\ wal = [m \in Member |-> <<>>]
  /\ outbox = [m \in Member |-> <<>>]
  /\ net = {}
  /\ made = [m \in Member |-> 0]
  /\ acked = [m \in Member |-> {}]
  /\ faults = 0

(* The document is usable and its queue is free. *)
Ready(m) == mem[m].mode = "open" /\ mem[m].op = Idle

(* apply() ends for m; a document that was closed meanwhile goes away. *)
Settled(m, fields) ==
  mem' = [mem EXCEPT ![m] =
            IF fields.mode = "closing" THEN Off ELSE [fields EXCEPT !.op = Idle]]

(* An ambiguous error, a crash: the environment's, bounded. *)
Fault == faults < MaxFaults /\ faults' = faults + 1

Prepare(m, f, local) ==
  mem' = [mem EXCEPT ![m].op =
            [stage |-> "prepared", local |-> local, frame |-> f,
             ctx |-> epoch[m], revision |-> Len(log[m]),
             entry |-> ContentEntry(m, f)]]

(* change(): sign the next frame of this author. *)
BeginChange(m) ==
  /\ Ready(m) /\ Captures(m)
  /\ m \in Role(m).writers
  /\ made[m] < MaxChanges
  /\ Len(outbox[m]) < MaxOutbox
  /\ LET receipt == ReceiptsFor(m)[m] IN
       Prepare(m, [author |-> m, ctx |-> epoch[m], head |-> HeadOf(m),
                   seq |-> receipt.seq + 1, parent |-> receipt.n,
                   n |-> made[m] + 1, deps |-> Ids(mem[m].doc)], TRUE)
  /\ UNCHANGED <<epoch, signed, log, wal, outbox, net, made, acked, faults>>

(* prepareRemote throws when dependencies of the change are missing. *)
Complete(m, f) == f.deps \subseteq Ids(mem[m].doc)

(* receive(): every other frame is rejected, or a replay that changes nothing. *)
BeginReceive(m, f) ==
  /\ Ready(m) /\ Captures(m)
  /\ f.ctx = epoch[m]
  /\ f.head = HeadOf(m)
  /\ f.author \in Role(m).writers
  /\ Admits(ReceiptsFor(m)[f.author], f)
  /\ Complete(m, f)
  /\ Prepare(m, f, FALSE)
  /\ UNCHANGED <<epoch, signed, log, wal, outbox, net, made, acked, faults>>

(* Mutant: the context is not compared again at the commit step. *)
StillLeased(m) == mem[m].op.revision = Len(log[m]) /\ mem[m].mode = "open"

(* The gate's commit step: context and authority are what they were when   *)
(* the operation was prepared, and the document was not closed meanwhile.  *)
StillAuthorized(m) ==
  /\ mem[m].op.ctx = epoch[m]
  /\ mem[m].op.revision = Len(log[m])
  /\ mem[m].mode = "open"

Finalize(m) ==
  /\ mem[m].op.stage = "prepared"
  /\ StillAuthorized(m)
  /\ LET f == mem[m].op.frame IN
       /\ mem' = [mem EXCEPT ![m].doc = @ \cup {f},
                             ![m].receipts = Accept(ReceiptsFor(m), f),
                             ![m].rctx = mem[m].op.ctx,
                             ![m].op.stage = "committing"]
       /\ made' = IF mem[m].op.local THEN [made EXCEPT ![m] = @ + 1] ELSE made
  /\ UNCHANGED <<epoch, signed, log, wal, outbox, net, acked, faults>>

(* Timeout, abort, a failed check: the operation is dropped before it is   *)
(* visible.  If the journal's discard then fails the document fails too.   *)
Cancel(m) ==
  /\ mem[m].op.stage = "prepared"
  /\ \/ Settled(m, mem[m]) /\ UNCHANGED faults
     \/ Settled(m, [mem[m] EXCEPT !.mode = "failed"]) /\ Fault
  /\ UNCHANGED <<epoch, signed, log, wal, outbox, net, made, acked>>

(* The journal takes the entry, with the outbound frame of a local change. *)
Store(m) ==
  LET op == mem[m].op IN
    /\ wal' = [wal EXCEPT ![m] = Accepted(@, op.entry)]
    /\ outbox' = IF op.local THEN [outbox EXCEPT ![m] = Append(@, op.frame)]
                             ELSE outbox

(* journal.commit() resolves, fails after acceptance, or fails without. *)
JournalCommit(m) ==
  /\ mem[m].op.stage = "committing"
  /\ LET failed == [mem[m] EXCEPT !.mode = "failed"] IN
       \/ /\ Store(m)
          /\ acked' = [acked EXCEPT ![m] = @ \cup mem[m].op.entry.content]
          /\ Settled(m, [mem[m] EXCEPT !.persisted = mem[m].op.revision])
          /\ UNCHANGED faults
       \/ /\ Store(m) /\ Settled(m, failed) /\ Fault
          /\ UNCHANGED acked
       \/ /\ Settled(m, failed) /\ Fault
          /\ UNCHANGED <<wal, outbox, acked>>
  /\ UNCHANGED <<epoch, signed, log, net, made>>

-----------------------------------------------------------------------------
(* Role records and group contexts *)

(* signUpdate() by the controller, for its coordinator's context. *)
Sign(w) ==
  LET c == Controller
      record == [parent |-> HeadOf(c), ctx |-> epoch[c], writers |-> w] IN
    /\ log[c] # <<>>
    /\ Len(signed) < MaxRecords
    /\ epoch[c] > Role(c).ctx
    /\ record \notin Range(signed)
    /\ signed' = Append(signed, record)
    /\ UNCHANGED <<epoch, log, mem, wal, outbox, net, made, acked, faults>>

(* DocumentAuthorityLog.applyUpdate through the coordinator's gate. *)
Install(m, i) ==
  /\ log[m] # <<>>
  /\ ValidNext(m, i)
  /\ signed[i].ctx = epoch[m]
  /\ log' = [log EXCEPT ![m] = Append(@, i)]

(* The application updates the role history itself. *)
ApplyUpdate(m, i) ==
  /\ Install(m, i)
  /\ UNCHANGED <<epoch, signed, mem, wal, outbox, net, made, acked, faults>>

(* applyAuthorityUpdate(): first the role history, *)
BeginRole(m, i) ==
  /\ Ready(m)
  /\ Install(m, i)
  /\ mem' = [mem EXCEPT ![m].op = [stage |-> "role"]]
  /\ UNCHANGED <<epoch, signed, wal, outbox, net, made, acked, faults>>

(* then a checkpoint in the context of now, or the document fails. *)
RoleCheckpoint(m) ==
  /\ mem[m].op.stage = "role"
  /\ \/ /\ Captures(m)
        /\ mem' = [mem EXCEPT ![m].receipts = NoReceipts,
                              ![m].rctx = epoch[m],
                              ![m].op = [stage |-> "committing", local |-> FALSE,
                                         revision |-> Len(log[m]),
                                         entry |-> RoleEntry(m)]]
        /\ UNCHANGED faults
     \/ /\ ~Captures(m)
        /\ Settled(m, [mem[m] EXCEPT !.mode = "failed"])
        /\ UNCHANGED faults
     \/ Settled(m, [mem[m] EXCEPT !.mode = "failed"]) /\ Fault
  /\ UNCHANGED <<epoch, signed, log, wal, outbox, net, made, acked>>

(* The group moves on: the controller first, the others by its commits.    *)
(* DocumentGroupControlAuthority.authorize needs the controller bound to   *)
(* the control head that the transition replaces.                          *)
AdvanceEpoch(m) ==
  /\ \E i \in Range(log[m]) : signed[i].ctx = epoch[m]
  /\ epoch[m] < (IF m = Controller THEN MaxEpoch ELSE epoch[Controller])
  /\ epoch' = [epoch EXCEPT ![m] = @ + 1]
  /\ UNCHANGED <<signed, log, mem, wal, outbox, net, made, acked, faults>>

-----------------------------------------------------------------------------
(* Publication, restart *)

(* The oldest queued frame is handed to pubsub; publicationSent removes it *)
(* from the outbox unless that call fails.                                 *)
Publish(m) ==
  /\ Ready(m)
  /\ outbox[m] # <<>>
  /\ net' = net \cup {Head(outbox[m])}
  /\ \/ outbox' = [outbox EXCEPT ![m] = Tail(@)] /\ UNCHANGED faults
     \/ UNCHANGED outbox /\ Fault
  /\ UNCHANGED <<epoch, signed, log, mem, wal, made, acked>>

(* The process dies: memory is gone, journal and coordinator state stay. *)
Crash(m) ==
  /\ log[m] # <<>>
  /\ Fault
  /\ mem' = [mem EXCEPT ![m] = Off]
  /\ log' = [log EXCEPT ![m] = <<>>]
  /\ UNCHANGED <<epoch, signed, wal, outbox, net, made, acked>>

(* close(), also of a document that failed. *)
Close(m) ==
  /\ mem[m].mode \in {"open", "failed"}
  /\ mem' = [mem EXCEPT ![m] = IF @.op = Idle THEN Off
                               ELSE [@ EXCEPT !.mode = "closing"]]
  /\ UNCHANGED <<epoch, signed, log, wal, outbox, net, made, acked, faults>>

(* DocumentAuthorityLog.restore from what the application has: the newest  *)
(* history in the journal, the history another member exports, or no more  *)
(* than the pinned genesis.                                                *)
Provision(m) ==
  /\ log[m] = <<>>
  /\ \E records \in ({StoredRecords(wal[m]), <<1>>} \cup Range(log)) \ {<<>>} :
       log' = [log EXCEPT ![m] = records]
  /\ UNCHANGED <<epoch, signed, mem, wal, outbox, net, made, acked, faults>>

(* The document is constructed and recovers, or fails. *)
Open(m) ==
  /\ mem[m].mode = "off"
  /\ log[m] # <<>>
  /\ mem' = [mem EXCEPT ![m] =
               IF ExtendsHeads(m) /\ ReplayValid(wal[m]) THEN Recovered(m)
               ELSE [Off EXCEPT !.mode = "failed"]]
  /\ UNCHANGED <<epoch, signed, log, wal, outbox, net, made, acked, faults>>

Next ==
  \/ \E w \in Rosters : Sign(w)
  \/ \E m \in Member :
       \/ BeginChange(m)
       \/ \E f \in net : BeginReceive(m, f)
       \/ Finalize(m)
       \/ Cancel(m)
       \/ JournalCommit(m)
       \/ \E i \in DOMAIN signed : ApplyUpdate(m, i)
       \/ \E i \in DOMAIN signed : BeginRole(m, i)
       \/ RoleCheckpoint(m)
       \/ AdvanceEpoch(m)
       \/ Publish(m)
       \/ Crash(m)
       \/ Close(m)
       \/ Provision(m)
       \/ Open(m)

Spec == Init /\ [][Next]_vars

-----------------------------------------------------------------------------
(* Properties *)

Frame ==
  [author : Member, ctx : Nat, head : Nat, seq : Nat, parent : Nat, n : Nat,
   deps : SUBSET (Member \X Nat)]

RoleRecord == [parent : Nat, ctx : Nat, writers : SUBSET Member]

Receipt == [seq : Nat, n : Nat]

PartialReceipts == UNION {[S -> Receipt] : S \in SUBSET Member}

Entry ==
  [ckpt : BOOLEAN, ctx : Nat, content : SUBSET Frame, receipts : PartialReceipts,
   head : Nat, records : Seq(Nat)]

(* What the document's queue holds: nothing, a role update, a change that   *)
(* is prepared or with the journal, a role checkpoint with the journal.     *)
Operation ==
  {Idle} \cup {[stage |-> "role"]}
  \cup [stage : {"prepared", "committing"}, local : BOOLEAN, frame : Frame,
        ctx : Nat, revision : Nat, entry : Entry]
  \cup [stage : {"committing"}, local : {FALSE}, revision : Nat, entry : Entry]

Fields ==
  [mode : {"off", "open", "closing", "failed"}, doc : SUBSET Frame,
   receipts : [Member -> Receipt], rctx : Nat, persisted : Nat, op : Operation]

(* The variables have the types the code gives them.                       *)
TypeOK ==
  /\ epoch \in [Member -> Nat \ {0}]
  /\ signed \in Seq(RoleRecord)
  /\ log \in [Member -> Seq(Nat)]
  /\ mem \in [Member -> Fields]
  /\ wal \in [Member -> Seq(Entry)]
  /\ outbox \in [Member -> Seq(Frame)]
  /\ net \in SUBSET Frame
  /\ made \in [Member -> Nat]
  /\ acked \in [Member -> SUBSET Frame]
  /\ faults \in Nat

Published == net \cup UNION {Range(outbox[m]) : m \in Member}

(* An author never lets two different frames with the same sequence number *)
(* of one context out, although signed frames are dropped by timeouts and  *)
(* crashes and the number is then used again: receivers could never accept *)
(* both (the receipts that apply(), recover() and the checkpoints keep).   *)
NoEquivocation ==
  \A f, g \in Published :
    f.author = g.author /\ f.ctx = g.ctx /\ f.seq = g.seq => f = g

(* While a document is open, its receipts say exactly which content of the *)
(* current context it holds: for each author the frames 1 .. seq, linked   *)
(* by their parents, and nothing beyond, also after restart and compaction *)
(* (receipts in apply() and recover()).                                    *)
Exact(content, receipts, ctx) ==
  \A a \in Member :
    LET r == receipts[a]
        held == {f \in content : f.author = a /\ f.ctx = ctx}
    IN  /\ Cardinality(held) = r.seq
        /\ {f.seq : f \in held} = 1 .. r.seq
        /\ \A f \in held :
             \/ f.seq = r.seq /\ f.n = r.n
             \/ \E g \in held : g.seq = f.seq + 1 /\ g.parent = f.n

ReceiptsExact ==
  \A m \in Member : mem[m].mode \in {"open", "closing"} =>
    Exact(mem[m].doc, mem[m].receipts, mem[m].rctx)

(* Whatever an open document shows was written by a member that the role   *)
(* history this process is configured with names as a writer, under the    *)
(* record of that history that its frame names: a fork of the history does *)
(* not open (extendsHead in recover()).                                    *)
ContentAuthorized ==
  \A m \in Member : mem[m].mode = "open" =>
    \A f \in mem[m].doc :
      /\ f.head \in Range(log[m])
      /\ f.ctx = signed[f.head].ctx
      /\ f.author \in signed[f.head].writers

(* No change is visible without the changes it was made on top of.         *)
CausallyClosed ==
  \A m \in Member : \A f \in mem[m].doc : f.deps \subseteq Ids(mem[m].doc)

(* What a resolved call made durable is in the document whenever it is     *)
(* open, whatever failed, crashed or was compacted in between.             *)
AckedKept ==
  \A m \in Member : mem[m].mode = "open" => acked[m] \subseteq mem[m].doc

(* The newest nonempty authorityRecords in a journal cover every entry of  *)
(* it: a process that lost its memory can restore the role history from    *)
(* the journal and then recover.                                           *)
Provisionable ==
  \A m \in Member :
    {wal[m][k].head : k \in DOMAIN wal[m]} \subseteq Range(StoredRecords(wal[m]))

(* recover() never fails on a journal this code wrote.                     *)
ReplaysCleanly == \A m \in Member : ReplayValid(wal[m])

(* A frame becomes visible only while its context is the member's current  *)
(* one and its author a writer there, however long it was in preparation   *)
(* (the gate's context and lease check).                                   *)
AdmittedInContext ==
  [][\A m \in Member : mem[m].mode = "open" =>
       \A f \in mem'[m].doc \ mem[m].doc :
         /\ f.ctx = epoch[m]
         /\ Captures(m) /\ f.author \in Role(m).writers]_vars

(* Content enters an open document through the check of its context and     *)
(* author at the moment it is applied, or through a recovery that checks    *)
(* the role history, and is therefore attributed at all times.              *)
ContentAdmitted == []ContentAuthorized /\ AdmittedInContext

(* The document an application sees is a causal history that holds all it   *)
(* was told is durable.                                                     *)
HistoryKept == AckedKept /\ CausallyClosed

(* From what a member has in its journal, and from nothing else, it gets    *)
(* back its role history and recovers.                                      *)
JournalRecovers == Provisionable /\ ReplaysCleanly

-----------------------------------------------------------------------------
(* The inductive invariant of these properties, in four layers.  They say   *)
(* of each member how the signed records `sg', its role history h, its      *)
(* journal w, the fields x of its document and its context c fit together.  *)

Working(x) == x.mode \in {"open", "closing"}
Writing(x) == x.op.stage \in {"prepared", "committing"}

(* A role history: from the genesis on, record by record, in growing        *)
(* contexts.                                                                *)
History(sg, h) ==
  /\ h # <<>> /\ h[1] = 1
  /\ \A k \in DOMAIN h :
       /\ h[k] \in DOMAIN sg
       /\ k > 1 => sg[h[k]].parent = h[k - 1]
       /\ \A j \in 1 .. (k - 1) : sg[h[j]].ctx < sg[h[k]].ctx

(* r is the first n records of history h. *)
Begins(r, h, n) ==
  n \in DOMAIN h /\ Len(r) = n /\ \A k \in 1 .. n : r[k] = h[k]

(* The first layer: every member and every journal holds a role history or  *)
(* none, and only a document that works has an operation.  An entry carries *)
(* the history it was prepared under; none only if the journal has that     *)
(* very history.                                                            *)
Chained(sg, h, w, x) ==
  /\ h # <<>> => History(sg, h)
  /\ \A k \in DOMAIN w : w[k].records # <<>> => History(sg, w[k].records)
  /\ h = <<>> => x.mode = "off"
  /\ ~Working(x) => x.op = Idle
  /\ Writing(x) =>
       /\ x.op.revision \in DOMAIN h
       /\ \/ Begins(x.op.entry.records, h, x.op.revision)
          \/ /\ x.op.entry.records = <<>> /\ ~x.op.entry.ckpt
             /\ x.persisted = x.op.revision

HistoryInv ==
  /\ signed # <<>> /\ signed[1].parent = 0
  /\ \A m \in Member : Chained(signed, log[m], wal[m], mem[m])

(* What the frame names is a record that makes its author a writer in the   *)
(* context of the frame.                                                    *)
Attributed(sg, f) ==
  /\ f.head \in DOMAIN sg
  /\ f.ctx = sg[f.head].ctx
  /\ f.author \in sg[f.head].writers

(* The first n records of h explain the entry: its head, and before it the  *)
(* records that its frames name.                                            *)
Explains(h, n, e) ==
  \E p \in 1 .. n :
    /\ h[p] = e.head
    /\ \A f \in e.content : \E j \in 1 .. p : h[j] = f.head

(* The newest history in a journal explains that journal.                   *)
Backed(sg, w) ==
  \A k \in DOMAIN w :
    /\ Explains(StoredRecords(w), Len(StoredRecords(w)), w[k])
    /\ \A f \in w[k].content : Attributed(sg, f)

(* The member's role history explains its document and its journal, whose   *)
(* newest history is as much of it as the document takes it to be.          *)
Shown(h, w, x) ==
  /\ \A f \in x.doc : f.head \in Range(h)
  /\ \A k \in DOMAIN w : Explains(h, Len(h), w[k])
  /\ x.persisted # 0 => Begins(StoredRecords(w), h, x.persisted)

(* An entry under way, and the journal before it, are explained by the      *)
(* records that were there when it was prepared.                            *)
Underway(sg, h, w, op) ==
  /\ \A k \in DOMAIN w : Explains(h, op.revision, w[k])
  /\ Explains(h, op.revision, op.entry)
  /\ op.entry.head = h[op.revision]
  /\ \A f \in op.entry.content : Attributed(sg, f)
  /\ op.local => op.frame \in op.entry.content

(* A prepared frame names the newest of those records.                      *)
Named(sg, h, op) ==
  /\ Attributed(sg, op.frame)
  /\ op.frame.head = h[op.revision]
  /\ op.frame.ctx = op.ctx

(* The second layer: whatever is shown, journaled or in preparation is      *)
(* attributed and explained; a document that moves on to a new record has   *)
(* only content of earlier contexts.                                        *)
Explained(sg, h, w, x) ==
  /\ \A f \in x.doc : Attributed(sg, f)
  /\ Backed(sg, w)
  /\ Working(x) => Shown(h, w, x)
  /\ x.op.stage = "role" => \A f \in x.doc : f.ctx < sg[h[Len(h)]].ctx
  /\ Writing(x) => Underway(sg, h, w, x.op)
  /\ x.op.stage = "prepared" => Named(sg, h, x.op)

AuthorityInv == \A m \in Member : Explained(signed, log[m], wal[m], mem[m])

(* The context of the newest entry. *)
LastCtx(w) == IF w = <<>> THEN 0 ELSE w[Len(w)].ctx

(* A journal from which a document recovers: its receipts are exact, its    *)
(* content is finite, causally closed, and numbered uniquely.               *)
Sound(w) ==
  LET content == ReplayedContent(w) IN
    /\ Exact(content, ReplayedReceipts(w, Len(w)), LastCtx(w))
    /\ ReplayValid(w)
    /\ IsFiniteSet(content)
    /\ \A f \in content : f.ctx <= LastCtx(w) /\ f.deps \subseteq Ids(content)
    /\ \A f, g \in content :
         f.author = g.author /\ f.ctx = g.ctx /\ f.seq = g.seq => f = g

(* The journal once the entry that is with it is accepted. *)
Journaled(w, x) ==
  IF x.op.stage = "committing" THEN Accepted(w, x.op.entry) ELSE w

(* The receipts that count in context c. *)
Receipts(x, c) == IF x.rctx = c THEN x.receipts ELSE NoReceipts

(* A prepared entry says what applying its frame now will produce; its      *)
(* receipts count in its own context only.                                  *)
PreparedExactly(x, c) ==
  LET f == x.op.frame
      e == x.op.entry IN
    /\ x.op.ctx <= c /\ x.op.ctx # 0
    /\ f.ctx = x.op.ctx /\ e.ctx = x.op.ctx
    /\ f.deps \subseteq Ids(x.doc)
    /\ e.content = IF e.ckpt THEN x.doc \cup {f} ELSE {f}
    /\ x.op.ctx = c =>
         /\ Admits(Receipts(x, c)[f.author], f)
         /\ e.receipts = EntryReceipts(Receipts(x, c), f, e.ckpt)

(* The third layer: the document shows what its journal, with the entry     *)
(* under way, would rebuild.                                                *)
Replayable(w, x, c) ==
  /\ Sound(w) /\ Sound(Journaled(w, x))
  /\ LastCtx(w) <= c /\ LastCtx(Journaled(w, x)) <= c
  /\ ReplayedContent(w) \subseteq ReplayedContent(Journaled(w, x))
  /\ \A f \in x.doc : f.deps \subseteq Ids(x.doc)
  /\ Working(x) =>
       /\ x.doc = ReplayedContent(Journaled(w, x))
       /\ x.receipts = ReplayedReceipts(Journaled(w, x), Len(Journaled(w, x)))
       /\ x.rctx = LastCtx(Journaled(w, x))
  /\ x.op.stage = "prepared" => PreparedExactly(x, c)

ReplayInv == \A m \in Member : Replayable(wal[m], mem[m], epoch[m])

(* The fourth layer: what was acknowledged or let out is in the journal of  *)
(* its author, and so will be what is about to be let out.                  *)
PublicationInv ==
  /\ \A m \in Member :
       /\ acked[m] \subseteq ReplayedContent(wal[m])
       /\ \A f \in Range(outbox[m]) :
            f.author = m /\ f \in ReplayedContent(wal[m])
       /\ Writing(mem[m]) /\ mem[m].op.local => mem[m].op.frame.author = m
  /\ \A f \in net : f \in ReplayedContent(wal[f.author])

DocumentInv ==
  TypeOK /\ HistoryInv /\ AuthorityInv /\ ReplayInv /\ PublicationInv
=============================================================================
