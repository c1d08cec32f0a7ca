--------------------------- MODULE GroupSecurity ---------------------------
(***************************************************************************)
(* The group security coordinator with its state store and rollback        *)
(* anchor: key packages, creation, joining, commits, delivery of the       *)
(* outbox, forks, removal and restart.  Several coordinators (tabs or      *)
(* processes, each with a provider of its own) may share one store and one *)
(* anchor.                                                                 *)
(*                                                                         *)
(* A control record is identified with the chain of operation ids that     *)
(* leads to it: records are hash-linked, so a record id fixes all its      *)
(* ancestors, and the signed payload fixes the group state it leads to.    *)
(* A store commitment is the snapshot it commits to.  Signatures cannot be *)
(* forged and the provider computes what the record says.                  *)
(*                                                                         *)
(* One step is one durable effect.  Reads that verify the store and the    *)
(* anchor against a remembered value are part of the step they precede:    *)
(* no value of either comes back once it was replaced, so two reads that   *)
(* both saw the remembered value could have been made together.  (SetBack  *)
(* brings a store value back; then the anchor no longer matches.)          *)
(***************************************************************************)
EXTENDS Naturals, Sequences, FiniteSets

CONSTANTS
    Owner,          \* processes that may run a coordinator on this store
    Op,             \* operation ids of membership changes
    Removal,        \* those that remove the local member
    Adding,         \* those that add the local member to a group of others
    Package,        \* operation ids of key package requests
    Windows,        \* replay windows a process may be configured with
    MaxEpoch,       \* bound: epochs of a group
    MaxOutbox,      \* maxOutboxEntries
    MaxReplay,      \* maxReplayEntries
    MaxFaults,      \* bound: crashes and failing calls
    MaxBackups      \* bound: times the store is set back to an older copy

Epoch(r) == Len(r) - 1
Parent(r) == SubSeq(r, 1, Len(r) - 1)
LastOp(r) == r[Len(r)]
IsAncestor(p, r) == Len(p) <= Len(r) /\ SubSeq(r, 1, Len(p)) = p
Record == UNION {[1..n -> Op] : n \in 1..(MaxEpoch + 1)}

\* Chains an invitation may carry: they end with the record that adds this member.
Invited == {r \in Record : Len(r) >= 2 /\ LastOp(r) \in Adding}

ASSUME GroupConstants ==
    /\ Removal \subseteq Op /\ Adding \subseteq Op \ Removal
    /\ Windows \subseteq Nat \ {0}
    /\ {MaxEpoch, MaxOutbox, MaxReplay, MaxFaults, MaxBackups} \subseteq Nat

VARIABLES
    store,      \* the group's snapshot in the durable store, rev 0 when absent
    anchor,     \* the protected rollback anchor
    co,         \* co[o]: the process o, its provider and its coordinator
    delivered,  \* records an external receiver durably accepted
    told,       \* records reported as committed to a caller
    given,      \* key packages handed to a caller
    backup,     \* an older copy of the store
    faults, backups

vars == <<store, anchor, co, delivered, told, given, backup, faults, backups>>
----------------------------------------------------------------------------
(* Snapshots of the store. *)

NoSnapshot ==
    [rev |-> 0, head |-> << >>, replay |-> {}, outbox |-> {},
     pend |-> {}, used |-> {}, fork |-> FALSE]

KeyPackage == [op : Package, by : Owner]

Snapshot ==
    [rev : Nat, head : Record \cup {<< >>}, replay : SUBSET Record,
     outbox : SUBSET Record, pend : SUBSET KeyPackage,
     used : SUBSET KeyPackage, fork : BOOLEAN]

\* replayWindowFloor, authorizationAnchorFloor
WindowFloor(e, w) == IF e + 1 > w THEN e - w + 1 ELSE 0
AnchorFloor(e, w) == IF WindowFloor(e, w) = 0 THEN 0 ELSE WindowFloor(e, w) - 1

\* Retain what a record in the window needs to be authorized, and every record
\* whose delivery is outstanding.
ShouldPrune(r, out, e, w) == Epoch(r) < AnchorFloor(e, w) /\ r \notin out

Pruned(s, w) ==
    [s EXCEPT !.replay =
        {r \in @ : ~ShouldPrune(r, s.outbox, Epoch(s.head), w)}]

\* The operations of a transaction; each transaction raises the revision by one.
setEncryptedState(s, r) == [s EXCEPT !.rev = @ + 1, !.head = r]
markReplay(s, rs) == [s EXCEPT !.replay = @ \cup rs]
enqueueOutbox(s, r) == [s EXCEPT !.outbox = @ \cup {r}]
removeOutbox(s, r) == [s EXCEPT !.rev = @ + 1, !.outbox = @ \ {r}]
putPendingKeyPackage(s, k) == [s EXCEPT !.rev = @ + 1, !.pend = @ \cup {k}]
consumePendingKeyPackage(s, k) ==
    [s EXCEPT !.pend = @ \ {k}, !.used = @ \cup {k}]
markFork(s) == [s EXCEPT !.rev = @ + 1, !.fork = TRUE]

\* The snapshots the transactions aim at.
Extended(s, r, w) ==
    Pruned(enqueueOutbox(markReplay(setEncryptedState(s, r), {r}), r), w)

\* Mutants: one acceptance empties the outbox; the entry stays in the outbox.
AcknowledgedAll(s, r, w) ==
    Pruned([s EXCEPT !.rev = @ + 1, !.outbox = {}], w)

AcknowledgedNothing(s, r, w) == s

Acknowledged(s, r, w) == Pruned(removeOutbox(s, r), w)

Compacted(s, w) == Pruned([s EXCEPT !.rev = @ + 1], w)

Founded(s, r) == enqueueOutbox(markReplay(setEncryptedState(s, r), {r}), r)

Prefixes(r) == {SubSeq(r, 1, n) : n \in 1..Len(r)}

Joined(s, r, k, w) ==
    Pruned(markReplay(consumePendingKeyPackage(setEncryptedState(s, r), k),
                      Prefixes(r)), w)

\* buildVerifiedView, first half: nothing occurs twice and the window is full.
Retained(s, w) ==
    /\ s.replay # {}
    /\ \A r, q \in s.replay :
            (Epoch(r) = Epoch(q) \/ LastOp(r) = LastOp(q)) => r = q
    /\ \A e \in AnchorFloor(Epoch(s.head), w)..Epoch(s.head) :
            \E r \in s.replay : Epoch(r) = e
    /\ \A r \in s.replay :
            /\ Epoch(r) <= Epoch(s.head)
            /\ ~ShouldPrune(r, s.outbox, Epoch(s.head), w)

\* buildVerifiedView, second half: neighbours are linked and the head is there.
Linked(s) ==
    /\ s.head \in s.replay
    /\ \A r, q \in s.replay : Epoch(r) = Epoch(q) + 1 => Parent(r) = q

Fits(s) == Cardinality(s.outbox) <= MaxOutbox /\ Cardinality(s.replay) <= MaxReplay

Verifies(s, w) == Fits(s) /\ Retained(s, w) /\ Linked(s)

\* validateGroupStateStoreSnapshotSemantics: what every commit must leave behind.
Sound(s) ==
    /\ \A k, l \in s.pend : k.op = l.op => k = l
    /\ s.pend \cap s.used = {}
    /\ s.head = << >> => s.used = {} /\ s.outbox = {} /\ s.replay = {} /\ ~s.fork
    /\ s.head # << >> =>
            \A r \in s.outbox \cup s.replay : Epoch(r) <= Epoch(s.head)
----------------------------------------------------------------------------
(* The rollback anchor. *)

\* rejectPersistedFork
Stopped(s) == s.fork

NoAnchor == [snap |-> NoSnapshot, term |-> "active"]
Active(s) == [snap |-> s, term |-> "active"]
Present == anchor # NoAnchor

\* validateAdvance, classifyAnchorAdvance
MayAdvance(from, to) ==
    from # NoSnapshot =>
        /\ to.rev = from.rev + 1
        /\ Len(to.head) \in {Len(from.head), Len(from.head) + 1}
        /\ Len(to.head) = Len(from.head) => to.head = from.head

Retired(a) == [a EXCEPT !.term = "removed"]

\* Mutant: the terminal reason is overwritten.
PoisonedAgain(initial) ==
    IF Present THEN [anchor EXCEPT !.term = "forked"]
    ELSE [snap |-> initial, term |-> "forked"]

\* poison: whichever value is current becomes terminal; terminal ones stay.
Poisoned(initial) ==
    IF anchor.term # "active" THEN anchor
    ELSE IF Present THEN [anchor EXCEPT !.term = "forked"]
    ELSE [snap |-> initial, term |-> "forked"]
----------------------------------------------------------------------------
(* Coordinators.  pc:                                                      *)
(*   off       a process without a coordinator                             *)
(*   persist   the provider has the next state, the store has not          *)
(*   confirm   the transaction was answered and is read back               *)
(*   advance   the store has the next state, the anchor has not            *)
(*   reconcile a failed write is compared with what the store holds        *)
(*   undo      the provider is to be set back                              *)
(*   import    the provider is to be loaded from the store                 *)
(*   retire    the local member is removed, the anchor does not say so yet *)
(*   send      a delivery is with the receiver                             *)
(*   audit     fork evidence is to be written beside the poisoned anchor   *)
(*   idle      usable;  dead: unusable, for the reasons in why             *)

Off(retired, prov) ==
    [pc |-> "off", op |-> "none", mem |-> NoSnapshot, rec |-> << >>,
     want |-> NoSnapshot, amb |-> FALSE, prov |-> prov, retired |-> retired,
     why |-> {}, todo |-> {}, win |-> 1]

First == {"boot", "join", "package"}    \* operations before there is an anchor

Init ==
    /\ store = NoSnapshot /\ anchor = NoAnchor
    /\ co = [o \in Owner |-> Off(FALSE, << >>)]
    /\ delivered = {} /\ told = {} /\ given = {}
    /\ backup = NoSnapshot /\ faults = 0 /\ backups = 0

Fault == faults < MaxFaults /\ faults' = faults + 1
NoFault == UNCHANGED faults
External == <<delivered, told, given, backup, backups>>

Expected(o) == IF co[o].op \in First THEN NoAnchor ELSE Active(co[o].mem)

\* verifyCurrentStoreSnapshot
Current(o) == store = co[o].mem /\ anchor = Active(co[o].mem)

\* What rejectRollbackTerminalState leaves in the coordinator.
Reasons == IF anchor.term = "active" THEN {} ELSE {anchor.term}

Become(o, c) == co' = [co EXCEPT ![o] = c]

\* The failure of an operation, with the reasons for which the coordinator stops.
Failed(o, reasons) ==
    LET me == [co[o] EXCEPT !.why = @ \cup reasons]
        poisoned == "poisoned" \in me.why
    IN CASE me.op \in {"commit", "boot"} -> [me EXCEPT !.pc = "reconcile"]
         [] me.op = "join" ->
                IF poisoned THEN Off(TRUE, me.prov) ELSE [me EXCEPT !.pc = "reconcile"]
         [] me.op = "ack" ->
                [me EXCEPT !.pc = IF me.why = {} THEN "idle" ELSE "dead",
                           !.op = "none", !.todo = {}]
         [] OTHER -> Off(poisoned, me.prov)
----------------------------------------------------------------------------
(* Key packages, before the group is known to this store. *)

Fresh(o) ==
    /\ co[o].pc = "off" /\ ~co[o].retired
    /\ store.head = << >> /\ ~Present

CreatePackage(o, p) ==
    /\ Fresh(o) /\ co[o].prov = << >>
    /\ \A k \in store.pend : k.op # p
    /\ Become(o, [co[o] EXCEPT !.pc = "persist", !.op = "package", !.mem = store,
                    !.want = putPendingKeyPackage(store, [op |-> p, by |-> o])])
    /\ NoFault /\ UNCHANGED <<store, anchor, External>>

\* A retry of a request that is already durable is given the durable package.
RetryPackage(o, p) ==
    /\ Fresh(o)
    /\ \E k \in store.pend : k.op = p /\ given' = given \cup {k}
    /\ NoFault /\ UNCHANGED <<store, anchor, co, delivered, told, backup, backups>>
----------------------------------------------------------------------------
(* Creation of the group, joining it and extending it. *)

Bootstrap(o, x, w) ==
    /\ Fresh(o) /\ co[o].prov = << >> /\ x \notin Removal \cup Adding
    /\ Become(o, [co[o] EXCEPT !.pc = "persist", !.op = "boot", !.rec = <<x>>,
                    !.prov = <<x>>, !.mem = store, !.win = w,
                    !.want = Founded(store, <<x>>)])
    /\ NoFault /\ UNCHANGED <<store, anchor, External>>

\* verifyJoinInvitation: a linked chain without repeated operations, from the
\* first record to the one that adds this member with a pending key package.
InvitationVerifies(r, k) ==
    /\ r \in Invited /\ k \in store.pend /\ k \notin store.used
    /\ \A m, n \in 1..Len(r) : r[m] = r[n] => m = n

Join(o, r, k, w) ==
    /\ Fresh(o) /\ co[o].prov = << >>
    /\ InvitationVerifies(r, k)
    /\ Become(o, [co[o] EXCEPT !.pc = "persist", !.op = "join", !.rec = r,
                    !.prov = r, !.mem = store, !.win = w,
                    !.want = Joined(store, r, k, w)])
    /\ NoFault /\ UNCHANGED <<store, anchor, External>>

Known(s, x) == \E r \in s.replay : LastOp(r) = x

Sibling(r, s) ==
    \E q \in s.replay : q # r /\ Epoch(q) = Epoch(r) /\ Parent(q) = Parent(r)

\* verifyControl: what an authenticated record is to a verified view.
ControlStatus(s, r) ==
    IF Sibling(r, s) THEN "fork"
    ELSE IF r \in s.replay THEN "duplicate"
    ELSE IF Known(s, LastOp(r)) \/ Parent(r) # s.head THEN "refused"
    ELSE "new"

\* The provider computes the next state and the record is signed or verified.
Prepare(o, x) ==
    LET r == Append(co[o].mem.head, x) IN
    /\ co[o].pc = "idle" /\ Current(o)
    /\ ControlStatus(co[o].mem, r) = "new" /\ Epoch(co[o].mem.head) < MaxEpoch
    /\ Become(o, [co[o] EXCEPT !.pc = "persist", !.op = "commit", !.rec = r,
                    !.prov = r, !.want = Extended(co[o].mem, r, co[o].win)])
    /\ NoFault /\ UNCHANGED <<store, anchor, External>>

\* An operation id that is already recorded is answered without a new record.
CreateCommit(o, x) == x \notin Removal \cup Adding /\ Prepare(o, x)

\* A record of another member that extends the head; duplicates, records from
\* outside the window and records with another parent change nothing.
ApplyCommit(o, x) == x \notin Removal \cup Adding /\ Prepare(o, x)

\* The record removes this member: the provider has erased its group, and the
\* anchor is retired instead of advanced.
AcceptLocalRemoval(o, x) ==
    /\ x \in Removal /\ co[o].pc = "idle" /\ Current(o)
    /\ ControlStatus(co[o].mem, Append(co[o].mem.head, x)) = "new"
    /\ Epoch(co[o].mem.head) < MaxEpoch
    /\ Become(o, [co[o] EXCEPT !.pc = "retire", !.rec = Append(co[o].mem.head, x),
                               !.why = @ \cup {"removed"}, !.prov = << >>])
    /\ NoFault /\ UNCHANGED <<store, anchor, External>>

Dead(o, reasons) == [co[o] EXCEPT !.pc = "dead", !.why = @ \cup reasons]

\* The anchor is retired, or the call, its answer or the read back fails.
RetireAnchor(o) ==
    /\ co[o].pc = "retire"
    /\ \/ anchor = Expected(o) /\ anchor' = Retired(anchor) /\ NoFault
       \/ anchor' \in {anchor, IF anchor = Expected(o) THEN Retired(anchor) ELSE anchor} /\ Fault
    /\ Become(o, Dead(o, {}))
    /\ UNCHANGED <<store, External>>

\* Another process moved the anchor first: the record is reconciled with what the
\* store holds.  The provider is not set back, whatever comes of it.
RetireRefused(o) ==
    /\ co[o].pc = "retire" /\ anchor # Expected(o)
    /\ \/ /\ store.head # << >> /\ ~Sibling(co[o].rec, store)
          /\ UNCHANGED anchor /\ NoFault
          /\ Become(o, Dead(o, {}))
       \/ /\ store.head = << >> \/ Sibling(co[o].rec, store)
          /\ anchor' = Poisoned(co[o].mem) /\ NoFault
          /\ Become(o, Dead(o, {"forked"}))
       \/ \E reason \in {"poisoned", "forked"} :
            /\ anchor' = Poisoned(co[o].mem) \/ (reason = "poisoned" /\ UNCHANGED anchor)
            /\ Fault
            /\ Become(o, Dead(o, {reason}))
    /\ UNCHANGED <<store, External>>

\* The provider call, its validation, the signature or the codec fails.
PrepareFails(o) ==
    /\ co[o].pc = "persist" /\ co[o].op \notin {"ack", "prune"} /\ Fault
    /\ Become(o, CASE co[o].op = "join" -> [co[o] EXCEPT !.pc = "reconcile"]
                   [] co[o].op = "package" -> Off(TRUE, << >>)
                   [] OTHER -> [co[o] EXCEPT !.pc = "undo"])
    /\ UNCHANGED <<store, anchor, External>>
----------------------------------------------------------------------------
(* The durable write shared by all operations: transaction, read back,     *)
(* anchor.                                                                 *)

MayWrite(o) ==
    /\ store = co[o].mem
    /\ co[o].op \notin First => anchor = Expected(o)
    /\ Fits(co[o].want) /\ Sound(co[o].want)
    /\ co[o].want.head # << >> => Verifies(co[o].want, co[o].win)

\* The transaction commits, or its answer is lost, or it fails.
Write(o) ==
    /\ co[o].pc = "persist" /\ MayWrite(o)
    /\ \/ store' = co[o].want /\ NoFault
          /\ Become(o, [co[o] EXCEPT !.pc = "confirm", !.amb = FALSE])
       \/ store' \in {store, co[o].want} /\ Fault
          /\ Become(o, IF co[o].op = "package" THEN Off(FALSE, << >>)
                       ELSE [co[o] EXCEPT !.pc = "confirm", !.amb = TRUE])
    /\ UNCHANGED <<anchor, External>>

WriteRefused(o) ==
    /\ co[o].pc = "persist" /\ ~MayWrite(o)
    /\ Become(o, Failed(o, IF co[o].op \in First \/ store.rev # co[o].mem.rev
                           THEN {} ELSE Reasons))
    /\ NoFault /\ UNCHANGED <<store, anchor, External>>

\* loadCommittedCoordinatorView
Confirm(o) ==
    /\ co[o].pc = "confirm" /\ store = co[o].want
    /\ IF co[o].op = "package"
       THEN /\ given' = given \cup (co[o].want.pend \ co[o].mem.pend)
            /\ Become(o, Off(FALSE, << >>))
       ELSE /\ UNCHANGED given
            /\ Become(o, [co[o] EXCEPT !.pc = "advance"])
    /\ NoFault /\ UNCHANGED <<store, anchor, delivered, told, backup, backups>>

ConfirmFails(o) ==
    /\ co[o].pc = "confirm"
    /\ (store # co[o].want /\ NoFault) \/ Fault
    /\ Become(o, IF co[o].op = "package" THEN Off(FALSE, << >>)
                 ELSE Failed(o, IF co[o].amb THEN {} ELSE {"poisoned"}))
    /\ UNCHANGED <<store, anchor, External>>

\* The operation is complete: the coordinator serves the state just anchored.
Completed(o) ==
    LET me == co[o]
        left == me.todo \ {me.rec}
    IN [me EXCEPT !.mem = me.want, !.op = "none", !.amb = FALSE,
          !.pc = CASE me.op = "prune" -> "import"
                   [] me.op = "ack" /\ left # {} -> "send"
                   [] OTHER -> "idle",
          !.todo = IF me.op = "ack" THEN left ELSE {}]

AdvanceAnchor(o) ==
    /\ co[o].pc = "advance" /\ store = co[o].want
    /\ anchor = Expected(o) /\ MayAdvance(anchor.snap, co[o].want)
    /\ anchor' = Active(co[o].want)
    /\ Become(o, Completed(o))
    /\ told' = IF co[o].op \in {"commit", "boot", "join"}
               THEN told \cup {co[o].rec} ELSE told
    /\ NoFault /\ UNCHANGED <<store, delivered, given, backup, backups>>

\* The anchor was not advanced, or it was and the answer is lost.
AdvanceFails(o) ==
    /\ co[o].pc = "advance"
    /\ \/ /\ store # co[o].want \/ anchor # Expected(o)
          /\ NoFault /\ UNCHANGED anchor
       \/ /\ store = co[o].want /\ Fault
          /\ anchor' \in {anchor, IF anchor = Expected(o)
                                  THEN Active(co[o].want) ELSE anchor}
    /\ Become(o, Failed(o, {"poisoned"}))
    /\ UNCHANGED <<store, External>>
----------------------------------------------------------------------------
(* After a failed write: is there a winner with the same parent?           *)

Candidates(o) ==
    IF co[o].op = "join"
    THEN Prefixes(co[o].rec) ELSE {co[o].rec}

\* Where an operation goes when reconciliation has added its reasons.
Reconciled(o, reasons) ==
    LET me == [co[o] EXCEPT !.why = @ \cup reasons]
        poisoned == "poisoned" \in me.why
    IN CASE me.op = "commit" /\ poisoned -> [me EXCEPT !.pc = "dead", !.op = "none"]
         [] me.op = "boot" /\ poisoned -> Off("forked" \notin reasons, me.prov)
         [] OTHER -> [me EXCEPT !.pc = "undo"]

Reconcile(o) ==
    /\ co[o].pc = "reconcile" /\ store.head # << >>
    /\ IF \E r \in Candidates(o) : Sibling(r, store)
       THEN \/ /\ anchor' = Poisoned(store) /\ NoFault
               /\ Become(o, Reconciled(o, {"forked"}))
            \/ /\ anchor' \in {anchor, Poisoned(store)} /\ Fault
               /\ Become(o, Reconciled(o, {"poisoned"}))
       ELSE /\ UNCHANGED anchor /\ NoFault
            /\ Become(o, Reconciled(o, {}))
    /\ UNCHANGED <<store, External>>

\* The store cannot be read, or is empty: the candidate itself becomes the marker.
PersistAmbiguity(o) ==
    /\ co[o].pc = "reconcile"
    /\ \/ /\ store.head = << >> /\ co[o].op \in First
          /\ UNCHANGED anchor /\ NoFault
          /\ Become(o, Reconciled(o, {"poisoned"}))
       \/ /\ store.head = << >> /\ co[o].op \notin First
          /\ anchor' = Poisoned(co[o].want) /\ NoFault
          /\ Become(o, Reconciled(o, {"forked"}))
       \/ /\ Fault
          /\ \/ /\ anchor' = Poisoned(co[o].want)
                /\ Become(o, Reconciled(o, {"forked"}))
             \/ /\ UNCHANGED anchor
                /\ Become(o, Reconciled(o, {"poisoned"}))
    /\ UNCHANGED <<store, External>>

\* rollbackInitialization, rollbackJoinProvider: the provider is reset to what it
\* was before there was a group, or is given up.
UndoFirst(o) ==
    \/ NoFault /\ Become(o, Off("poisoned" \in co[o].why, << >>))
    \/ Fault /\ Become(o, Off(TRUE, co[o].prov))

\* withProviderRollback
Undo(o) ==
    LET me == co[o] IN
    /\ me.pc = "undo"
    /\ IF me.op = "commit"
       THEN \/ /\ NoFault
               /\ Become(o, [me EXCEPT !.prov = me.mem.head, !.op = "none",
                               !.pc = IF me.why = {} THEN "idle" ELSE "dead"])
            \/ /\ Fault
               /\ Become(o, [me EXCEPT !.pc = "dead", !.op = "none",
                                       !.why = @ \cup {"poisoned"}])
       ELSE UndoFirst(o)
    /\ UNCHANGED <<store, anchor, External>>
----------------------------------------------------------------------------
(* Restart. *)

\* Mutant: the anchor is not consulted.
RestoreUnanchored(o, w) ==
    /\ co[o].pc = "off" /\ ~co[o].retired
    /\ store.head # << >> /\ ~store.fork
    /\ Verifies(Pruned(store, w), w) /\ Pruned(store, w) = store
    /\ Become(o, [co[o] EXCEPT !.mem = store, !.win = w, !.op = "none",
                               !.pc = "idle", !.prov = store.head])
    /\ NoFault /\ UNCHANGED <<store, anchor, External>>

Restore(o, w) ==
    /\ co[o].pc = "off" /\ ~co[o].retired
    /\ store.head # << >> /\ anchor = Active(store) /\ ~Stopped(store)
    /\ Verifies(Pruned(store, w), w)
    /\ Become(o, [co[o] EXCEPT !.mem = store, !.win = w,
                    !.want = Compacted(store, w),
                    !.op = IF Pruned(store, w) = store THEN "none" ELSE "prune",
                    !.pc = IF Pruned(store, w) = store THEN "import" ELSE "persist"])
    /\ NoFault /\ UNCHANGED <<store, anchor, External>>

\* The provider is loaded; the store and the anchor must still be those read.
Import(o) ==
    /\ co[o].pc = "import"
    /\ \/ /\ Current(o) /\ NoFault
          /\ Become(o, [co[o] EXCEPT !.pc = "idle", !.prov = co[o].mem.head])
       \/ /\ ~Current(o) /\ NoFault /\ Become(o, Off(TRUE, co[o].prov))
       \/ /\ Fault /\ Become(o, Off(FALSE, co[o].prov))
    /\ UNCHANGED <<store, anchor, External>>

\* A process dies at any point, or is replaced once it only reports errors.
Crash(o) ==
    /\ co[o].pc # "off"
    /\ IF co[o].pc = "dead" \/ (co[o].pc = "idle" /\ ~Current(o))
       THEN NoFault ELSE Fault
    /\ Become(o, Off(FALSE, << >>))
    /\ UNCHANGED <<store, anchor, External>>

Replace(o) ==
    /\ co[o].pc = "off" /\ (co[o].retired \/ co[o].prov # << >>)
    /\ Become(o, Off(FALSE, << >>))
    /\ NoFault /\ UNCHANGED <<store, anchor, External>>
----------------------------------------------------------------------------
(* Delivery of the outbox. *)

First2Send(s) == CHOOSE r \in s : \A q \in s : Epoch(r) <= Epoch(q)

FlushOutbox(o) ==
    /\ co[o].pc = "idle" /\ Current(o) /\ store.outbox # {}
    /\ Become(o, [co[o] EXCEPT !.pc = "send", !.todo = store.outbox])
    /\ NoFault /\ UNCHANGED <<store, anchor, External>>

\* The receiver accepts durably and the acceptance is validated.
SendAccepted(o) ==
    LET me == co[o]
        r == First2Send(me.todo)
    IN /\ me.pc = "send"
       /\ delivered' = delivered \cup {r}
       /\ Become(o, [me EXCEPT !.pc = "persist", !.op = "ack", !.rec = r,
                               !.want = Acknowledged(me.mem, r, me.win)])
       /\ NoFault /\ UNCHANGED <<store, anchor, told, given, backup, backups>>

\* No acceptance before the deadline, whether or not the receiver has it.
SendFails(o) ==
    LET me == co[o] IN
    /\ me.pc = "send"
    /\ delivered' \in {delivered, delivered \cup {First2Send(me.todo)}}
    /\ Become(o, [me EXCEPT !.pc = "idle", !.todo = {}])
    /\ NoFault /\ UNCHANGED <<store, anchor, told, given, backup, backups>>
----------------------------------------------------------------------------
(* Forks. *)

\* An authenticated record with the epoch and the parent of an accepted one.
DetectFork(o, p, x) ==
    LET r == Append(p, x) IN
    /\ co[o].pc = "idle" /\ Current(o)
    /\ p \in co[o].mem.replay \cup {<< >>} /\ ControlStatus(co[o].mem, r) = "fork"
    /\ \/ /\ anchor' = Poisoned(store) /\ NoFault
          /\ Become(o, [co[o] EXCEPT !.pc = "audit", !.why = {"forked"}])
       \/ /\ anchor' \in {anchor, Poisoned(store)} /\ Fault
          /\ Become(o, [co[o] EXCEPT !.pc = "dead", !.why = {"poisoned"}])
    /\ UNCHANGED <<store, External>>

\* The evidence is written beside the poisoned anchor if the store allows it.
AuditFork(o) ==
    /\ co[o].pc = "audit"
    /\ IF store = anchor.snap /\ store = co[o].mem
       THEN \/ store' = markFork(store) /\ NoFault
            \/ store' \in {store, markFork(store)} /\ Fault
       ELSE UNCHANGED store /\ NoFault
    /\ Become(o, [co[o] EXCEPT !.pc = "dead"])
    /\ UNCHANGED <<anchor, External>>

\* anchoredDocumentContext and the checks before each operation find the end.
NoticeTerminal(o) ==
    /\ co[o].pc = "idle" /\ anchor.term # "active"
    /\ Become(o, [co[o] EXCEPT !.pc = "dead", !.why = Reasons])
    /\ NoFault /\ UNCHANGED <<store, anchor, External>>
----------------------------------------------------------------------------
(* The store is not protected against being set back; the anchor is. *)

TakeBackup ==
    /\ backups < MaxBackups /\ store # backup /\ backup' = store
    /\ NoFault /\ UNCHANGED <<store, anchor, co, delivered, told, given, backups>>

SetBack ==
    /\ backups < MaxBackups /\ store # backup
    /\ store' = backup /\ backups' = backups + 1
    /\ NoFault /\ UNCHANGED <<anchor, co, delivered, told, given, backup>>
----------------------------------------------------------------------------
Work(o) ==
    \/ Write(o) \/ WriteRefused(o) \/ Confirm(o) \/ ConfirmFails(o)
    \/ AdvanceAnchor(o) \/ AdvanceFails(o) \/ Reconcile(o) \/ PersistAmbiguity(o)
    \/ RetireAnchor(o) \/ RetireRefused(o) \/ Undo(o) \/ Import(o) \/ AuditFork(o)

Requests(o) ==
    \/ \E p \in Package : CreatePackage(o, p) \/ RetryPackage(o, p)
    \/ \E x \in Op, w \in Windows : Bootstrap(o, x, w)
    \/ \E x \in Op : CreateCommit(o, x) \/ ApplyCommit(o, x) \/ AcceptLocalRemoval(o, x)
    \/ \E r \in Invited, k \in store.pend, w \in Windows : Join(o, r, k, w)
    \/ \E p \in co[o].mem.replay \cup {<< >>}, x \in Op : DetectFork(o, p, x)

Next ==
    \/ \E o \in Owner :
        \/ Requests(o) \/ Work(o) \/ PrepareFails(o)
        \/ (\E w \in Windows : Restore(o, w))
        \/ Crash(o) \/ Replace(o)
        \/ FlushOutbox(o) \/ SendAccepted(o) \/ SendFails(o)
        \/ NoticeTerminal(o)
    \/ TakeBackup \/ SetBack

Spec == Init /\ [][Next]_vars

\* The retries an application makes: it lets operations in progress run on,
\* restarts processes that only report errors, and flushes the outbox again and
\* again, each time in the hope that the receiver is reachable by now.
Fairness ==
    \A o \in Owner :
        /\ WF_vars(Work(o))
        /\ WF_vars(Crash(o) /\ NoFault) /\ WF_vars(Replace(o))
        /\ WF_vars(\E w \in Windows : Restore(o, w))
        /\ WF_vars(FlushOutbox(o)) /\ SF_vars(SendAccepted(o))
        /\ WF_vars(SendFails(o) \/ SendAccepted(o)) /\ WF_vars(NoticeTerminal(o))

LiveSpec == Spec /\ Fairness
----------------------------------------------------------------------------
(* Properties. *)

Coordinator ==
    [pc : {"off", "persist", "confirm", "advance", "reconcile", "undo", "import",
           "retire", "send", "audit", "idle", "dead"},
     op : First \cup {"none", "commit", "ack", "prune"},
     mem : Snapshot, rec : Record \cup {<< >>}, want : Snapshot, amb : BOOLEAN,
     prov : Record \cup {<< >>}, retired : BOOLEAN,
     why : SUBSET {"poisoned", "forked", "removed"}, todo : SUBSET Record,
     win : Nat]

\* The variables keep their types and the durable snapshot its limits.
TypeOK ==
    /\ store \in Snapshot
    /\ Cardinality(store.outbox) <= MaxOutbox /\ Cardinality(store.replay) <= MaxReplay
    /\ backup \in Snapshot
    /\ anchor \in [snap : Snapshot, term : {"active", "forked", "removed"}]
    /\ co \in [Owner -> Coordinator]
    /\ {delivered, told} \subseteq SUBSET Record /\ given \subseteq KeyPackage
    /\ faults \in 0..MaxFaults /\ backups \in 0..MaxBackups

\* A usable coordinator serves a state of the one anchored line, however many
\* processes share the store and whatever the store was set back to: two of them
\* never hold states of which neither extends the other.
NoSplitBrain ==
    \A o \in Owner : co[o].pc \in {"idle", "send"} =>
        /\ IsAncestor(co[o].mem.head, anchor.snap.head)
        /\ co[o].mem.rev <= anchor.snap.rev

\* Between operations the provider holds the state the coordinator verified,
\* also after an operation was undone.
ProviderInStep == \A o \in Owner : co[o].pc = "idle" => co[o].prov = co[o].mem.head

\* A record this store added to the line is still to be delivered or was accepted
\* by a receiver; the records before an invitation are not this store's to send.
DeliveriesKept ==
    \A n \in 1..Len(anchor.snap.head) :
        LET r == SubSeq(anchor.snap.head, 1, n) IN
        \/ r \in anchor.snap.outbox \cup delivered
        \/ \E q \in Invited : IsAncestor(r, q) /\ IsAncestor(q, anchor.snap.head)

\* A store in agreement with an active anchor can be restored by a process with
\* the shortest window in use: pruning never removes what verification needs.
Restorable ==
    store.head # << >> /\ anchor = Active(store) =>
        \A w \in Windows : (\A v \in Windows : w <= v) =>
            Verifies(Pruned(store, w), w)

\* All callers that asked with one operation id hold the same key package, as long
\* as the store is not set back: before there is an anchor nothing would notice.
OnePackage == backups = 0 => \A k, l \in given : k.op = l.op => k = l

Lineage == INSTANCE GroupLineage
    WITH line <- anchor.snap.head, status <- anchor.term

\* With stores, crashes, lost answers and several processes, the coordinator
\* implements one line that grows at its end, stops for good at a fork or a
\* removal, and of which only members are reported as committed.
RefinesLineage == Lineage!Spec

Stuck == anchor.term # "active" \/ store # anchor.snap

\* The outbox is empty again and again, every delivery accepted and removed,
\* unless the group has stopped or a failed write left the store and the anchor
\* apart for good.
OutboxDrains == <>[]Stuck \/ []<>(anchor.snap.outbox = {})

\* What a usable coordinator serves is on the one line, in its memory and in its
\* provider.
OneLine == NoSplitBrain /\ ProviderInStep

\* Nothing a coordinator promised is lost with a process: records to deliver,
\* states to restart from and key packages it handed out.
PromisesKept == DeliveriesKept /\ Restorable /\ OnePackage
=============================================================================
