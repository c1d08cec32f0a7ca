------------------- MODULE DocumentJournalStorage_proofs -------------------
(***************************************************************************)
(* The document journal over storage that keeps what it acknowledged: it   *)
(* can always be opened, no accepted frame is lost, and what an owner      *)
(* remembers is what the rows say.  StorageInv is inductive relative to    *)
(* the invariant of DocumentJournalSafety_proofs.  One owner commits at a  *)
(* time, because a commit needs a head at the store's revision and an      *)
(* anchor that is never behind the head.                                   *)
(***************************************************************************)
EXTENDS DocumentJournalSafety_proofs

Kept == StoreKept /\ \A o \in Owner : OwnerKept(o)

(* The store's revision is the anchor's or the next.  An open owner whose    *)
(* head is at the store's revision is therefore current.                     *)
LEMMA StoreRevision ==
    ASSUME SafetyInv, StoreKept
    PROVE  /\ store.revision \in Nat /\ anchor.rev \in Nat /\ anchor.id \in Nat
           /\ store.revision = anchor.rev \/ store.revision = anchor.rev + 1
BY DEF SafetyInv, TypeInv, SharedType, Anchor, IsStore, StoreKept, Ahead

LEMMA HeadCurrent ==
    ASSUME SafetyInv, StoreKept, NEW o \in Owner, pc[o] \in Opened,
           store.revision = head[o].rev
    PROVE  /\ head[o] = anchor /\ store.revision = anchor.rev
           /\ LastId(store) = anchor.id
<1> USE DEF SafetyInv
<1>1. IsAccepted(head[o]) /\ head[o].rev \in Nat /\ head[o].rev <= anchor.rev
  BY AcceptedBelowAnchor DEF OwnerInv
<1>2. store.revision = anchor.rev
  BY <1>1, StoreRevision
<1>3. \A e \in log : e.rev # 0
  BY KnownMembers DEF KnownInv, GoodEntry
<1>4. head[o].rev = anchor.rev /\ anchor \in Anchor
  BY <1>1, <1>2, StoreRevision DEF TypeInv, SharedType
<1>5. head[o] = anchor
  <2>1. CASE head[o] = NoAnchor
    <3>1. \A e \in log : AnchorOf(e) # anchor
      BY <1>3, <1>4, <2>1 DEF AnchorOf, NoAnchor
    <3> QED
      BY <2>1, <3>1 DEF LogInv, IsAccepted
  <2>2. CASE head[o] # NoAnchor
    <3>1. PICK x \in log : AnchorOf(x) = head[o]
      BY <1>1, <2>2 DEF IsAccepted
    <3>2. anchor # NoAnchor
      BY <1>3, <1>4, <3>1 DEF AnchorOf, NoAnchor
    <3>3. PICK y \in log : AnchorOf(y) = anchor
      BY <3>2 DEF LogInv, IsAccepted
    <3>4. x.rev = y.rev
      BY <1>4, <3>1, <3>3 DEF AnchorOf
    <3> QED
      BY <3>1, <3>3, <3>4 DEF LogInv
  <2> QED
    BY <2>1, <2>2
<1> QED
  BY <1>2, <1>5, StoreRevision DEF StoreKept, Ahead

(* Steps that take frames from the outbox, at most, once they are published. *)

SameContent == /\ store'.rows = store.rows /\ store'.revision = store.revision
               /\ store'.bytes = store.bytes

Shrinks == /\ SameContent /\ store'.pubs \subseteq store.pubs
           /\ \A b \in store.pubs : b \in store'.pubs \/ b.tok \in published'
           /\ published \subseteq published'

LEMMA ReadableOutbox ==
    ASSUME NEW P, NEW Q \in SUBSET P, NEW L, NEW r, IsFiniteSet(L), OutboxReadable(P, L, r)
    PROVE  OutboxReadable(Q, L, r)
<1>1. P \subseteq L
  BY DEF OutboxReadable, PublicationsBound
<1>2. IsFiniteSet(P)
  BY <1>1, FS_Subset
<1>3. Cardinality(Q) <= Cardinality(P) /\ Cardinality(P) \in Nat /\ Cardinality(Q) \in Nat
  BY <1>2, FS_Subset, FS_CardinalityType
<1>4. Cardinality(Q) <= MaxOutbox
  BY <1>3, SizeAssumption DEF OutboxReadable
<1> QED
  BY <1>4 DEF OutboxReadable, PublicationsBound

LEMMA FramesStay ==
    ASSUME Shrinks PROVE \A e : FrameKept(e) => FrameKept(e)'
BY DEF Shrinks, FrameKept, OwnBinding

LEMMA StoreShrinks ==
    ASSUME StoreKept, Shrinks, UNCHANGED <<anchor, log>>, \A e \in late' : Written(e)
    PROVE  StoreKept'
<1>1. /\ store'.rows = store.rows /\ store'.revision = store.revision
      /\ store'.pubs \subseteq store.pubs
  BY DEF Shrinks, SameContent
<1>2. ChainValid(store)' /\ BindingsAdmitted(store.rows)'
  BY <1>1 DEF StoreKept, ChainValid, BindingsAdmitted
<1>3. Ahead' \/ (store'.revision = anchor'.rev /\ LastId(store)' = anchor'.id)
  BY <1>1 DEF StoreKept, Ahead, LastId
<1>4. /\ IsFiniteSet(RestoredLedger(store'.rows))
      /\ OutboxReadable(store'.pubs, RestoredLedger(store'.rows), store'.revision)
  BY <1>1, ReadableOutbox DEF StoreKept
<1>5. \A e \in late' : Written(e)'
  BY <1>1 DEF Written
<1>6. \A e \in log : FrameKept(e)'
  BY FramesStay DEF StoreKept
<1>7. store'.revision # 0 => FrameKept(store.rows[store.revision])'
  <2>1. PICK x : x = store.rows[store.revision]
    OBVIOUS
  <2>2. store.revision # 0 => FrameKept(x)'
    BY <2>1, FramesStay DEF StoreKept
  <2> QED
    BY <1>1, <2>1, <2>2 DEF FrameKept
<1> QED
  BY <1>2, <1>3, <1>4, <1>5, <1>6, <1>7 DEF StoreKept

(* An owner that does not move. *)

Rests(p) ==
    /\ pc'[p] = pc[p] /\ snap'[p] = snap[p] /\ prep'[p] = prep[p] /\ head'[p] = head[p]
    /\ ledger'[p] = ledger[p] /\ pendingBindings'[p] = pendingBindings[p]
    /\ retained'[p] = retained[p] /\ sending'[p] = sending[p]

\* A store that has shrunk still holds what it held, and follows what it did.
LEMMA ShrunkHolds ==
    ASSUME Shrinks
    PROVE  /\ \A l, c, b, p : Holds(l, c, b, p) => Holds(l, c, b, p)'
           /\ \A s : Follows(s) => Follows(s)'
           /\ \A e : Written(e) => Written(e)'
BY DEF Shrinks, SameContent, Holds, Follows, Written

LEMMA RestsInShrunk ==
    ASSUME NEW p \in Owner, OwnerKept(p), Rests(p), Shrinks PROVE OwnerKept(p)'
<1>1. pc[p] \in Reading => Follows(snap[p])'
  BY ShrunkHolds DEF OwnerKept, Rests, Follows
<1>2. pc[p] \in Preparing => PreparedFrom(p, prep[p])'
  BY DEF OwnerKept, Rests, PreparedFrom, BindingsRecordable, RetainedLedger, needsCheckpoint
<1>3. pc[p] \in Storing =>
        /\ Written(prep[p])'
        /\ store'.revision = prep'[p].rev => HoldsAfter(p, prep[p])'
  BY DEF OwnerKept, Rests, HoldsAfter, RetainedLedger, Shrinks, SameContent, Written, Holds
<1>4. pc[p] \in Opened /\ store'.revision = head'[p].rev =>
        /\ Holds(ledger[p], retained[p].count, retained[p].bytes, pendingBindings[p])'
        /\ pc[p] = "listed" => store'.pubs \subseteq snap'[p].pubs
  BY DEF OwnerKept, Rests, Shrinks, SameContent, Holds
<1>5. /\ \A b \in sending'[p] : b.tok \in published'
      /\ IsFiniteSet(pendingBindings'[p])
      /\ pc[p] = "listed" => IsFiniteSet(snap'[p].pubs)
  BY DEF OwnerKept, Rests, Shrinks
<1> QED
  BY <1>1, <1>2, <1>3, <1>4, <1>5 DEF OwnerKept, Rests

\* Another owner has committed: nothing this one remembers is spoken of any more.
LEMMA RestsBehind ==
    ASSUME SafetyInv, StoreKept, NEW p \in Owner, OwnerKept(p), Rests(p),
           store.revision = anchor.rev, store'.revision = store.revision + 1,
           published' = published
    PROVE  OwnerKept(p)'
<1> USE DEF SafetyInv
<1>1. store.revision \in Nat
  BY StoreRevision
<1>2. snap[p].revision \in Nat /\ prep[p].rev \in Nat /\ head[p].rev \in Nat
  BY DEF TypeInv, LocalType, OwnedType, IsStore, Entry, Anchor
<1>3. pc[p] \in Opened => head[p].rev <= anchor.rev
  BY AcceptedBelowAnchor DEF OwnerInv
<1>4. pc[p] \in Reading => Follows(snap[p])'
  BY <1>1, <1>2 DEF OwnerKept, Follows, Rests
<1>5. pc[p] \in Preparing => PreparedFrom(p, prep[p])'
  BY DEF OwnerKept, Rests, PreparedFrom, BindingsRecordable, RetainedLedger, needsCheckpoint
<1>6. pc[p] \in Storing => Written(prep[p])' /\ store'.revision # prep'[p].rev
  BY <1>1, <1>2 DEF OwnerKept, Written, Rests
<1>7. pc[p] \in Opened => store'.revision # head'[p].rev
  BY <1>1, <1>2, <1>3 DEF Rests
<1>8. /\ \A b \in sending'[p] : b.tok \in published'
      /\ IsFiniteSet(pendingBindings'[p])
      /\ pc[p] = "listed" => IsFiniteSet(snap'[p].pubs)
  BY DEF OwnerKept, Rests
<1> QED
  BY <1>4, <1>5, <1>6, <1>7, <1>8 DEF OwnerKept, Rests

(* A swap anchors the row the store is ahead by. *)
LEMMA AdvanceKeeps ==
    ASSUME SafetyInv, StoreKept, NEW e \in Entry, e.rev # 0, Written(e),
           Advance(ParentOf(e), e), UNCHANGED <<store, published>>,
           \A x \in late' : Written(x)
    PROVE  StoreKept'
<1>1. /\ anchor.rev = e.rev - 1 /\ e.rev \in Nat /\ e.rev - 1 \in Nat
      /\ anchor' = AnchorOf(e) /\ log' = log \cup {e}
  BY DEF Advance, ParentOf, Entry
<1>2. store.revision = e.rev /\ store.rows[store.revision] = e
  BY <1>1, StoreRevision DEF Written
<1>3. store'.revision = anchor'.rev /\ LastId(store)' = anchor'.id
  BY <1>1, <1>2 DEF AnchorOf, LastId
<1>4. FrameKept(e)
  BY <1>2 DEF StoreKept
<1>5. \A x \in log' : FrameKept(x)'
  BY <1>1, <1>4 DEF StoreKept, FrameKept
<1>6. /\ ChainValid(store)' /\ BindingsAdmitted(store.rows)'
      /\ IsFiniteSet(RestoredLedger(store.rows))'
      /\ OutboxReadable(store.pubs, RestoredLedger(store.rows), store.revision)'
  BY DEF StoreKept
<1>7. \A x \in late' : Written(x)'
  BY DEF Written
<1>8. (store.revision # 0 => FrameKept(store.rows[store.revision]))'
  BY <1>2, <1>4 DEF FrameKept
<1> QED
  BY <1>3, <1>5, <1>6, <1>7, <1>8 DEF StoreKept

(* commit() of a preparation whose owner is current. *)

\* The premises of the next lemmas: owner o writes the entry e.
Commits(o, e) ==
    /\ e = prep[o] /\ pc[o] = "prepared"
    /\ isJournalCommitCurrent(store, head[o].rev, e)
    /\ store' = Committed(store, e)
    /\ UNCHANGED <<anchor, late, log, published, owned, outbox, prep>>

LEMMA CommitFacts ==
    ASSUME SafetyInv, StoreKept, NEW o \in Owner, OwnerKept(o), NEW e, Commits(o, e)
    PROVE  /\ e \in Entry /\ e.rev \in Nat /\ store.revision \in Nat
           /\ e.rev = store.revision + 1 /\ store.revision = anchor.rev
           /\ e.parent = anchor.id /\ LastId(store) = anchor.id
           /\ ~AcceptedId(e.id)
           /\ Holds(ledger[o], retained[o].count, retained[o].bytes, pendingBindings[o])
           /\ PreparedFrom(o, e)
<1> USE DEF SafetyInv
<1>1. /\ pc[o] \in Opened /\ pc[o] \in Preparing /\ e # NoEntry
      /\ ParentOf(e) = head[o] /\ store.revision = head[o].rev
  BY DEF Commits, Opened, Preparing, OwnerInv, isJournalCommitCurrent
<1>2. head[o] = anchor /\ store.revision = anchor.rev /\ LastId(store) = anchor.id
  BY <1>1, HeadCurrent
<1>3. e \in Known /\ e \in Entry /\ e.rev \in Nat
  BY <1>1, KnownMembers, KnownTyped DEF Commits, Entry
<1>4. e.rev # 0
  BY <1>3 DEF KnownInv, GoodEntry
<1>5. e.rev - 1 = anchor.rev /\ e.parent = anchor.id
  BY <1>1, <1>2 DEF ParentOf
<1>6. ASSUME NEW x \in log, x.id = e.id PROVE FALSE
  <2>1. x = e
    BY <1>3, <1>6, KnownMembers DEF KnownInv
  <2> QED
    BY <1>3, <1>4, <1>5, <2>1, StoreRevision DEF LogInv
<1>7. /\ Holds(ledger[o], retained[o].count, retained[o].bytes, pendingBindings[o])
      /\ PreparedFrom(o, e)
  BY <1>1 DEF OwnerKept, Commits
<1> QED
  BY <1>2, <1>3, <1>4, <1>5, <1>6, <1>7, StoreRevision DEF AcceptedId

\* The rows of the store once e is written.
LEMMA CommittedRows ==
    ASSUME SafetyInv, StoreKept, NEW o \in Owner, OwnerKept(o), NEW e, Commits(o, e)
    PROVE  /\ store'.revision = e.rev /\ store'.rows[e.rev] = e
           /\ e.rev \in DOMAIN store'.rows
           /\ DOMAIN store'.rows = (IF e.ckpt THEN {} ELSE DOMAIN store.rows) \cup {e.rev}
           /\ \A r \in DOMAIN store'.rows : r # e.rev =>
                 ~e.ckpt /\ r \in DOMAIN store.rows /\ store'.rows[r] = store.rows[r]
           /\ \A r \in DOMAIN store.rows : r \in Nat /\ r <= store.revision /\ r # 0
           /\ IsFiniteSet(DOMAIN store.rows) /\ e.rev \notin DOMAIN store.rows
           /\ store'.bytes = (IF e.ckpt THEN e.size ELSE store.bytes + e.size)
           /\ store'.pubs = store.pubs \cup OwnOf(e)
<1>1. store \in Images /\ GoodImage(store) /\ IsStore(store)
  BY KnownMembers, KnownTyped DEF SafetyInv, ImageInv
<1>2. \A r \in DOMAIN store.rows : r \in Nat /\ r <= store.revision /\ r # 0
  BY <1>1, CommitFacts DEF GoodImage
<1>3. IsFiniteSet(DOMAIN store.rows) /\ e.rev \notin DOMAIN store.rows
  BY <1>1, <1>2, CommitFacts DEF IsStore
<1>4. /\ store'.revision = e.rev /\ store'.rows[e.rev] = e
      /\ DOMAIN store'.rows = (IF e.ckpt THEN {} ELSE DOMAIN store.rows) \cup {e.rev}
      /\ store'.bytes = (IF e.ckpt THEN e.size ELSE store.bytes + e.size)
      /\ store'.pubs = store.pubs \cup OwnOf(e)
  BY DEF Commits, Committed, OwnOf
<1>5. \A r \in DOMAIN store'.rows : r # e.rev =>
         ~e.ckpt /\ r \in DOMAIN store.rows /\ store'.rows[r] = store.rows[r]
  BY DEF Commits, Committed
<1> QED
  BY <1>2, <1>3, <1>4, <1>5

LEMMA CommitChain ==
    ASSUME SafetyInv, StoreKept, NEW o \in Owner, OwnerKept(o), NEW e, Commits(o, e)
    PROVE  ChainValid(store)' /\ Ahead'
<1>1. /\ e.rev \in Nat /\ store.revision \in Nat /\ e.rev = store.revision + 1
      /\ store.revision = anchor.rev /\ e.parent = anchor.id
      /\ LastId(store) = anchor.id /\ anchor' = anchor
  BY CommitFacts DEF Commits
<1>2. /\ store'.revision = e.rev /\ store'.rows[e.rev] = e
      /\ e.rev \in DOMAIN store'.rows
      /\ DOMAIN store'.rows = (IF e.ckpt THEN {} ELSE DOMAIN store.rows) \cup {e.rev}
      /\ \A r \in DOMAIN store'.rows : r # e.rev =>
            ~e.ckpt /\ r \in DOMAIN store.rows /\ store'.rows[r] = store.rows[r]
      /\ \A r \in DOMAIN store.rows : r \in Nat /\ r <= store.revision /\ r # 0
  BY CommittedRows
<1> DEFINE D == DOMAIN store'.rows
           R == store'.rows
<1>3. /\ \A r \in DOMAIN store.rows : store.rows[r].rev = r
      /\ \A r \in DOMAIN store.rows : (r - 1) \in DOMAIN store.rows =>
            store.rows[r].parent = store.rows[r-1].id /\ ~store.rows[r].ckpt
      /\ \A r \in DOMAIN store.rows :
            (r - 1) \notin DOMAIN store.rows /\ ~store.rows[r].ckpt =>
               r = 1 /\ store.rows[r].parent = 0
      /\ store.revision # 0 => store.revision \in DOMAIN store.rows
  BY DEF StoreKept, ChainValid
<1>4. ASSUME NEW r \in D
      PROVE  /\ R[r].rev = r
             /\ (r - 1) \in D => R[r].parent = R[r-1].id /\ ~R[r].ckpt
             /\ (r - 1) \notin D /\ ~R[r].ckpt => r = 1 /\ R[r].parent = 0
  <2>1. CASE r = e.rev
    <3>1. R[r] = e /\ r - 1 = store.revision
      BY <1>1, <1>2, <2>1
    <3>2. ASSUME (r - 1) \in D PROVE R[r].parent = R[r-1].id /\ ~R[r].ckpt
      <4>1. ~e.ckpt /\ (r - 1) \in DOMAIN store.rows /\ R[r-1] = store.rows[r-1]
        BY <1>1, <1>2, <2>1, <3>2
      <4>2. store.revision # 0
        BY <1>2, <3>1, <4>1
      <4> QED
        BY <1>1, <3>1, <4>1, <4>2 DEF LastId
    <3>3. ASSUME (r - 1) \notin D, ~R[r].ckpt PROVE r = 1 /\ R[r].parent = 0
      <4>1. (r - 1) \notin DOMAIN store.rows
        BY <1>2, <3>1, <3>3
      <4>2. store.revision = 0
        BY <1>3, <3>1, <4>1
      <4> QED
        BY <1>1, <2>1, <3>1, <4>2 DEF LastId
    <3> QED
      BY <2>1, <3>1, <3>2, <3>3
  <2>2. CASE r # e.rev
    <3>1. ~e.ckpt /\ r \in DOMAIN store.rows /\ R[r] = store.rows[r]
      BY <1>2, <2>2
    <3>2. r - 1 # e.rev /\ ((r - 1) \in D <=> (r - 1) \in DOMAIN store.rows)
      BY <1>1, <1>2, <3>1
    <3>3. (r - 1) \in D => R[r-1] = store.rows[r-1]
      BY <1>2, <3>2
    <3> HIDE DEF D, R
    <3> QED
      BY <1>3, <3>1, <3>2, <3>3
  <2> QED
    BY <2>1, <2>2
<1>5. ChainValid(store)'
  BY <1>2, <1>4 DEF ChainValid
<1>6. Ahead'
  BY <1>1, <1>2 DEF Ahead
<1> QED
  BY <1>5, <1>6

\* Every binding an owner holds is accepted; the entry's own is not.
LEMMA CommitBindings ==
    ASSUME SafetyInv, StoreKept, NEW o \in Owner, OwnerKept(o), NEW e, Commits(o, e)
    PROVE  /\ RestoredLedger(store'.rows) = RetainedLedger(o, e.ckpt) \cup OwnOf(e)
           /\ RetainedLedger(o, e.ckpt) \subseteq RestoredLedger(store.rows)
           /\ \A b \in RestoredLedger(store.rows) : b.tok # e.id
           /\ e.binds = (IF e.ckpt THEN RetainedLedger(o, e.ckpt) ELSE {}) \cup OwnOf(e)
<1>1. /\ ~AcceptedId(e.id) /\ RestoredLedger(store.rows) = ledger[o]
      /\ e.binds = (IF e.ckpt THEN pendingBindings[o] ELSE {}) \cup OwnOf(e)
      /\ e.ckpt => pendingBindings[o] \subseteq ledger[o]
  BY CommitFacts DEF Holds, PreparedFrom, BindingsRecordable
<1>2. \A b \in ledger[o] : b.tok # e.id
  BY <1>1 DEF SafetyInv, OwnerInv
<1>3. /\ RetainedLedger(o, e.ckpt) \subseteq RestoredLedger(store.rows)
      /\ e.binds = (IF e.ckpt THEN RetainedLedger(o, e.ckpt) ELSE {}) \cup OwnOf(e)
  BY <1>1 DEF RetainedLedger
<1>4. RestoredLedger(store'.rows) = (IF e.ckpt THEN {} ELSE RestoredLedger(store.rows)) \cup e.binds
  BY CommittedRows DEF RestoredLedger
<1>5. RestoredLedger(store'.rows) = RetainedLedger(o, e.ckpt) \cup OwnOf(e)
  BY <1>1, <1>4 DEF RetainedLedger
<1> QED
  BY <1>1, <1>2, <1>3, <1>5

LEMMA OwnOfFinite == \A e : IsFiniteSet(OwnOf(e)) /\ Cardinality(OwnOf(e)) \in {0, 1}
BY FS_EmptySet, FS_Singleton DEF OwnOf

\* The bindings fit, and each names the row that first carried it.
LEMMA CommitAdmitted ==
    ASSUME SafetyInv, StoreKept, NEW o \in Owner, OwnerKept(o), NEW e, Commits(o, e)
    PROVE  BindingsAdmitted(store.rows)' /\ IsFiniteSet(RestoredLedger(store.rows))'
<1> DEFINE old == RestoredLedger(store.rows)
           new == RestoredLedger(store'.rows)
<1>1. /\ e.rev \in Nat /\ store.revision \in Nat /\ e.rev = store.revision + 1
      /\ PreparedFrom(o, e) /\ RestoredLedger(store.rows) = ledger[o]
  BY CommitFacts DEF Holds
<1>2. /\ new = RetainedLedger(o, e.ckpt) \cup OwnOf(e)
      /\ RetainedLedger(o, e.ckpt) \subseteq old
      /\ \A b \in old : b.tok # e.id
      /\ e.binds = (IF e.ckpt THEN RetainedLedger(o, e.ckpt) ELSE {}) \cup OwnOf(e)
  BY CommitBindings
<1>3. \A b \in OwnOf(e) : b.tok = e.id /\ b.rev = e.rev
  BY DEF OwnOf, OwnBinding
<1>4. IsFiniteSet(old) /\ IsFiniteSet(RetainedLedger(o, e.ckpt))
  BY <1>2, FS_Subset DEF StoreKept
<1>5. IsFiniteSet(new)
  BY <1>2, <1>4, OwnOfFinite, FS_Union
<1>6. Cardinality(new) <= MaxEntries + MaxOutbox
  <2>1. CASE e.ckpt
    <3>1. new = e.binds /\ Cardinality(e.binds) <= MaxOutbox
      BY <1>1, <1>2, <2>1 DEF PreparedFrom
    <3> QED
      BY <1>5, <3>1, FS_CardinalityType, SizeAssumption
  <2>2. CASE ~e.ckpt /\ HasFrame(e)
    <3>1. RetainedLedger(o, e.ckpt) = old /\ Cardinality(old) < MaxEntries + MaxOutbox
      BY <1>1, <2>2 DEF PreparedFrom, BindingsRecordable, RetainedLedger
    <3>2. new = old \cup {OwnBinding(e)}
      BY <1>2, <2>2, <3>1 DEF OwnOf
    <3>3. Cardinality(new) \in {Cardinality(old), Cardinality(old) + 1}
      BY <1>4, <3>2, FS_AddElement
    <3> QED
      BY <1>4, <3>1, <3>3, FS_CardinalityType, SizeAssumption
  <2>3. CASE ~e.ckpt /\ ~HasFrame(e)
    BY <1>1, <1>2, <2>3 DEF OwnOf, RetainedLedger, StoreKept, BindingsAdmitted
  <2> QED
    BY <2>1, <2>2, <2>3
<1>7. /\ store'.rows[e.rev] = e
      /\ \A r \in DOMAIN store'.rows : r # e.rev =>
            ~e.ckpt /\ r \in DOMAIN store.rows /\ store'.rows[r] = store.rows[r]
      /\ \A r \in DOMAIN store.rows : r \in Nat /\ r <= store.revision /\ r # 0
  BY CommittedRows
<1>8. \A b \in old : b.rev \in Nat /\ 1 <= b.rev /\ b.rev <= store.revision
  <2>1. \A r \in DOMAIN store.rows : store.rows[r].binds \subseteq Binding
    BY KnownMembers, KnownTyped DEF SafetyInv, IsStore, Entry
  <2> QED
    BY <1>1, <1>7, <2>1 DEF RestoredLedger, StoreKept, BindingsAdmitted, Binding
<1>9. ASSUME NEW b \in old, NEW c \in old, b.tok = c.tok PROVE b = c
  BY <1>9 DEF RestoredLedger, StoreKept, BindingsAdmitted
<1>10. \A r \in DOMAIN store.rows : store.rows[r].binds \subseteq old
  BY DEF RestoredLedger
<1> HIDE DEF old, new
<1>11. \A b \in e.binds : b \in OwnOf(e) \/ (e.ckpt /\ b \in old)
  BY <1>2
<1>12. ASSUME NEW r \in DOMAIN store'.rows, NEW b \in store'.rows[r].binds
       PROVE  1 <= b.rev /\ b.rev <= r /\ (store'.rows[r].ckpt \/ b.rev = r)
  <2>1. CASE r = e.rev
    BY <1>1, <1>3, <1>7, <1>8, <1>11, <1>12, <2>1
  <2>2. CASE r # e.rev
    BY <1>7, <1>12, <2>2 DEF StoreKept, BindingsAdmitted
  <2> QED
    BY <2>1, <2>2
<1>13. ASSUME NEW r \in DOMAIN store'.rows, NEW b \in store'.rows[r].binds,
              NEW q \in DOMAIN store'.rows, NEW c \in store'.rows[q].binds,
              b.tok = c.tok
       PROVE  q = r /\ b = c
  <2>1. CASE r = e.rev /\ q = e.rev
    <3>1. b \in e.binds /\ c \in e.binds
      BY <1>7, <1>13, <2>1
    <3>2. CASE b \in OwnOf(e)
      <4>1. c \in OwnOf(e)
        BY <1>2, <1>3, <1>11, <1>13, <3>1, <3>2
      <4> QED
        BY <2>1, <3>2, <4>1 DEF OwnOf
    <3>3. CASE b \in old
      <4>1. c \in old
        BY <1>2, <1>3, <1>11, <1>13, <3>1, <3>3
      <4> QED
        BY <1>9, <1>13, <2>1, <3>3, <4>1
    <3> QED
      BY <1>11, <3>1, <3>2, <3>3
  <2>2. CASE r # e.rev /\ q # e.rev
    <3>1. /\ r \in DOMAIN store.rows /\ b \in store.rows[r].binds
          /\ q \in DOMAIN store.rows /\ c \in store.rows[q].binds
      BY <1>7, <1>13, <2>2
    <3> QED
      BY <1>13, <3>1 DEF StoreKept, BindingsAdmitted
  <2>3. ASSUME NEW x \in DOMAIN store'.rows, x # e.rev, NEW y \in store'.rows[x].binds,
               NEW z \in e.binds
        PROVE  y.tok # z.tok
    <3>1. ~e.ckpt /\ y \in old
      BY <1>7, <1>10, <2>3
    <3> QED
      BY <1>2, <1>3, <1>11, <3>1
  <2> QED
    BY <1>7, <1>13, <2>1, <2>2, <2>3
<1>14. BindingsAdmitted(store'.rows)
  BY <1>6, <1>12, <1>13 DEF BindingsAdmitted, new
<1> QED
  BY <1>5, <1>14 DEF BindingsAdmitted, new

\* The entry's frame is queued with it, and the others stay queued.
LEMMA CommitOutbox ==
    ASSUME SafetyInv, StoreKept, NEW o \in Owner, OwnerKept(o), NEW e, Commits(o, e)
    PROVE  /\ OutboxReadable(store.pubs, RestoredLedger(store.rows), store.revision)'
           /\ \A x \in log : FrameKept(x)'
           /\ (store.revision # 0 => FrameKept(store.rows[store.revision]))'
<1>1. /\ e.rev \in Nat /\ store.revision \in Nat /\ e.rev = store.revision + 1
      /\ store.pubs \subseteq pendingBindings[o] /\ RestoredLedger(store.rows) = ledger[o]
  BY CommitFacts DEF Holds
<1>2. /\ store'.revision = e.rev /\ store'.rows[e.rev] = e
      /\ store'.pubs = store.pubs \cup OwnOf(e)
  BY CommittedRows
<1>3. /\ RestoredLedger(store'.rows) = RetainedLedger(o, e.ckpt) \cup OwnOf(e)
      /\ RetainedLedger(o, e.ckpt) = (IF e.ckpt THEN pendingBindings[o] ELSE ledger[o])
  BY CommitBindings DEF RetainedLedger
<1>4. /\ IsFiniteSet(store.pubs) /\ Cardinality(store.pubs) <= MaxOutbox
      /\ store.pubs \subseteq RestoredLedger(store.rows)
      /\ \A b \in store.pubs : 1 <= b.rev /\ b.rev <= store.revision /\ b.rev \in Nat
  <2>1. /\ Cardinality(store.pubs) <= MaxOutbox
        /\ store.pubs \subseteq RestoredLedger(store.rows)
        /\ \A b \in store.pubs : 1 <= b.rev /\ b.rev <= store.revision
    BY DEF StoreKept, OutboxReadable, PublicationsBound
  <2>2. IsFiniteSet(store.pubs)
    BY <2>1, FS_Subset DEF StoreKept
  <2>3. store.pubs \subseteq Binding
    BY DEF SafetyInv, TypeInv, SharedType, IsStore
  <2> QED
    BY <2>1, <2>2, <2>3 DEF Binding
<1>5. Cardinality(store'.pubs) <= MaxOutbox
  <2>1. CASE HasFrame(e)
    <3>1. Cardinality(store.pubs) < MaxOutbox
      BY <2>1 DEF Commits, isJournalCommitCurrent
    <3>2. store'.pubs = store.pubs \cup {OwnBinding(e)}
      BY <1>2, <2>1 DEF OwnOf
    <3>3. Cardinality(store'.pubs) \in {Cardinality(store.pubs), Cardinality(store.pubs) + 1}
      BY <1>4, <3>2, FS_AddElement
    <3> QED
      BY <1>4, <3>1, <3>3, FS_CardinalityType, SizeAssumption
  <2>2. CASE ~HasFrame(e)
    BY <1>2, <1>4, <2>2 DEF OwnOf
  <2> QED
    BY <2>1, <2>2
<1>6. \A b \in store'.pubs :
         /\ b \in RestoredLedger(store'.rows)
         /\ 1 <= b.rev /\ b.rev <= store'.revision
  <2>1. ASSUME NEW b \in store.pubs
        PROVE  /\ b \in RestoredLedger(store'.rows)
               /\ 1 <= b.rev /\ b.rev <= store'.revision
    BY <1>1, <1>2, <1>3, <1>4
  <2>2. ASSUME NEW b \in OwnOf(e)
        PROVE  /\ b \in RestoredLedger(store'.rows)
               /\ 1 <= b.rev /\ b.rev <= store'.revision
    <3>1. b.rev = e.rev
      BY DEF OwnOf, OwnBinding
    <3> QED
      BY <1>1, <1>2, <1>3, <3>1
  <2> QED
    BY <1>2, <2>1, <2>2
<1>7. OutboxReadable(store.pubs, RestoredLedger(store.rows), store.revision)'
  BY <1>5, <1>6 DEF OutboxReadable, PublicationsBound
<1>8. \A x \in log : FrameKept(x)'
  BY <1>2 DEF StoreKept, FrameKept, Commits
<1>9. (store.revision # 0 => FrameKept(store.rows[store.revision]))'
  BY <1>2 DEF FrameKept, OwnOf
<1> QED
  BY <1>7, <1>8, <1>9

LEMMA CommitHolds ==
    ASSUME SafetyInv, StoreKept, NEW o \in Owner, OwnerKept(o), NEW e, Commits(o, e)
    PROVE  HoldsAfter(o, e)'
<1>1. /\ store.pubs \subseteq pendingBindings[o]
      /\ Cardinality(DOMAIN store.rows) = retained[o].count
      /\ store.bytes = retained[o].bytes
  BY CommitFacts DEF Holds
<1>2. /\ DOMAIN store'.rows = (IF e.ckpt THEN {} ELSE DOMAIN store.rows) \cup {e.rev}
      /\ IsFiniteSet(DOMAIN store.rows) /\ e.rev \notin DOMAIN store.rows
      /\ store'.bytes = (IF e.ckpt THEN e.size ELSE store.bytes + e.size)
      /\ store'.pubs = store.pubs \cup OwnOf(e)
  BY CommittedRows
<1>3. RestoredLedger(store'.rows) = RetainedLedger(o, e.ckpt) \cup OwnOf(e)
  BY CommitBindings
<1>4. Cardinality(DOMAIN store'.rows) = (IF e.ckpt THEN 1 ELSE retained[o].count + 1)
  <2>1. CASE e.ckpt
    <3>1. DOMAIN store'.rows = {e.rev}
      BY <1>2, <2>1
    <3> QED
      BY <2>1, <3>1, FS_Singleton
  <2>2. CASE ~e.ckpt
    <3>1. DOMAIN store'.rows = DOMAIN store.rows \cup {e.rev}
      BY <1>2, <2>2
    <3>2. Cardinality(DOMAIN store'.rows) = Cardinality(DOMAIN store.rows) + 1
      BY <1>2, <3>1, FS_AddElement
    <3> QED
      BY <1>1, <2>2, <3>2
  <2> QED
    BY <2>1, <2>2
<1> QED
  BY <1>1, <1>2, <1>3, <1>4 DEF HoldsAfter, Holds, Commits, owned, RetainedLedger

LEMMA CommitKeeps ==
    ASSUME SafetyInv, Kept, NEW o \in Owner, NEW e, Commits(o, e), Step(o, "verifying")
    PROVE  Kept'
<1>1. OwnerKept(o) /\ StoreKept
  BY DEF Kept
<1>2. /\ e.rev \in Nat /\ store.revision \in Nat /\ e.rev = store.revision + 1
      /\ store.revision = anchor.rev /\ PreparedFrom(o, e) /\ store'.revision = e.rev
      /\ store'.rows[e.rev] = e
  BY <1>1, CommitFacts, CommittedRows
<1>3. \A x \in late' : Written(x)'
  <2>1. \A x \in late : x.rev \in Nat /\ x.rev <= store.revision
    BY <1>1 DEF StoreKept, Written, SafetyInv, TypeInv, SharedType, Entry
  <2> QED
    BY <1>2, <2>1 DEF Written, Commits
<1>4. StoreKept'
  <2>1. log' = log
    BY DEF Commits
  <2> QED
    BY <1>1, <1>3, <2>1, CommitChain, CommitAdmitted, CommitOutbox DEF StoreKept
<1>5. ASSUME NEW p \in Owner, p # o PROVE OwnerKept(p)'
  <2>1. Rests(p)
    BY <1>5 DEF Rests, Commits, Step, Goto, owned, outbox, SafetyInv, TypeInv, LocalType
  <2>2. OwnerKept(p) /\ published' = published
    BY DEF Kept, Commits
  <2> QED
    BY <1>1, <1>2, <2>1, <2>2, RestsBehind
<1>6. OwnerKept(o)'
  <2>1. /\ pc'[o] = "verifying" /\ prep'[o] = e /\ snap' = snap
        /\ UNCHANGED <<owned, outbox, published>>
    BY DEF Commits, Step, Goto, SafetyInv, TypeInv, LocalType
  <2>2. PreparedFrom(o, prep[o])'
    BY <1>2, <2>1 DEF PreparedFrom, BindingsRecordable, RetainedLedger, needsCheckpoint,
                      owned
  <2>3. Written(prep[o])' /\ HoldsAfter(o, prep[o])'
    <3>1. HoldsAfter(o, e)'
      BY <1>1, CommitHolds
    <3>2. HoldsAfter(o, prep[o])'
      BY <2>1, <3>1 DEF HoldsAfter, Holds, RetainedLedger
    <3> QED
      BY <1>2, <2>1, <3>2 DEF Written
  <2>4. store'.revision # head'[o].rev
    <3>1. head'[o] = head[o] /\ store.revision = head[o].rev
      BY <2>1 DEF owned, Commits, isJournalCommitCurrent
    <3> QED
      BY <1>2, <3>1
  <2>5. /\ \A b \in sending'[o] : b.tok \in published'
        /\ IsFiniteSet(pendingBindings'[o])
    BY <1>1, <2>1 DEF OwnerKept, owned, outbox
  <2> QED
    BY <2>1, <2>2, <2>3, <2>4, <2>5 DEF OwnerKept, Reading
<1> QED
  BY <1>4, <1>5, <1>6 DEF Kept

(* The owner that moves. *)

LEMMA OthersRest ==
    ASSUME SafetyInv, NEW o \in Owner, NEW l, Step(o, l) \/ Exit(o, l),
           UNCHANGED <<owned, outbox>>, NEW p \in Owner, p # o
    PROVE  Rests(p)
BY DEF SafetyInv, TypeInv, LocalType, Step, Exit, Goto, owned, outbox, Rests

\* An object that is closed, failed or gone remembers frames at most.
LEMMA LeftKept ==
    ASSUME NEW o \in Owner, pc'[o] \in {"off", "failed"},
           \A b \in sending'[o] : b.tok \in published',
           IsFiniteSet(pendingBindings'[o])
    PROVE  OwnerKept(o)'
BY DEF OwnerKept, Reading, Preparing, Storing, Opened

LEMMA FailedKept ==
    ASSUME SafetyInv, NEW o \in Owner, OwnerKept(o), Exit(o, "failed"),
           UNCHANGED <<owned, outbox>>, published \subseteq published'
    PROVE  OwnerKept(o)'
<1>1. pc'[o] = "failed"
  BY DEF Exit, Goto, SafetyInv, TypeInv, LocalType
<1>2. \A b \in sending'[o] : b.tok \in published'
  BY DEF OwnerKept, outbox
<1>3. IsFiniteSet(pendingBindings'[o])
  BY DEF OwnerKept, owned
<1> QED
  BY <1>1, <1>2, <1>3, LeftKept

\* A call that goes on with what it has read.
LEMMA ReadingKept ==
    ASSUME SafetyInv, NEW o \in Owner, OwnerKept(o), pc[o] \in Reading, pc[o] # "listed",
           NEW l \in {"finishing", "rechecking", "discarding", "reading"}, Step(o, l),
           Shrinks, UNCHANGED <<owned, outbox>>
    PROVE  OwnerKept(o)'
<1>1. pc'[o] = l /\ snap'[o] = snap[o]
  BY DEF Step, Goto, SafetyInv, TypeInv, LocalType
<1>2. Follows(snap[o])'
  BY <1>1, ShrunkHolds DEF OwnerKept, Follows
<1>3. \A b \in sending'[o] : b.tok \in published'
  BY DEF OwnerKept, outbox, Shrinks
<1>4. IsFiniteSet(pendingBindings'[o])
  BY DEF OwnerKept, owned
<1> QED
  BY <1>1, <1>2, <1>3, <1>4 DEF OwnerKept, Reading, Preparing, Storing, Opened

\* A call of a preparation that goes on, or an open owner that comes to rest.
LEMMA PreparingKept ==
    ASSUME SafetyInv, NEW o \in Owner, OwnerKept(o), pc[o] \in Opened, Shrinks,
           UNCHANGED <<owned, outbox>>,
           \/ Exit(o, "idle")
           \/ /\ pc[o] \in Preparing
              /\ \E l \in Preparing : Step(o, l) /\ (l \in Storing => pc[o] \in Storing)
    PROVE  OwnerKept(o)'
<1>1. store'.revision = head'[o].rev =>
         Holds(ledger[o], retained[o].count, retained[o].bytes, pendingBindings[o])'
  BY DEF OwnerKept, Shrinks, SameContent, Holds, owned
<1>2. /\ \A b \in sending'[o] : b.tok \in published'
      /\ IsFiniteSet(pendingBindings'[o])
  BY DEF OwnerKept, owned, outbox, Shrinks
<1>3. CASE Exit(o, "idle")
  <2>1. pc'[o] = "idle"
    BY <1>3 DEF Exit, Goto, SafetyInv, TypeInv, LocalType
  <2> QED
    BY <1>1, <1>2, <2>1 DEF OwnerKept, Reading, Preparing, Storing
<1>4. CASE /\ pc[o] \in Preparing
           /\ \E l \in Preparing : Step(o, l) /\ (l \in Storing => pc[o] \in Storing)
  <2>1. /\ pc'[o] \in Preparing /\ (pc'[o] \in Storing => pc[o] \in Storing)
        /\ prep'[o] = prep[o]
    BY <1>4 DEF Step, Goto, SafetyInv, TypeInv, LocalType
  <2>2. PreparedFrom(o, prep[o])'
    BY <1>4, <2>1 DEF OwnerKept, PreparedFrom, BindingsRecordable, RetainedLedger,
                      needsCheckpoint, owned
  <2>3. pc[o] \in Storing =>
          Written(prep[o])' /\ (store'.revision = prep'[o].rev => HoldsAfter(o, prep[o])')
    BY <2>1 DEF OwnerKept, HoldsAfter, RetainedLedger, Shrinks, SameContent, Written,
                Holds, owned
  <2> QED
    BY <1>1, <1>2, <2>1, <2>2, <2>3 DEF OwnerKept, Preparing, Storing, Reading
<1> QED
  BY <1>3, <1>4

\* The whole invariant, when the store has shrunk at most.
LEMMA ShrunkKept ==
    ASSUME SafetyInv, Kept, Shrinks, UNCHANGED <<anchor, log>>, late' \subseteq late,
           NEW o \in Owner, NEW l, Step(o, l) \/ Exit(o, l), UNCHANGED <<owned, outbox>>,
           OwnerKept(o)'
    PROVE  Kept'
<1>1. \A e \in late' : Written(e)
  BY DEF Kept, StoreKept
<1>2. StoreKept'
  BY <1>1, StoreShrinks DEF Kept
<1>3. \A p \in Owner : p # o => OwnerKept(p)'
  BY OthersRest, RestsInShrunk DEF Kept
<1> QED
  BY <1>2, <1>3 DEF Kept

\* No published frame, no row: most calls leave storage as it is.
LEMMA StoreStays == UNCHANGED <<store, published>> => Shrinks
BY DEF Shrinks, SameContent

LEMMA FailedKeeps ==
    ASSUME SafetyInv, Kept, NEW o \in Owner, Exit(o, "failed"),
           UNCHANGED <<store, anchor, late, log, published, owned, outbox>>
    PROVE  Kept'
BY StoreStays, FailedKept, ShrunkKept DEF Kept

(* restore() *)

\* The entry a swap in flight would anchor has been written.
LEMMA CandidateWritten ==
    ASSUME SafetyInv, Kept, NEW o \in Owner, pc[o] \in {"finishing", "swapping"}
    PROVE  Written(Candidate(o)) /\ Candidate(o) \in Entry /\ Candidate(o).rev # 0
<1> USE DEF SafetyInv
<1>1. CASE pc[o] = "finishing"
  <2>1. /\ snap[o].revision \in DOMAIN snap[o].rows /\ Follows(snap[o])
        /\ snap[o].rows[snap[o].revision].rev = snap[o].revision
        /\ Candidate(o) = snap[o].rows[snap[o].revision] /\ snap[o].revision # 0
    BY <1>1 DEF OwnerInv, ChainValid, Kept, OwnerKept, Reading, Candidate
  <2>2. Candidate(o) \in Entry
    BY <2>1, KnownMembers, KnownTyped
  <2> QED
    BY <2>1, <2>2 DEF Follows, Written
<1>2. CASE pc[o] = "swapping"
  <2>1. Candidate(o) = prep[o] /\ prep[o] # NoEntry /\ Written(prep[o])
    BY <1>2 DEF Candidate, OwnerInv, Preparing, Kept, OwnerKept, Storing
  <2>2. prep[o] \in Known
    BY <2>1, KnownMembers
  <2> QED
    BY <2>1, <2>2, KnownTyped DEF KnownInv, GoodEntry
<1> QED
  BY <1>1, <1>2

\* An owner anchors the row that storage is ahead by.
LEMMA AnchorKeeps ==
    ASSUME SafetyInv, Kept, NEW o \in Owner, pc[o] \in {"finishing", "swapping"},
           Advance(ParentOf(Candidate(o)), Candidate(o)),
           UNCHANGED <<store, late, published, owned, outbox>>,
           NEW l, Step(o, l), OwnerKept(o)'
    PROVE  Kept'
<1>1. \A x \in late' : Written(x)
  BY DEF Kept, StoreKept
<1>2. StoreKept'
  BY <1>1, CandidateWritten, AdvanceKeeps DEF Kept
<1>3. \A p \in Owner : p # o => OwnerKept(p)'
  BY OthersRest, RestsInShrunk, StoreStays DEF Kept
<1> QED
  BY <1>2, <1>3 DEF Kept

LEMMA RestoreKeeps ==
    ASSUME SafetyInv, Kept, NEW o \in Owner, Restore(o) PROVE Kept'
<1> USE DEF SafetyInv
<1>0. OwnerKept(o)
  BY DEF Kept
<1>1. CASE LoadSnapshot(o)
  <2>1. UNCHANGED <<store, anchor, late, log, published, owned, outbox, prep>>
    BY <1>1 DEF LoadSnapshot, history
  <2>2. pc'[o] = "anchoring" /\ snap'[o] = store
    BY <1>1 DEF LoadSnapshot, Goto, TypeInv, LocalType
  <2>3. OwnerKept(o)'
    <3>1. Follows(snap[o])'
      BY <2>1, <2>2, StoreRevision DEF Follows, Kept
    <3>2. /\ \A b \in sending'[o] : b.tok \in published'
          /\ IsFiniteSet(pendingBindings'[o])
      BY <1>0, <2>1 DEF OwnerKept, owned, outbox
    <3> QED
      BY <2>2, <3>1, <3>2 DEF OwnerKept, Preparing, Storing, Opened
  <2>4. Shrinks
    BY <2>1, StoreStays
  <2>5. StoreKept'
    BY <2>1, <2>4, StoreShrinks DEF Kept, StoreKept
  <2>6. \A p \in Owner : p # o => Rests(p)
    BY <1>1, <2>1 DEF LoadSnapshot, Rests, Goto, owned, outbox, TypeInv, LocalType
  <2> QED
    BY <2>3, <2>4, <2>5, <2>6, RestsInShrunk DEF Kept
<1>2. CASE LoadAnchor(o)
  <2>1. UNCHANGED <<store, anchor, late, log, published, owned, outbox>>
    BY <1>2 DEF LoadAnchor, history
  <2>2. ASSUME NEW l \in {"finishing", "discarding", "reading"}, Step(o, l) PROVE Kept'
    <3>1. OwnerKept(o)'
      BY <1>0, <1>2, <2>1, <2>2, ReadingKept, StoreStays DEF LoadAnchor, Reading
    <3> QED
      BY <2>1, <2>2, <3>1, ShrunkKept, StoreStays
  <2> QED
    BY <1>2, <2>1, <2>2, FailedKeeps DEF LoadAnchor, AfterAnchor
<1>3. CASE FinishAnchor(o)
  <2>1. UNCHANGED <<store, late, published, owned, outbox>> /\ pc[o] = "finishing"
    BY <1>3 DEF FinishAnchor
  <2>2. CASE Advance(ParentOf(Candidate(o)), Candidate(o)) /\ Step(o, "rechecking")
    <3>1. OwnerKept(o)'
      BY <1>0, <2>1, <2>2, ReadingKept, StoreStays DEF Reading
    <3> QED
      BY <2>1, <2>2, <3>1, AnchorKeeps
  <2>3. CASE Exit(o, "failed") /\ UNCHANGED <<anchor, log>>
    BY <2>1, <2>3, FailedKeeps
  <2> QED
    BY <1>3, <2>2, <2>3 DEF FinishAnchor
<1>4. CASE RecheckAnchor(o)
  <2>1. UNCHANGED <<store, anchor, late, log, published, owned, outbox>>
    BY <1>4 DEF RecheckAnchor, history
  <2>2. ASSUME NEW l \in {"discarding", "reading"}, Step(o, l) PROVE Kept'
    <3>1. OwnerKept(o)'
      BY <1>0, <1>4, <2>1, <2>2, ReadingKept, StoreStays DEF RecheckAnchor, Reading
    <3> QED
      BY <2>1, <2>2, <3>1, ShrunkKept, StoreStays
  <2> QED
    BY <1>4, <2>1, <2>2, FailedKeeps DEF RecheckAnchor, AfterAnchor
<1>5. CASE DiscardStaged(o)
  <2>1. UNCHANGED <<anchor, late, log, published, owned, outbox>> /\ Step(o, "reading")
    BY <1>5 DEF DiscardStaged, history
  <2>2. Shrinks
    BY <1>5, <2>1 DEF DiscardStaged, Discarded, Shrinks, SameContent, TypeInv, SharedType,
                      IsStore
  <2>3. OwnerKept(o)'
    BY <1>0, <1>5, <2>1, <2>2, ReadingKept DEF DiscardStaged, Reading
  <2> QED
    BY <2>1, <2>2, <2>3, ShrunkKept
<1>6. CASE FinishRestore(o)
  <2> DEFINE s == snap[o]
  <2>1. /\ UNCHANGED <<store, anchor, late, log, published>>
        /\ pc[o] = "reading" /\ Follows(s)
        /\ OutboxReadable(store.pubs, RestoredLedger(s.rows), s.revision)
    BY <1>0, <1>6 DEF FinishRestore, history, OwnerKept, Reading
  <2>2. /\ pc'[o] = "idle" /\ ledger'[o] = RestoredLedger(s.rows)
        /\ pendingBindings'[o] = store.pubs
        /\ head'[o] = [rev |-> s.revision, id |-> LastId(s)]
        /\ retained'[o] = [count |-> Cardinality(DOMAIN s.rows), bytes |-> s.bytes]
        /\ UNCHANGED <<batch, sending>>
    BY <1>6 DEF FinishRestore, Exit, Goto, TypeInv, LocalType, OwnedType, outbox
  <2>3. store'.revision = head'[o].rev =>
          Holds(ledger[o], retained[o].count, retained[o].bytes, pendingBindings[o])'
    BY <2>1, <2>2 DEF Holds, Follows
  <2>4. IsFiniteSet(pendingBindings'[o])
    <3>1. store.pubs \subseteq RestoredLedger(store.rows) /\ IsFiniteSet(RestoredLedger(store.rows))
      BY DEF Kept, StoreKept, OutboxReadable, PublicationsBound
    <3> QED
      BY <2>2, <3>1, FS_Subset
  <2>5. OwnerKept(o)'
    BY <1>0, <2>1, <2>2, <2>3, <2>4 DEF OwnerKept, Reading, Preparing, Storing
  <2>6. \A p \in Owner : p # o => Rests(p)
    BY <1>6 DEF FinishRestore, Exit, Goto, Rests, outbox, TypeInv, LocalType, OwnedType
  <2>7. StoreKept' /\ Shrinks
    BY <2>1, StoreStays, StoreShrinks DEF Kept, StoreKept
  <2> QED
    BY <2>5, <2>6, <2>7, RestsInShrunk DEF Kept
<1>7. CASE RejectOutbox(o)
  BY <1>7, FailedKeeps DEF RejectOutbox, history
<1> QED
  BY <1>1, <1>2, <1>3, <1>4, <1>5, <1>6, <1>7 DEF Restore

(* prepare() and commit() *)

\* What prepare() builds is what it checked.
LEMMA NewEntryPrepared ==
    ASSUME SafetyInv, NEW o \in Owner, OwnerKept(o), pc[o] = "idle", NEW ckpt \in BOOLEAN,
           NEW frame \in BOOLEAN, NEW size \in (IF ckpt THEN SnapSize ELSE DeltaSize),
           NEW e, e = NewEntry(o, ckpt, frame, size),
           needsCheckpoint(o) => ckpt, BindingsRecordable(o, ckpt, frame),
           Cardinality(e.binds) <= MaxOutbox
    PROVE  PreparedFrom(o, e)
<1> DEFINE own == IF frame THEN {[tok |-> fresh + 1, rev |-> head[o].rev + 1]} ELSE {}
<1>1. /\ e.id = fresh + 1 /\ e.rev = head[o].rev + 1 /\ e.ckpt = ckpt /\ e.size = size
      /\ e.binds = (IF ckpt THEN pendingBindings[o] \cup own ELSE own)
      /\ fresh \in Nat
  BY DEF NewEntry, SafetyInv, TypeInv, SharedType
<1>2. OwnBinding(e) = [tok |-> fresh + 1, rev |-> head[o].rev + 1]
  BY <1>1 DEF OwnBinding
<1>3. OwnBinding(e) \notin pendingBindings[o]
  <2>1. ASSUME NEW x \in log PROVE x.id # fresh + 1
    BY <1>1, KnownMembers DEF SafetyInv, KnownInv, GoodEntry
  <2>2. \A b \in pendingBindings[o] : b.tok # fresh + 1
    BY <2>1 DEF SafetyInv, OwnerInv, AcceptedId
  <2> QED
    BY <1>2, <2>2
<1>4. (HasFrame(e) <=> frame) /\ own = OwnOf(e)
  <2>1. CASE frame
    BY <1>1, <1>2, <2>1 DEF HasFrame, OwnOf
  <2>2. CASE ~frame
    BY <1>1, <1>3, <2>2 DEF HasFrame, OwnOf
  <2> QED
    BY <2>1, <2>2
<1>5. IsFiniteSet(e.binds)
  <2>1. IsFiniteSet(pendingBindings[o]) /\ IsFiniteSet(own)
    BY <1>4, OwnOfFinite DEF OwnerKept
  <2>2. IsFiniteSet(pendingBindings[o] \cup own)
    BY <2>1, FS_Union
  <2> HIDE DEF own
  <2> QED
    BY <1>1, <2>1, <2>2
<1>6. ~ckpt => e.size <= Headroom
  <2>1. ~ckpt => size \in 1..Headroom
    BY SizeAssumption
  <2>2. e.size = size
    BY <1>1
  <2> QED
    BY <2>1, <2>2, SizeAssumption
<1> HIDE DEF own
<1>7. e.binds = (IF e.ckpt THEN pendingBindings[o] ELSE {}) \cup OwnOf(e)
  BY <1>1, <1>4
<1>8. BindingsRecordable(o, e.ckpt, HasFrame(e))
  BY <1>1, <1>4 DEF BindingsRecordable
<1> QED
  BY <1>1, <1>5, <1>6, <1>7, <1>8 DEF PreparedFrom

LEMMA BeginKeeps ==
    ASSUME SafetyInv, Kept, NEW o \in Owner, NEW ckpt \in BOOLEAN, NEW frame \in BOOLEAN,
           NEW size \in (IF ckpt THEN SnapSize ELSE DeltaSize),
           BeginPrepare(o, ckpt, frame, size)
    PROVE  Kept'
<1> USE DEF SafetyInv
<1>1. PICK e : e = NewEntry(o, ckpt, frame, size)
  OBVIOUS
<1>2. UNCHANGED <<store, anchor, late, log, published, owned, outbox>>
  BY DEF BeginPrepare, history
<1>3. CASE /\ BindingsRecordable(o, ckpt, frame) /\ Cardinality(e.binds) <= MaxOutbox
           /\ prep' = [prep EXCEPT ![o] = e] /\ Goto(o, "checking") /\ UNCHANGED snap
  <2>1. PreparedFrom(o, e)
    BY <1>1, <1>3, NewEntryPrepared DEF BeginPrepare, Kept
  <2>2. pc'[o] = "checking" /\ prep'[o] = e /\ pc[o] = "idle"
    BY <1>3 DEF BeginPrepare, Goto, TypeInv, LocalType
  <2>3. PreparedFrom(o, prep[o])'
    BY <1>2, <2>1, <2>2 DEF PreparedFrom, BindingsRecordable, RetainedLedger,
                            needsCheckpoint, owned
  <2>4. OwnerKept(o)'
    BY <1>2, <2>2, <2>3 DEF Kept, OwnerKept, Reading, Storing, Opened, Holds, owned, outbox
  <2>5. \A p \in Owner : p # o => Rests(p)
    BY <1>2, <1>3 DEF Goto, Rests, owned, outbox, TypeInv, LocalType
  <2>6. StoreKept' /\ Shrinks
    BY <1>2, StoreStays, StoreShrinks DEF Kept, StoreKept
  <2> QED
    BY <2>4, <2>5, <2>6, RestsInShrunk DEF Kept
<1>4. CASE Exit(o, "failed")
  BY <1>2, <1>4, FailedKeeps
<1> QED
  BY <1>1, <1>3, <1>4 DEF BeginPrepare

LEMMA PrepareKeeps ==
    ASSUME SafetyInv, Kept, NEW o \in Owner, Prepare(o) PROVE Kept'
<1> USE DEF SafetyInv
<1>0. OwnerKept(o)
  BY DEF Kept
<1>1. ASSUME NEW ckpt \in BOOLEAN, NEW frame \in BOOLEAN,
             NEW size \in IF ckpt THEN SnapSize ELSE DeltaSize,
             BeginPrepare(o, ckpt, frame, size)
      PROVE  Kept'
  BY <1>1, BeginKeeps
<1>2. CASE CheckAnchor(o)
  <2>1. UNCHANGED <<store, anchor, late, log, published, owned, outbox>> /\ Shrinks
    BY <1>2, StoreStays DEF CheckAnchor, history
  <2>2. CASE Step(o, "staging")
    <3>1. OwnerKept(o)'
      BY <1>0, <1>2, <2>1, <2>2, PreparingKept DEF CheckAnchor, Opened, Preparing, Storing
    <3> QED
      BY <2>1, <2>2, <3>1, ShrunkKept
  <2>3. CASE Exit(o, "failed")
    BY <2>1, <2>3, FailedKeeps
  <2> QED
    BY <1>2, <2>2, <2>3 DEF CheckAnchor
<1>3. CASE Stage(o)
  <2>1. UNCHANGED <<anchor, late, log, published, owned, outbox>>
    BY <1>3 DEF Stage, history
  <2>2. CASE store' = Staged(store, prep[o]) /\ Step(o, "prepared")
    <3>1. Shrinks
      BY <2>1, <2>2 DEF Staged, Shrinks, SameContent, TypeInv, SharedType, IsStore
    <3>2. OwnerKept(o)'
      BY <1>0, <1>3, <2>1, <2>2, <3>1, PreparingKept DEF Stage, Opened, Preparing, Storing
    <3> QED
      BY <2>1, <2>2, <3>1, <3>2, ShrunkKept
  <2>3. CASE Exit(o, "idle") /\ UNCHANGED store
    <3>1. OwnerKept(o)' /\ Shrinks
      BY <1>0, <1>3, <2>1, <2>3, StoreStays, PreparingKept DEF Stage, Opened
    <3> QED
      BY <2>1, <2>3, <3>1, ShrunkKept
  <2>4. CASE Exit(o, "failed") /\ UNCHANGED store
    BY <2>1, <2>4, FailedKeeps
  <2> QED
    BY <1>3, <2>2, <2>3, <2>4 DEF Stage
<1>4. CASE Discard(o)
  <2>1. UNCHANGED <<anchor, late, log, published, owned, outbox>> /\ Exit(o, "idle")
    BY <1>4 DEF Discard, history
  <2>2. Shrinks
    BY <1>4, <2>1 DEF Discard, Discarded, Shrinks, SameContent, TypeInv, SharedType, IsStore
  <2>3. OwnerKept(o)'
    BY <1>0, <1>4, <2>1, <2>2, PreparingKept DEF Discard, Opened
  <2> QED
    BY <2>1, <2>2, <2>3, ShrunkKept
<1> QED
  BY <1>1, <1>2, <1>3, <1>4 DEF Prepare

\* What commit() sets is what the store holds, unless another owner went on.
LEMMA ConfirmKept ==
    ASSUME SafetyInv, NEW o \in Owner, OwnerKept(o), ConfirmAnchor(o)
    PROVE  OwnerKept(o)'
<1> USE DEF SafetyInv
<1> DEFINE e == prep[o]
<1>1. /\ e.binds = (IF e.ckpt THEN pendingBindings[o] ELSE {}) \cup OwnOf(e)
      /\ store.revision = e.rev => HoldsAfter(o, e)
      /\ IsFiniteSet(pendingBindings[o])
      /\ \A b \in sending[o] : b.tok \in published
  BY DEF ConfirmAnchor, OwnerKept, Preparing, Storing, PreparedFrom
<1>2. /\ pc'[o] = "idle" /\ ledger'[o] = RetainedLedger(o, e.ckpt) \cup OwnOf(e)
      /\ pendingBindings'[o] = pendingBindings[o] \cup OwnOf(e)
      /\ head'[o] = AnchorOf(e)
  BY DEF ConfirmAnchor, Exit, Goto, TypeInv, LocalType, OwnedType, OwnOf
<1>3. /\ retained'[o].count = (IF e.ckpt THEN 1 ELSE retained[o].count + 1)
      /\ retained'[o].bytes = (IF e.ckpt THEN e.size ELSE retained[o].bytes + e.size)
  BY DEF ConfirmAnchor, TypeInv, OwnedType
<1>4. store' = store /\ published' = published /\ sending' = sending
  BY DEF ConfirmAnchor, outbox
<1> HIDE DEF e
<1>5. store.revision = e.rev =>
        Holds(ledger[o], retained[o].count, retained[o].bytes, pendingBindings[o])'
  <2>1. store.revision = e.rev =>
          Holds(ledger'[o], retained'[o].count, retained'[o].bytes, pendingBindings'[o])
    BY <1>1, <1>2, <1>3 DEF HoldsAfter
  <2> QED
    BY <1>4, <2>1 DEF Holds
<1>6. IsFiniteSet(pendingBindings'[o])
  <2>1. IsFiniteSet(pendingBindings[o]) /\ IsFiniteSet(OwnOf(e))
    BY <1>1, OwnOfFinite
  <2>2. IsFiniteSet(pendingBindings[o] \cup OwnOf(e))
    BY <2>1, FS_Union
  <2> QED
    BY <1>2, <2>2
<1>7. store'.revision = head'[o].rev <=> store.revision = e.rev
  BY <1>2, <1>4 DEF AnchorOf
<1> QED
  BY <1>1, <1>2, <1>4, <1>5, <1>6, <1>7 DEF OwnerKept, Reading, Preparing, Storing

LEMMA CommitsKeep ==
    ASSUME SafetyInv, Kept, NEW o \in Owner, Commit(o) PROVE Kept'
<1> USE DEF SafetyInv
<1>0. OwnerKept(o)
  BY DEF Kept
<1>1. CASE CommitStore(o)
  <2>1. UNCHANGED <<anchor, late, log, published, owned, outbox>> /\ pc[o] = "prepared"
    BY <1>1 DEF CommitStore, history
  <2>2. CASE /\ isJournalCommitCurrent(store, head[o].rev, prep[o])
             /\ store' = Committed(store, prep[o]) /\ Step(o, "verifying")
    BY <2>1, <2>2, CommitKeeps DEF Commits, Step
  <2>3. CASE Exit(o, "failed") /\ UNCHANGED store
    BY <2>1, <2>3, FailedKeeps
  <2> QED
    BY <1>1, <2>2, <2>3 DEF CommitStore
<1>2. CASE VerifyHead(o)
  <2>1. UNCHANGED <<store, anchor, late, log, published, owned, outbox>> /\ Shrinks
    BY <1>2, StoreStays DEF VerifyHead, history
  <2>2. CASE Step(o, "swapping")
    <3>1. OwnerKept(o)'
      BY <1>0, <1>2, <2>1, <2>2, PreparingKept DEF VerifyHead, Opened, Preparing, Storing
    <3> QED
      BY <2>1, <2>2, <3>1, ShrunkKept
  <2>3. CASE Exit(o, "failed")
    BY <2>1, <2>3, FailedKeeps
  <2> QED
    BY <1>2, <2>2, <2>3 DEF VerifyHead
<1>3. CASE SwapAnchor(o)
  <2>1. UNCHANGED <<store, late, published, owned, outbox>> /\ Shrinks /\ pc[o] = "swapping"
    BY <1>3, StoreStays DEF SwapAnchor
  <2>2. CASE Advance(head[o], prep[o]) /\ Step(o, "confirming")
    <3>1. OwnerKept(o)'
      BY <1>0, <2>1, <2>2, PreparingKept DEF Opened, Preparing, Storing
    <3>2. Advance(ParentOf(Candidate(o)), Candidate(o))
      BY <2>1, <2>2 DEF Candidate, OwnerInv, Preparing
    <3> QED
      BY <2>1, <2>2, <3>1, <3>2, AnchorKeeps
  <2>3. CASE Exit(o, "failed") /\ UNCHANGED <<anchor, log>>
    BY <2>1, <2>3, FailedKeeps
  <2> QED
    BY <1>3, <2>2, <2>3 DEF SwapAnchor
<1>4. CASE ConfirmAnchor(o)
  <2>1. UNCHANGED <<store, anchor, late, log, published>> /\ Shrinks
    BY <1>4, StoreStays DEF ConfirmAnchor
  <2>2. StoreKept'
    BY <2>1, StoreShrinks DEF Kept, StoreKept
  <2>3. \A p \in Owner : p # o => Rests(p)
    BY <1>4 DEF ConfirmAnchor, Exit, Goto, Rests, outbox, TypeInv, LocalType, OwnedType
  <2> QED
    BY <1>0, <1>4, <2>1, <2>2, <2>3, ConfirmKept, RestsInShrunk DEF Kept
<1>5. CASE RefuseConfirm(o)
  BY <1>5, FailedKeeps DEF RefuseConfirm, history
<1> QED
  BY <1>1, <1>2, <1>3, <1>4, <1>5 DEF Commit

(* The outbox *)

LEMMA ListKeeps ==
    ASSUME SafetyInv, Kept, NEW o \in Owner, ListOutbox(o) PROVE Kept'
<1> USE DEF SafetyInv
<1>1. UNCHANGED <<store, anchor, late, log, published, owned, outbox>> /\ pc[o] = "idle"
  BY DEF ListOutbox, history
<1>2. CASE /\ Goto(o, "listed") /\ snap' = [snap EXCEPT ![o] = store] /\ UNCHANGED prep
  <2>1. pc'[o] = "listed" /\ snap'[o] = store
    BY <1>2 DEF Goto, TypeInv, LocalType
  <2>2. Follows(snap[o])'
    BY <1>1, <2>1, StoreRevision DEF Follows, Kept
  <2>3. IsFiniteSet(snap'[o].pubs)
    <3>1. store.pubs \subseteq RestoredLedger(store.rows) /\ IsFiniteSet(RestoredLedger(store.rows))
      BY DEF Kept, StoreKept, OutboxReadable, PublicationsBound
    <3> QED
      BY <2>1, <3>1, FS_Subset
  <2>4. (store.revision = head[o].rev =>
           Holds(ledger[o], retained[o].count, retained[o].bytes, pendingBindings[o]))'
    BY <1>1 DEF Kept, OwnerKept, Opened, Holds, owned
  <2>5. /\ \A b \in sending'[o] : b.tok \in published'
        /\ IsFiniteSet(pendingBindings'[o])
    BY <1>1 DEF Kept, OwnerKept, owned, outbox
  <2>6. OwnerKept(o)'
    BY <1>1, <2>1, <2>2, <2>3, <2>4, <2>5 DEF OwnerKept, Preparing, Storing
  <2>7. \A p \in Owner : p # o => Rests(p)
    BY <1>1, <1>2 DEF Goto, Rests, owned, outbox, TypeInv, LocalType
  <2>8. StoreKept' /\ Shrinks
    BY <1>1, StoreStays, StoreShrinks DEF Kept, StoreKept
  <2> QED
    BY <2>6, <2>7, <2>8, RestsInShrunk DEF Kept
<1>3. CASE Exit(o, "failed")
  BY <1>1, <1>3, FailedKeeps
<1> QED
  BY <1>2, <1>3 DEF ListOutbox

LEMMA ReleaseKeeps ==
    ASSUME SafetyInv, Kept, NEW o \in Owner, ReleaseOutbox(o) PROVE Kept'
<1> USE DEF SafetyInv
<1>1. /\ UNCHANGED <<store, anchor, late, log, published, head, ledger, retained, view, sending>>
      /\ pc[o] = "listed"
  BY DEF ReleaseOutbox, history
<1>2. CASE /\ pendingBindings' = [pendingBindings EXCEPT ![o] = snap[o].pubs]
           /\ batch' = [batch EXCEPT ![o] = snap[o].pubs] /\ Exit(o, "idle")
  <2>1. pc'[o] = "idle" /\ pendingBindings'[o] = snap[o].pubs
    BY <1>2 DEF Exit, Goto, TypeInv, LocalType, OwnedType
  <2>2. (store.revision = head[o].rev =>
           Holds(ledger[o], retained[o].count, retained[o].bytes, pendingBindings[o]))'
    BY <1>1, <2>1 DEF Kept, OwnerKept, Opened, Holds
  <2>3. OwnerKept(o)'
    BY <1>1, <2>1, <2>2 DEF Kept, OwnerKept, Reading, Preparing, Storing
  <2>4. \A p \in Owner : p # o => Rests(p)
    BY <1>1, <1>2 DEF Exit, Goto, Rests, TypeInv, LocalType, OwnedType
  <2>5. StoreKept' /\ Shrinks
    BY <1>1, StoreStays, StoreShrinks DEF Kept, StoreKept
  <2> QED
    BY <2>3, <2>4, <2>5, RestsInShrunk DEF Kept
<1>3. CASE Exit(o, "failed") /\ UNCHANGED <<pendingBindings, batch>>
  BY <1>1, <1>3, FailedKeeps DEF owned, outbox
<1> QED
  BY <1>2, <1>3 DEF ReleaseOutbox

\* The publication loop: a frame leaves the store once it has been published.
LEMMA LoopKeeps ==
    ASSUME SafetyInv, Kept, NEW o \in Owner, Shrinks,
           UNCHANGED <<anchor, late, log, pc, snap, prep, head, ledger, retained>>,
           \A p \in Owner : p # o => Rests(p),
           pendingBindings'[o] = pendingBindings[o] \/
              \E b : /\ pc[o] \in {"idle", "failed"} /\ b \notin store'.pubs
                    /\ pendingBindings'[o] = pendingBindings[o] \ {b},
           \A b \in sending'[o] : b.tok \in published'
    PROVE  Kept'
<1> USE DEF SafetyInv
<1>1. OwnerKept(o)
  BY DEF Kept
<1>2. StoreKept' /\ \A p \in Owner : p # o => OwnerKept(p)'
  BY StoreShrinks, RestsInShrunk DEF Kept, StoreKept
<1>3. CASE pendingBindings'[o] = pendingBindings[o]
  <2>1. pc[o] \in Reading => Follows(snap[o])'
    BY <1>1, ShrunkHolds DEF OwnerKept, Follows
  <2>2. pc[o] \in Preparing => PreparedFrom(o, prep[o])'
    BY <1>1, <1>3 DEF OwnerKept, PreparedFrom, BindingsRecordable, RetainedLedger,
                      needsCheckpoint
  <2>3. pc[o] \in Storing =>
          Written(prep[o])' /\ (store'.revision = prep'[o].rev => HoldsAfter(o, prep[o])')
    BY <1>1, <1>3 DEF OwnerKept, HoldsAfter, RetainedLedger, Shrinks, SameContent, Written,
                      Holds
  <2>4. pc[o] \in Opened /\ store'.revision = head'[o].rev =>
          /\ Holds(ledger[o], retained[o].count, retained[o].bytes, pendingBindings[o])'
          /\ pc[o] = "listed" => store'.pubs \subseteq snap'[o].pubs
    BY <1>1, <1>3 DEF OwnerKept, Shrinks, SameContent, Holds
  <2>5. IsFiniteSet(pendingBindings'[o]) /\ (pc[o] = "listed" => IsFiniteSet(snap'[o].pubs))
    BY <1>1, <1>3 DEF OwnerKept
  <2>6. OwnerKept(o)'
    BY <2>1, <2>2, <2>3, <2>4, <2>5 DEF OwnerKept
  <2> QED
    BY <1>2, <2>6 DEF Kept
<1>4. ASSUME NEW b, pc[o] \in {"idle", "failed"}, b \notin store'.pubs,
             pendingBindings'[o] = pendingBindings[o] \ {b}
      PROVE  Kept'
  <2>1. pc[o] \in Opened /\ store'.revision = head'[o].rev =>
          Holds(ledger[o], retained[o].count, retained[o].bytes, pendingBindings[o])'
    BY <1>1, <1>4 DEF OwnerKept, Shrinks, SameContent, Holds
  <2>2. IsFiniteSet(pendingBindings'[o])
    BY <1>1, <1>4, FS_Subset DEF OwnerKept
  <2>3. OwnerKept(o)'
    BY <1>4, <2>1, <2>2 DEF OwnerKept, Reading, Preparing, Storing
  <2> QED
    BY <1>2, <2>3 DEF Kept
<1> QED
  BY <1>3, <1>4

\* What publicationSent's transaction does, for a frame handed to pubsub.
LEMMA UnqueuedShrinks ==
    ASSUME SafetyInv, Kept, NEW o \in Owner, NEW b \in sending[o],
           store' = Unqueued(store, b), published' = published
    PROVE  Shrinks /\ b \notin store'.pubs
<1>1. b.tok \in published
  BY DEF Kept, OwnerKept
<1>2. /\ store'.rows = store.rows /\ store'.revision = store.revision
      /\ store'.bytes = store.bytes /\ store'.pubs = store.pubs \ {b}
  BY DEF Unqueued, SafetyInv, TypeInv, SharedType, IsStore
<1> QED
  BY <1>1, <1>2 DEF Shrinks, SameContent

LEMMA DeliverKeeps ==
    ASSUME SafetyInv, Kept, NEW o \in Owner, Deliver(o) PROVE Kept'
<1> USE DEF SafetyInv
<1>1. ASSUME NEW b \in batch[o], Publish(o, b) PROVE Kept'
  <2>1. /\ UNCHANGED <<store, anchor, late, log, pc, snap, prep, owned>>
        /\ published' = published \cup {b.tok} /\ sending'[o] = {b}
    BY <1>1 DEF Publish, TypeInv, OwnedType
  <2>2. Shrinks
    BY <2>1 DEF Shrinks, SameContent
  <2>3. \A p \in Owner : p # o => Rests(p)
    BY <1>1 DEF Publish, Rests, owned, TypeInv, OwnedType
  <2> QED
    BY <2>1, <2>2, <2>3, LoopKeeps DEF owned
<1>2. ASSUME NEW b \in sending[o], PublicationSent(o, b) PROVE Kept'
  <2>1. /\ UNCHANGED <<anchor, late, log, pc, snap, prep, head, ledger, retained, published>>
        /\ sending'[o] = {} /\ pendingBindings'[o] = pendingBindings[o] \ {b}
        /\ pc[o] \in {"idle", "failed"}
    BY <1>2 DEF PublicationSent, history, TypeInv, OwnedType
  <2>2. Shrinks /\ b \notin store'.pubs
    BY <1>2, <2>1, UnqueuedShrinks DEF PublicationSent
  <2>3. \A p \in Owner : p # o => Rests(p)
    BY <1>2 DEF PublicationSent, Rests, TypeInv, OwnedType
  <2> QED
    BY <2>1, <2>2, <2>3, LoopKeeps
<1> QED
  BY <1>1, <1>2, ListKeeps, ReleaseKeeps DEF Deliver

(* Faults, of storage that keeps what it acknowledged *)

LEMMA AbandonWritten ==
    ASSUME SafetyInv, Kept, NEW o \in Owner, Abandon(o)
    PROVE  \A e \in late' : Written(e)
<1>1. \A e \in late : Written(e)
  BY DEF Kept, StoreKept
<1>2. CASE pc[o] \in {"finishing", "swapping"}
  BY <1>1, <1>2, CandidateWritten DEF Abandon
<1> QED
  BY <1>1, <1>2 DEF Abandon

LEMMA ForgetKeeps ==
    ASSUME SafetyInv, Kept, NEW o \in Owner, Forget(o), \A e \in late' : Written(e),
           UNCHANGED <<store, anchor, log, published>>
    PROVE  Kept'
<1> USE DEF SafetyInv
<1>1. pc'[o] = "off" /\ sending'[o] = {} /\ pendingBindings'[o] = {}
  BY DEF Forget, Exit, Goto, TypeInv, LocalType, OwnedType
<1>2. OwnerKept(o)'
  BY <1>1, FS_EmptySet, LeftKept
<1>3. \A p \in Owner : p # o => Rests(p)
  BY DEF Forget, Exit, Goto, Rests, TypeInv, LocalType, OwnedType
<1>4. StoreKept' /\ Shrinks
  BY StoreStays, StoreShrinks DEF Kept
<1> QED
  BY <1>2, <1>3, <1>4, RestsInShrunk DEF Kept

LEMMA FaultKeeps ==
    ASSUME SafetyInv, Kept, NEW o \in Owner,
           RejectCall(o) \/ AbortBatch(o) \/ Crash(o) \/ Reopen(o)
    PROVE  Kept'
<1> USE DEF SafetyInv
<1>1. CASE RejectCall(o)
  <2>1. /\ UNCHANGED <<store, anchor, log, published, owned, outbox>>
        /\ Abandon(o) /\ Exit(o, "failed")
    BY <1>1 DEF RejectCall, history
  <2>2. StoreKept' /\ Shrinks
    BY <2>1, AbandonWritten, StoreStays, StoreShrinks DEF Kept
  <2>3. OwnerKept(o)'
    BY <2>1, FailedKept DEF Kept
  <2> QED
    BY <2>1, <2>2, <2>3, OthersRest, RestsInShrunk DEF Kept
<1>2. CASE AbortBatch(o)
  <2>1. /\ UNCHANGED <<anchor, late, log, published, pc, snap, prep, owned>>
        /\ sending'[o] = {}
    BY <1>2 DEF AbortBatch, history, TypeInv, OwnedType
  <2>2. Shrinks
    BY <1>2, <2>1, StoreStays, UnqueuedShrinks DEF AbortBatch
  <2>3. \A p \in Owner : p # o => Rests(p)
    BY <1>2, <2>1 DEF AbortBatch, Rests, owned, TypeInv, OwnedType
  <2> QED
    BY <2>1, <2>2, <2>3, LoopKeeps DEF owned
<1>3. CASE Crash(o)
  BY <1>3, AbandonWritten, ForgetKeeps DEF Crash, history
<1>4. CASE Reopen(o)
  BY <1>4, ForgetKeeps DEF Reopen, history, Kept, StoreKept
<1> QED
  BY <1>1, <1>2, <1>3, <1>4

LEMMA LandKeeps ==
    ASSUME SafetyInv, Kept, LandLate PROVE Kept'
<1> USE DEF SafetyInv
<1>1. PICK e \in late :
        /\ Advance(ParentOf(e), e) \/ UNCHANGED <<anchor, log>>
        /\ late' = late \ {e}
        /\ UNCHANGED <<store, pc, owned, snap, prep, outbox, published>>
  BY DEF LandLate
<1>2. /\ Written(e) /\ \A x \in late' : Written(x)
  BY <1>1 DEF Kept, StoreKept
<1>3. e \in Entry /\ e.rev # 0
  BY KnownMembers, KnownTyped DEF KnownInv, GoodEntry
<1>4. StoreKept' /\ Shrinks
  BY <1>1, <1>2, <1>3, AdvanceKeeps, StoreStays, StoreShrinks DEF Kept
<1>5. \A p \in Owner : Rests(p)
  BY <1>1 DEF Rests, owned, outbox
<1> QED
  BY <1>4, <1>5, RestsInShrunk DEF Kept

(* The inductive step, and the theorems. *)

\* Storage that keeps what it acknowledged goes on doing so.
LEMMA BackupsStay ==
    ASSUME Next, backups' = {} PROVE backups = {} /\ ~Rollback /\ ~Backup
<1>1. ASSUME NEW o \in Owner, Restore(o) PROVE backups' = backups
  BY <1>1 DEF Restore, LoadSnapshot, LoadAnchor, FinishAnchor, RecheckAnchor,
              DiscardStaged, FinishRestore, RejectOutbox
<1>2. ASSUME NEW o \in Owner, Prepare(o) PROVE backups' = backups
  BY <1>2 DEF Prepare, BeginPrepare, CheckAnchor, Stage, Discard
<1>3. ASSUME NEW o \in Owner, Commit(o) PROVE backups' = backups
  BY <1>3 DEF Commit, CommitStore, VerifyHead, SwapAnchor, ConfirmAnchor, RefuseConfirm
<1>4. ASSUME NEW o \in Owner, Deliver(o) PROVE backups' = backups
  BY <1>4 DEF Deliver, ListOutbox, ReleaseOutbox, Publish, PublicationSent
<1>5. ASSUME NEW o \in Owner, RejectCall(o) \/ AbortBatch(o) \/ Crash(o) \/ Reopen(o)
      PROVE  backups' = backups
  BY <1>5 DEF RejectCall, AbortBatch, Crash, Reopen
<1>6. LandLate \/ Rollback => backups' = backups
  BY DEF LandLate, Rollback
<1>7. ~Backup
  BY DEF Backup
<1>8. backups = {}
  BY <1>1, <1>2, <1>3, <1>4, <1>5, <1>6, <1>7 DEF Next
<1> QED
  BY <1>7, <1>8 DEF Rollback

LEMMA InitStorage == Init => StorageInv
<1> SUFFICES ASSUME Init, backups = {} PROVE StoreKept /\ \A o \in Owner : OwnerKept(o)
  BY DEF StorageInv
<1>1. /\ store = EmptyStore /\ store.revision = 0 /\ DOMAIN store.rows = {}
      /\ store.pubs = {}
  BY DEF Init, EmptyStore
<1>2. RestoredLedger(store.rows) = {}
  BY <1>1 DEF RestoredLedger
<1>3. StoreKept
  <2>1. ChainValid(store)
    BY <1>1 DEF ChainValid
  <2>2. BindingsAdmitted(store.rows)
    BY <1>1, <1>2, FS_EmptySet, SizeAssumption DEF BindingsAdmitted
  <2>3. OutboxReadable(store.pubs, RestoredLedger(store.rows), store.revision)
    BY <1>1, FS_EmptySet, SizeAssumption DEF OutboxReadable, PublicationsBound
  <2>4. store.revision = anchor.rev /\ LastId(store) = anchor.id
    BY <1>1 DEF Init, NoAnchor, LastId
  <2>5. IsFiniteSet(RestoredLedger(store.rows))
    BY <1>2, FS_EmptySet
  <2> QED
    BY <1>1, <2>1, <2>2, <2>3, <2>4, <2>5 DEF StoreKept, Init
<1>4. ASSUME NEW o \in Owner PROVE OwnerKept(o)
  BY FS_EmptySet DEF Init, OwnerKept, Reading, Preparing, Storing, Opened
<1> QED
  BY <1>3, <1>4

LEMMA StorageInvStep == SafetyInv /\ StorageInv /\ [Next]_vars => StorageInv'
<1>1. ASSUME SafetyInv, StorageInv, Next, backups' = {} PROVE Kept'
  <2>1. Kept
    BY <1>1, BackupsStay DEF StorageInv, Kept
  <2> QED
    BY <1>1, <2>1, BackupsStay, RestoreKeeps, PrepareKeeps, CommitsKeep, DeliverKeeps,
       FaultKeeps, LandKeeps DEF Next
<1>2. ASSUME SafetyInv, StorageInv, UNCHANGED vars, backups' = {} PROVE Kept'
  <2>1. /\ UNCHANGED <<store, anchor, late, log, published, backups>>
        /\ \A p \in Owner : Rests(p)
    BY <1>2 DEF vars, Rests, owned, outbox, history
  <2>2. Kept
    BY <1>2, <2>1 DEF StorageInv, Kept
  <2>3. StoreKept' /\ Shrinks
    BY <2>1, <2>2, StoreStays, StoreShrinks DEF Kept, StoreKept
  <2> QED
    BY <1>2, <2>1, <2>2, <2>3, RestsInShrunk DEF Kept
<1> QED
  BY <1>1, <1>2 DEF StorageInv, Kept

\* StorageInv is what the three theorems below rest on.
LEMMA StorageHolds == Spec => [](SafetyInv /\ StorageInv)
BY InitSafety, InitStorage, SafetyStep, StorageInvStep, PTL DEF Spec

\* While storage keeps what it acknowledged, restore() accepts whatever crashes,
\* late anchor swaps and other owners have left in it.
THEOREM AlwaysReopenable == Spec => []Reopenable
<1>1. ASSUME SafetyInv, StorageInv, backups = {}
      PROVE  /\ ClassifySnapshot(store, anchor) # "reject"
             /\ OutboxReadable(store.pubs, RestoredLedger(store.rows), store.revision)
  <2>1. StoreKept
    BY <1>1 DEF StorageInv
  <2> QED
    BY <2>1 DEF StoreKept, Ahead, ClassifySnapshot, classifyDocumentJournalRecovery
<1>2. SafetyInv /\ StorageInv => Reopenable
  BY <1>1 DEF Reopenable
<1> QED
  BY <1>2, StorageHolds, PTL

\* On such storage an accepted frame stays queued until pubsub has been given it:
\* neither a checkpoint, nor another owner's publication loop, nor a crash between
\* publication and publicationSent takes it out early.
THEOREM AcceptedFramesKept == Spec => []NoPublicationLost
<1>1. SafetyInv /\ StorageInv => NoPublicationLost
  BY DEF StorageInv, StoreKept, FrameKept, NoPublicationLost
<1> QED
  BY <1>1, StorageHolds, PTL

\* What a current owner keeps in memory is what restore() would compute from the
\* rows, and a delta that needsCheckpoint let through meets no limit in stage().
THEOREM AccountsExactlyKept == Spec => []AccountsKept
<1>1. ASSUME SafetyInv, StorageInv PROVE MemoryMatchesRows
  <2>1. ASSUME NEW o \in Owner, backups = {}, Current(o), store.revision = head[o].rev
        PROVE  /\ ledger[o] = RestoredLedger(store.rows)
               /\ retained[o] = [count |-> Cardinality(DOMAIN store.rows),
                                 bytes |-> store.bytes]
    <3>1. Holds(ledger[o], retained[o].count, retained[o].bytes, pendingBindings[o])
      BY <1>1, <2>1 DEF StorageInv, OwnerKept, Current
    <3>2. retained[o] \in [count : Nat, bytes : Nat]
      BY <1>1 DEF SafetyInv, TypeInv, OwnedType
    <3> QED
      BY <3>1, <3>2 DEF Holds
  <2> QED
    BY <2>1 DEF MemoryMatchesRows
<1>2. ASSUME SafetyInv, StorageInv PROVE DeltaFits
  <2>1. ASSUME NEW o \in Owner, backups = {}, pc[o] = "staging", Current(o),
               ~prep[o].ckpt, store.revision = head[o].rev
        PROVE  /\ Cardinality(DOMAIN store.rows) < MaxEntries
               /\ prep[o].size <= MaxBytes - store.bytes
    <3>1. /\ Cardinality(DOMAIN store.rows) = retained[o].count
          /\ store.bytes = retained[o].bytes
      BY <1>2, <2>1 DEF StorageInv, OwnerKept, Current, Holds
    <3>2. ~needsCheckpoint(o) /\ prep[o].size <= Headroom
      BY <1>2, <2>1 DEF StorageInv, OwnerKept, Preparing, PreparedFrom
    <3>3. retained[o] \in [count : Nat, bytes : Nat] /\ prep[o].size \in Nat
      BY <1>2 DEF SafetyInv, TypeInv, OwnedType, LocalType, Entry
    <3> QED
      BY <3>1, <3>2, <3>3, SizeAssumption DEF needsCheckpoint
  <2> QED
    BY <2>1 DEF DeltaFits
<1>3. SafetyInv /\ StorageInv => AccountsKept
  BY <1>1, <1>2 DEF AccountsKept
<1> QED
  BY <1>3, StorageHolds, PTL
===========================================================================
