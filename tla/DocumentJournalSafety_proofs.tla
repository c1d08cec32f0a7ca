------------------- MODULE DocumentJournalSafety_proofs -------------------
(***************************************************************************)
(* Types and safety of the document journal, for any number of owners, any *)
(* limits and any number of preparations, faults and rollbacks.            *)
(* JournalInv is inductive: an entry extends an accepted one, a store      *)
(* image is accepted history with at most one newer row (or its chain      *)
(* check fails), and an owner holds accepted history up to its head.       *)
(* Nothing in it says that storage keeps what was written, so it survives  *)
(* rollbacks.                                                              *)
(***************************************************************************)
EXTENDS DocumentJournal, Sequences, FiniteSetTheorems, TLAPS

-----------------------------------------------------------------------------
(* The values the model builds have their types. *)

LEMMA EmptyStoreType == IsStore(EmptyStore)
BY SizeAssumption, FS_EmptySet DEF IsStore, EmptyStore, NoEntry, Entry, Binding

LEMMA NoEntryType == NoEntry \in Entry /\ NoAnchor \in Anchor
BY DEF NoEntry, Entry, NoAnchor, Anchor, Binding

LEMMA StagedType ==
    ASSUME NEW s, IsStore(s), NEW e \in Entry, NEW x,
           classifyJournalStage(s, x, e) = "accept"
    PROVE  IsStore(Staged(s, e))
<1>1. /\ s.pending = NoEntry
      /\ e.size <= MaxBytes
      /\ ~e.ckpt => e.size <= MaxBytes - s.bytes
  BY SizeAssumption DEF classifyJournalStage, Entry, IsStore
<1> QED
  BY <1>1, SizeAssumption DEF IsStore, Staged, Entry

LEMMA CommittedType ==
    ASSUME NEW s, IsStore(s), NEW e \in Entry, NEW x,
           isJournalCommitCurrent(s, x, e)
    PROVE  IsStore(Committed(s, e))
<1>1. /\ s.pending # NoEntry /\ s.pending.ckpt = e.ckpt /\ s.pending.size = e.size
  BY DEF isJournalCommitCurrent
<1>2. (IF e.ckpt THEN e.size ELSE s.bytes + e.size) \in Nat
  BY DEF IsStore, Entry
<1>3. (IF e.ckpt THEN e.size ELSE s.bytes + e.size) <= MaxBytes
  BY <1>1, SizeAssumption DEF IsStore, Entry
<1>4. OwnBinding(e) \in Binding
  BY DEF OwnBinding, Binding, Entry
<1> DEFINE D == (IF e.ckpt THEN {} ELSE DOMAIN s.rows) \cup {e.rev}
           R == [r \in D |-> IF r = e.rev THEN e ELSE s.rows[r]]
<1>5. R \in [D -> Entry] /\ D \subseteq Nat /\ IsFiniteSet(D)
  BY FS_EmptySet, FS_AddElement DEF IsStore, Entry
<1>6. DOMAIN R = D
  OBVIOUS
<1> HIDE DEF D, R
<1>7. Committed(s, e) = [revision |-> e.rev, rows |-> R,
                         bytes |-> IF e.ckpt THEN e.size ELSE s.bytes + e.size,
                         pubs |-> IF HasFrame(e) THEN s.pubs \cup {OwnBinding(e)}
                                  ELSE s.pubs,
                         pending |-> NoEntry]
  BY DEF Committed, D, R
<1>8. e.rev \in Nat /\ s.pubs \subseteq Binding
  BY DEF Entry, IsStore
<1> QED
  BY <1>2, <1>3, <1>4, <1>5, <1>6, <1>7, <1>8, NoEntryType DEF IsStore

LEMMA DiscardedType ==
    ASSUME NEW s, IsStore(s), NEW e
    PROVE  IsStore(Discarded(s, e))
BY NoEntryType DEF IsStore, Discarded

LEMMA UnqueuedType ==
    ASSUME NEW s, IsStore(s), NEW b
    PROVE  IsStore(Unqueued(s, b))
BY DEF IsStore, Unqueued

LEMMA NewEntryType ==
    ASSUME TypeOK, NEW o \in Owner, NEW ckpt \in BOOLEAN, NEW frame \in BOOLEAN,
           NEW size \in (IF ckpt THEN SnapSize ELSE DeltaSize)
    PROVE  NewEntry(o, ckpt, frame, size) \in Entry
<1> DEFINE own == IF frame THEN {[tok |-> fresh + 1, rev |-> head[o].rev + 1]}
                  ELSE {}
<1>1. head[o].rev \in Nat /\ head[o].id \in Nat /\ fresh + 1 \in Nat
  BY DEF TypeOK, Anchor
<1>2. size \in Nat
  BY SizeAssumption
<1>3. own \subseteq Binding
  BY <1>1 DEF Binding
<1>4. pendingBindings[o] \subseteq Binding /\ view[o] \subseteq Nat
  BY DEF TypeOK
<1> QED
  BY <1>1, <1>2, <1>3, <1>4 DEF NewEntry, Entry

\* The entry that a swap in flight would anchor.
LEMMA CandidateType ==
    ASSUME TypeOK, NEW o \in Owner,
           \/ pc[o] = "finishing" /\ snap[o].revision \in DOMAIN snap[o].rows
           \/ pc[o] = "swapping"
    PROVE  Candidate(o) \in Entry
BY DEF TypeOK, Candidate, IsStore

LEMMA InitType == Init => TypeOK
<1> SUFFICES ASSUME Init PROVE TypeOK
  OBVIOUS
<1> USE EmptyStoreType, NoEntryType DEF Init
<1>1. IsStore(store) /\ \A b \in backups : IsStore(b)
  OBVIOUS
<1>2. snap = [o \in Owner |-> snap[o]] /\ \A o \in Owner : IsStore(snap[o])
  OBVIOUS
<1>3. pc \in [Owner -> Waiting \cup {"off", "idle", "failed"}]
  BY DEF Waiting
<1> QED
  BY <1>1, <1>2, <1>3 DEF TypeOK

(* Type correctness is inductive together with the fact that restore() only  *)
(* goes on with a snapshot that has a newest row.  It is split into the       *)
(* variables local to a call, those an owner keeps, and the shared ones.      *)

Label == Waiting \cup {"off", "idle", "failed"}

Restoring == {"finishing", "rechecking", "discarding", "reading"}
HasNewest(s) == s.revision = 0 \/ s.revision \in DOMAIN s.rows

LocalType ==
    /\ snap = [o \in Owner |-> snap[o]] /\ \A o \in Owner : IsStore(snap[o])
    /\ pc \in [Owner -> Label]
    /\ prep \in [Owner -> Entry]
    /\ \A o \in Owner :
          /\ pc[o] \in Restoring => HasNewest(snap[o])
          /\ pc[o] = "finishing" => snap[o].revision # 0

SharedType ==
    /\ IsStore(store) /\ (\A b \in backups : IsStore(b))
    /\ anchor \in Anchor /\ late \subseteq Entry
    /\ fresh \in Nat /\ faults \in Nat
    /\ log \subseteq Entry /\ acked \subseteq Nat /\ published \subseteq Nat

OwnedType ==
    /\ head \in [Owner -> Anchor]
    /\ ledger \in [Owner -> SUBSET Binding]
    /\ pendingBindings \in [Owner -> SUBSET Binding]
    /\ retained \in [Owner -> [count : Nat, bytes : Nat]]
    /\ view \in [Owner -> SUBSET Nat]
    /\ batch \in [Owner -> SUBSET Binding]
    /\ sending \in [Owner -> SUBSET Binding]

TypeInv == LocalType /\ SharedType /\ OwnedType

LEMMA TypeInvImpliesTypeOK == TypeInv => TypeOK
BY DEF TypeInv, LocalType, SharedType, OwnedType, TypeOK, Label

LEMMA InitTypeInv == Init => TypeInv
<1> SUFFICES ASSUME Init PROVE TypeInv
  OBVIOUS
<1> USE InitType DEF TypeOK
<1>1. \A o \in Owner : pc[o] \notin Restoring
  BY DEF Init, Restoring
<1> QED
  BY <1>1 DEF TypeInv, LocalType, SharedType, OwnedType, Label, Restoring

LEMMA StepType ==
    ASSUME LocalType, NEW o \in Owner, NEW l \in Label, Step(o, l),
           l \in Restoring => HasNewest(snap[o]),
           l = "finishing" => snap[o].revision # 0
    PROVE  LocalType'
BY DEF LocalType, Step, Goto

LEMMA ExitType ==
    ASSUME LocalType, NEW o \in Owner, NEW l \in {"off", "idle", "failed"},
           Exit(o, l)
    PROVE  LocalType'
BY EmptyStoreType, NoEntryType DEF LocalType, Exit, Goto, Label, Restoring

LEMMA TypeStep == TypeInv /\ [Next]_vars => TypeInv'
<1> SUFFICES ASSUME TypeInv, [Next]_vars
             PROVE  TypeInv'
  OBVIOUS
<1> USE DEF TypeInv
<1>1. ASSUME NEW o \in Owner, LoadSnapshot(o) PROVE TypeInv'
  <2>1. LocalType'
    BY <1>1 DEF LoadSnapshot, LocalType, SharedType, Goto, Label, Waiting,
                Restoring
  <2> QED
    BY <1>1, <2>1 DEF LoadSnapshot, SharedType, OwnedType, owned, outbox, bounds,
                      history
<1>2. ASSUME NEW o \in Owner, LoadAnchor(o) PROVE TypeInv'
  <2> DEFINE verdict == ClassifySnapshot(snap[o], anchor)
  <2>1. verdict # "reject" => HasNewest(snap[o])
    BY DEF ClassifySnapshot, ChainValid, HasNewest
  <2>2. verdict = "finish-anchor" => snap[o].revision # 0
    BY DEF ClassifySnapshot, classifyDocumentJournalRecovery, SharedType, Anchor
  <2>3. ASSUME Step(o, AfterAnchor(snap[o])), verdict = "current"
        PROVE  LocalType'
    BY <2>1, <2>3, StepType DEF AfterAnchor, Label, Waiting
  <2>4. ASSUME Step(o, "finishing"), verdict = "finish-anchor"
        PROVE  LocalType'
    BY <2>1, <2>2, <2>4, StepType DEF Label, Waiting
  <2>5. LocalType'
    BY <1>2, <2>3, <2>4, ExitType DEF LoadAnchor
  <2> QED
    BY <1>2, <2>5 DEF LoadAnchor, SharedType, OwnedType, owned, outbox, bounds,
                      history
<1>3. ASSUME NEW o \in Owner, FinishAnchor(o) PROVE TypeInv'
  <2>1. HasNewest(snap[o]) /\ snap[o].revision # 0
    BY <1>3 DEF FinishAnchor, LocalType, Restoring
  <2>2. LocalType'
    BY <1>3, <2>1, StepType, ExitType DEF FinishAnchor, Label, Waiting
  <2>3. Candidate(o) \in Entry
    BY <1>3, <2>1, CandidateType, TypeInvImpliesTypeOK DEF FinishAnchor, HasNewest
  <2>4. anchor' \in Anchor /\ log' \subseteq Entry
    BY <1>3, <2>3 DEF FinishAnchor, Advance, AnchorOf, Anchor, Entry, SharedType
  <2> QED
    BY <1>3, <2>2, <2>4 DEF FinishAnchor, SharedType, OwnedType, owned, outbox,
                            bounds
<1>4. ASSUME NEW o \in Owner, RecheckAnchor(o) PROVE TypeInv'
  <2>1. HasNewest(snap[o])
    BY <1>4 DEF RecheckAnchor, LocalType, Restoring
  <2>2. LocalType'
    BY <1>4, <2>1, StepType, ExitType DEF RecheckAnchor, AfterAnchor, Label, Waiting
  <2> QED
    BY <1>4, <2>2 DEF RecheckAnchor, SharedType, OwnedType, owned, outbox, bounds,
                      history
<1>5. ASSUME NEW o \in Owner, DiscardStaged(o) PROVE TypeInv'
  <2>1. HasNewest(snap[o])
    BY <1>5 DEF DiscardStaged, LocalType, Restoring
  <2>2. LocalType'
    BY <1>5, <2>1, StepType DEF DiscardStaged, Label, Waiting
  <2> QED
    BY <1>5, <2>2, DiscardedType DEF DiscardStaged, SharedType, OwnedType, owned,
                                     outbox, bounds, history
<1>6. ASSUME NEW o \in Owner, FinishRestore(o) PROVE TypeInv'
  <2>1. LocalType'
    BY <1>6, ExitType DEF FinishRestore
  <2>2. HasNewest(snap[o])
    BY <1>6 DEF FinishRestore, LocalType, Restoring
  <2>3. /\ snap[o].rows \in [DOMAIN snap[o].rows -> Entry]
        /\ IsFiniteSet(DOMAIN snap[o].rows)
        /\ snap[o].revision \in Nat /\ snap[o].bytes \in Nat
    BY DEF LocalType, IsStore
  <2>4. RestoredLedger(snap[o].rows) \subseteq Binding
    BY <2>3 DEF RestoredLedger, Entry
  <2>5. UNION {snap[o].rows[r].ops : r \in DOMAIN snap[o].rows} \subseteq Nat
    BY <2>3 DEF Entry
  <2>6. LastId(snap[o]) \in Nat
    BY <2>2, <2>3 DEF LastId, HasNewest, Entry
  <2>7. Cardinality(DOMAIN snap[o].rows) \in Nat
    BY <2>3, FS_CardinalityType
  <2>8. store.pubs \subseteq Binding
    BY DEF SharedType, IsStore
  <2>9. OwnedType'
    <3>1. head' \in [Owner -> Anchor]
      BY <1>6, <2>3, <2>6 DEF FinishRestore, OwnedType, Anchor
    <3>2. retained' \in [Owner -> [count : Nat, bytes : Nat]]
      BY <1>6, <2>3, <2>7 DEF FinishRestore, OwnedType
    <3>3. view' \in [Owner -> SUBSET Nat]
      BY <1>6, <2>5 DEF FinishRestore, OwnedType
    <3> QED
      BY <1>6, <2>4, <2>8, <3>1, <3>2, <3>3 DEF FinishRestore, OwnedType, outbox
  <2> QED
    BY <1>6, <2>1, <2>9 DEF FinishRestore, SharedType, bounds, history
<1>7. ASSUME NEW o \in Owner, RejectOutbox(o) PROVE TypeInv'
  <2>1. LocalType'
    BY <1>7, ExitType DEF RejectOutbox
  <2> QED
    BY <1>7, <2>1 DEF RejectOutbox, SharedType, OwnedType, owned, outbox, bounds,
                      history
<1>8. ASSUME NEW o \in Owner, NEW ckpt \in BOOLEAN, NEW frame \in BOOLEAN,
             NEW size \in (IF ckpt THEN SnapSize ELSE DeltaSize),
             BeginPrepare(o, ckpt, frame, size)
      PROVE  TypeInv'
  <2>1. NewEntry(o, ckpt, frame, size) \in Entry
    BY NewEntryType, TypeInvImpliesTypeOK
  <2>2. LocalType'
    BY <1>8, <2>1, ExitType DEF BeginPrepare, LocalType, Goto, Label, Waiting,
                                Restoring
  <2> QED
    BY <1>8, <2>2 DEF BeginPrepare, SharedType, OwnedType, owned, outbox, history
<1>9. ASSUME NEW o \in Owner, CheckAnchor(o) PROVE TypeInv'
  <2>1. LocalType'
    BY <1>9, StepType, ExitType DEF CheckAnchor, Label, Waiting, Restoring
  <2> QED
    BY <1>9, <2>1 DEF CheckAnchor, SharedType, OwnedType, owned, outbox, bounds,
                      history
<1>10. ASSUME NEW o \in Owner, Stage(o) PROVE TypeInv'
  <2>1. prep[o] \in Entry
    BY DEF LocalType
  <2>2. LocalType'
    BY <1>10, StepType, ExitType DEF Stage, Label, Waiting, Restoring
  <2>3. IsStore(store')
    BY <1>10, <2>1, StagedType DEF Stage, SharedType
  <2> QED
    BY <1>10, <2>2, <2>3 DEF Stage, SharedType, OwnedType, owned, outbox, bounds,
                             history
<1>11. ASSUME NEW o \in Owner, Discard(o) PROVE TypeInv'
  <2>1. LocalType'
    BY <1>11, ExitType DEF Discard
  <2> QED
    BY <1>11, <2>1, DiscardedType DEF Discard, SharedType, OwnedType, owned, outbox,
                                      bounds, history
<1>12. ASSUME NEW o \in Owner, CommitStore(o) PROVE TypeInv'
  <2>1. prep[o] \in Entry
    BY DEF LocalType
  <2>2. LocalType'
    BY <1>12, StepType, ExitType DEF CommitStore, Label, Waiting, Restoring
  <2>3. IsStore(store')
    BY <1>12, <2>1, CommittedType DEF CommitStore, SharedType
  <2> QED
    BY <1>12, <2>2, <2>3 DEF CommitStore, SharedType, OwnedType, owned, outbox,
                             bounds, history
<1>13. ASSUME NEW o \in Owner, VerifyHead(o) PROVE TypeInv'
  <2>1. LocalType'
    BY <1>13, StepType, ExitType DEF VerifyHead, Label, Waiting, Restoring
  <2> QED
    BY <1>13, <2>1 DEF VerifyHead, SharedType, OwnedType, owned, outbox, bounds,
                       history
<1>14. ASSUME NEW o \in Owner, SwapAnchor(o) PROVE TypeInv'
  <2>1. LocalType'
    BY <1>14, StepType, ExitType DEF SwapAnchor, Label, Waiting, Restoring
  <2>2. prep[o] \in Entry
    BY DEF LocalType
  <2>3. anchor' \in Anchor /\ log' \subseteq Entry
    BY <1>14, <2>2 DEF SwapAnchor, Advance, AnchorOf, Anchor, Entry, SharedType
  <2> QED
    BY <1>14, <2>1, <2>3 DEF SwapAnchor, SharedType, OwnedType, owned, outbox, bounds
<1>15. ASSUME NEW o \in Owner, ConfirmAnchor(o) PROVE TypeInv'
  <2>1. LocalType'
    BY <1>15, ExitType DEF ConfirmAnchor
  <2> DEFINE e == prep[o]
             own == IF HasFrame(e) THEN {OwnBinding(e)} ELSE {}
  <2>2. /\ e \in Entry /\ e.id \in Nat /\ e.size \in Nat
        /\ e.ops \subseteq Nat /\ own \subseteq Binding /\ AnchorOf(e) \in Anchor
    BY DEF LocalType, Entry, OwnBinding, Binding, AnchorOf, Anchor
  <2>3. RetainedLedger(o, e.ckpt) \subseteq Binding
    BY DEF RetainedLedger, OwnedType
  <2> HIDE DEF own, e
  <2>4. OwnedType'
    <3>1. ledger' \in [Owner -> SUBSET Binding]
      BY <1>15, <2>2, <2>3 DEF ConfirmAnchor, OwnedType, e, own
    <3>2. pendingBindings' \in [Owner -> SUBSET Binding]
      BY <1>15, <2>2 DEF ConfirmAnchor, OwnedType, e, own
    <3>3. retained' \in [Owner -> [count : Nat, bytes : Nat]]
      BY <1>15, <2>2 DEF ConfirmAnchor, OwnedType, e
    <3>4. view' \in [Owner -> SUBSET Nat] /\ head' \in [Owner -> Anchor]
      BY <1>15, <2>2 DEF ConfirmAnchor, OwnedType, e
    <3> QED
      BY <1>15, <3>1, <3>2, <3>3, <3>4 DEF ConfirmAnchor, OwnedType, outbox
  <2>5. acked' \subseteq Nat
    BY <1>15, <2>2 DEF ConfirmAnchor, SharedType, e
  <2> QED
    BY <1>15, <2>1, <2>4, <2>5 DEF ConfirmAnchor, SharedType, bounds
<1>16. ASSUME NEW o \in Owner, RefuseConfirm(o) PROVE TypeInv'
  <2>1. LocalType'
    BY <1>16, ExitType DEF RefuseConfirm
  <2> QED
    BY <1>16, <2>1 DEF RefuseConfirm, SharedType, OwnedType, owned, outbox, bounds,
                       history
<1>17. ASSUME NEW o \in Owner, ListOutbox(o) PROVE TypeInv'
  <2>1. LocalType'
    BY <1>17, ExitType DEF ListOutbox, LocalType, SharedType, Goto, Label, Waiting,
                           Restoring
  <2> QED
    BY <1>17, <2>1 DEF ListOutbox, SharedType, OwnedType, owned, outbox, bounds,
                       history
<1>18. ASSUME NEW o \in Owner, ReleaseOutbox(o) PROVE TypeInv'
  <2>1. LocalType'
    BY <1>18, ExitType DEF ReleaseOutbox
  <2>2. snap[o].pubs \subseteq Binding
    BY DEF LocalType, IsStore
  <2> QED
    BY <1>18, <2>1, <2>2 DEF ReleaseOutbox, SharedType, OwnedType, bounds, history
<1>19. ASSUME NEW o \in Owner, NEW b \in batch[o], Publish(o, b) PROVE TypeInv'
  <2>1. b \in Binding /\ b.tok \in Nat
    BY DEF OwnedType, Binding
  <2>2. sending' \in [Owner -> SUBSET Binding] /\ published' \subseteq Nat
    BY <1>19, <2>1 DEF Publish, OwnedType, SharedType
  <2> QED
    BY <1>19, <2>2 DEF Publish, SharedType, OwnedType, LocalType, owned, bounds
<1>20. ASSUME NEW o \in Owner, NEW b \in sending[o], PublicationSent(o, b)
       PROVE  TypeInv'
  <2>1. IsStore(store')
    BY <1>20, UnqueuedType DEF PublicationSent, SharedType
  <2>2. OwnedType'
    BY <1>20 DEF PublicationSent, OwnedType
  <2> QED
    BY <1>20, <2>1, <2>2 DEF PublicationSent, SharedType, LocalType, bounds, history
<1>21. ASSUME NEW o \in Owner, Abandon(o) PROVE late' \subseteq Entry
  <2>1. CASE pc[o] \in {"finishing", "swapping"}
    <3>1. Candidate(o) \in Entry
      BY <2>1, CandidateType, TypeInvImpliesTypeOK DEF LocalType, Restoring, HasNewest
    <3> QED
      BY <1>21, <3>1 DEF Abandon, SharedType
  <2>2. CASE pc[o] \notin {"finishing", "swapping"}
    BY <1>21, <2>2 DEF Abandon, SharedType
  <2> QED
    BY <2>1, <2>2
<1>22. ASSUME NEW o \in Owner, RejectCall(o) PROVE TypeInv'
  <2>1. LocalType'
    BY <1>22, ExitType DEF RejectCall
  <2>2. faults' \in Nat /\ late' \subseteq Entry
    BY <1>21, <1>22 DEF RejectCall, Fault, SharedType
  <2> QED
    BY <1>22, <2>1, <2>2 DEF RejectCall, SharedType, OwnedType, owned, outbox, history
<1>23. ASSUME NEW o \in Owner, AbortBatch(o) PROVE TypeInv'
  <2>1. IsStore(store') /\ faults' \in Nat
    BY <1>23, UnqueuedType DEF AbortBatch, Fault, SharedType
  <2>2. OwnedType'
    BY <1>23 DEF AbortBatch, OwnedType, owned
  <2> QED
    BY <1>23, <2>1, <2>2 DEF AbortBatch, SharedType, LocalType, history
<1>24. ASSUME NEW o \in Owner, Forget(o) PROVE LocalType' /\ OwnedType'
  BY <1>24, ExitType, NoEntryType DEF Forget, OwnedType
<1>25. ASSUME NEW o \in Owner, Crash(o) PROVE TypeInv'
  <2>1. faults' \in Nat /\ late' \subseteq Entry
    BY <1>21, <1>25 DEF Crash, Fault, SharedType
  <2> QED
    BY <1>24, <1>25, <2>1 DEF Crash, SharedType, history
<1>26. ASSUME NEW o \in Owner, Reopen(o) PROVE TypeInv'
  BY <1>24, <1>26 DEF Reopen, SharedType, bounds, history
<1>27. ASSUME LandLate PROVE TypeInv'
  <2>1. anchor' \in Anchor /\ log' \subseteq Entry /\ late' \subseteq Entry
    BY <1>27 DEF LandLate, Advance, AnchorOf, Anchor, Entry, SharedType
  <2> QED
    BY <1>27, <2>1 DEF LandLate, SharedType, OwnedType, LocalType, owned, outbox,
                       bounds
<1>28. ASSUME Backup PROVE TypeInv'
  BY <1>28 DEF Backup, SharedType, OwnedType, LocalType, owned, outbox, bounds, history
<1>29. ASSUME Rollback PROVE TypeInv'
  BY <1>29 DEF Rollback, Fault, SharedType, OwnedType, LocalType, owned, outbox,
               history
<1>30. ASSUME UNCHANGED vars PROVE TypeInv'
  BY <1>30 DEF vars, SharedType, OwnedType, LocalType, owned, outbox, bounds, history
<1> QED
  BY <1>1, <1>2, <1>3, <1>4, <1>5, <1>6, <1>7, <1>8, <1>9, <1>10, <1>11, <1>12,
     <1>13, <1>14, <1>15, <1>16, <1>17, <1>18, <1>19, <1>20, <1>22, <1>23, <1>25,
     <1>26, <1>27, <1>28, <1>29, <1>30
     DEF Next, Restore, Prepare, Commit, Deliver

\* The journal's variables keep their types, and a stored image never exceeds
\* the byte limit that readHead enforces, whatever is staged on it.
THEOREM TypeCorrect == Spec => []TypeOK
<1>1. Init => TypeInv
  BY InitTypeInv
<1>2. TypeInv /\ [Next]_vars => TypeInv'
  BY TypeStep
<1>3. TypeInv => TypeOK
  BY TypeInvImpliesTypeOK
<1> QED
  BY <1>1, <1>2, <1>3, PTL DEF Spec

-----------------------------------------------------------------------------
(* Membership in Known and Images. *)

LEMMA KnownMembers ==
    /\ log \subseteq Known /\ late \subseteq Known
    /\ \A o \in Owner : prep[o] # NoEntry => prep[o] \in Known
    /\ \A s \in Images : \A r \in DOMAIN s.rows : s.rows[r] \in Known
    /\ store \in Images /\ backups \subseteq Images
    /\ \A o \in Owner : snap[o] \in Images
BY DEF Known, Images

LEMMA KnownBound ==
    ASSUME NEW K, log \subseteq K, late \subseteq K,
           \A o \in Owner : prep[o] # NoEntry => prep[o] \in K,
           \A s \in Images : \A r \in DOMAIN s.rows : s.rows[r] \in K
    PROVE  Known \subseteq K
BY DEF Known

LEMMA KnownTyped ==
    ASSUME TypeInv
    PROVE  Known \subseteq Entry /\ \A s \in Images : IsStore(s)
<1>1. \A s \in Images : IsStore(s)
  BY DEF TypeInv, LocalType, SharedType, Images
<1>2. \A s \in Images : \A r \in DOMAIN s.rows : s.rows[r] \in Entry
  BY <1>1 DEF IsStore
<1> QED
  BY <1>1, <1>2, KnownBound DEF TypeInv, LocalType, SharedType

(* The accepted history only grows, by one entry above the anchor. *)

LEMMA AcceptedBelowAnchor ==
    ASSUME TypeInv, LogInv, NEW a, IsAccepted(a)
    PROVE  a.rev \in Nat /\ a.rev <= anchor.rev
BY DEF TypeInv, SharedType, LogInv, IsAccepted, NoAnchor, AnchorOf, Anchor, Entry

LEMMA AdvanceAccepted ==
    ASSUME TypeInv, LogInv, NEW e \in Entry, e.rev # 0,
           Advance(ParentOf(e), e)
    PROVE  /\ \A n : AcceptedId(n) => AcceptedId(n)'
           /\ \A a : IsAccepted(a) => IsAccepted(a)'
           /\ \A r \in Nat : r <= anchor.rev =>
                 AcceptedUpTo(r)' = AcceptedUpTo(r)
           /\ e.rev = anchor.rev + 1
<1>1. e.rev = anchor.rev + 1 /\ anchor.rev \in Nat
  BY DEF Advance, ParentOf, TypeInv, SharedType, Anchor, Entry
<1>2. log' = log \cup {e}
  BY DEF Advance
<1> QED
  BY <1>1, <1>2 DEF AcceptedId, IsAccepted, AcceptedUpTo

(* Steps that leave the log and the set of entries as they are. *)

SameRows(s, t) == s.rows = t.rows /\ s.revision = t.revision

\* No image has new rows, no entry is new, and the anchor stays.
Quiet ==
    /\ UNCHANGED <<log, anchor, fresh>>
    /\ late' \subseteq Known
    /\ \A o \in Owner : prep'[o] = prep[o] \/ prep'[o] = NoEntry
    /\ \A s \in Images' : \E t \in Images \cup {EmptyStore} : SameRows(s, t)

LEMMA EmptyStoreGood == GoodImage(EmptyStore) /\ DOMAIN EmptyStore.rows = {}
<1>1. EmptyStore.revision = 0 /\ DOMAIN EmptyStore.rows = 1..0
  BY DEF EmptyStore
<1> QED
  BY <1>1 DEF GoodImage

LEMMA QuietStep ==
    ASSUME TypeInv, KnownInv, LogInv, ImageInv, Quiet
    PROVE  KnownInv' /\ LogInv' /\ ImageInv'
<1>1. \A s \in Images' : \A r \in DOMAIN s.rows : s.rows[r] \in Known
  BY KnownMembers, EmptyStoreGood DEF Quiet, SameRows
<1>2. Known' \subseteq Known
  BY <1>1, KnownMembers DEF Quiet, Known
<1>3. \A e : GoodEntry(e) => GoodEntry(e)'
  BY DEF Quiet, GoodEntry, IsAccepted, AcceptedUpTo, AcceptedId
<1>4. KnownInv'
  BY <1>2, <1>3 DEF KnownInv
<1>5. LogInv'
  BY DEF LogInv, Quiet, IsAccepted
<1>6. ASSUME NEW s, NEW t, GoodImage(t), SameRows(s, t) PROVE GoodImage(s)'
  <2>1. ChainValid(s)' <=> ChainValid(t)
    BY <1>6 DEF SameRows, ChainValid
  <2> QED
    BY <1>6, <2>1 DEF GoodImage, SameRows, Quiet
<1>7. ImageInv'
  BY <1>6, EmptyStoreGood DEF ImageInv, Quiet
<1> QED
  BY <1>4, <1>5, <1>7

\* An owner whose variables a step leaves alone.
Untouched(p) ==
    /\ pc'[p] = pc[p] /\ snap'[p] = snap[p] /\ prep'[p] = prep[p]
    /\ head'[p] = head[p] /\ view'[p] = view[p] /\ ledger'[p] = ledger[p]
    /\ pendingBindings'[p] = pendingBindings[p]
    /\ batch'[p] = batch[p] /\ sending'[p] = sending[p]

LEMMA UntouchedOwner ==
    ASSUME NEW p \in Owner, OwnerInv(p), Untouched(p), log' = log
    PROVE  OwnerInv(p)'
BY DEF OwnerInv, Untouched, IsAccepted, AcceptedUpTo, AcceptedId

(* A step that anchors a known entry. *)

LEMMA AdvanceStep ==
    ASSUME TypeInv, KnownInv, LogInv, ImageInv,
           NEW e \in Known, Advance(ParentOf(e), e),
           fresh' = fresh, Known' \subseteq Known, Images' \subseteq Images
    PROVE  KnownInv' /\ LogInv' /\ ImageInv'
<1>1. e \in Entry /\ GoodEntry(e) /\ e.rev # 0
  BY KnownTyped DEF KnownInv, GoodEntry
<1>2. /\ log' = log \cup {e} /\ anchor' = AnchorOf(e) /\ anchor.rev \in Nat
      /\ e.rev = anchor.rev + 1
  BY <1>1, AdvanceAccepted DEF Advance, TypeInv, SharedType, Anchor
<1>3. LogInv'
  <2>1. anchor'.rev = anchor.rev + 1
    BY <1>2 DEF AnchorOf
  <2>2. \A x \in log' : x.rev <= anchor'.rev
    BY <1>2, <2>1, KnownTyped, KnownMembers DEF LogInv, Entry
  <2>3. \A x, y \in log' : x.rev = y.rev => x = y
    BY <1>2, KnownTyped, KnownMembers DEF LogInv, Entry
  <2>4. \A r \in 1..anchor'.rev : \E x \in log' : x.rev = r
    BY <1>2, <2>1 DEF LogInv
  <2>5. IsAccepted(anchor)'
    BY <1>2 DEF IsAccepted
  <2> QED
    BY <2>2, <2>3, <2>4, <2>5 DEF LogInv
<1>4. ASSUME NEW x \in Known, GoodEntry(x) PROVE GoodEntry(x)'
  <2>1. x \in Entry /\ x.rev \in Nat /\ x.rev # 0
    BY <1>4, KnownTyped DEF GoodEntry, Entry
  <2>2. ParentOf(x).rev = x.rev - 1 /\ x.rev - 1 \in Nat
    BY <2>1 DEF ParentOf
  <2>3. x.rev - 1 <= anchor.rev
    BY <1>4, <2>2, AcceptedBelowAnchor DEF GoodEntry
  <2>4. AcceptedUpTo(x.rev - 1)' = AcceptedUpTo(x.rev - 1)
    BY <1>1, <2>2, <2>3, AdvanceAccepted
  <2>5. IsAccepted(ParentOf(x))' /\ \A n : AcceptedId(n) => AcceptedId(n)'
    BY <1>1, <1>4, AdvanceAccepted DEF GoodEntry
  <2> QED
    BY <1>4, <2>4, <2>5 DEF GoodEntry
<1>5. KnownInv'
  BY <1>4 DEF KnownInv
<1>6. \A s : GoodImage(s) => GoodImage(s)'
  BY <1>2 DEF GoodImage
<1>7. ImageInv'
  BY <1>6 DEF ImageInv
<1> QED
  BY <1>3, <1>5, <1>7

LEMMA AdvanceOwner ==
    ASSUME TypeInv, KnownInv, LogInv, NEW e \in Known, Advance(ParentOf(e), e),
           NEW p \in Owner, OwnerInv(p), Untouched(p)
    PROVE  OwnerInv(p)'
<1>1. e \in Entry /\ e.rev # 0
  BY KnownTyped DEF KnownInv, GoodEntry
<1>2. ASSUME pc[p] \in Opened
      PROVE  IsAccepted(head[p])' /\ view'[p] = AcceptedUpTo(head[p].rev)'
  <2>1. IsAccepted(head[p]) /\ head[p].rev \in Nat /\ head[p].rev <= anchor.rev
    BY <1>2, AcceptedBelowAnchor DEF OwnerInv
  <2> QED
    BY <1>1, <1>2, <2>1, AdvanceAccepted DEF OwnerInv, Untouched, IsAccepted, AcceptedUpTo
<1>3. log \subseteq log' /\ \A n : AcceptedId(n) => AcceptedId(n)'
  BY <1>1, AdvanceAccepted DEF Advance
<1> QED
  BY <1>2, <1>3 DEF OwnerInv, Untouched

(* restore() *)

\* A snapshot that the anchor vouches for ends with an accepted entry.
LEMMA CurrentSnapshot ==
    ASSUME TypeInv, KnownInv, LogInv, NEW s \in Images,
           ClassifySnapshot(s, anchor) = "current"
    PROVE  ChainValid(s) /\ (s.revision = 0 \/ s.rows[s.revision] \in log)
<1>1. ChainValid(s) /\ s.revision = anchor.rev /\ LastId(s) = anchor.id
  BY DEF ClassifySnapshot, classifyDocumentJournalRecovery
<1>2. CASE s.revision # 0
  <2>1. s.revision \in DOMAIN s.rows /\ s.rows[s.revision].id = anchor.id
    BY <1>1, <1>2 DEF ChainValid, LastId
  <2>2. PICK e \in log : AnchorOf(e) = anchor
    BY <1>1, <1>2 DEF LogInv, IsAccepted, NoAnchor
  <2>3. e.id = anchor.id
    BY <2>2 DEF AnchorOf
  <2> QED
    BY <1>1, <2>1, <2>2, <2>3, KnownMembers DEF KnownInv
<1> QED
  BY <1>1, <1>2

\* What restore() hands out from such a snapshot is the accepted history up to
\* its revision, although a checkpoint has replaced the rows before it.
LEMMA RestoredView ==
    ASSUME TypeInv, KnownInv, LogInv, NEW s \in Images, GoodImage(s), ChainValid(s),
           s.revision = 0 \/ s.rows[s.revision] \in log
    PROVE  /\ UNION {s.rows[r].ops : r \in DOMAIN s.rows} = AcceptedUpTo(s.revision)
           /\ IsAccepted([rev |-> s.revision, id |-> LastId(s)])
           /\ \A b \in RestoredLedger(s.rows) : AcceptedId(b.tok)
<1>1. s.revision \in Nat
  BY KnownTyped DEF IsStore
<1>2. \A r \in DOMAIN s.rows :
         s.rows[r] \in log /\ s.rows[r].rev = r /\ r \in 1..s.revision
  BY <1>1 DEF GoodImage
<1>3. \A e \in log : /\ e \in Entry /\ GoodEntry(e) /\ e.rev \in Nat /\ e.rev # 0
                     /\ e.rev - 1 \in Nat
  <2>1. \A e \in log : e \in Entry /\ GoodEntry(e)
    BY KnownMembers, KnownTyped DEF KnownInv
  <2> QED
    BY <2>1 DEF GoodEntry, Entry
<1>4. ASSUME NEW r \in DOMAIN s.rows, NEW n \in s.rows[r].ops
      PROVE  n \in AcceptedUpTo(s.revision)
  <2> DEFINE e == s.rows[r]
  <2>1. e \in log /\ e.rev = r /\ r <= s.revision /\ r \in Nat
    BY <1>1, <1>2
  <2>2. n = e.id \/ n \in AcceptedUpTo(e.rev - 1)
    BY <1>3, <2>1 DEF GoodEntry
  <2>3. CASE n = e.id
    BY <2>1, <2>3 DEF AcceptedUpTo
  <2>4. CASE n \in AcceptedUpTo(e.rev - 1)
    <3>1. PICK x \in log : x.rev <= e.rev - 1 /\ n = x.id
      BY <2>4 DEF AcceptedUpTo
    <3>2. x.rev <= s.revision
      BY <1>1, <1>3, <2>1, <3>1
    <3> QED
      BY <3>1, <3>2 DEF AcceptedUpTo
  <2> QED
    BY <2>2, <2>3, <2>4
<1>5. ASSUME NEW x \in log, x.rev <= s.revision
      PROVE  \E r \in DOMAIN s.rows : x.id \in s.rows[r].ops
  <2>1. PICK lo \in 1..(s.revision + 1) : DOMAIN s.rows = lo..s.revision
    BY DEF GoodImage
  <2>2. x.rev \in Nat /\ x.rev # 0
    BY <1>3
  <2>3. CASE x.rev >= lo
    <3>1. x.rev \in DOMAIN s.rows
      BY <1>1, <1>5, <2>1, <2>2, <2>3
    <3>2. s.rows[x.rev] = x
      BY <1>2, <3>1 DEF LogInv
    <3> QED
      BY <1>3, <3>1, <3>2 DEF GoodEntry
  <2>4. CASE x.rev < lo
    <3>1. s.revision # 0 /\ s.revision \in DOMAIN s.rows
      BY <1>1, <1>5, <2>2 DEF ChainValid
    <3>2. lo \in DOMAIN s.rows /\ (lo - 1) \notin DOMAIN s.rows /\ lo # 1
      BY <1>1, <2>1, <2>2, <2>4, <3>1
    <3>3. s.rows[lo].ckpt /\ s.rows[lo] \in log /\ s.rows[lo].rev = lo
      BY <1>2, <3>2 DEF ChainValid
    <3>4. x.id \in AcceptedUpTo(lo - 1)
      BY <1>1, <2>1, <2>2, <2>4 DEF AcceptedUpTo
    <3> QED
      BY <1>3, <3>2, <3>3, <3>4 DEF GoodEntry
  <2> QED
    BY <1>1, <2>1, <2>2, <2>3, <2>4
<1>6. UNION {s.rows[r].ops : r \in DOMAIN s.rows} = AcceptedUpTo(s.revision)
  BY <1>4, <1>5 DEF AcceptedUpTo
<1>7. IsAccepted([rev |-> s.revision, id |-> LastId(s)])
  <2>1. CASE s.revision = 0
    BY <2>1 DEF IsAccepted, LastId, NoAnchor
  <2>2. CASE s.revision # 0
    <3>1. s.revision \in DOMAIN s.rows
      BY <2>2 DEF ChainValid
    <3> QED
      BY <1>2, <2>2, <3>1 DEF IsAccepted, LastId, AnchorOf
  <2> QED
    BY <2>1, <2>2
<1>8. ASSUME NEW b \in RestoredLedger(s.rows) PROVE AcceptedId(b.tok)
  <2>1. PICK r \in DOMAIN s.rows : b \in s.rows[r].binds
    BY <1>8 DEF RestoredLedger
  <2> QED
    BY <1>2, <1>3, <2>1 DEF GoodEntry, AcceptedId
<1> QED
  BY <1>6, <1>7, <1>8

(* prepare() and commit() *)

\* The row that commit() adds keeps an image good.
LEMMA CommittedImage ==
    ASSUME TypeInv, KnownInv, LogInv, NEW s \in Images, GoodImage(s),
           NEW e \in Known, s.revision = e.rev - 1
    PROVE  GoodImage(Committed(s, e))
<1> DEFINE D == (IF e.ckpt THEN {} ELSE DOMAIN s.rows) \cup {e.rev}
           R == [r \in D |-> IF r = e.rev THEN e ELSE s.rows[r]]
           c == Committed(s, e)
<1>1. c.revision = e.rev /\ c.rows = R /\ DOMAIN c.rows = D
  BY DEF Committed
<1>2. /\ e \in Entry /\ GoodEntry(e) /\ e.rev \in Nat /\ e.rev # 0
      /\ s.revision \in Nat /\ s.revision + 1 = e.rev
  <2>1. e \in Entry /\ GoodEntry(e) /\ IsStore(s)
    BY KnownTyped DEF KnownInv
  <2> QED
    BY <2>1 DEF GoodEntry, Entry, IsStore
<1>3. PICK lo \in 1..(s.revision + 1) : DOMAIN s.rows = lo..s.revision
  BY DEF GoodImage
<1>4. /\ e.rev \notin DOMAIN s.rows
      /\ \E l \in 1..(e.rev + 1) : D = l..e.rev
  <2>1. CASE e.ckpt
    <3>1. D = (e.rev)..(e.rev)
      BY <1>2, <2>1
    <3> QED
      BY <1>2, <1>3, <3>1
  <2>2. CASE ~e.ckpt
    <3>1. D = lo..e.rev
      BY <1>2, <1>3, <2>2
    <3>2. lo \in 1..(e.rev + 1) /\ e.rev \notin lo..s.revision
      BY <1>2, <1>3
    <3> HIDE DEF D
    <3> QED
      BY <1>3, <3>1, <3>2
  <2> QED
    BY <2>1, <2>2
<1>5. \A r \in D : R[r].rev = r
  BY DEF GoodImage
<1>6. ASSUME ChainValid(c), NEW r \in D, r # e.rev PROVE R[r] \in log
  <2>1. ~e.ckpt /\ r \in DOMAIN s.rows /\ R[r] = s.rows[r]
    BY <1>6
  <2>2. s.revision # 0 /\ s.revision \in DOMAIN s.rows
    BY <1>2, <1>3, <2>1
  <2>3. s.rows[s.revision] \in log
    <3>1. /\ R[s.revision] = s.rows[s.revision] /\ R[e.rev] = e
          /\ e.rev - 1 = s.revision /\ s.revision \in D /\ e.rev \in D
      <4>1. D = DOMAIN s.rows \cup {e.rev}
        BY <2>1
      <4>2. e.rev - 1 = s.revision /\ s.revision # e.rev
        BY <1>2
      <4> QED
        BY <2>2, <4>1, <4>2
    <3>2. e.parent = s.rows[s.revision].id
      <4> HIDE DEF D, R, c
      <4>1. c.rows[e.rev].parent = c.rows[s.revision].id
        BY <1>1, <1>6, <3>1 DEF ChainValid
      <4> QED
        BY <1>1, <3>1, <4>1
    <3>3. PICK p \in log : AnchorOf(p) = ParentOf(e)
      BY <1>2, <2>2 DEF GoodEntry, IsAccepted, NoAnchor, ParentOf
    <3>4. p.id = s.rows[s.revision].id
      BY <3>2, <3>3 DEF AnchorOf, ParentOf
    <3> QED
      BY <2>2, <3>3, <3>4, KnownMembers DEF KnownInv
  <2>4. ChainValid(s)
    <3>1. ASSUME NEW q \in DOMAIN s.rows
          PROVE  /\ q \in D /\ R[q] = s.rows[q]
                 /\ (q - 1) \in DOMAIN s.rows <=> (q - 1) \in D
                 /\ (q - 1) \in DOMAIN s.rows => R[q - 1] = s.rows[q - 1]
      <4>1. D = DOMAIN s.rows \cup {e.rev}
        BY <2>1
      <4>2. q \in Nat /\ q <= s.revision /\ q - 1 # e.rev /\ q # e.rev
        BY <1>2, <1>3
      <4> QED
        BY <4>1, <4>2
    <3> HIDE DEF D, R
    <3> QED
      BY <1>1, <1>6, <2>2, <3>1 DEF ChainValid
  <2> QED
    BY <2>1, <2>3, <2>4 DEF GoodImage
<1> HIDE DEF D, R, c
<1> QED
  BY <1>1, <1>4, <1>5, <1>6 DEF GoodImage, c

(* What the two ways a call's local variables change mean for the invariant. *)

LEMMA StepQuiet ==
    ASSUME TypeInv, NEW o \in Owner, NEW l, Step(o, l),
           UNCHANGED <<log, anchor, fresh, late, backups>>, SameRows(store', store)
    PROVE  Quiet
<1>1. late' \subseteq Known
  BY KnownMembers
<1>2. \A s \in Images' : \E t \in Images \cup {EmptyStore} : SameRows(s, t)
  BY DEF Step, Images, SameRows
<1> QED
  BY <1>1, <1>2 DEF Quiet, Step

LEMMA ExitQuiet ==
    ASSUME TypeInv, NEW o \in Owner, NEW l, Exit(o, l),
           UNCHANGED <<log, anchor, fresh, backups>>, late' \subseteq Known,
           SameRows(store', store)
    PROVE  Quiet
<1>1. \A p \in Owner : /\ snap'[p] = snap[p] \/ snap'[p] = EmptyStore
                       /\ prep'[p] = prep[p] \/ prep'[p] = NoEntry
  BY DEF Exit, TypeInv, LocalType
<1>2. \A s \in Images' : \E t \in Images \cup {EmptyStore} : SameRows(s, t)
  BY <1>1 DEF Images, SameRows
<1> QED
  BY <1>1, <1>2 DEF Quiet

LEMMA OthersUntouched ==
    ASSUME TypeInv, NEW o \in Owner, NEW l, Step(o, l) \/ Exit(o, l),
           UNCHANGED <<owned, outbox>>, NEW p \in Owner, p # o
    PROVE  Untouched(p)
BY DEF TypeInv, LocalType, Step, Exit, Goto, owned, outbox, Untouched

\* Outside the labels that OwnerInv speaks of, only the bindings matter.
LEMMA LeftOwner ==
    ASSUME TypeInv, NEW o \in Owner, OwnerInv(o), NEW l \in {"off", "failed"},
           Exit(o, l), log' = log, UNCHANGED <<owned, outbox>>
    PROVE  OwnerInv(o)'
<1>1. pc'[o] = l
  BY DEF Exit, Goto, TypeInv, LocalType
<1> QED
  BY <1>1 DEF OwnerInv, Opened, Preparing, owned, outbox, AcceptedId

LEMMA FailedCall ==
    ASSUME TypeInv, KnownInv, LogInv, ImageInv, \A p \in Owner : OwnerInv(p),
           NEW o \in Owner, Exit(o, "failed"),
           UNCHANGED <<log, anchor, fresh, backups, owned, outbox>>,
           late' \subseteq Known, SameRows(store', store)
    PROVE  KnownInv' /\ LogInv' /\ ImageInv' /\ \A p \in Owner : OwnerInv(p)'
<1>1. KnownInv' /\ LogInv' /\ ImageInv'
  BY ExitQuiet, QuietStep
<1>2. \A p \in Owner : p # o => OwnerInv(p)'
  BY OthersUntouched, UntouchedOwner
<1>3. OwnerInv(o)'
  BY LeftOwner
<1> QED
  BY <1>1, <1>2, <1>3

\* An owner that stays open and goes on, or comes back to idle.
LEMMA OpenOwner ==
    ASSUME TypeInv, NEW o \in Owner, OwnerInv(o), pc[o] \in Opened, log' = log,
           UNCHANGED <<owned, outbox>>,
           \/ Exit(o, "idle")
           \/ pc[o] \in Preparing /\ \E l \in Preparing : Step(o, l)
    PROVE  OwnerInv(o)'
<1>1. CASE Exit(o, "idle")
  <2>1. pc'[o] = "idle"
    BY <1>1 DEF Exit, Goto, TypeInv, LocalType
  <2> QED
    BY <2>1 DEF OwnerInv, Opened, Preparing, owned, outbox, AcceptedId, AcceptedUpTo,
                IsAccepted
<1>2. CASE pc[o] \in Preparing /\ \E l \in Preparing : Step(o, l)
  <2>1. pc'[o] \in Preparing /\ prep'[o] = prep[o]
    BY <1>2 DEF Step, Goto, TypeInv, LocalType
  <2> QED
    BY <1>2, <2>1 DEF OwnerInv, Opened, Preparing, owned, outbox, AcceptedId,
                      AcceptedUpTo, IsAccepted
<1> QED
  BY <1>1, <1>2
(* The inductive step. *)

SafetyInv ==
    /\ TypeInv /\ KnownInv /\ LogInv /\ ImageInv /\ HistoryInv
    /\ \A p \in Owner : OwnerInv(p)

Goal == KnownInv /\ LogInv /\ ImageInv /\ \A p \in Owner : OwnerInv(p)

LEMMA RestoreStep ==
    ASSUME SafetyInv, NEW o \in Owner, Restore(o) PROVE Goal'
<1> USE DEF SafetyInv, Goal
<1>0. SameRows(store, store) /\ late \subseteq Known /\ snap[o] \in Images
  BY KnownMembers DEF SameRows
<1>1. CASE LoadSnapshot(o)
  <2>1. \A p \in Owner : p # o => Untouched(p)
    BY <1>1 DEF LoadSnapshot, Untouched, Goto, owned, outbox, TypeInv, LocalType
  <2>2. pc'[o] = "anchoring"
    BY <1>1 DEF LoadSnapshot, Goto, TypeInv, LocalType
  <2>3. \A p \in Owner : snap'[p] = snap[p] \/ snap'[p] = store
    BY <1>1 DEF LoadSnapshot, TypeInv, LocalType
  <2>4. Quiet
    BY <1>0, <1>1, <2>3 DEF LoadSnapshot, Quiet, Images, SameRows, bounds, history
  <2>5. OwnerInv(o)'
    BY <1>1, <2>2 DEF LoadSnapshot, OwnerInv, Opened, Preparing, owned, outbox,
                      history, AcceptedId
  <2> QED
    BY <1>1, <2>1, <2>4, <2>5, QuietStep, UntouchedOwner DEF LoadSnapshot, history
<1>2. CASE LoadAnchor(o)
  <2>1. ASSUME NEW l \in {"finishing", "discarding", "reading"}, Step(o, l),
               ChainValid(snap[o]),
               IF l = "finishing" THEN snap[o].revision # 0
               ELSE snap[o].revision = 0 \/ snap[o].rows[snap[o].revision] \in log
        PROVE  Goal'
    <3>1. pc'[o] = l /\ snap'[o] = snap[o]
      BY <2>1 DEF Step, Goto, TypeInv, LocalType
    <3>2. OwnerInv(o)'
      BY <1>2, <2>1, <3>1 DEF LoadAnchor, OwnerInv, Opened, Preparing, owned, outbox,
                              history, AcceptedId
    <3> QED
      BY <1>0, <1>2, <2>1, <3>2, StepQuiet, QuietStep, OthersUntouched, UntouchedOwner
         DEF LoadAnchor, bounds, history
  <2>2. CASE /\ ClassifySnapshot(snap[o], anchor) = "current"
             /\ Step(o, AfterAnchor(snap[o]))
    BY <1>0, <2>1, <2>2, CurrentSnapshot DEF AfterAnchor
  <2>3. CASE /\ ClassifySnapshot(snap[o], anchor) = "finish-anchor"
             /\ Step(o, "finishing")
    <3>1. ChainValid(snap[o]) /\ snap[o].revision # 0
      BY <2>3 DEF ClassifySnapshot, classifyDocumentJournalRecovery, TypeInv,
                  SharedType, Anchor
    <3> QED
      BY <2>1, <2>3, <3>1
  <2>4. CASE Exit(o, "failed")
    BY <1>0, <1>2, <2>4, FailedCall DEF LoadAnchor, bounds, history
  <2> QED
    BY <1>2, <2>2, <2>3, <2>4 DEF LoadAnchor
<1>3. CASE FinishAnchor(o)
  <2>1. CASE Advance(ParentOf(Candidate(o)), Candidate(o)) /\ Step(o, "rechecking")
    <3> DEFINE e == Candidate(o)
    <3>1. /\ e = snap[o].rows[snap[o].revision] /\ ChainValid(snap[o])
          /\ snap[o].revision \in DOMAIN snap[o].rows
      BY <1>3 DEF FinishAnchor, Candidate, OwnerInv, ChainValid
    <3>2. e \in Known
      BY <1>0, <3>1, KnownMembers
    <3>3. Images' = Images /\ Known' \subseteq Known /\ fresh' = fresh
      BY <1>3, <2>1, <3>2, KnownMembers DEF FinishAnchor, Step, Images, Known, Advance,
                                            bounds
    <3> HIDE DEF e
    <3>4. KnownInv' /\ LogInv' /\ ImageInv'
      BY <2>1, <3>2, <3>3, AdvanceStep DEF e
    <3>5. \A p \in Owner : p # o => OwnerInv(p)'
      BY <1>3, <2>1, <3>2, OthersUntouched, AdvanceOwner DEF FinishAnchor, e
    <3>6. pc'[o] = "rechecking" /\ snap'[o] = snap[o] /\ e \in log' /\ log \subseteq log'
      BY <2>1 DEF Step, Goto, TypeInv, LocalType, Advance, e
    <3>7. OwnerInv(o)'
      BY <1>3, <3>1, <3>6 DEF FinishAnchor, OwnerInv, Opened, Preparing, owned, outbox,
                              AcceptedId
    <3> QED
      BY <3>4, <3>5, <3>7
  <2>2. CASE Exit(o, "failed") /\ UNCHANGED <<anchor, log>>
    BY <1>0, <1>3, <2>2, FailedCall DEF FinishAnchor, bounds
  <2> QED
    BY <1>3, <2>1, <2>2 DEF FinishAnchor
<1>4. CASE RecheckAnchor(o)
  <2>1. ASSUME NEW l \in {"discarding", "reading"}, Step(o, l) PROVE Goal'
    <3>1. pc'[o] = l /\ snap'[o] = snap[o]
      BY <2>1 DEF Step, Goto, TypeInv, LocalType
    <3>2. OwnerInv(o)'
      BY <1>4, <2>1, <3>1 DEF RecheckAnchor, OwnerInv, Opened, Preparing, owned, outbox,
                              history, AcceptedId
    <3> QED
      BY <1>0, <1>4, <2>1, <3>2, StepQuiet, QuietStep, OthersUntouched, UntouchedOwner
         DEF RecheckAnchor, bounds, history
  <2>2. CASE Step(o, AfterAnchor(snap[o]))
    BY <2>1, <2>2 DEF AfterAnchor
  <2>3. CASE Exit(o, "failed")
    BY <1>0, <1>4, <2>3, FailedCall DEF RecheckAnchor, bounds, history
  <2> QED
    BY <1>4, <2>2, <2>3 DEF RecheckAnchor
<1>5. CASE DiscardStaged(o)
  <2>1. SameRows(store', store)
    BY <1>5 DEF DiscardStaged, Discarded, SameRows, TypeInv, SharedType, IsStore
  <2>2. pc'[o] = "reading" /\ snap'[o] = snap[o] /\ Step(o, "reading")
    BY <1>5 DEF DiscardStaged, Step, Goto, TypeInv, LocalType
  <2>3. OwnerInv(o)'
    BY <1>5, <2>2 DEF DiscardStaged, OwnerInv, Opened, Preparing, owned, outbox,
                      history, AcceptedId
  <2> QED
    BY <1>5, <2>1, <2>2, <2>3, StepQuiet, QuietStep, OthersUntouched, UntouchedOwner
       DEF DiscardStaged, bounds, history
<1>6. CASE FinishRestore(o)
  <2> DEFINE s == snap[o]
  <2>1. GoodImage(s) /\ ChainValid(s) /\ (s.revision = 0 \/ s.rows[s.revision] \in log)
    BY <1>0, <1>6 DEF FinishRestore, ImageInv, OwnerInv
  <2>2. /\ UNION {s.rows[r].ops : r \in DOMAIN s.rows} = AcceptedUpTo(s.revision)
        /\ IsAccepted([rev |-> s.revision, id |-> LastId(s)])
        /\ \A b \in RestoredLedger(s.rows) : AcceptedId(b.tok)
    BY <1>0, <2>1, RestoredView
  <2>3. store.pubs \subseteq RestoredLedger(s.rows)
    BY <1>6 DEF FinishRestore, OutboxReadable, PublicationsBound
  <2> HIDE DEF s
  <2>4. /\ pc'[o] = "idle" /\ ledger'[o] = RestoredLedger(s.rows)
        /\ pendingBindings'[o] = store.pubs
        /\ head'[o] = [rev |-> s.revision, id |-> LastId(s)]
        /\ view'[o] = UNION {s.rows[r].ops : r \in DOMAIN s.rows}
        /\ UNCHANGED <<batch, sending>>
    BY <1>6 DEF FinishRestore, Exit, Goto, TypeInv, LocalType, OwnedType, outbox, s
  <2>5. OwnerInv(o)'
    <3>1. log' = log
      BY <1>6 DEF FinishRestore, history
    <3>2. IsAccepted(head[o])' /\ view'[o] = AcceptedUpTo(head[o].rev)'
      BY <2>2, <2>4, <3>1 DEF IsAccepted, AcceptedUpTo
    <3>3. \A b \in ledger'[o] \cup pendingBindings'[o] \cup batch'[o] \cup sending'[o] :
             AcceptedId(b.tok)
      BY <2>2, <2>3, <2>4 DEF OwnerInv
    <3>4. \A n : AcceptedId(n)' <=> AcceptedId(n)
      BY <3>1 DEF AcceptedId
    <3> QED
      BY <2>4, <3>2, <3>3, <3>4 DEF OwnerInv, Opened, Preparing
  <2>6. \A p \in Owner : p # o => Untouched(p)
    BY <1>6 DEF FinishRestore, Exit, Goto, TypeInv, LocalType, OwnedType, outbox,
                Untouched
  <2>7. Exit(o, "idle") /\ UNCHANGED <<log, anchor, fresh, backups, late, store>>
    BY <1>6 DEF FinishRestore, bounds, history
  <2> QED
    BY <1>0, <2>5, <2>6, <2>7, ExitQuiet, QuietStep, UntouchedOwner
<1>7. CASE RejectOutbox(o)
  BY <1>0, <1>7, FailedCall DEF RejectOutbox, bounds, history
<1> QED
  BY <1>1, <1>2, <1>3, <1>4, <1>5, <1>6, <1>7 DEF Restore

\* The entry that a preparation builds.
LEMMA NewEntryGood ==
    ASSUME SafetyInv, NEW o \in Owner, pc[o] = "idle", NEW ckpt \in BOOLEAN,
           NEW frame \in BOOLEAN, NEW size \in (IF ckpt THEN SnapSize ELSE DeltaSize),
           NEW e, e = NewEntry(o, ckpt, frame, size),
           log' = log, fresh' = fresh + 1
    PROVE  /\ e.id = fresh + 1 /\ e # NoEntry /\ ParentOf(e) = head[o]
           /\ GoodEntry(e)'
<1> USE DEF SafetyInv
<1>1. /\ fresh \in Nat /\ head[o] \in Anchor
      /\ IsAccepted(head[o]) /\ view[o] = AcceptedUpTo(head[o].rev)
    BY DEF TypeInv, SharedType, OwnedType, OwnerInv, Opened
<1>2. /\ e.id = fresh + 1 /\ e.rev = head[o].rev + 1 /\ e.parent = head[o].id
      /\ e.ckpt = ckpt /\ head[o].rev \in Nat
      /\ e.ops = (IF ckpt THEN view[o] ELSE {}) \cup {e.id}
      /\ \A b \in e.binds : b.tok = e.id \/ b \in pendingBindings[o]
  BY <1>1 DEF NewEntry, Anchor
<1>3. e # NoEntry
  BY <1>1, <1>2 DEF NoEntry
<1>4. ParentOf(e) = head[o] /\ e.rev - 1 = head[o].rev /\ e.rev # 0
  BY <1>1, <1>2 DEF ParentOf, Anchor
<1>5. \A b \in e.binds : b.tok = e.id \/ AcceptedId(b.tok)
  BY <1>2 DEF OwnerInv
<1>6. GoodEntry(e)'
  BY <1>1, <1>2, <1>4, <1>5 DEF GoodEntry, IsAccepted, AcceptedUpTo, AcceptedId
<1> QED
  BY <1>2, <1>3, <1>4, <1>6

LEMMA BeginStep ==
    ASSUME SafetyInv, NEW o \in Owner, NEW ckpt \in BOOLEAN, NEW frame \in BOOLEAN,
           NEW size \in (IF ckpt THEN SnapSize ELSE DeltaSize),
           BeginPrepare(o, ckpt, frame, size)
    PROVE  Goal'
<1> USE DEF SafetyInv, Goal
<1>1. PICK e : e = NewEntry(o, ckpt, frame, size)
  OBVIOUS
<1>2. /\ log' = log /\ anchor' = anchor /\ fresh' = fresh + 1 /\ fresh \in Nat
      /\ UNCHANGED <<store, late, backups, owned, outbox>>
  BY DEF BeginPrepare, history, TypeInv, SharedType
<1>3. /\ e.id = fresh + 1 /\ e # NoEntry /\ ParentOf(e) = head[o]
      /\ GoodEntry(e)'
  BY <1>1, <1>2, NewEntryGood DEF BeginPrepare
<1>4. \A x : GoodEntry(x) => GoodEntry(x)'
  BY <1>2 DEF GoodEntry, IsAccepted, AcceptedUpTo, AcceptedId
<1>5. \A x \in Known : GoodEntry(x)' /\ x.id # e.id
  BY <1>2, <1>3, <1>4 DEF KnownInv, GoodEntry
<1>6. CASE prep' = [prep EXCEPT ![o] = e] /\ Goto(o, "checking") /\ UNCHANGED snap
  <2>1. Images' = Images
    BY <1>2, <1>6 DEF Images
  <2>2. Known' \subseteq Known \cup {e}
    <3>1. \A p \in Owner : prep'[p] = prep[p] \/ prep'[p] = e
      BY <1>6 DEF TypeInv, LocalType
    <3> QED
      BY <1>2, <2>1, <3>1 DEF Known
  <2>3. KnownInv'
    BY <1>3, <1>5, <2>2 DEF KnownInv
  <2>4. LogInv'
    BY <1>2 DEF LogInv, IsAccepted
  <2>5. ImageInv'
    BY <1>2, <2>1 DEF ImageInv, GoodImage
  <2>6. \A p \in Owner : p # o => Untouched(p)
    BY <1>2, <1>6 DEF Untouched, Goto, owned, outbox, TypeInv, LocalType
  <2>7. pc[o] = "idle" /\ pc'[o] = "checking" /\ prep'[o] = e
    BY <1>6 DEF BeginPrepare, Goto, TypeInv, LocalType
  <2>8. OwnerInv(o)'
    BY <1>2, <1>3, <2>7 DEF OwnerInv, Opened, Preparing, owned, outbox, AcceptedId,
                            AcceptedUpTo, IsAccepted
  <2> QED
    BY <1>2, <2>3, <2>4, <2>5, <2>6, <2>8, UntouchedOwner
<1>7. CASE Exit(o, "failed")
  <2>1. \A p \in Owner : /\ snap'[p] = snap[p] \/ snap'[p] = EmptyStore
                         /\ prep'[p] = prep[p] \/ prep'[p] = NoEntry
    BY <1>7 DEF Exit, TypeInv, LocalType
  <2>2. Images' \subseteq Images \cup {EmptyStore}
    BY <1>2, <2>1 DEF Images
  <2>3. Known' \subseteq Known
    BY <1>2, <2>1, <2>2, EmptyStoreGood DEF Known
  <2>4. KnownInv' /\ LogInv'
    BY <1>2, <1>4, <2>3 DEF KnownInv, LogInv, IsAccepted
  <2>5. ImageInv'
    BY <1>2, <2>2, EmptyStoreGood DEF ImageInv, GoodImage
  <2> QED
    BY <1>2, <1>7, <2>4, <2>5, OthersUntouched, UntouchedOwner, LeftOwner
<1> QED
  BY <1>1, <1>6, <1>7 DEF BeginPrepare

\* An owner that stays open while the rows stay as they are.
LEMMA OpenCall ==
    ASSUME SafetyInv, NEW o \in Owner, pc[o] \in Opened,
           UNCHANGED <<log, anchor, fresh, late, backups, owned, outbox>>,
           SameRows(store', store),
           \/ Exit(o, "idle")
           \/ pc[o] \in Preparing /\ \E l \in Preparing : Step(o, l)
    PROVE  Goal'
<1> USE DEF SafetyInv, Goal
<1>1. late' \subseteq Known
  BY KnownMembers
<1>2. Quiet
  BY <1>1, StepQuiet, ExitQuiet
<1>3. \A p \in Owner : p # o => OwnerInv(p)'
  BY OthersUntouched, UntouchedOwner
<1>4. OwnerInv(o)'
  BY OpenOwner
<1> QED
  BY <1>2, <1>3, <1>4, QuietStep

LEMMA FailedStep ==
    ASSUME SafetyInv, NEW o \in Owner, Exit(o, "failed"),
           UNCHANGED <<log, anchor, fresh, late, backups, owned, outbox>>,
           SameRows(store', store)
    PROVE  Goal'
<1>1. late' \subseteq Known
  BY KnownMembers
<1> QED
  BY <1>1, FailedCall DEF SafetyInv, Goal

LEMMA PrepareStep ==
    ASSUME SafetyInv, NEW o \in Owner, Prepare(o) PROVE Goal'
<1>0. SameRows(store, store) /\ TypeInv
  BY DEF SameRows, SafetyInv
<1>1. ASSUME NEW ckpt \in BOOLEAN, NEW frame \in BOOLEAN,
             NEW size \in IF ckpt THEN SnapSize ELSE DeltaSize,
             BeginPrepare(o, ckpt, frame, size)
      PROVE  Goal'
  BY <1>1, BeginStep
<1>2. CASE CheckAnchor(o)
  <2>1. CASE Step(o, "staging")
    BY <1>0, <1>2, <2>1, OpenCall DEF CheckAnchor, Opened, Preparing, bounds, history
  <2>2. CASE Exit(o, "failed")
    BY <1>0, <1>2, <2>2, FailedStep DEF CheckAnchor, bounds, history
  <2> QED
    BY <1>2, <2>1, <2>2 DEF CheckAnchor
<1>3. CASE Stage(o)
  <2>1. CASE store' = Staged(store, prep[o]) /\ Step(o, "prepared")
    <3>1. SameRows(store', store)
      BY <1>0, <2>1 DEF SameRows, Staged, TypeInv, SharedType, IsStore
    <3> QED
      BY <1>3, <2>1, <3>1, OpenCall DEF Stage, Opened, Preparing, bounds, history
  <2>2. CASE Exit(o, "idle") /\ UNCHANGED store
    BY <1>0, <1>3, <2>2, OpenCall DEF Stage, Opened, Preparing, bounds, history
  <2>3. CASE Exit(o, "failed") /\ UNCHANGED store
    BY <1>0, <1>3, <2>3, FailedStep DEF Stage, bounds, history
  <2> QED
    BY <1>3, <2>1, <2>2, <2>3 DEF Stage
<1>4. CASE Discard(o)
  <2>1. SameRows(store', store)
    BY <1>0, <1>4 DEF Discard, Discarded, SameRows, TypeInv, SharedType, IsStore
  <2> QED
    BY <1>4, <2>1, OpenCall DEF Discard, Opened, Preparing, bounds, history
<1> QED
  BY <1>1, <1>2, <1>3, <1>4 DEF Prepare

LEMMA CommitStoreStep ==
    ASSUME SafetyInv, NEW o \in Owner, CommitStore(o) PROVE Goal'
<1> USE DEF SafetyInv, Goal
<1>0. /\ prep[o] \in Known /\ ParentOf(prep[o]) = head[o] /\ pc[o] \in Preparing
      /\ store \in Images /\ SameRows(store, store)
  BY KnownMembers DEF CommitStore, OwnerInv, Preparing, SameRows
<1>1. CASE /\ isJournalCommitCurrent(store, head[o].rev, prep[o])
           /\ store' = Committed(store, prep[o])
           /\ Step(o, "verifying")
  <2>1. store.revision = prep[o].rev - 1
    BY <1>0, <1>1 DEF isJournalCommitCurrent, ParentOf
  <2>2. GoodImage(store')
    BY <1>0, <1>1, <2>1, CommittedImage DEF ImageInv
  <2>3. \A r \in DOMAIN store'.rows : store'.rows[r] \in Known
    BY <1>0, <1>1, KnownMembers DEF Committed
  <2>4. Images' \subseteq Images \cup {store'} /\ UNCHANGED <<log, late, prep, fresh, anchor>>
    BY <1>1 DEF CommitStore, Step, Images, bounds, history
  <2>5. Known' \subseteq Known
    BY <2>3, <2>4, KnownMembers DEF Known
  <2>6. KnownInv' /\ LogInv'
    BY <2>4, <2>5 DEF KnownInv, LogInv, GoodEntry, IsAccepted, AcceptedUpTo, AcceptedId
  <2>7. ImageInv'
    <3>1. \A s : GoodImage(s) => GoodImage(s)'
      BY <2>4 DEF GoodImage
    <3>2. \A s \in Images' : GoodImage(s)
      BY <2>2, <2>4 DEF ImageInv
    <3> QED
      BY <3>1, <3>2 DEF ImageInv
  <2>8. \A p \in Owner : p # o => OwnerInv(p)'
    BY <1>1, <2>4, OthersUntouched, UntouchedOwner DEF CommitStore
  <2>9. OwnerInv(o)'
    BY <1>0, <1>1, <2>4, OpenOwner DEF CommitStore, Opened, Preparing
  <2> QED
    BY <2>6, <2>7, <2>8, <2>9
<1>2. CASE Exit(o, "failed") /\ UNCHANGED store
  BY <1>0, <1>2, FailedStep DEF CommitStore, bounds, history
<1> QED
  BY <1>1, <1>2 DEF CommitStore

LEMMA SwapStep ==
    ASSUME SafetyInv, NEW o \in Owner, SwapAnchor(o) PROVE Goal'
<1> USE DEF SafetyInv, Goal
<1>0. /\ prep[o] \in Known /\ ParentOf(prep[o]) = head[o] /\ pc[o] \in Preparing
      /\ pc[o] \in Opened /\ prep[o] # NoEntry /\ SameRows(store, store)
  BY KnownMembers DEF SwapAnchor, OwnerInv, Preparing, Opened, SameRows
<1>1. CASE Advance(head[o], prep[o]) /\ Step(o, "confirming")
  <2>1. Advance(ParentOf(prep[o]), prep[o])
    BY <1>0, <1>1
  <2>2. Images' = Images /\ Known' \subseteq Known /\ fresh' = fresh
    BY <1>0, <1>1, KnownMembers DEF SwapAnchor, Step, Images, Known, Advance, bounds
  <2>3. KnownInv' /\ LogInv' /\ ImageInv'
    BY <1>0, <2>1, <2>2, AdvanceStep
  <2>4. \A p \in Owner : p # o => OwnerInv(p)'
    BY <1>0, <1>1, <2>1, OthersUntouched, AdvanceOwner DEF SwapAnchor
  <2>5. OwnerInv(o)'
    <3>1. prep[o] \in Entry /\ prep[o].rev # 0
      BY <1>0, KnownTyped DEF KnownInv, GoodEntry
    <3>2. IsAccepted(head[o]) /\ head[o].rev \in Nat /\ head[o].rev <= anchor.rev
      BY <1>0, AcceptedBelowAnchor DEF OwnerInv
    <3>3. /\ IsAccepted(head[o])' /\ \A n : AcceptedId(n) => AcceptedId(n)'
          /\ view'[o] = AcceptedUpTo(head[o].rev)'
      BY <1>0, <2>1, <3>1, <3>2, AdvanceAccepted
         DEF OwnerInv, SwapAnchor, owned, IsAccepted, AcceptedUpTo
    <3>4. pc'[o] = "confirming" /\ prep'[o] = prep[o] /\ head'[o] = head[o]
      BY <1>1 DEF SwapAnchor, Step, Goto, TypeInv, LocalType, owned
    <3> QED
      BY <1>0, <3>3, <3>4 DEF OwnerInv, SwapAnchor, Opened, Preparing, owned, outbox
  <2> QED
    BY <2>3, <2>4, <2>5
<1>2. CASE Exit(o, "failed") /\ UNCHANGED <<anchor, log>>
  BY <1>0, <1>2, FailedStep DEF SwapAnchor, bounds
<1> QED
  BY <1>1, <1>2 DEF SwapAnchor

LEMMA ConfirmStep ==
    ASSUME SafetyInv, NEW o \in Owner, ConfirmAnchor(o)
    PROVE  Goal' /\ AcceptedId(prep[o].id)
<1> USE DEF SafetyInv, Goal
<1> DEFINE e == prep[o]
<1>0. /\ e \in Known /\ ParentOf(e) = head[o] /\ e # NoEntry
      /\ view[o] = AcceptedUpTo(head[o].rev) /\ late \subseteq Known
      /\ SameRows(store, store)
  BY KnownMembers DEF ConfirmAnchor, OwnerInv, Preparing, Opened, SameRows
<1>1. e \in Entry /\ GoodEntry(e) /\ e.rev \in Nat /\ e.rev # 0
  <2>1. e \in Entry /\ GoodEntry(e)
    BY <1>0, KnownTyped DEF KnownInv
  <2> QED
    BY <2>1 DEF GoodEntry, Entry
<1>2. e \in log
  <2>1. anchor = AnchorOf(e) /\ anchor # NoAnchor
    BY <1>1 DEF ConfirmAnchor, AnchorOf, NoAnchor
  <2>2. PICK x \in log : AnchorOf(x) = anchor
    BY <2>1 DEF LogInv, IsAccepted
  <2>3. x.id = e.id
    BY <2>1, <2>2 DEF AnchorOf
  <2> QED
    BY <1>0, <2>2, <2>3, KnownMembers DEF KnownInv
<1>3. IsAccepted(AnchorOf(e)) /\ AcceptedId(e.id)
  BY <1>2 DEF IsAccepted, AcceptedId
<1>4. head[o].rev = e.rev - 1
  BY <1>0 DEF ParentOf
<1>5. view[o] \cup e.ops = AcceptedUpTo(e.rev)
  <2>1. \A x \in log : x.rev \in Nat
    BY KnownMembers, KnownTyped DEF Entry
  <2>2. AcceptedUpTo(e.rev) = AcceptedUpTo(e.rev - 1) \cup {e.id}
    <3>1. \A x \in log : x.rev <= e.rev <=> x.rev <= e.rev - 1 \/ x = e
      BY <1>1, <1>2, <2>1 DEF LogInv
    <3> HIDE DEF e
    <3> QED
      BY <1>2, <3>1 DEF AcceptedUpTo
  <2>3. view[o] = AcceptedUpTo(e.rev - 1)
    BY <1>0, <1>4
  <2>4. e.ops = (IF e.ckpt THEN AcceptedUpTo(e.rev - 1) ELSE {}) \cup {e.id}
    BY <1>1 DEF GoodEntry
  <2> HIDE DEF e
  <2> QED
    BY <2>2, <2>3, <2>4
<1>6. /\ pc'[o] = "idle" /\ head'[o] = AnchorOf(e) /\ view'[o] = view[o] \cup e.ops
      /\ \A b \in ledger'[o] \cup pendingBindings'[o] :
            b \in ledger[o] \cup pendingBindings[o] \/ b = OwnBinding(e)
      /\ UNCHANGED <<batch, sending, log>>
  <2>1. pc'[o] = "idle" /\ head'[o] = AnchorOf(e) /\ view'[o] = view[o] \cup e.ops
    BY DEF ConfirmAnchor, Exit, Goto, TypeInv, LocalType, OwnedType
  <2>2. \A b \in ledger'[o] \cup pendingBindings'[o] :
            b \in ledger[o] \cup pendingBindings[o] \/ b = OwnBinding(e)
    BY DEF ConfirmAnchor, TypeInv, OwnedType, RetainedLedger
  <2> QED
    BY <2>1, <2>2 DEF ConfirmAnchor, outbox
<1>7. OwnerInv(o)'
  <2>1. \A n : AcceptedId(n)' <=> AcceptedId(n)
    BY <1>6 DEF AcceptedId
  <2>2. IsAccepted(head[o])' /\ view'[o] = AcceptedUpTo(head[o].rev)'
    BY <1>3, <1>5, <1>6 DEF IsAccepted, AcceptedUpTo, AnchorOf
  <2>3. \A b \in ledger'[o] \cup pendingBindings'[o] \cup batch'[o] \cup sending'[o] :
           AcceptedId(b.tok)
    BY <1>3, <1>6 DEF OwnerInv, OwnBinding
  <2> QED
    BY <1>6, <2>1, <2>2, <2>3 DEF OwnerInv, Opened, Preparing
<1>8. \A p \in Owner : p # o => Untouched(p)
  BY DEF ConfirmAnchor, Exit, Goto, TypeInv, LocalType, OwnedType, outbox, Untouched
<1>9. Exit(o, "idle") /\ UNCHANGED <<log, anchor, fresh, backups, late, store>>
  BY DEF ConfirmAnchor, bounds
<1> QED
  BY <1>0, <1>3, <1>7, <1>8, <1>9, ExitQuiet, QuietStep, UntouchedOwner

LEMMA CommitStep ==
    ASSUME SafetyInv, NEW o \in Owner, Commit(o) PROVE Goal'
<1>0. SameRows(store, store)
  BY DEF SameRows
<1>1. CASE VerifyHead(o)
  <2>1. CASE Step(o, "swapping")
    BY <1>0, <1>1, <2>1, OpenCall DEF VerifyHead, Opened, Preparing, bounds, history
  <2>2. CASE Exit(o, "failed")
    BY <1>0, <1>1, <2>2, FailedStep DEF VerifyHead, bounds, history
  <2> QED
    BY <1>1, <2>1, <2>2 DEF VerifyHead
<1>2. CASE RefuseConfirm(o)
  BY <1>0, <1>2, FailedStep DEF RefuseConfirm, bounds, history
<1> QED
  BY <1>1, <1>2, CommitStoreStep, SwapStep, ConfirmStep DEF Commit

(* The outbox *)

LEMMA DeliverStep ==
    ASSUME SafetyInv, NEW o \in Owner, Deliver(o) PROVE Goal'
<1> USE DEF SafetyInv, Goal
<1>0. SameRows(store, store) /\ late \subseteq Known
  BY KnownMembers DEF SameRows
<1>1. CASE ListOutbox(o)
  <2>1. CASE /\ OutboxReadable(store.pubs, ledger[o], head[o].rev)
             /\ Goto(o, "listed") /\ snap' = [snap EXCEPT ![o] = store]
             /\ UNCHANGED prep
    <3>1. \A p \in Owner : p # o => Untouched(p)
      BY <1>1, <2>1 DEF ListOutbox, Untouched, Goto, owned, outbox, TypeInv, LocalType
    <3>2. pc'[o] = "listed" /\ snap'[o] = store
      BY <2>1 DEF Goto, TypeInv, LocalType
    <3>3. \A p \in Owner : snap'[p] = snap[p] \/ snap'[p] = store
      BY <2>1 DEF TypeInv, LocalType
    <3>4. Quiet
      BY <1>0, <1>1, <2>1, <3>3 DEF ListOutbox, Quiet, Images, SameRows, bounds, history
    <3>5. store.pubs \subseteq ledger[o]
      BY <2>1 DEF OutboxReadable, PublicationsBound
    <3>6. OwnerInv(o)'
      BY <1>1, <3>2, <3>5 DEF ListOutbox, OwnerInv, Opened, Preparing, owned, outbox,
                              history, AcceptedId, AcceptedUpTo, IsAccepted
    <3> QED
      BY <1>1, <3>1, <3>4, <3>6, QuietStep, UntouchedOwner DEF ListOutbox, history
  <2>2. CASE Exit(o, "failed")
    BY <1>0, <1>1, <2>2, FailedStep DEF ListOutbox, bounds, history
  <2> QED
    BY <1>1, <2>1, <2>2 DEF ListOutbox
<1>2. CASE ReleaseOutbox(o)
  <2>1. CASE /\ pendingBindings' = [pendingBindings EXCEPT ![o] = snap[o].pubs]
             /\ batch' = [batch EXCEPT ![o] = snap[o].pubs]
             /\ Exit(o, "idle")
    <3>1. \A p \in Owner : p # o => Untouched(p)
      BY <1>2, <2>1 DEF ReleaseOutbox, Untouched, Exit, Goto, TypeInv, LocalType,
                        OwnedType
    <3>2. /\ pc'[o] = "idle" /\ pendingBindings'[o] = snap[o].pubs
          /\ batch'[o] = snap[o].pubs /\ snap[o].pubs \subseteq ledger[o]
      BY <1>2, <2>1 DEF ReleaseOutbox, Exit, Goto, TypeInv, LocalType, OwnedType,
                        OwnerInv
    <3>3. OwnerInv(o)'
      BY <1>2, <3>2 DEF ReleaseOutbox, OwnerInv, Opened, Preparing, history, AcceptedId,
                        AcceptedUpTo, IsAccepted
    <3>4. UNCHANGED <<log, anchor, fresh, backups, late, store>>
      BY <1>2 DEF ReleaseOutbox, bounds, history
    <3> QED
      BY <1>0, <2>1, <3>1, <3>3, <3>4, ExitQuiet, QuietStep, UntouchedOwner
  <2>2. CASE Exit(o, "failed") /\ UNCHANGED <<pendingBindings, batch>>
    BY <1>0, <1>2, <2>2, FailedStep DEF ReleaseOutbox, bounds, history, owned, outbox
  <2> QED
    BY <1>2, <2>1, <2>2 DEF ReleaseOutbox
<1>3. ASSUME UNCHANGED <<log, anchor, late, backups, fresh, pc, head, ledger, view,
                         snap, prep>>,
             SameRows(store', store),
             \A p \in Owner : /\ pendingBindings'[p] \subseteq pendingBindings[p]
                              /\ batch'[p] \subseteq batch[p]
                              /\ sending'[p] \subseteq batch[p] \cup sending[p]
      PROVE  Goal'
  <2>1. Quiet
    BY <1>0, <1>3 DEF Quiet, Images, SameRows
  <2>2. ASSUME NEW p \in Owner PROVE OwnerInv(p)'
    BY <1>3, <2>2 DEF OwnerInv, AcceptedId, AcceptedUpTo, IsAccepted
  <2> QED
    BY <2>1, <2>2, QuietStep
<1>4. ASSUME NEW b \in batch[o], Publish(o, b) PROVE Goal'
  BY <1>0, <1>3, <1>4 DEF Publish, owned, bounds, TypeInv, OwnedType
<1>5. ASSUME NEW b \in sending[o], PublicationSent(o, b) PROVE Goal'
  <2>1. SameRows(store', store)
    BY <1>5 DEF PublicationSent, Unqueued, SameRows, TypeInv, SharedType, IsStore
  <2> QED
    BY <1>3, <1>5, <2>1 DEF PublicationSent, bounds, history, TypeInv, OwnedType
<1> QED
  BY <1>1, <1>2, <1>4, <1>5 DEF Deliver

(* Faults *)

LEMMA CandidateKnown ==
    ASSUME SafetyInv, NEW o \in Owner, Abandon(o) PROVE late' \subseteq Known
<1> USE DEF SafetyInv
<1>1. CASE pc[o] = "finishing"
  <2>1. snap[o].revision \in DOMAIN snap[o].rows
    BY <1>1 DEF OwnerInv, ChainValid
  <2>2. Candidate(o) \in Known
    BY <1>1, <2>1, KnownMembers DEF Candidate
  <2> QED
    BY <2>2, KnownMembers DEF Abandon
<1>2. CASE pc[o] = "swapping"
  BY <1>2, KnownMembers DEF Abandon, Candidate, OwnerInv, Preparing
<1> QED
  BY <1>1, <1>2, KnownMembers DEF Abandon

LEMMA ForgetStep ==
    ASSUME SafetyInv, NEW o \in Owner, Forget(o), late' \subseteq Known,
           UNCHANGED <<log, anchor, fresh, backups, store>>
    PROVE  Goal'
<1> USE DEF SafetyInv, Goal
<1>1. \A p \in Owner : p # o => Untouched(p)
  BY DEF Forget, Untouched, Exit, Goto, TypeInv, LocalType, OwnedType
<1>2. OwnerInv(o)'
  <2>1. /\ pc'[o] = "off" /\ ledger'[o] = {} /\ pendingBindings'[o] = {}
        /\ batch'[o] = {} /\ sending'[o] = {}
    BY DEF Forget, Exit, Goto, TypeInv, LocalType, OwnedType
  <2> QED
    BY <2>1 DEF OwnerInv, Opened, Preparing
<1>3. Quiet
  BY ExitQuiet DEF Forget, SameRows
<1> QED
  BY <1>1, <1>2, <1>3, QuietStep, UntouchedOwner

LEMMA FaultStep ==
    ASSUME SafetyInv, NEW o \in Owner,
           RejectCall(o) \/ AbortBatch(o) \/ Crash(o) \/ Reopen(o)
    PROVE  Goal'
<1> USE DEF SafetyInv, Goal
<1>0. SameRows(store, store) /\ late \subseteq Known
  BY KnownMembers DEF SameRows
<1>1. CASE RejectCall(o)
  BY <1>0, <1>1, CandidateKnown, FailedCall DEF RejectCall, history
<1>2. CASE AbortBatch(o)
  <2>1. SameRows(store', store)
    BY <1>0, <1>2 DEF AbortBatch, Unqueued, SameRows, TypeInv, SharedType, IsStore
  <2>2. UNCHANGED <<log, anchor, late, backups, fresh, pc, owned, snap, prep>>
    BY <1>2 DEF AbortBatch, history
  <2>3. \A p \in Owner : batch'[p] \subseteq batch[p] /\ sending'[p] \subseteq sending[p]
    BY <1>2 DEF AbortBatch, TypeInv, OwnedType
  <2>4. Quiet
    BY <1>0, <2>1, <2>2 DEF Quiet, Images, SameRows
  <2>5. ASSUME NEW p \in Owner PROVE OwnerInv(p)'
    BY <2>2, <2>3, <2>5 DEF OwnerInv, AcceptedId, AcceptedUpTo, IsAccepted, owned
  <2> QED
    BY <2>4, <2>5, QuietStep
<1>3. CASE Crash(o)
  BY <1>3, CandidateKnown, ForgetStep DEF Crash, history
<1>4. CASE Reopen(o)
  BY <1>0, <1>4, ForgetStep DEF Reopen, bounds, history
<1> QED
  BY <1>1, <1>2, <1>3, <1>4

LEMMA StorageStep ==
    ASSUME SafetyInv, LandLate \/ Backup \/ Rollback PROVE Goal'
<1> USE DEF SafetyInv, Goal
<1>1. CASE LandLate
  <2>1. PICK e \in late :
           /\ Advance(ParentOf(e), e) \/ UNCHANGED <<anchor, log>>
           /\ late' = late \ {e}
           /\ UNCHANGED <<store, backups, pc, owned, snap, prep, outbox, bounds>>
    BY <1>1 DEF LandLate
  <2>2. e \in Known
    BY KnownMembers
  <2>3. \A p \in Owner : Untouched(p)
    BY <2>1 DEF Untouched, owned, outbox
  <2>4. CASE Advance(ParentOf(e), e)
    <3>1. Images' = Images /\ fresh' = fresh
      BY <2>1 DEF Images, bounds
    <3>2. Known' \subseteq Known
      BY <2>1, <2>2, <2>4, <3>1, KnownMembers DEF Known, Advance
    <3> QED
      BY <2>2, <2>3, <2>4, <3>1, <3>2, AdvanceStep, AdvanceOwner
  <2>5. CASE UNCHANGED <<anchor, log>>
    <3>1. late' \subseteq Known
      BY <2>1, KnownMembers
    <3>2. Quiet
      BY <2>1, <2>5, <3>1 DEF Quiet, Images, SameRows, bounds
    <3> QED
      BY <2>3, <2>5, <3>2, QuietStep, UntouchedOwner
  <2> QED
    BY <2>1, <2>4, <2>5
<1>2. CASE Backup \/ Rollback
  <2>1. /\ UNCHANGED <<log, anchor, fresh, late, pc, owned, snap, prep, outbox>>
        /\ Images' \subseteq Images
    BY <1>2 DEF Backup, Rollback, Images, bounds, history
  <2>2. Quiet
    BY <2>1, KnownMembers DEF Quiet, SameRows
  <2>3. \A p \in Owner : Untouched(p)
    BY <2>1 DEF Untouched, owned, outbox
  <2> QED
    BY <2>1, <2>2, <2>3, QuietStep, UntouchedOwner
<1> QED
  BY <1>1, <1>2

(* The histories *)

\* No step takes an entry out of the log; only a resolved commit() adds to acked
\* and only pubsub to published.
LEMMA HistoryGrows ==
    ASSUME Next
    PROVE  /\ log \subseteq log'
           /\ acked' = acked \/ \E o \in Owner : /\ ConfirmAnchor(o)
                                                 /\ acked' = acked \cup {prep[o].id}
           /\ \/ published' = published
              \/ \E o \in Owner : \E b \in batch[o] : published' = published \cup {b.tok}
<1> DEFINE Same == UNCHANGED history
<1>1. ASSUME NEW o \in Owner, Restore(o)
      PROVE  log \subseteq log' /\ UNCHANGED <<acked, published>>
  BY <1>1 DEF Restore, LoadSnapshot, LoadAnchor, FinishAnchor, RecheckAnchor,
              DiscardStaged, FinishRestore, RejectOutbox, Advance, history
<1>2. ASSUME NEW o \in Owner, Prepare(o) PROVE Same
  BY <1>2 DEF Prepare, BeginPrepare, CheckAnchor, Stage, Discard
<1>3. ASSUME NEW o \in Owner, Commit(o)
      PROVE  /\ log \subseteq log' /\ published' = published
             /\ \/ acked' = acked
                \/ ConfirmAnchor(o) /\ acked' = acked \cup {prep[o].id}
  <2>1. CASE ConfirmAnchor(o)
    BY <2>1 DEF ConfirmAnchor
  <2>2. CASE CommitStore(o) \/ VerifyHead(o) \/ SwapAnchor(o) \/ RefuseConfirm(o)
    BY <2>2 DEF CommitStore, VerifyHead, SwapAnchor, RefuseConfirm, Advance, history
  <2> QED
    BY <1>3, <2>1, <2>2 DEF Commit
<1>4. ASSUME NEW o \in Owner, Deliver(o)
      PROVE  /\ UNCHANGED <<log, acked>>
             /\ published' = published \/ \E b \in batch[o] :
                                             published' = published \cup {b.tok}
  BY <1>4 DEF Deliver, ListOutbox, ReleaseOutbox, Publish, PublicationSent, history
<1>5. ASSUME NEW o \in Owner,
             RejectCall(o) \/ AbortBatch(o) \/ Crash(o) \/ Reopen(o)
      PROVE  Same
  BY <1>5 DEF RejectCall, AbortBatch, Crash, Reopen
<1>6. ASSUME LandLate \/ Backup \/ Rollback
      PROVE  log \subseteq log' /\ UNCHANGED <<acked, published>>
  BY <1>6 DEF LandLate, Backup, Rollback, Advance, history
<1> QED
  BY <1>1, <1>2, <1>3, <1>4, <1>5, <1>6 DEF Next, history

LEMMA HistoryStep ==
    ASSUME SafetyInv, Next PROVE HistoryInv'
<1> USE DEF SafetyInv
<1>1. \A n : AcceptedId(n) => AcceptedId(n)'
  BY HistoryGrows DEF AcceptedId
<1>2. ASSUME NEW n \in acked' PROVE AcceptedId(n)
  BY <1>2, HistoryGrows, ConfirmStep DEF HistoryInv
<1>3. ASSUME NEW n \in published' PROVE AcceptedId(n)
  BY <1>3, HistoryGrows DEF HistoryInv, OwnerInv
<1> QED
  BY <1>1, <1>2, <1>3 DEF HistoryInv

LEMMA InitSafety == Init => SafetyInv
<1> SUFFICES ASSUME Init PROVE SafetyInv
  OBVIOUS
<1>1. TypeInv
  BY InitTypeInv
<1>2. \A s \in Images : s = EmptyStore
  BY DEF Init, Images
<1>3. Known = {}
  BY <1>2, EmptyStoreGood DEF Init, Known
<1>4. KnownInv
  BY <1>3 DEF KnownInv
<1>5. LogInv
  BY DEF Init, LogInv, IsAccepted, NoAnchor
<1>6. ImageInv
  BY <1>2, EmptyStoreGood DEF ImageInv
<1>7. HistoryInv
  BY DEF Init, HistoryInv
<1>8. \A o \in Owner : OwnerInv(o)
  BY DEF Init, OwnerInv, Opened, Preparing
<1> QED
  BY <1>1, <1>4, <1>5, <1>6, <1>7, <1>8 DEF SafetyInv

LEMMA SafetyStep == SafetyInv /\ [Next]_vars => SafetyInv'
<1>1. ASSUME SafetyInv, Next PROVE SafetyInv'
  <2>1. TypeInv'
    BY <1>1, TypeStep DEF SafetyInv
  <2>2. Goal'
    BY <1>1, RestoreStep, PrepareStep, CommitStep, DeliverStep, FaultStep, StorageStep
       DEF Next
  <2>3. HistoryInv'
    BY <1>1, HistoryStep
  <2> QED
    BY <2>1, <2>2, <2>3 DEF SafetyInv, Goal
<1>2. ASSUME SafetyInv, UNCHANGED vars PROVE SafetyInv'
  <2>1. TypeInv'
    BY <1>2, TypeStep DEF SafetyInv
  <2>2. Quiet
    BY <1>2, KnownMembers DEF Quiet, vars, Images, SameRows, bounds, history
  <2>3. \A p \in Owner : Untouched(p)
    BY <1>2 DEF vars, Untouched, owned, outbox
  <2>4. HistoryInv'
    BY <1>2 DEF SafetyInv, HistoryInv, AcceptedId, vars, history
  <2> QED
    BY <1>2, <2>1, <2>2, <2>3, <2>4, QuietStep, UntouchedOwner
       DEF SafetyInv, vars, history
<1> QED
  BY <1>1, <1>2

\* The inductive invariant holds in every behaviour of the journal.
THEOREM InvariantHolds == Spec => []JournalInv
<1>1. SafetyInv => JournalInv
  BY TypeInvImpliesTypeOK DEF SafetyInv, JournalInv
<1> QED
  BY <1>1, InitSafety, SafetyStep, PTL DEF Spec

\* What an open journal has given its document is the accepted history up to its
\* head: restore() after checkpoints, crashes between the store's commit and the
\* anchor's, late swaps and storage rollbacks neither loses nor resurrects nor
\* mixes changes.
THEOREM ViewIsHistory == Spec => []ViewIsAcceptedPrefix
<1>1. SafetyInv => ViewIsAcceptedPrefix
  BY DEF SafetyInv, OwnerInv, ViewIsAcceptedPrefix, AcceptedUpTo
<1> QED
  BY <1>1, InitSafety, SafetyStep, PTL DEF Spec

\* A change whose commit() resolved is never missing from a current owner.
THEOREM AckedIsDurable == Spec => []AckedSurvives
<1>1. ASSUME SafetyInv PROVE AckedSurvives
  <2> USE DEF SafetyInv
  <2>1. ASSUME NEW o \in Owner, Current(o), NEW n \in acked PROVE n \in view[o]
    <3>1. PICK e \in log : e.id = n
      BY <1>1, <2>1 DEF HistoryInv, AcceptedId
    <3>2. e.rev <= head[o].rev
      BY <1>1, <2>1 DEF LogInv, Current
    <3> QED
      BY <1>1, <2>1, <3>1, <3>2 DEF OwnerInv, Current, AcceptedUpTo
  <2> QED
    BY <2>1 DEF AckedSurvives
<1> QED
  BY <1>1, InitSafety, SafetyStep, PTL DEF Spec

\* A frame is handed to pubsub only if the anchor went through its entry.
THEOREM PublicationAfterAcceptance == Spec => []PublishedOnlyAccepted
<1>1. SafetyInv => PublishedOnlyAccepted
  BY DEF SafetyInv, HistoryInv, AcceptedId, PublishedOnlyAccepted
<1> QED
  BY <1>1, InitSafety, SafetyStep, PTL DEF Spec

-----------------------------------------------------------------------------
(* The journal implements AcceptedLog: the accepted ids in revision order are *)
(* its log, and what an open owner has been given is a prefix of it.          *)

AcceptedShape ==
    /\ AcceptedIds \in Seq(Nat) /\ Len(AcceptedIds) = anchor.rev
    /\ anchor.rev \in Nat
    /\ \A e \in log : e.rev \in 1..anchor.rev /\ AcceptedIds[e.rev] = e.id
    /\ \A r \in 1..anchor.rev : \E e \in log : e.rev = r

LEMMA AcceptedAt ==
    ASSUME SafetyInv
    PROVE  AcceptedShape
<1> USE DEF SafetyInv
<1>1. /\ anchor.rev \in Nat
      /\ \A e \in log : e \in Entry /\ e.rev # 0
  BY KnownTyped, KnownMembers DEF TypeInv, SharedType, Anchor, KnownInv, GoodEntry
<1>2. \A e \in log : e.rev \in 1..anchor.rev
  BY <1>1 DEF LogInv, Entry
<1>3. ASSUME NEW e \in log PROVE AcceptedIds[e.rev] = e.id
  <2>1. (CHOOSE x \in log : x.rev = e.rev) = e
    BY DEF LogInv
  <2> QED
    BY <1>2, <2>1 DEF AcceptedIds
<1>4. \A r \in 1..anchor.rev : \E e \in log : e.rev = r
  BY DEF LogInv
<1>5. \A r \in 1..anchor.rev : AcceptedIds[r] \in Nat
  BY <1>1, <1>3, <1>4 DEF Entry
<1>6. AcceptedIds = [r \in 1..anchor.rev |-> AcceptedIds[r]]
  BY DEF AcceptedIds
<1>7. AcceptedIds \in Seq(Nat) /\ Len(AcceptedIds) = anchor.rev
  <2>1. AcceptedIds \in [1..anchor.rev -> Nat]
    BY <1>5, <1>6
  <2> QED
    BY <1>1, <2>1
<1> QED
  BY <1>1, <1>2, <1>3, <1>4, <1>7 DEF AcceptedShape

\* The same of the next state.
LEMMA AcceptedNext == SafetyInv' => AcceptedShape'
<1>1. SafetyInv => AcceptedShape
  BY AcceptedAt
<1> QED
  BY <1>1, PTL

LEMMA PrefixIsAccepted ==
    ASSUME SafetyInv, NEW k \in 0..anchor.rev
    PROVE  Abstract!Prefix(k) = AcceptedUpTo(k)
<1> USE AcceptedAt DEF AcceptedShape
<1>1. Abstract!Prefix(k) = {AcceptedIds[i] : i \in 1..k}
  BY DEF Abstract!Prefix
<1>2. ASSUME NEW i \in 1..k PROVE AcceptedIds[i] \in AcceptedUpTo(k)
  <2>1. PICK e \in log : e.rev = i
    BY AcceptedAt
  <2> QED
    BY <2>1, AcceptedAt DEF AcceptedUpTo
<1>3. ASSUME NEW e \in log, e.rev <= k PROVE \E i \in 1..k : AcceptedIds[i] = e.id
  BY <1>3, AcceptedAt
<1> QED
  BY <1>1, <1>2, <1>3 DEF AcceptedUpTo

Opens == [p \in Owner |-> pc[p] \in Opened]
Views == [p \in Owner |-> IF pc[p] \in Opened THEN view[p] ELSE {}]

\* No owner is opened or closed, and an open one sees what it saw.
KeepsViews ==
    \A p \in Owner : /\ pc'[p] \in Opened <=> pc[p] \in Opened
                     /\ pc[p] \in Opened => view'[p] = view[p]

LEMMA KeptViews ==
    ASSUME KeepsViews PROVE Opens' = Opens /\ Views' = Views
BY DEF KeepsViews, Opens, Views

LEMMA StutterMaps ==
    ASSUME KeepsViews, UNCHANGED <<log, anchor, acked, published>>
    PROVE  UNCHANGED Abstract!vars
<1>1. AcceptedIds' = AcceptedIds
  BY DEF AcceptedIds
<1> QED
  BY <1>1, KeptViews DEF Abstract!vars, Opens, Views

LEMMA AcceptMaps ==
    ASSUME SafetyInv, SafetyInv', fresh <= MaxPrep, KeepsViews,
           NEW e \in Known, Advance(ParentOf(e), e), UNCHANGED <<acked, published>>
    PROVE  Abstract!Next
<1> USE AcceptedAt, AcceptedNext DEF SafetyInv, AcceptedShape
<1>1. e \in Entry /\ GoodEntry(e) /\ e.rev # 0 /\ e.rev = anchor.rev + 1
  BY KnownTyped, AdvanceAccepted DEF KnownInv, GoodEntry
<1>2. log' = log \cup {e} /\ anchor'.rev = anchor.rev + 1 /\ anchor.rev \in Nat
  BY <1>1, AcceptedAt DEF Advance, AnchorOf
<1>3. e.id \in 1..MaxPrep
  BY <1>1, BoundAssumption DEF GoodEntry, TypeInv, SharedType
<1>4. AcceptedIds' = Append(AcceptedIds, e.id)
  <2>1. /\ AcceptedIds \in Seq(Nat) /\ Len(AcceptedIds) = anchor.rev
        /\ AcceptedIds' \in Seq(Nat) /\ Len(AcceptedIds') = anchor.rev + 1
    BY <1>2, AcceptedAt
  <2>2. AcceptedIds'[anchor.rev + 1] = e.id
    BY <1>1, <1>2, AcceptedAt
  <2>3. ASSUME NEW r \in 1..anchor.rev PROVE AcceptedIds'[r] = AcceptedIds[r]
    <3>1. PICK x \in log : x.rev = r
      BY AcceptedAt
    <3> QED
      BY <1>2, <3>1, AcceptedAt
  <2>4. e.id \in Nat
    BY <1>1 DEF Entry
  <2> HIDE AcceptedAt, AcceptedNext DEF SafetyInv, AcceptedShape
  <2> QED
    BY <1>2, <2>1, <2>2, <2>3, <2>4
<1>5. e.id \notin Abstract!Prefix(Len(AcceptedIds))
  <2>1. Abstract!Prefix(Len(AcceptedIds)) = AcceptedUpTo(anchor.rev)
    BY <1>2, AcceptedAt, PrefixIsAccepted
  <2>2. ASSUME NEW x \in log, x.id = e.id PROVE FALSE
    <3>1. x = e
      BY <2>2, KnownMembers DEF KnownInv
    <3> QED
      BY <1>1, <1>2, <3>1, AcceptedAt
  <2> QED
    BY <2>1, <2>2 DEF AcceptedUpTo
<1>6. Abstract!Accept(e.id)
  BY <1>4, <1>5, KeptViews DEF Abstract!Accept, Opens, Views
<1> QED
  BY <1>3, <1>6 DEF Abstract!Next

\* Calls of one owner, whose view changes at most.
OthersKeepViews(o) ==
    \A p \in Owner : p # o => pc'[p] = pc[p] /\ view'[p] = view[p]

LEMMA FlagSet ==
    ASSUME NEW S, NEW f \in [S -> BOOLEAN], NEW g \in [S -> BOOLEAN], NEW x \in S,
           NEW b \in BOOLEAN, g[x] = b, \A y \in S : y # x => g[y] = f[y]
    PROVE  g = [f EXCEPT ![x] = b]
BY Zenon

LEMMA NoFlagSet ==
    ASSUME NEW S, NEW f \in [S -> BOOLEAN], \A y \in S : ~f[y]
    PROVE  f = [y \in S |-> FALSE]
OBVIOUS

LEMMA OwnerFlag ==
    ASSUME NEW o \in Owner, OthersKeepViews(o), NEW b \in BOOLEAN,
           (pc'[o] \in Opened) = b
    PROVE  Opens' = [Opens EXCEPT ![o] = b]
<1>1. Opens \in [Owner -> BOOLEAN] /\ Opens' \in [Owner -> BOOLEAN]
  BY DEF Opens
<1>2. Opens'[o] = b
  BY DEF Opens
<1>3. \A p \in Owner : p # o => Opens'[p] = Opens[p]
  BY DEF Opens, OthersKeepViews
<1> QED
  BY <1>1, <1>2, <1>3, FlagSet

LEMMA CloseMaps ==
    ASSUME NEW o \in Owner, OthersKeepViews(o), pc'[o] \notin Opened,
           UNCHANGED <<log, anchor, acked, published>>
    PROVE  Abstract!Next
<1>1. AcceptedIds' = AcceptedIds
  BY DEF AcceptedIds
<1>2. Views' = [Views EXCEPT ![o] = {}]
  BY DEF Views, OthersKeepViews
<1>3. Opens' = [Opens EXCEPT ![o] = FALSE]
  <2>1. (pc'[o] \in Opened) = FALSE
    OBVIOUS
  <2> QED
    BY <2>1, OwnerFlag
<1>4. Abstract!Close(o)
  BY <1>1, <1>2, <1>3 DEF Abstract!Close, Opens, Views
<1> QED
  BY <1>4 DEF Abstract!Next

LEMMA OpenMaps ==
    ASSUME SafetyInv, SafetyInv', NEW o \in Owner, FinishRestore(o)
    PROVE  Abstract!Next
<1> USE AcceptedAt DEF SafetyInv, AcceptedShape
<1>1. /\ pc[o] \notin Opened /\ pc'[o] \in Opened
      /\ UNCHANGED <<log, anchor, acked, published>>
      /\ \A p \in Owner : p # o => pc'[p] = pc[p] /\ view'[p] = view[p]
  BY DEF FinishRestore, Exit, Goto, Opened, TypeInv, LocalType, OwnedType, history
<1>2. AcceptedIds' = AcceptedIds
  BY <1>1 DEF AcceptedIds
<1>3. /\ view'[o] = AcceptedUpTo(head[o].rev)' /\ IsAccepted(head[o])'
      /\ log' = log
  BY <1>1 DEF OwnerInv
<1>4. view'[o] = AcceptedUpTo(head'[o].rev) /\ IsAccepted(head'[o])
  BY <1>3 DEF AcceptedUpTo, IsAccepted
<1>5. view'[o] = Abstract!Prefix(head'[o].rev) /\ head'[o].rev \in 0..Len(AcceptedIds)
  BY <1>4, AcceptedBelowAnchor, PrefixIsAccepted
<1>6. /\ ~Opens[o] /\ Opens' = [Opens EXCEPT ![o] = TRUE]
      /\ Views' = [Views EXCEPT ![o] = view'[o]]
  <2>1. ~Opens[o] /\ Views' = [Views EXCEPT ![o] = view'[o]]
    BY <1>1 DEF Opens, Views
  <2> QED
    BY <1>1, <2>1, OwnerFlag DEF OthersKeepViews
<1>7. Abstract!Open(o)
  <2>1. \E k \in 0..Len(AcceptedIds) : Views' = [Views EXCEPT ![o] = Abstract!Prefix(k)]
    BY <1>5, <1>6
  <2> QED
    BY <1>1, <1>2, <1>6, <2>1 DEF Abstract!Open, Opens, Views
<1> QED
  BY <1>7 DEF Abstract!Next

LEMMA AcknowledgeMaps ==
    ASSUME SafetyInv, SafetyInv', NEW o \in Owner, ConfirmAnchor(o)
    PROVE  Abstract!Next
<1> USE AcceptedAt DEF SafetyInv, AcceptedShape
<1> DEFINE e == prep[o]
           k == e.rev
<1>1. /\ pc[o] \in Opened /\ pc'[o] \in Opened
      /\ UNCHANGED <<log, anchor, published>> /\ acked' = acked \cup {e.id}
      /\ head'[o] = AnchorOf(e) /\ anchor = AnchorOf(e)
      /\ \A p \in Owner : p # o => pc'[p] = pc[p] /\ view'[p] = view[p]
  BY DEF ConfirmAnchor, Exit, Goto, Opened, TypeInv, LocalType, OwnedType
<1>2. AcceptedIds' = AcceptedIds
  BY <1>1 DEF AcceptedIds
<1>3. e \in Known /\ e \in Entry /\ GoodEntry(e) /\ ParentOf(e) = head[o]
  BY KnownMembers, KnownTyped DEF KnownInv, OwnerInv, Preparing, ConfirmAnchor
<1>4. e.rev \in Nat /\ e.rev # 0 /\ head[o].rev = e.rev - 1 /\ anchor.rev = e.rev
  BY <1>1, <1>3 DEF GoodEntry, Entry, ParentOf, AnchorOf
<1>5. k \in 1..Len(AcceptedIds)
  BY <1>4, AcceptedAt
<1>6. view[o] = Abstract!Prefix(k - 1)
  <2>1. view[o] = AcceptedUpTo(k - 1) /\ k - 1 \in 0..anchor.rev
    BY <1>1, <1>4 DEF OwnerInv
  <2> QED
    BY <2>1, PrefixIsAccepted
<1>7. view'[o] = Abstract!Prefix(k)
  <2>1. view'[o] = AcceptedUpTo(head[o].rev)'
    BY <1>1 DEF OwnerInv
  <2>2. view'[o] = AcceptedUpTo(k)
    BY <1>1, <2>1 DEF AcceptedUpTo, AnchorOf
  <2>3. k \in 0..anchor.rev
    BY <1>4
  <2> QED
    BY <2>2, <2>3, PrefixIsAccepted
<1>8. AcceptedIds[k] = e.id
  <2>1. anchor # NoAnchor
    BY <1>4 DEF NoAnchor
  <2>2. PICK x \in log : AnchorOf(x) = anchor
    BY <2>1 DEF LogInv, IsAccepted
  <2>3. x.rev = e.rev /\ x.id = e.id
    BY <1>1, <2>2 DEF AnchorOf
  <2> QED
    BY <2>3, AcceptedAt
<1>9. /\ Opens[o] /\ Views[o] = view[o] /\ Opens' = Opens
      /\ Views' = [Views EXCEPT ![o] = view'[o]]
  <2>1. Views[o] = view[o] /\ Views' = [Views EXCEPT ![o] = view'[o]]
    BY <1>1 DEF Views
  <2>2. Opens[o]
    BY <1>1 DEF Opens
  <2>3. ASSUME NEW p \in Owner PROVE pc'[p] \in Opened <=> pc[p] \in Opened
    BY <1>1
  <2>4. Opens' = Opens
    BY <2>3 DEF Opens
  <2> QED
    BY <2>1, <2>2, <2>4
<1>10. \E i \in 1..Len(AcceptedIds) :
         /\ Views[o] = Abstract!Prefix(i - 1)
         /\ Views' = [Views EXCEPT ![o] = Abstract!Prefix(i)]
         /\ acked' = acked \cup {AcceptedIds[i]}
  BY <1>1, <1>5, <1>6, <1>7, <1>8, <1>9
<1>11. Abstract!Acknowledge(o)
  BY <1>1, <1>2, <1>9, <1>10 DEF Abstract!Acknowledge, Opens, Views
<1> QED
  BY <1>11 DEF Abstract!Next

LEMMA PublishMaps ==
    ASSUME SafetyInv, fresh <= MaxPrep, NEW o \in Owner, NEW b \in batch[o],
           Publish(o, b)
    PROVE  Abstract!Next
<1> USE AcceptedAt DEF SafetyInv, AcceptedShape
<1>1. PICK e \in log : e.id = b.tok
  BY DEF OwnerInv, AcceptedId
<1>2. b.tok \in AcceptedUpTo(anchor.rev)
  BY <1>1 DEF AcceptedUpTo
<1>3. b.tok \in Abstract!Prefix(Len(AcceptedIds))
  BY <1>2, PrefixIsAccepted
<1>4. e.id \in 1..fresh /\ fresh \in Nat
  BY KnownMembers DEF KnownInv, GoodEntry, TypeInv, SharedType
<1>5. b.tok \in 1..MaxPrep
  BY <1>1, <1>4, BoundAssumption
<1>6. KeepsViews /\ UNCHANGED <<log, anchor, acked>>
  BY DEF Publish, KeepsViews, owned
<1>7. AcceptedIds' = AcceptedIds
  BY <1>6 DEF AcceptedIds
<1>8. Abstract!Publish(b.tok)
  BY <1>3, <1>6, <1>7, KeptViews DEF Abstract!Publish, Publish, Opens, Views
<1> QED
  BY <1>5, <1>8 DEF Abstract!Next

\* A call that goes on between two labels of an open journal, or of a closed
\* one, changes nothing the abstract log can tell.
LEMMA CallStutters ==
    ASSUME TypeInv, NEW o \in Owner, NEW l \in Label,
           Step(o, l) \/ Exit(o, l) \/ Goto(o, l),
           l \in Opened <=> pc[o] \in Opened, view' = view,
           UNCHANGED <<log, anchor, acked, published>>
    PROVE  UNCHANGED Abstract!vars
<1>1. KeepsViews
  BY DEF KeepsViews, Step, Exit, Goto, TypeInv, LocalType
<1> QED
  BY <1>1, StutterMaps

LEMMA CallCloses ==
    ASSUME TypeInv, NEW o \in Owner, NEW l \in {"off", "failed"}, Exit(o, l),
           \A p \in Owner : p # o => view'[p] = view[p],
           UNCHANGED <<log, anchor, acked, published>>
    PROVE  Abstract!Next
<1>1. pc'[o] = l /\ \A p \in Owner : p # o => pc'[p] = pc[p]
  BY DEF Exit, Goto, TypeInv, LocalType
<1>2. OthersKeepViews(o) /\ pc'[o] \notin Opened
  BY <1>1 DEF OthersKeepViews, Opened
<1> QED
  BY <1>2, CloseMaps

Refines == Abstract!Next \/ UNCHANGED Abstract!vars

LEMMA RestoreMaps ==
    ASSUME SafetyInv, SafetyInv', fresh <= MaxPrep, NEW o \in Owner, Restore(o)
    PROVE  Refines
<1> USE DEF SafetyInv, Refines
<1>1. CASE LoadSnapshot(o)
  BY <1>1, CallStutters DEF LoadSnapshot, Opened, Label, Waiting, owned, history
<1>2. CASE LoadAnchor(o)
  <2>1. UNCHANGED <<log, anchor, acked, published, view>>
    BY <1>2 DEF LoadAnchor, owned, history
  <2>2. CASE Exit(o, "failed")
    BY <2>1, <2>2, CallCloses
  <2>3. CASE \E l \in {"reading", "discarding", "finishing"} : Step(o, l)
    BY <1>2, <2>1, <2>3, CallStutters DEF LoadAnchor, Opened, Label, Waiting
  <2> QED
    BY <1>2, <2>2, <2>3 DEF LoadAnchor, AfterAnchor
<1>3. CASE FinishAnchor(o)
  <2>1. CASE Advance(ParentOf(Candidate(o)), Candidate(o)) /\ Step(o, "rechecking")
    <3>1. KeepsViews /\ UNCHANGED <<acked, published>>
      BY <1>3, <2>1 DEF FinishAnchor, KeepsViews, Step, Goto, Opened, owned, TypeInv,
                        LocalType
    <3>2. Candidate(o) \in Known
      BY <1>3, KnownMembers DEF FinishAnchor, Candidate, OwnerInv, ChainValid
    <3> QED
      BY <2>1, <3>1, <3>2, AcceptMaps
  <2>2. CASE Exit(o, "failed") /\ UNCHANGED <<anchor, log>>
    BY <1>3, <2>2, CallCloses DEF FinishAnchor, owned
  <2> QED
    BY <1>3, <2>1, <2>2 DEF FinishAnchor
<1>4. CASE RecheckAnchor(o)
  <2>1. UNCHANGED <<log, anchor, acked, published, view>>
    BY <1>4 DEF RecheckAnchor, owned, history
  <2>2. CASE Exit(o, "failed")
    BY <2>1, <2>2, CallCloses
  <2>3. CASE \E l \in {"reading", "discarding"} : Step(o, l)
    BY <1>4, <2>1, <2>3, CallStutters DEF RecheckAnchor, Opened, Label, Waiting
  <2> QED
    BY <1>4, <2>2, <2>3 DEF RecheckAnchor, AfterAnchor
<1>5. CASE DiscardStaged(o)
  BY <1>5, CallStutters DEF DiscardStaged, Opened, Label, Waiting, owned, history
<1>6. CASE FinishRestore(o)
  BY <1>6, OpenMaps
<1>7. CASE RejectOutbox(o)
  BY <1>7, CallCloses DEF RejectOutbox, owned, history
<1> QED
  BY <1>1, <1>2, <1>3, <1>4, <1>5, <1>6, <1>7 DEF Restore

LEMMA PrepareMaps ==
    ASSUME SafetyInv, NEW o \in Owner, Prepare(o)
    PROVE  Refines
<1> USE DEF SafetyInv, Refines
<1>1. UNCHANGED <<log, anchor, acked, published, view>>
  BY DEF Prepare, BeginPrepare, CheckAnchor, Stage, Discard, owned, history
<1>2. pc[o] \in Opened
  BY DEF Prepare, BeginPrepare, CheckAnchor, Stage, Discard, Opened
<1>3. CASE Exit(o, "failed")
  BY <1>1, <1>3, CallCloses
<1>4. CASE \E l \in {"idle", "staging", "prepared", "checking"} :
              Step(o, l) \/ Exit(o, l) \/ Goto(o, l)
  BY <1>1, <1>2, <1>4, CallStutters DEF Opened, Label, Waiting
<1> QED
  BY <1>3, <1>4 DEF Prepare, BeginPrepare, CheckAnchor, Stage, Discard

LEMMA CommitMaps ==
    ASSUME SafetyInv, SafetyInv', fresh <= MaxPrep, NEW o \in Owner, Commit(o)
    PROVE  Refines
<1> USE DEF SafetyInv, Refines
<1>1. CASE CommitStore(o) \/ VerifyHead(o) \/ RefuseConfirm(o)
  <2>1. UNCHANGED <<log, anchor, acked, published, view>> /\ pc[o] \in Opened
    BY <1>1 DEF CommitStore, VerifyHead, RefuseConfirm, owned, history, Opened
  <2>2. CASE Exit(o, "failed")
    BY <2>1, <2>2, CallCloses
  <2>3. CASE \E l \in {"verifying", "swapping"} : Step(o, l)
    BY <2>1, <2>3, CallStutters DEF Opened, Label, Waiting
  <2> QED
    BY <1>1, <2>2, <2>3 DEF CommitStore, VerifyHead, RefuseConfirm
<1>2. CASE SwapAnchor(o)
  <2>1. CASE Advance(head[o], prep[o]) /\ Step(o, "confirming")
    <3>1. KeepsViews /\ UNCHANGED <<acked, published>>
      BY <1>2, <2>1 DEF SwapAnchor, KeepsViews, Step, Goto, Opened, owned, TypeInv,
                        LocalType
    <3>2. prep[o] \in Known /\ ParentOf(prep[o]) = head[o]
      BY <1>2, KnownMembers DEF SwapAnchor, OwnerInv, Preparing
    <3> QED
      BY <2>1, <3>1, <3>2, AcceptMaps
  <2>2. CASE Exit(o, "failed") /\ UNCHANGED <<anchor, log>>
    BY <1>2, <2>2, CallCloses DEF SwapAnchor, owned
  <2> QED
    BY <1>2, <2>1, <2>2 DEF SwapAnchor
<1>3. CASE ConfirmAnchor(o)
  BY <1>3, AcknowledgeMaps
<1> QED
  BY <1>1, <1>2, <1>3 DEF Commit

LEMMA DeliverMaps ==
    ASSUME SafetyInv, fresh <= MaxPrep, NEW o \in Owner, Deliver(o)
    PROVE  Refines
<1> USE DEF SafetyInv, Refines
<1>1. CASE ListOutbox(o) \/ ReleaseOutbox(o)
  <2>1. UNCHANGED <<log, anchor, acked, published, view>> /\ pc[o] \in Opened
    BY <1>1 DEF ListOutbox, ReleaseOutbox, owned, history, Opened
  <2>2. CASE Exit(o, "failed")
    BY <2>1, <2>2, CallCloses
  <2>3. CASE \E l \in {"idle", "listed"} : Goto(o, l) \/ Exit(o, l)
    BY <2>1, <2>3, CallStutters DEF Opened, Label, Waiting
  <2> QED
    BY <1>1, <2>2, <2>3 DEF ListOutbox, ReleaseOutbox
<1>2. ASSUME NEW b \in batch[o], Publish(o, b) PROVE Refines
  BY <1>2, PublishMaps
<1>3. ASSUME NEW b \in sending[o], PublicationSent(o, b) PROVE Refines
  <2>1. KeepsViews /\ UNCHANGED <<log, anchor, acked, published>>
    BY <1>3 DEF PublicationSent, KeepsViews, history
  <2> QED
    BY <2>1, StutterMaps
<1> QED
  BY <1>1, <1>2, <1>3 DEF Deliver

LEMMA FaultMaps ==
    ASSUME SafetyInv, NEW o \in Owner,
           RejectCall(o) \/ AbortBatch(o) \/ Crash(o) \/ Reopen(o)
    PROVE  Refines
<1> USE DEF SafetyInv, Refines
<1>1. UNCHANGED <<log, anchor, acked, published>>
  BY DEF RejectCall, AbortBatch, Crash, Reopen, history
<1>2. CASE AbortBatch(o)
  <2>1. KeepsViews
    BY <1>2 DEF AbortBatch, KeepsViews, owned
  <2> QED
    BY <1>1, <2>1, StutterMaps
<1>3. CASE RejectCall(o) \/ Crash(o) \/ Reopen(o)
  <2>1. \E l \in {"off", "failed"} : Exit(o, l)
    BY <1>3 DEF RejectCall, Crash, Reopen, Forget
  <2>2. \A p \in Owner : p # o => view'[p] = view[p]
    BY <1>3 DEF RejectCall, Crash, Reopen, Forget, owned, TypeInv, OwnedType
  <2> QED
    BY <1>1, <2>1, <2>2, CallCloses
<1> QED
  BY <1>2, <1>3

LEMMA StorageMaps ==
    ASSUME SafetyInv, SafetyInv', fresh <= MaxPrep, LandLate \/ Backup \/ Rollback
    PROVE  Refines
<1> USE DEF Refines
<1>1. KeepsViews /\ UNCHANGED <<acked, published>>
  BY DEF LandLate, Backup, Rollback, KeepsViews, owned, history
<1>2. CASE LandLate
  <2>1. PICK e \in late : Advance(ParentOf(e), e) \/ UNCHANGED <<anchor, log>>
    BY <1>2 DEF LandLate
  <2>2. e \in Known
    BY KnownMembers
  <2> QED
    BY <1>1, <2>1, <2>2, AcceptMaps, StutterMaps
<1>3. CASE Backup \/ Rollback
  BY <1>1, <1>3, StutterMaps DEF Backup, Rollback, history
<1> QED
  BY <1>2, <1>3

\* prepare() draws its numbers below the bound on preparations.
LEMMA FreshBounded == fresh \in Nat /\ fresh <= MaxPrep /\ [Next]_vars => (fresh <= MaxPrep)'
<1> SUFFICES ASSUME fresh \in Nat, fresh <= MaxPrep, [Next]_vars PROVE fresh' <= MaxPrep
  OBVIOUS
<1>1. ASSUME NEW o \in Owner, Restore(o) \/ Commit(o) \/ Deliver(o) PROVE fresh' = fresh
  BY <1>1 DEF Restore, LoadSnapshot, LoadAnchor, FinishAnchor, RecheckAnchor,
              DiscardStaged, FinishRestore, RejectOutbox, Commit, CommitStore, VerifyHead,
              SwapAnchor, ConfirmAnchor, RefuseConfirm, Deliver, ListOutbox,
              ReleaseOutbox, Publish, PublicationSent, bounds
<1>2. ASSUME NEW o \in Owner, Prepare(o)
      PROVE  fresh' = fresh \/ (fresh < MaxPrep /\ fresh' = fresh + 1)
  BY <1>2 DEF Prepare, BeginPrepare, CheckAnchor, Stage, Discard, bounds
<1>3. ASSUME NEW o \in Owner, RejectCall(o) \/ AbortBatch(o) \/ Crash(o) \/ Reopen(o)
      PROVE  fresh' = fresh
  BY <1>3 DEF RejectCall, AbortBatch, Crash, Reopen, bounds
<1>4. CASE LandLate \/ Backup \/ Rollback
  BY <1>4 DEF LandLate, Backup, Rollback, bounds
<1>5. CASE UNCHANGED vars
  BY <1>5 DEF vars, bounds
<1>6. MaxPrep \in Nat
  BY BoundAssumption
<1> QED
  BY <1>1, <1>2, <1>3, <1>4, <1>5, <1>6 DEF Next

LEMMA InitMaps == Init => Abstract!Init
<1> SUFFICES ASSUME Init PROVE Abstract!Init
  OBVIOUS
<1>1. AcceptedIds = << >>
  <2>1. anchor.rev = 0
    BY DEF Init, NoAnchor
  <2> QED
    BY <2>1 DEF AcceptedIds
<1>2. \A o \in Owner : ~(pc[o] \in Opened)
  BY DEF Init, Opened
<1>3. Opens = [o \in Owner |-> FALSE]
  <2>1. Opens \in [Owner -> BOOLEAN]
    BY DEF Opens
  <2>2. \A o \in Owner : Opens[o] = (pc[o] \in Opened)
    BY DEF Opens
  <2>3. \A o \in Owner : ~Opens[o]
    BY <1>2, <2>2
  <2> QED
    BY <2>1, <2>3, NoFlagSet
<1>4. Views = [o \in Owner |-> {}]
  BY <1>2 DEF Views
<1> QED
  BY <1>1, <1>3, <1>4 DEF Init, Abstract!Init, Opens, Views

\* Two or more owners over one store that may roll back, the anchor with its late
\* swaps, crashes and reopenings implement one append-only log of which every
\* open owner sees a prefix (document-replay-journal.ts, document-journal-store.ts).
THEOREM JournalImplementsLog == Spec => RefinesAcceptedLog
<1> DEFINE I == SafetyInv /\ fresh <= MaxPrep
<1>1. Init => I
  <2>1. Init => fresh = 0 /\ MaxPrep \in Nat
    BY BoundAssumption DEF Init
  <2> QED
    BY <2>1, InitSafety
<1>2. I /\ [Next]_vars => I'
  <2>1. SafetyInv => fresh \in Nat
    BY DEF SafetyInv, TypeInv, SharedType
  <2> QED
    BY <2>1, SafetyStep, FreshBounded
<1>3. I /\ I' /\ [Next]_vars => [Abstract!Next]_(Abstract!vars)
  <2> SUFFICES ASSUME I, I', [Next]_vars PROVE Refines
    BY DEF Refines
  <2>1. CASE Next
    BY <2>1, RestoreMaps, PrepareMaps, CommitMaps, DeliverMaps, FaultMaps, StorageMaps
       DEF Next
  <2>2. CASE UNCHANGED vars
    <3>1. KeepsViews /\ UNCHANGED <<log, anchor, acked, published>>
      BY <2>2 DEF vars, owned, history, KeepsViews
    <3> QED
      BY <3>1, StutterMaps DEF Refines
  <2> QED
    BY <2>1, <2>2
<1> HIDE DEF I
<1> QED
  BY <1>1, <1>2, <1>3, InitMaps, PTL DEF Spec, RefinesAcceptedLog, Abstract!Spec
===========================================================================
