------------------------ MODULE GroupSecurity_proofs ------------------------
(***************************************************************************)
(* What GroupSecurity promises, for every number of processes, operations,  *)
(* epochs, faults and set-backs of the store: usable coordinators serve one *)
(* line, nothing they promised is lost, and together they implement the     *)
(* lineage of GroupLineage.                                                 *)
(*                                                                         *)
(* The inductive invariant GroupInv has two parts.  World says of the       *)
(* stored snapshots and of the anchor that they account for the delivery of *)
(* their records, that what is anchored was verified, and that key packages *)
(* are unique.  CoInv says of each coordinator what its operation aims at   *)
(* (CoType), that its memory is a state of the anchored line while it       *)
(* serves or writes (OnLine) and the provider in step with it (InStep),     *)
(* that what it wrote was verified first (Checked), and that it neither     *)
(* forgets nor repeats a key package (PackagesAimed).                       *)
(***************************************************************************)
EXTENDS GroupSecurity, FiniteSetTheorems, SequenceTheorems, WellFoundedInduction, TLAPS

-----------------------------------------------------------------------------
(* Chains of operations                                                     *)

\* Records are the chains of at least one and at most MaxEpoch + 1 operations.
LEMMA RecordIsSeq ==
    \A r : r \in Record <=> r \in Seq(Op) /\ Len(r) \in 1..(MaxEpoch + 1)
<1>1. MaxEpoch \in Nat
  BY GroupConstants
<1>2. ASSUME NEW r \in Record
      PROVE  r \in Seq(Op) /\ Len(r) \in 1..(MaxEpoch + 1)
  <2>1. PICK n \in 1..(MaxEpoch + 1) : r \in [1..n -> Op]
    BY DEF Record
  <2> QED
    BY <2>1, <1>1
<1>3. ASSUME NEW r \in Seq(Op), Len(r) \in 1..(MaxEpoch + 1)
      PROVE  r \in Record
  <2>1. r \in [1..Len(r) -> Op]
    BY LenProperties
  <2> QED
    BY <1>3, <2>1 DEF Record
<1> QED
  BY <1>2, <1>3

\* A chain that may be empty.
Chain == Record \cup {<< >>}

LEMMA ChainIsSeq ==
    \A r \in Chain : r \in Seq(Op) /\ Len(r) \in 0..(MaxEpoch + 1)
                     /\ (r \in Record <=> r # << >>)
<1>1. MaxEpoch \in Nat
  BY GroupConstants
<1>2. << >> \in Seq(Op) /\ Len(<< >>) = 0
  BY EmptySeq
<1>3. \A r \in Record : r \in Seq(Op) /\ Len(r) \in 0..(MaxEpoch + 1) /\ r # << >>
  BY <1>1, <1>2, RecordIsSeq
<1>4. << >> \notin Record
  BY <1>3
<1>5. \A r \in Chain : r \in Record \/ r = << >>
  BY DEF Chain
<1> HIDE DEF Chain
<1>6. ASSUME NEW r \in Chain
      PROVE  r \in Seq(Op) /\ Len(r) \in 0..(MaxEpoch + 1) /\ (r \in Record <=> r # << >>)
  <2>1. CASE r = << >>
    BY <1>1, <1>2, <1>4, <2>1
  <2>2. CASE r \in Record
    BY <1>3, <2>2
  <2> QED
    BY <1>5, <2>1, <2>2
<1> QED
  BY <1>6

\* A prefix agrees with the chain on its places.
LEMMA AncestorByPlace ==
    \A p, r \in Seq(Op) :
        IsAncestor(p, r) <=> Len(p) <= Len(r) /\ \A i \in 1..Len(p) : p[i] = r[i]
<1> SUFFICES ASSUME NEW p \in Seq(Op), NEW r \in Seq(Op), Len(p) <= Len(r)
             PROVE  SubSeq(r, 1, Len(p)) = p <=> \A i \in 1..Len(p) : p[i] = r[i]
  BY DEF IsAncestor
<1>1. /\ SubSeq(r, 1, Len(p)) \in Seq(Op)
      /\ Len(SubSeq(r, 1, Len(p))) = Len(p)
      /\ \A i \in 1..Len(p) : SubSeq(r, 1, Len(p))[i] = r[i]
  <2>1. Len(p) \in Nat /\ \A i \in 1..Len(p) : r[i] \in Op
    BY LenProperties, ElementOfSeq
  <2> QED
    BY <2>1, SubSeqProperties, SMT
<1> QED
  BY <1>1, SeqEqual

LEMMA AncestorOrder ==
    /\ \A r \in Seq(Op) : IsAncestor(r, r)
    /\ \A p, q, r \in Seq(Op) : IsAncestor(p, q) /\ IsAncestor(q, r) => IsAncestor(p, r)
    /\ \A r \in Seq(Op) : IsAncestor(r, << >>) => r = << >>
<1>1. \A r \in Seq(Op) : Len(r) \in Nat
  BY LenProperties
<1>2. \A r \in Seq(Op) : IsAncestor(r, r)
  BY <1>1, AncestorByPlace
<1>3. \A p, q, r \in Seq(Op) : IsAncestor(p, q) /\ IsAncestor(q, r) => IsAncestor(p, r)
  <2> SUFFICES ASSUME NEW p \in Seq(Op), NEW q \in Seq(Op), NEW r \in Seq(Op),
                      IsAncestor(p, q), IsAncestor(q, r)
               PROVE  IsAncestor(p, r)
    OBVIOUS
  <2>1. Len(p) \in Nat /\ Len(q) \in Nat /\ Len(r) \in Nat
    BY <1>1
  <2>2. Len(p) <= Len(q) /\ \A i \in 1..Len(p) : p[i] = q[i]
    BY AncestorByPlace
  <2>3. Len(q) <= Len(r) /\ \A i \in 1..Len(q) : q[i] = r[i]
    BY AncestorByPlace
  <2>4. Len(p) <= Len(r) /\ \A i \in 1..Len(p) : p[i] = r[i]
    BY <2>1, <2>2, <2>3
  <2> QED
    BY <2>4, AncestorByPlace
<1>4. ASSUME NEW r \in Seq(Op), IsAncestor(r, << >>)
      PROVE  r = << >>
  <2>1. << >> \in Seq(Op) /\ Len(<< >>) = 0 /\ Len(r) \in Nat
    BY EmptySeq, LenProperties
  <2>2. Len(r) = 0
    BY <1>4, <2>1 DEF IsAncestor
  <2> QED
    BY <2>1, <2>2, EmptySeq
<1> QED
  BY <1>2, <1>3, <1>4

\* A record extends what it is appended to.
LEMMA AncestorAppend ==
    \A r \in Seq(Op), x \in Op :
        /\ Append(r, x) \in Seq(Op) /\ Len(Append(r, x)) = Len(r) + 1
        /\ IsAncestor(r, Append(r, x)) /\ SubSeq(Append(r, x), 1, Len(r)) = r
<1> SUFFICES ASSUME NEW r \in Seq(Op), NEW x \in Op
             PROVE  /\ Append(r, x) \in Seq(Op) /\ Len(Append(r, x)) = Len(r) + 1
                    /\ IsAncestor(r, Append(r, x))
  BY DEF IsAncestor
<1>1. Len(r) \in Nat
  BY LenProperties
<1>2. /\ Append(r, x) \in Seq(Op) /\ Len(Append(r, x)) = Len(r) + 1
      /\ \A i \in 1..Len(r) : Append(r, x)[i] = r[i]
  BY <1>1
<1>3. ASSUME NEW q \in Seq(Op), Len(r) <= Len(q), \A i \in 1..Len(r) : q[i] = r[i]
      PROVE  IsAncestor(r, q)
  BY <1>3, AncestorByPlace
<1>4. Len(r) <= Len(Append(r, x))
  BY <1>1, <1>2
<1>5. IsAncestor(r, Append(r, x))
  BY <1>2, <1>3, <1>4, Zenon
<1> QED
  BY <1>2, <1>5, Zenon

\* The beginnings of a chain.
LEMMA BeginningIsAncestor ==
    \A r \in Seq(Op) : \A n \in 0..Len(r) :
        /\ SubSeq(r, 1, n) \in Seq(Op) /\ Len(SubSeq(r, 1, n)) = n
        /\ \A i \in 1..n : SubSeq(r, 1, n)[i] = r[i]
        /\ IsAncestor(SubSeq(r, 1, n), r)
<1> SUFFICES ASSUME NEW r \in Seq(Op), NEW n \in 0..Len(r)
             PROVE  /\ SubSeq(r, 1, n) \in Seq(Op) /\ Len(SubSeq(r, 1, n)) = n
                    /\ \A i \in 1..n : SubSeq(r, 1, n)[i] = r[i]
                    /\ IsAncestor(SubSeq(r, 1, n), r)
  OBVIOUS
<1>1. Len(r) \in Nat /\ \A i \in 1..n : r[i] \in Op
  BY LenProperties, ElementOfSeq
<1>2. /\ SubSeq(r, 1, n) \in Seq(Op) /\ Len(SubSeq(r, 1, n)) = n
      /\ \A i \in 1..n : SubSeq(r, 1, n)[i] = r[i]
  BY <1>1, SubSeqProperties, SMT
<1>3. ASSUME NEW q \in Seq(Op), Len(q) = n, \A i \in 1..n : q[i] = r[i]
      PROVE  IsAncestor(q, r)
  BY <1>1, <1>3, AncestorByPlace
<1>4. IsAncestor(SubSeq(r, 1, n), r)
  BY <1>2, <1>3, Zenon
<1> QED
  BY <1>2, <1>4, Zenon
-----------------------------------------------------------------------------
(* The inductive invariant                                                  *)

Snap(s) == s \in Snapshot /\ IsFiniteSet(s.replay)

\* Coordinators whose memory is a state of the line: usable ones, those loading it
\* or leaving it, and those writing a state that follows it.
Serving(c) == c.pc \in {"idle", "send", "import", "retire"} \/ c.op \in {"commit", "ack", "prune"}

\* Coordinators that write a next state, and operations that name a record.
Aiming(c) == c.pc \in {"persist", "confirm", "advance"}
Recording(c) == c.op \in {"commit", "boot", "join"}

\* What a coordinator that writes aims at, by the kind of its operation.
AimedAt(c) ==
    /\ c.op # "none" /\ c.want.rev = c.mem.rev + 1
    /\ c.op = "package" => c.want.head = c.mem.head /\ c.pc # "advance"
    /\ c.op # "package" => c.win \in Windows /\ c.want.head # << >>
    /\ c.op \in {"ack", "prune"} => c.want.head = c.mem.head

Recorded(c) ==
    /\ c.want.head = c.rec /\ c.rec \in Record
    /\ c.op = "commit" => \E x \in Op : c.want.head = Append(c.mem.head, x)

Aimed(c) ==
    /\ Aiming(c) => AimedAt(c)
    /\ c.pc \in {"reconcile", "undo"} => Recording(c)
    /\ (Aiming(c) \/ c.pc = "reconcile") /\ Recording(c) => Recorded(c)

CoType(c) ==
    /\ c \in Coordinator
    /\ IsFiniteSet(c.mem.replay) /\ IsFiniteSet(c.want.replay)
    /\ c.pc = "send" => c.todo # {}
    /\ Aimed(c)

\* The memory of a coordinator that serves or writes is a state of the line.
Below(s, t) == IsAncestor(s.head, t.head) /\ s.rev <= t.rev

OnLine(c, a) ==
    Serving(c) => c.mem.head # << >> /\ c.win \in Windows /\ Below(c.mem, a.snap)

\* The provider is where the memory is, or where the operation will put it.
InStep(c) ==
    /\ c.pc \in {"idle", "send", "import"} => c.op = "none"
    /\ c.pc \in {"idle", "send"} \/ c.op = "ack" => c.prov = c.mem.head
    /\ Aiming(c) /\ Recording(c) => c.prov = c.want.head

\* What is written was verified, and so what is anchored can be verified again.
Checked(c) ==
    c.pc \in {"confirm", "advance"} /\ c.op # "package" => Verifies(c.want, c.win)

Anchored(a) ==
    a.term = "active" /\ a.snap.head # << >> => \E v \in Windows : Verifies(a.snap, v)

\* Every record of a snapshot is in its outbox, accepted, or an invitation's.
Brought(r, head) == \E q \in Invited : IsAncestor(r, q) /\ IsAncestor(q, head)

Sent(s, d) ==
    \A n \in 1..Len(s.head) :
        \/ SubSeq(s.head, 1, n) \in s.outbox \cup d
        \/ Brought(SubSeq(s.head, 1, n), s.head)

\* One package per request, and those handed out are known to the store.
PackagesHeld(s, g) ==
    /\ \A k, l \in s.pend \cup s.used : k.op = l.op => k = l
    /\ g \subseteq s.pend \cup s.used
    /\ s.head = << >> => s.used = {}

PackagesAimed(c) ==
    Aiming(c) =>
        IF c.op = "package"
        THEN /\ c.mem.head = << >>
             /\ \E k \in KeyPackage : /\ c.want = putPendingKeyPackage(c.mem, k)
                                      /\ \A l \in c.mem.pend : l.op # k.op
        ELSE c.want.pend \cup c.want.used = c.mem.pend \cup c.mem.used

\* One coordinator, in view of the anchor and of what was delivered.
CoInv(c, a, d) ==
    /\ CoType(c) /\ OnLine(c, a) /\ InStep(c) /\ Checked(c) /\ PackagesAimed(c)
    /\ Sent(c.mem, d) /\ Sent(c.want, d)

\* A durable snapshot, and the anchor.
Stored(s, d) == Snap(s) /\ Fits(s) /\ Sent(s, d)

AnchorType(a) ==
    /\ a \in [snap : Snapshot, term : {"active", "forked", "removed"}]
    /\ IsFiniteSet(a.snap.replay)

AnchorInv(a, d) == AnchorType(a) /\ Anchored(a) /\ Sent(a.snap, d)

World ==
    /\ Stored(store, delivered) /\ Stored(backup, delivered)
    /\ AnchorInv(anchor, delivered)
    /\ delivered \subseteq Record /\ told \subseteq Record /\ given \subseteq KeyPackage
    /\ faults \in 0..MaxFaults /\ backups \in 0..MaxBackups
    /\ backups = 0 => PackagesHeld(store, given)

GroupInv ==
    /\ World
    /\ co \in [Owner -> Coordinator]
    /\ \A o \in Owner : CoInv(co[o], anchor, delivered)

-----------------------------------------------------------------------------
(* Snapshots                                                                *)

\* A snapshot with these parts.
Made(t, rev, head, replay, outbox, pend, used) ==
    /\ t \in Snapshot
    /\ t.rev = rev /\ t.head = head /\ t.replay = replay /\ t.outbox = outbox
    /\ t.pend = pend /\ t.used = used

\* What each operation of a transaction makes of a snapshot.
LEMMA HeadSet ==
    ASSUME NEW s \in Snapshot, NEW r \in Record
    PROVE  Made(setEncryptedState(s, r), s.rev + 1, r, s.replay, s.outbox,
                s.pend, s.used)
<1>1. s.rev + 1 \in Nat
  BY DEF Snapshot
<1> QED
  BY <1>1 DEF setEncryptedState, Snapshot, Made

LEMMA ReplayMarked ==
    ASSUME NEW s \in Snapshot, NEW R \in SUBSET Record
    PROVE  Made(markReplay(s, R), s.rev, s.head, s.replay \cup R, s.outbox,
                s.pend, s.used)
<1> QED
  BY DEF markReplay, Snapshot, Made

LEMMA OutboxEnqueued ==
    ASSUME NEW s \in Snapshot, NEW r \in Record
    PROVE  Made(enqueueOutbox(s, r), s.rev, s.head, s.replay, s.outbox \cup {r},
                s.pend, s.used)
<1> QED
  BY DEF enqueueOutbox, Snapshot, Made

LEMMA OutboxRemoved ==
    ASSUME NEW s \in Snapshot, NEW r
    PROVE  Made(removeOutbox(s, r), s.rev + 1, s.head, s.replay, s.outbox \ {r},
                s.pend, s.used)
<1>1. s.rev + 1 \in Nat
  BY DEF Snapshot
<1> QED
  BY <1>1 DEF removeOutbox, Snapshot, Made

LEMMA PackagePut ==
    ASSUME NEW s \in Snapshot, NEW k \in KeyPackage
    PROVE  Made(putPendingKeyPackage(s, k), s.rev + 1, s.head, s.replay, s.outbox,
                s.pend \cup {k}, s.used)
<1>1. s.rev + 1 \in Nat
  BY DEF Snapshot
<1> QED
  BY <1>1 DEF putPendingKeyPackage, Snapshot, Made

LEMMA PackageConsumed ==
    ASSUME NEW s \in Snapshot, NEW k \in KeyPackage
    PROVE  Made(consumePendingKeyPackage(s, k), s.rev, s.head, s.replay, s.outbox,
                s.pend \ {k}, s.used \cup {k})
<1> QED
  BY DEF consumePendingKeyPackage, Snapshot, Made

LEMMA ForkMarked ==
    ASSUME NEW s \in Snapshot
    PROVE  Made(markFork(s), s.rev + 1, s.head, s.replay, s.outbox,
                s.pend, s.used)
<1>1. s.rev + 1 \in Nat
  BY DEF Snapshot
<1> QED
  BY <1>1 DEF markFork, Snapshot, Made

\* Pruning touches the replay records only, and adds none.
LEMMA PrunedSnap ==
    ASSUME NEW s, Snap(s), NEW w
    PROVE  /\ Snap(Pruned(s, w))
           /\ Made(Pruned(s, w), s.rev, s.head, Pruned(s, w).replay, s.outbox, s.pend, s.used)
           /\ Pruned(s, w).replay =
                {r \in s.replay : ~ShouldPrune(r, s.outbox, Epoch(s.head), w)}
<1> DEFINE kept == {r \in s.replay : ~ShouldPrune(r, s.outbox, Epoch(s.head), w)}
<1>1. s \in Snapshot
  BY DEF Snap
<1>2. kept \subseteq s.replay /\ IsFiniteSet(kept)
  BY FS_Subset DEF Snap
<1>3. Pruned(s, w) = [s EXCEPT !.replay = kept]
  BY DEF Pruned
<1> HIDE DEF kept
<1>4. Pruned(s, w).replay = kept
  BY <1>1, <1>3 DEF Snapshot
<1>5. Snap(Pruned(s, w)) /\ Made(Pruned(s, w), s.rev, s.head, kept, s.outbox, s.pend, s.used)
  BY <1>1, <1>2, <1>3 DEF Snap, Snapshot, Made
<1> QED
  BY <1>4, <1>5 DEF kept

\* What the transactions aim at, the retained records left open.
Aim(t, rev, head, outbox, pend, used) ==
    Snap(t) /\ Made(t, rev, head, t.replay, outbox, pend, used)

LEMMA FoundedSnap ==
    ASSUME NEW s, Snap(s), NEW r \in Record
    PROVE  /\ Aim(Founded(s, r), s.rev + 1, r, s.outbox \cup {r}, s.pend, s.used)
           /\ Founded(s, r).replay = s.replay \cup {r}
<1> DEFINE a == setEncryptedState(s, r)
<1> DEFINE b == markReplay(a, {r})
<1> DEFINE c == enqueueOutbox(b, r)
<1>1. s \in Snapshot /\ IsFiniteSet(s.replay \cup {r})
  BY FS_AddElement DEF Snap
<1>2. Made(a, s.rev + 1, r, s.replay, s.outbox, s.pend, s.used)
  BY <1>1, HeadSet
<1> HIDE DEF a
<1>3. Made(b, s.rev + 1, r, s.replay \cup {r}, s.outbox, s.pend, s.used)
  BY <1>2, ReplayMarked DEF Made
<1> HIDE DEF b
<1>4. Made(c, s.rev + 1, r, s.replay \cup {r}, s.outbox \cup {r}, s.pend, s.used)
  BY <1>3, OutboxEnqueued DEF Made
<1>5. Founded(s, r) = c
  BY DEF Founded, a, b
<1> HIDE DEF c
<1> QED
  BY <1>1, <1>4, <1>5 DEF Aim, Snap, Made

LEMMA ExtendedSnap ==
    ASSUME NEW s, Snap(s), NEW r \in Record, NEW w
    PROVE  Aim(Extended(s, r, w), s.rev + 1, r, s.outbox \cup {r}, s.pend, s.used)
<1>1. Extended(s, r, w) = Pruned(Founded(s, r), w)
  BY DEF Extended, Founded
<1> QED
  BY <1>1, FoundedSnap, PrunedSnap DEF Aim, Made

LEMMA AcknowledgedSnap ==
    ASSUME NEW s, Snap(s), NEW r, NEW w
    PROVE  Aim(Acknowledged(s, r, w), s.rev + 1, s.head, s.outbox \ {r}, s.pend, s.used)
<1> DEFINE u == removeOutbox(s, r)
<1>1. Made(u, s.rev + 1, s.head, s.replay, s.outbox \ {r}, s.pend, s.used)
  BY OutboxRemoved DEF Snap
<1>2. Acknowledged(s, r, w) = Pruned(u, w)
  BY DEF Acknowledged
<1> HIDE DEF u
<1>3. Snap(u)
  BY <1>1 DEF Snap, Made
<1> QED
  BY <1>1, <1>2, <1>3, PrunedSnap DEF Aim, Made

LEMMA CompactedSnap ==
    ASSUME NEW s, Snap(s), NEW w
    PROVE  Aim(Compacted(s, w), s.rev + 1, s.head, s.outbox, s.pend, s.used)
<1> DEFINE u == [s EXCEPT !.rev = @ + 1]
<1>1. s.rev + 1 \in Nat
  BY DEF Snap, Snapshot
<1>2. Made(u, s.rev + 1, s.head, s.replay, s.outbox, s.pend, s.used)
  BY <1>1 DEF Snap, Snapshot, Made
<1>3. Compacted(s, w) = Pruned(u, w)
  BY DEF Compacted
<1> HIDE DEF u
<1>4. Snap(u)
  BY <1>2 DEF Snap, Made
<1> QED
  BY <1>2, <1>3, <1>4, PrunedSnap DEF Aim, Made

LEMMA PackagedSnap ==
    ASSUME NEW s, Snap(s), NEW k \in KeyPackage
    PROVE  Aim(putPendingKeyPackage(s, k), s.rev + 1, s.head, s.outbox, s.pend \cup {k}, s.used)
<1> QED
  BY PackagePut DEF Aim, Snap, Made

\* The beginnings of a record are finitely many records.
LEMMA PrefixesFinite ==
    ASSUME NEW r \in Record
    PROVE  Prefixes(r) \subseteq Record /\ IsFiniteSet(Prefixes(r))
<1>1. r \in Seq(Op) /\ Len(r) \in 1..(MaxEpoch + 1) /\ MaxEpoch \in Nat
  BY RecordIsSeq, GroupConstants
<1>2. ASSUME NEW n \in 1..Len(r)
      PROVE  SubSeq(r, 1, n) \in Record
  <2>1. n \in 0..Len(r) /\ n \in 1..(MaxEpoch + 1)
    BY <1>1
  <2>2. SubSeq(r, 1, n) \in Seq(Op) /\ Len(SubSeq(r, 1, n)) = n
    BY <1>1, <2>1, BeginningIsAncestor
  <2> QED
    BY <2>1, <2>2, RecordIsSeq
<1>3. IsFiniteSet(1..Len(r))
  BY <1>1, FS_Interval
<1> DEFINE f == [n \in 1..Len(r) |-> SubSeq(r, 1, n)]
<1>4. f \in Surjection(1..Len(r), Prefixes(r))
  BY Zenon DEF Surjection, Prefixes
<1>5. IsFiniteSet(Prefixes(r))
  BY <1>3, <1>4, FS_Surjection
<1> QED
  BY <1>2, <1>5 DEF Prefixes

LEMMA JoinedSnap ==
    ASSUME NEW s, Snap(s), NEW r \in Record, NEW k \in KeyPackage, NEW w
    PROVE  Aim(Joined(s, r, k, w), s.rev + 1, r, s.outbox, s.pend \ {k}, s.used \cup {k})
<1> DEFINE a == setEncryptedState(s, r)
<1> DEFINE b == consumePendingKeyPackage(a, k)
<1> DEFINE c == markReplay(b, Prefixes(r))
<1>1. Prefixes(r) \subseteq Record /\ IsFiniteSet(s.replay \cup Prefixes(r))
  BY PrefixesFinite, FS_Union DEF Snap
<1>2. Made(a, s.rev + 1, r, s.replay, s.outbox, s.pend, s.used)
  BY HeadSet DEF Snap
<1> HIDE DEF a
<1>3. Made(b, s.rev + 1, r, s.replay, s.outbox, s.pend \ {k}, s.used \cup {k})
  BY <1>2, PackageConsumed DEF Made
<1> HIDE DEF b
<1>4. Made(c, s.rev + 1, r, s.replay \cup Prefixes(r), s.outbox, s.pend \ {k}, s.used \cup {k})
  BY <1>1, <1>3, ReplayMarked DEF Made
<1>5. Joined(s, r, k, w) = Pruned(c, w)
  BY DEF Joined, a, b
<1> HIDE DEF c
<1>6. Snap(c)
  BY <1>1, <1>4 DEF Snap, Made
<1> QED
  BY <1>4, <1>5, <1>6, PrunedSnap DEF Aim, Made

LEMMA ForkedSnap ==
    ASSUME NEW s, Snap(s)
    PROVE  /\ Aim(markFork(s), s.rev + 1, s.head, s.outbox, s.pend, s.used)
           /\ Fits(s) => Fits(markFork(s))
<1>1. Made(markFork(s), s.rev + 1, s.head, s.replay, s.outbox, s.pend, s.used)
  BY ForkMarked DEF Snap
<1> QED
  BY <1>1 DEF Aim, Snap, Made, Fits

LEMMA NoSnapshotSnap == Snap(NoSnapshot) /\ Fits(NoSnapshot)
<1>1. {MaxOutbox, MaxReplay} \subseteq Nat
  BY GroupConstants
<1>2. IsFiniteSet({}) /\ Cardinality({}) = 0
  BY FS_EmptySet
<1> QED
  BY <1>1, <1>2 DEF NoSnapshot, Snap, Snapshot, Fits

-----------------------------------------------------------------------------
(* The anchored line                                                        *)

\* What the anchor says of the line is never taken back.
Grows(a, b) == a.snap.head # << >> => Below(a.snap, b.snap)

LEMMA HeadsTyped ==
    ASSUME NEW s \in Snapshot
    PROVE  s.head \in Seq(Op) /\ (s.head \in Record <=> s.head # << >>) /\ s.rev \in Nat
<1>1. s.head \in Chain /\ s.rev \in Nat
  BY DEF Snapshot, Chain
<1> QED
  BY <1>1, ChainIsSeq

LEMMA BelowOrder ==
    /\ \A s \in Snapshot : Below(s, s)
    /\ \A s, t, u \in Snapshot : Below(s, t) /\ Below(t, u) => Below(s, u)
    /\ \A s, t \in Snapshot : Below(s, t) /\ s.head # << >> => t.head # << >>
<1>1. \A s \in Snapshot : s.head \in Seq(Op) /\ s.rev \in Nat
  BY HeadsTyped
<1>2. \A s \in Snapshot : Below(s, s)
  BY <1>1, AncestorOrder DEF Below
<1>3. ASSUME NEW s \in Snapshot, NEW t \in Snapshot, NEW u \in Snapshot,
             Below(s, t), Below(t, u)
      PROVE  Below(s, u)
  <2>1. s.rev <= u.rev
    BY <1>1, <1>3 DEF Below
  <2>2. IsAncestor(s.head, u.head)
    BY <1>1, <1>3, AncestorOrder DEF Below
  <2> QED
    BY <2>1, <2>2 DEF Below
<1>4. ASSUME NEW s \in Snapshot, NEW t \in Snapshot, Below(s, t), s.head # << >>
      PROVE  t.head # << >>
  <2>1. s.head \in Seq(Op) /\ IsAncestor(s.head, t.head)
    BY <1>1, <1>4 DEF Below
  <2> QED
    BY <2>1, <1>4, AncestorOrder
<1> QED
  BY <1>2, <1>3, <1>4

\* The other coordinators: the line grows and deliveries are kept.
LEMMA OthersKept ==
    ASSUME NEW a, NEW b, AnchorType(a), AnchorType(b), Grows(a, b),
           NEW d, NEW e, d \subseteq e, NEW c, CoInv(c, a, d)
    PROVE  CoInv(c, b, e)
<1>1. c.mem \in Snapshot /\ a.snap \in Snapshot /\ b.snap \in Snapshot
  BY DEF CoInv, CoType, Coordinator, AnchorType
<1>2. OnLine(c, b)
  <2> SUFFICES ASSUME Serving(c)
               PROVE  c.mem.head # << >> /\ c.win \in Windows /\ Below(c.mem, b.snap)
    BY DEF OnLine
  <2>1. c.mem.head # << >> /\ c.win \in Windows /\ Below(c.mem, a.snap)
    BY DEF CoInv, OnLine
  <2>2. a.snap.head # << >>
    BY <1>1, <2>1, BelowOrder
  <2>3. Below(a.snap, b.snap)
    BY <2>2 DEF Grows
  <2> QED
    BY <1>1, <2>1, <2>3, BelowOrder
<1>3. Sent(c.mem, e) /\ Sent(c.want, e)
  BY DEF CoInv, Sent
<1> QED
  BY <1>2, <1>3 DEF CoInv

\* What a step of coordinator o has to show.
LEMMA StepOf ==
    ASSUME GroupInv, NEW o \in Owner, NEW c, Become(o, c), World',
           CoInv(c, anchor', delivered'),
           Grows(anchor, anchor'), delivered \subseteq delivered'
    PROVE  GroupInv'
<1>1. c \in Coordinator /\ co \in [Owner -> Coordinator]
  BY DEF CoInv, CoType, GroupInv
<1>2. co' = [co EXCEPT ![o] = c]
  BY DEF Become
<1>3. co' \in [Owner -> Coordinator]
  BY <1>1, <1>2
<1>4. ASSUME NEW q \in Owner
      PROVE  CoInv(co'[q], anchor', delivered')
  <2>1. CASE q = o
    <3>1. co'[q] = c
      BY <1>1, <1>2, <2>1
    <3> QED
      BY <3>1
  <2>2. CASE q # o
    <3>1. co'[q] = co[q] /\ CoInv(co[q], anchor, delivered)
      BY <1>1, <1>2, <2>2 DEF GroupInv
    <3>2. AnchorType(anchor) /\ AnchorType(anchor')
      BY DEF GroupInv, World, AnchorInv
    <3> HIDE DEF GroupInv
    <3>3. CoInv(co[q], anchor', delivered')
      BY <3>1, <3>2, OthersKept
    <3> QED
      BY <3>1, <3>3
  <2> QED
    BY <2>1, <2>2
<1> QED
  BY <1>3, <1>4 DEF GroupInv

\* A step that touches nothing but the coordinator.
Faulty == Fault \/ NoFault

LEMMA QuietStep ==
    ASSUME GroupInv, NEW o \in Owner, NEW c, Become(o, c), Faulty,
           CoInv(c, anchor, delivered), UNCHANGED <<store, anchor, External>>
    PROVE  GroupInv'
<1>1. /\ store' = store /\ anchor' = anchor /\ delivered' = delivered /\ told' = told
      /\ given' = given /\ backup' = backup /\ backups' = backups
  BY DEF External
<1>2. faults' \in 0..MaxFaults
  <2>1. faults \in 0..MaxFaults /\ MaxFaults \in Nat
    BY GroupConstants DEF GroupInv, World
  <2> QED
    BY <2>1 DEF Faulty, Fault, NoFault
<1>3. World'
  BY <1>1, <1>2 DEF GroupInv, World
<1>4. Grows(anchor, anchor')
  BY <1>1, BelowOrder DEF Grows, GroupInv, World, AnchorInv, AnchorType
<1>5. CoInv(c, anchor', delivered') /\ delivered \subseteq delivered'
  BY <1>1
<1> QED
  BY <1>3, <1>4, <1>5, StepOf

-----------------------------------------------------------------------------
(* Coordinators                                                             *)

LEMMA OffInv ==
    ASSUME NEW retired \in BOOLEAN, NEW prov \in Chain, NEW a, NEW d
    PROVE  CoInv(Off(retired, prov), a, d)
<1> DEFINE c == Off(retired, prov)
<1>1. /\ c.pc = "off" /\ c.op = "none" /\ c.mem = NoSnapshot /\ c.want = NoSnapshot
      /\ c \in Coordinator
  BY NoSnapshotSnap DEF Off, Coordinator, Chain, Snap
<1>2. NoSnapshot.head = << >> /\ Len(<< >>) = 0
  BY EmptySeq DEF NoSnapshot
<1> HIDE DEF c
<1>3. CoType(c)
  BY <1>1, NoSnapshotSnap DEF CoType, Aimed, Aiming, Snap
<1>4. OnLine(c, a) /\ InStep(c) /\ Checked(c) /\ PackagesAimed(c)
  BY <1>1 DEF OnLine, Serving, InStep, Aiming, Checked, PackagesAimed
<1>5. Sent(NoSnapshot, d)
  BY <1>2 DEF Sent
<1>6. CoInv(c, a, d)
  BY <1>1, <1>3, <1>4, <1>5 DEF CoInv
<1> QED
  BY <1>6 DEF c

\* A coordinator that goes on with the memory and the aim it has.
Moves(me, c) ==
    /\ c \in Coordinator
    /\ c.mem = me.mem /\ c.want = me.want /\ c.win = me.win
    /\ c.rec = me.rec \/ c.pc = "retire"
    /\ c.op \in {me.op, "none"}
    /\ c.pc = "retire" => Serving(me)
    /\ c.pc \in {"idle", "send"} =>
        Serving(me) /\ c.op = "none" /\ c.prov = c.mem.head
    /\ c.pc # "import"
    /\ c.pc = "send" => c.todo # {}
    /\ Aiming(c) => /\ Aiming(me) /\ c.op = me.op /\ c.prov = me.prov
                    /\ c.op = "package" => c.pc # "advance"
    /\ c.pc \in {"confirm", "advance"} /\ c.op # "package" => Verifies(c.want, c.win)
    /\ c.pc \in {"reconcile", "undo"} => Recording(c)
    /\ c.pc = "reconcile" => Aiming(me) \/ me.pc = "reconcile"
    /\ c.op = "ack" => c.prov = me.prov

LEMMA MoveInv ==
    ASSUME NEW me, NEW a, NEW d, CoInv(me, a, d), NEW c, Moves(me, c)
    PROVE  CoInv(c, a, d)
<1>1. CoType(c)
  <2>1. CoType(me)
    BY DEF CoInv
  <2>2. Aimed(c)
    <3>1. Aiming(c) => AimedAt(c)
      BY <2>1 DEF CoType, Aimed, AimedAt, Moves
    <3>2. (Aiming(c) \/ c.pc = "reconcile") /\ Recording(c) => Recorded(c)
      BY <2>1 DEF CoType, Aimed, Aiming, Recorded, Recording, Moves
    <3> QED
      BY <3>1, <3>2 DEF Aimed, Moves
  <2> QED
    BY <2>1, <2>2 DEF CoType, Moves
<1>2. OnLine(c, a)
  BY DEF CoInv, OnLine, Serving, Moves
<1>3. InStep(c)
  BY DEF CoInv, InStep, Recording, Moves
<1>4. Checked(c)
  BY DEF Checked, Moves
<1>5. PackagesAimed(c)
  BY DEF CoInv, PackagesAimed, Moves
<1>6. Sent(c.mem, d) /\ Sent(c.want, d)
  BY DEF CoInv, Moves
<1> QED
  BY <1>1, <1>2, <1>3, <1>4, <1>5, <1>6 DEF CoInv

\* A coordinator that sets out to write.
Starts(c, a, d) ==
    /\ c \in Coordinator /\ Snap(c.mem) /\ Snap(c.want)
    /\ c.pc = "persist" /\ AimedAt(c) /\ (Recording(c) => Recorded(c))
    /\ c.op \in {"commit", "ack", "prune"} =>
        c.mem.head # << >> /\ c.win \in Windows /\ Below(c.mem, a.snap)
    /\ c.op = "ack" => c.prov = c.mem.head
    /\ Recording(c) => c.prov = c.want.head
    /\ PackagesAimed(c)
    /\ Sent(c.mem, d) /\ Sent(c.want, d)

LEMMA StartInv ==
    ASSUME NEW a, NEW d, NEW c, Starts(c, a, d)
    PROVE  CoInv(c, a, d)
<1>1. CoType(c)
  BY DEF Starts, CoType, Aimed, Aiming, Snap
<1>2. OnLine(c, a) /\ InStep(c) /\ Checked(c)
  BY DEF Starts, OnLine, Serving, InStep, Aiming, Checked
<1> QED
  BY <1>1, <1>2 DEF Starts, CoInv

\* Deliveries of a head that did not change, and of one that grew by a record.
LEMMA SentKept ==
    ASSUME NEW s, NEW t, NEW d, NEW e, Sent(s, d), t.head = s.head,
           s.outbox \cup d \subseteq t.outbox \cup e
    PROVE  Sent(t, e)
<1> QED
  BY DEF Sent

LEMMA SentExtended ==
    ASSUME NEW s \in Snapshot, NEW t, NEW d, NEW x \in Op, Sent(s, d),
           t.head = Append(s.head, x), t.outbox = s.outbox \cup {t.head}
    PROVE  Sent(t, d)
<1>1. s.head \in Seq(Op) /\ Len(s.head) \in Nat
  BY HeadsTyped, LenProperties
<1> DEFINE h == s.head  g == t.head
<1>2. /\ g \in Seq(Op) /\ Len(g) = Len(h) + 1 /\ IsAncestor(h, g)
      /\ SubSeq(g, 1, Len(h)) = h
  BY <1>1, AncestorAppend
<1>3. ASSUME NEW n \in 1..Len(g)
      PROVE  \/ SubSeq(g, 1, n) \in t.outbox \cup d
             \/ Brought(SubSeq(g, 1, n), g)
  <2>1. CASE n = Len(g)
    <3>1. SubSeq(g, 1, n) = g
      BY <1>2, <2>1, SubSeqFull
    <3> QED
      BY <3>1
  <2>2. CASE n # Len(g)
    <3>1. n \in 1..Len(h) /\ n \in 0..Len(g) /\ n \in 0..Len(h)
      BY <1>1, <1>2, <2>2
    <3>2. SubSeq(g, 1, n) = SubSeq(h, 1, n)
      <4>1. /\ SubSeq(g, 1, n) \in Seq(Op) /\ Len(SubSeq(g, 1, n)) = n
            /\ \A i \in 1..n : SubSeq(g, 1, n)[i] = g[i]
        BY <1>2, <3>1, BeginningIsAncestor
      <4>2. /\ SubSeq(h, 1, n) \in Seq(Op) /\ Len(SubSeq(h, 1, n)) = n
            /\ \A i \in 1..n : SubSeq(h, 1, n)[i] = h[i]
        BY <1>1, <3>1, BeginningIsAncestor
      <4>3. \A i \in 1..n : g[i] = h[i]
        <5>1. \A i \in 1..Len(h) : h[i] = g[i]
          BY <1>1, <1>2, AncestorByPlace
        <5> QED
          BY <5>1, <3>1, <1>1
      <4> QED
        BY <4>1, <4>2, <4>3, SeqEqual
    <3>3. SubSeq(h, 1, n) \in s.outbox \cup d \/ Brought(SubSeq(h, 1, n), h)
      BY <3>1 DEF Sent
    <3>4. CASE SubSeq(h, 1, n) \in s.outbox \cup d
      BY <3>2, <3>4
    <3>5. CASE Brought(SubSeq(h, 1, n), h)
      <4>1. PICK q \in Invited : IsAncestor(SubSeq(h, 1, n), q) /\ IsAncestor(q, h)
        BY <3>5 DEF Brought
      <4>2. q \in Seq(Op)
        BY RecordIsSeq DEF Invited
      <4>3. IsAncestor(q, g)
        BY <1>1, <1>2, <4>1, <4>2, AncestorOrder
      <4> QED
        BY <3>2, <4>1, <4>3 DEF Brought
    <3> QED
      BY <3>3, <3>4, <3>5
  <2> QED
    BY <2>1, <2>2
<1> QED
  BY <1>3 DEF Sent

LEMMA FirstRecord ==
    ASSUME NEW x \in Op
    PROVE  /\ <<x>> \in Record /\ <<x>> # << >> /\ Len(<<x>>) = 1
           /\ \A n \in 1..1 : SubSeq(<<x>>, 1, n) = <<x>>
<1>1. <<x>> \in Seq(Op) /\ Len(<<x>>) = 1
  OBVIOUS
<1>2. <<x>> \in Record
  <2>1. MaxEpoch \in Nat /\ 1 \in 1..(MaxEpoch + 1)
    BY GroupConstants
  <2>2. Len(<<x>>) \in 1..(MaxEpoch + 1)
    BY <1>1, <2>1
  <2> QED
    BY <1>1, <2>2, RecordIsSeq
<1>3. SubSeq(<<x>>, 1, Len(<<x>>)) = <<x>>
  BY <1>1, SubSeqFull
<1> QED
  BY <1>1, <1>2, <1>3

\* A record that may follow the head.
LEMMA NextRecord ==
    ASSUME NEW s \in Snapshot, NEW x \in Op, Epoch(s.head) < MaxEpoch
    PROVE  Append(s.head, x) \in Record
<1>1. s.head \in Seq(Op) /\ Len(s.head) \in Nat /\ MaxEpoch \in Nat
  BY HeadsTyped, LenProperties, GroupConstants
<1>2. Append(s.head, x) \in Seq(Op) /\ Len(Append(s.head, x)) = Len(s.head) + 1
  BY <1>1, AncestorAppend
<1>3. Len(Append(s.head, x)) \in 1..(MaxEpoch + 1)
  BY <1>1, <1>2 DEF Epoch
<1> QED
  BY <1>2, <1>3, RecordIsSeq

LEMMA WindowsAreNat == Windows \subseteq Nat \ {0}
  BY GroupConstants

-----------------------------------------------------------------------------
(* The steps that set out to write                                          *)

\* What GroupInv says of one coordinator and of the stored snapshots.
LEMMA OneCoordinator ==
    ASSUME GroupInv, NEW o \in Owner
    PROVE  /\ CoInv(co[o], anchor, delivered) /\ CoType(co[o]) /\ co[o] \in Coordinator
           /\ Snap(co[o].mem) /\ Snap(co[o].want)
           /\ Stored(store, delivered) /\ Snap(store)
           /\ AnchorInv(anchor, delivered) /\ AnchorType(anchor)
           /\ anchor.snap \in Snapshot
<1> QED
  BY DEF GroupInv, World, CoInv, CoType, Coordinator, Snap, Stored, AnchorInv, AnchorType

LEMMA CreatePackageStep ==
    ASSUME GroupInv, NEW o \in Owner, NEW p \in Package, CreatePackage(o, p)
    PROVE  GroupInv'
<1> DEFINE me == co[o]
           k == [op |-> p, by |-> o]
           c == [me EXCEPT !.pc = "persist", !.op = "package", !.mem = store,
                           !.want = putPendingKeyPackage(store, k)]
<1>1. me \in Coordinator /\ Snap(store) /\ Stored(store, delivered)
  BY OneCoordinator
<1>2. k \in KeyPackage
  BY DEF KeyPackage
<1>3. Aim(putPendingKeyPackage(store, k), store.rev + 1, store.head, store.outbox,
          store.pend \cup {k}, store.used)
  BY <1>1, <1>2, PackagedSnap
<1>4. store.head = << >> /\ \A l \in store.pend : l.op # k.op
  BY DEF CreatePackage, Fresh
<1>5. Sent(store, delivered) /\ Sent(putPendingKeyPackage(store, k), delivered)
  BY <1>1, <1>3, SentKept DEF Stored, Aim, Made
<1>6. Become(o, c) /\ NoFault /\ UNCHANGED <<store, anchor, External>>
  BY DEF CreatePackage
<1>7. /\ c \in Coordinator /\ c.pc = "persist" /\ c.op = "package"
      /\ c.mem = store /\ c.want = putPendingKeyPackage(store, k)
  BY <1>1, <1>3 DEF Coordinator, Snap, Aim, First
<1> HIDE DEF c, k
<1>8. AimedAt(c)
  BY <1>3, <1>7 DEF AimedAt, Aim, Made
<1>9. PackagesAimed(c)
  BY <1>2, <1>4, <1>7 DEF PackagesAimed
<1>10. Starts(c, anchor, delivered)
  BY <1>1, <1>3, <1>5, <1>7, <1>8, <1>9 DEF Starts, Recording, Aim
<1> QED
  BY <1>6, <1>10, StartInv, QuietStep DEF Faulty

LEMMA BootstrapStep ==
    ASSUME GroupInv, NEW o \in Owner, NEW x \in Op, NEW w \in Windows, Bootstrap(o, x, w)
    PROVE  GroupInv'
<1> DEFINE me == co[o]
           want == Founded(store, <<x>>)
           c == [me EXCEPT !.pc = "persist", !.op = "boot", !.rec = <<x>>, !.prov = <<x>>,
                           !.mem = store, !.win = w, !.want = want]
<1>1. me \in Coordinator /\ Snap(store) /\ Stored(store, delivered)
  BY OneCoordinator
<1>2. /\ <<x>> \in Record /\ <<x>> # << >> /\ Len(<<x>>) = 1
      /\ \A n \in 1..1 : SubSeq(<<x>>, 1, n) = <<x>>
  BY FirstRecord
<1>3. Aim(want, store.rev + 1, <<x>>, store.outbox \cup {<<x>>}, store.pend, store.used)
  BY <1>1, <1>2, FoundedSnap
<1>4. Sent(store, delivered) /\ Sent(want, delivered)
  BY <1>1, <1>2, <1>3 DEF Stored, Aim, Made, Sent
<1>5. Become(o, c) /\ NoFault /\ UNCHANGED <<store, anchor, External>>
  BY DEF Bootstrap
<1> HIDE DEF want
<1>6. /\ c \in Coordinator /\ c.pc = "persist" /\ c.op = "boot" /\ c.rec = <<x>>
      /\ c.prov = <<x>> /\ c.mem = store /\ c.win = w /\ c.want = want
  BY <1>1, <1>2, <1>3, WindowsAreNat DEF Coordinator, Snap, Aim, First
<1> HIDE DEF c
<1>7. AimedAt(c) /\ Recorded(c)
  BY <1>2, <1>3, <1>6 DEF AimedAt, Recorded, Aim, Made
<1>8. PackagesAimed(c)
  BY <1>3, <1>6 DEF PackagesAimed, Aim, Made
<1>9. Starts(c, anchor, delivered)
  BY <1>1, <1>3, <1>4, <1>6, <1>7, <1>8 DEF Starts, Aim, Made
<1> QED
  BY <1>5, <1>9, StartInv, QuietStep DEF Faulty

LEMMA JoinStep ==
    ASSUME GroupInv, NEW o \in Owner, NEW r \in Invited, NEW k \in store.pend,
           NEW w \in Windows, Join(o, r, k, w)
    PROVE  GroupInv'
<1> DEFINE me == co[o]
           want == Joined(store, r, k, w)
           c == [me EXCEPT !.pc = "persist", !.op = "join", !.rec = r, !.prov = r,
                           !.mem = store, !.win = w, !.want = want]
<1>1. me \in Coordinator /\ Snap(store) /\ Stored(store, delivered)
  BY OneCoordinator
<1>2. r \in Record /\ r \in Seq(Op) /\ k \in KeyPackage
  BY <1>1, RecordIsSeq DEF Invited, Snap, Snapshot
<1>3. Aim(want, store.rev + 1, r, store.outbox, store.pend \ {k}, store.used \cup {k})
  BY <1>1, <1>2, JoinedSnap
<1>4. Sent(store, delivered) /\ Sent(want, delivered)
  <2>1. ASSUME NEW n \in 1..Len(r)
        PROVE  Brought(SubSeq(r, 1, n), r)
    <3>1. n \in 0..Len(r)
      BY <1>2, LenProperties
    <3>2. IsAncestor(SubSeq(r, 1, n), r) /\ IsAncestor(r, r)
      BY <1>2, <3>1, BeginningIsAncestor, AncestorOrder
    <3> QED
      BY <3>2 DEF Brought
  <2> QED
    BY <1>1, <1>3, <2>1 DEF Stored, Aim, Made, Sent
<1>5. Become(o, c) /\ NoFault /\ UNCHANGED <<store, anchor, External>>
  BY DEF Join
<1> HIDE DEF want
<1>6. /\ c \in Coordinator /\ c.pc = "persist" /\ c.op = "join" /\ c.rec = r
      /\ c.prov = r /\ c.mem = store /\ c.win = w /\ c.want = want
  BY <1>1, <1>2, <1>3, WindowsAreNat DEF Coordinator, Snap, Aim, First
<1> HIDE DEF c
<1>7. AimedAt(c) /\ Recorded(c)
  <2>1. r # << >>
    BY <1>2, ChainIsSeq DEF Chain
  <2> QED
    BY <1>2, <1>3, <1>6, <2>1 DEF AimedAt, Recorded, Aim, Made
<1>8. PackagesAimed(c)
  BY <1>3, <1>6 DEF PackagesAimed, Aim, Made
<1>9. Starts(c, anchor, delivered)
  BY <1>1, <1>3, <1>4, <1>6, <1>7, <1>8 DEF Starts, Aim, Made
<1> QED
  BY <1>5, <1>9, StartInv, QuietStep DEF Faulty

LEMMA PrepareStep ==
    ASSUME GroupInv, NEW o \in Owner, NEW x \in Op, Prepare(o, x)
    PROVE  GroupInv'
<1> DEFINE me == co[o]
           r == Append(me.mem.head, x)
           want == Extended(me.mem, r, me.win)
           c == [me EXCEPT !.pc = "persist", !.op = "commit", !.rec = r, !.prov = r,
                           !.want = want]
<1>1. /\ CoInv(me, anchor, delivered) /\ me \in Coordinator /\ Snap(me.mem)
  BY OneCoordinator
<1>2. me.pc = "idle" /\ Epoch(me.mem.head) < MaxEpoch
  BY DEF Prepare
<1>3. r \in Record
  BY <1>1, <1>2, NextRecord DEF Snap
<1>4. Aim(want, me.mem.rev + 1, r, me.mem.outbox \cup {r}, me.mem.pend, me.mem.used)
  BY <1>1, <1>3, ExtendedSnap
<1>5. Sent(me.mem, delivered) /\ Sent(want, delivered)
  <2>1. me.mem \in Snapshot /\ Sent(me.mem, delivered)
    BY <1>1 DEF CoInv, Snap
  <2>2. want.head = Append(me.mem.head, x) /\ want.outbox = me.mem.outbox \cup {want.head}
    BY <1>4 DEF Aim, Made
  <2> HIDE DEF me, want
  <2> QED
    BY <2>1, <2>2, SentExtended
<1>6. Become(o, c) /\ NoFault /\ UNCHANGED <<store, anchor, External>>
  BY DEF Prepare
<1>7. me.mem.head # << >> /\ me.win \in Windows /\ Below(me.mem, anchor.snap)
  BY <1>1, <1>2 DEF CoInv, OnLine, Serving
<1> HIDE DEF want
<1>8. /\ c \in Coordinator /\ c.pc = "persist" /\ c.op = "commit" /\ c.rec = r
      /\ c.prov = r /\ c.mem = me.mem /\ c.win = me.win /\ c.want = want
  BY <1>1, <1>3, <1>4 DEF Coordinator, Snap, Aim, First
<1>9. r # << >> /\ \E y \in Op : r = Append(me.mem.head, y)
  BY <1>3, ChainIsSeq DEF Chain
<1> HIDE DEF c, r
<1>10. AimedAt(c) /\ Recorded(c)
  BY <1>3, <1>4, <1>7, <1>8, <1>9 DEF AimedAt, Recorded, Aim, Made
<1>11. PackagesAimed(c)
  BY <1>4, <1>8 DEF PackagesAimed, Aim, Made
<1>12. Starts(c, anchor, delivered)
  BY <1>1, <1>4, <1>5, <1>7, <1>8, <1>10, <1>11 DEF Starts, Aim, Made
<1> QED
  BY <1>6, <1>12, StartInv, QuietStep DEF Faulty

\* A set of naturals has a least element.
LEMMA LeastNat ==
    ASSUME NEW L \in SUBSET Nat, L # {}
    PROVE  \E n \in L : \A m \in L : n <= m
<1>1. \E n \in L : \A m \in L : ~(<<m, n>> \in OpToRel(<, Nat))
  BY WFMin, NatLessThanWellFounded, Zenon
<1>2. \E n \in L : \A m \in L : ~(m < n)
  BY <1>1, Zenon DEF OpToRel
<1> QED
  BY <1>2

LEMMA SmallestRecord ==
    ASSUME NEW R \in SUBSET Record, R # {}
    PROVE  First2Send(R) \in R
<1>1. \A r \in R : Len(r) \in Nat
  BY RecordIsSeq, LenProperties
<1> DEFINE L == {Len(r) : r \in R}
<1>2. L \in SUBSET Nat /\ L # {}
  BY <1>1
<1> HIDE DEF L
<1>3. PICK n \in L : \A m \in L : n <= m
  BY <1>2, LeastNat
<1> USE DEF L
<1>5. \A q \in R : n <= Len(q)
  BY <1>3
<1>6. PICK r \in R : Len(r) = n
  OBVIOUS
<1>7. \A q \in R : Epoch(r) <= Epoch(q)
  BY <1>1, <1>5, <1>6 DEF Epoch
<1> QED
  BY <1>7 DEF First2Send

\* The acceptance is recorded before the entry leaves the outbox.
LEMMA SendAcceptedStep ==
    ASSUME GroupInv, NEW o \in Owner, SendAccepted(o)
    PROVE  GroupInv'
<1> DEFINE me == co[o]
           r == First2Send(me.todo)
           want == Acknowledged(me.mem, r, me.win)
           c == [me EXCEPT !.pc = "persist", !.op = "ack", !.rec = r, !.want = want]
<1>1. /\ CoInv(me, anchor, delivered) /\ CoType(me) /\ me \in Coordinator /\ Snap(me.mem)
  BY OneCoordinator
<1>2. me.pc = "send" /\ delivered' = delivered \cup {r}
  BY DEF SendAccepted
<1>3. r \in Record
  BY <1>1, <1>2, SmallestRecord DEF CoType, Coordinator
<1>4. Aim(want, me.mem.rev + 1, me.mem.head, me.mem.outbox \ {r}, me.mem.pend, me.mem.used)
  BY <1>1, AcknowledgedSnap
<1>5. Sent(me.mem, delivered') /\ Sent(want, delivered')
  <2>1. Sent(me.mem, delivered)
    BY <1>1 DEF CoInv
  <2> QED
    BY <1>2, <1>4, <2>1, SentKept DEF Aim, Made
<1>6. Become(o, c) /\ NoFault /\ UNCHANGED <<store, anchor, told, given, backup, backups>>
  BY DEF SendAccepted
<1>7. /\ me.mem.head # << >> /\ me.win \in Windows /\ Below(me.mem, anchor.snap)
      /\ me.prov = me.mem.head
  BY <1>1, <1>2 DEF CoInv, OnLine, Serving, InStep
<1> HIDE DEF want
<1>8. /\ c \in Coordinator /\ c.pc = "persist" /\ c.op = "ack" /\ c.prov = me.prov
      /\ c.mem = me.mem /\ c.win = me.win /\ c.want = want
  BY <1>1, <1>3, <1>4 DEF Coordinator, Snap, Aim
<1> HIDE DEF c
<1>9. AimedAt(c) /\ PackagesAimed(c)
  BY <1>4, <1>7, <1>8 DEF AimedAt, PackagesAimed, Aim, Made
<1>10. Starts(c, anchor, delivered')
  BY <1>1, <1>4, <1>5, <1>7, <1>8, <1>9 DEF Starts, Recording, Aim, Made
<1>11. CoInv(c, anchor', delivered')
  BY <1>6, <1>10, StartInv
<1>12. World'
  <2>1. Sent(store, delivered') /\ Sent(backup, delivered') /\ Sent(anchor.snap, delivered')
    BY <1>2 DEF GroupInv, World, Stored, AnchorInv, Sent
  <2>2. delivered' \subseteq Record
    BY <1>2, <1>3 DEF GroupInv, World
  <2> QED
    BY <1>6, <2>1, <2>2 DEF NoFault, GroupInv, World, Stored, AnchorInv
<1>13. Grows(anchor, anchor') /\ delivered \subseteq delivered'
  BY <1>2, <1>6, OneCoordinator, BelowOrder DEF Grows
<1> QED
  BY <1>6, <1>11, <1>12, <1>13, StepOf

\* A restart takes over the anchored store, pruned to its window if need be.
LEMMA RestoreStep ==
    ASSUME GroupInv, NEW o \in Owner, NEW w \in Windows, Restore(o, w)
    PROVE  GroupInv'
<1> DEFINE me == co[o]
           want == Compacted(store, w)
           full == Pruned(store, w) = store
           c == [me EXCEPT !.mem = store, !.win = w, !.want = want,
                    !.op = IF full THEN "none" ELSE "prune",
                    !.pc = IF full THEN "import" ELSE "persist"]
<1>1. me \in Coordinator /\ Snap(store) /\ Stored(store, delivered)
  BY OneCoordinator
<1>2. store.head # << >> /\ anchor.snap = store
  BY DEF Restore, Active
<1>3. Aim(want, store.rev + 1, store.head, store.outbox, store.pend, store.used)
  BY <1>1, CompactedSnap
<1>4. Sent(store, delivered) /\ Sent(want, delivered)
  BY <1>1, <1>3, SentKept DEF Stored, Aim, Made
<1>5. Become(o, c) /\ NoFault /\ UNCHANGED <<store, anchor, External>>
  BY DEF Restore
<1>6. Below(store, anchor.snap)
  BY <1>1, <1>2, BelowOrder DEF Snap
<1> HIDE DEF want, full
<1>7. /\ c \in Coordinator /\ c.mem = store /\ c.win = w /\ c.want = want
      /\ \/ c.op = "none" /\ c.pc = "import"
         \/ c.op = "prune" /\ c.pc = "persist"
  BY <1>1, <1>3, WindowsAreNat DEF Coordinator, Snap, Aim
<1> HIDE DEF c
<1>8. CASE c.op = "prune" /\ c.pc = "persist"
  <2>1. AimedAt(c) /\ PackagesAimed(c)
    BY <1>2, <1>3, <1>7, <1>8 DEF AimedAt, PackagesAimed, Aim, Made
  <2>2. Starts(c, anchor, delivered)
    BY <1>1, <1>2, <1>3, <1>4, <1>6, <1>7, <1>8, <2>1 DEF Starts, Recording, Aim, Made
  <2> QED
    BY <1>5, <2>2, StartInv, QuietStep DEF Faulty
<1>9. CASE c.op = "none" /\ c.pc = "import"
  <2>1. CoType(c)
    BY <1>1, <1>3, <1>7, <1>9 DEF CoType, Aimed, Aiming, Snap, Aim
  <2>2. OnLine(c, anchor) /\ InStep(c) /\ Checked(c) /\ PackagesAimed(c)
    BY <1>2, <1>6, <1>7, <1>9 DEF OnLine, InStep, Checked, PackagesAimed, Aiming
  <2>3. CoInv(c, anchor, delivered)
    BY <1>4, <1>7, <2>1, <2>2 DEF CoInv
  <2> QED
    BY <1>5, <2>3, QuietStep DEF Faulty
<1> QED
  BY <1>7, <1>8, <1>9

-----------------------------------------------------------------------------
(* The anchor                                                               *)

\* A poisoned or retired anchor says of the line what it said before.
LEMMA PoisonedAnchor ==
    ASSUME GroupInv, NEW s, Snap(s), Sent(s, delivered)
    PROVE  AnchorInv(Poisoned(s), delivered) /\ Grows(anchor, Poisoned(s))
<1>1. AnchorInv(anchor, delivered) /\ AnchorType(anchor)
  BY DEF GroupInv, World, AnchorInv
<1>2. CASE Poisoned(s) = anchor
  <2>1. Below(anchor.snap, anchor.snap)
    BY <1>1, BelowOrder DEF AnchorType
  <2> QED
    BY <1>1, <1>2, <2>1 DEF Grows
<1>3. CASE Poisoned(s) = [anchor EXCEPT !.term = "forked"]
  <2>1. /\ Poisoned(s).snap = anchor.snap /\ Poisoned(s).term = "forked"
        /\ Poisoned(s) \in [snap : Snapshot, term : {"active", "forked", "removed"}]
    BY <1>1, <1>3 DEF AnchorType
  <2>2. Below(anchor.snap, anchor.snap)
    BY <1>1, BelowOrder DEF AnchorType
  <2> QED
    BY <1>1, <2>1, <2>2 DEF AnchorInv, AnchorType, Anchored, Grows
<1>4. CASE ~Present /\ Poisoned(s) = [snap |-> s, term |-> "forked"]
  <2>1. anchor.snap.head = << >>
    BY <1>4 DEF Present, NoAnchor, NoSnapshot
  <2> QED
    BY <1>4, <2>1 DEF AnchorInv, AnchorType, Anchored, Grows, Snap
<1> QED
  BY <1>2, <1>3, <1>4 DEF Poisoned

LEMMA RetiredAnchor ==
    ASSUME GroupInv
    PROVE  AnchorInv(Retired(anchor), delivered) /\ Grows(anchor, Retired(anchor))
<1>1. AnchorInv(anchor, delivered) /\ AnchorType(anchor)
  BY DEF GroupInv, World, AnchorInv
<1>2. /\ Retired(anchor).snap = anchor.snap /\ Retired(anchor).term = "removed"
      /\ Retired(anchor) \in [snap : Snapshot, term : {"active", "forked", "removed"}]
  BY <1>1 DEF AnchorType, Retired
<1>3. Below(anchor.snap, anchor.snap)
  BY <1>1, BelowOrder DEF AnchorType
<1> QED
  BY <1>1, <1>2, <1>3 DEF AnchorInv, AnchorType, Anchored, Grows

\* Where a coordinator aims follows the state it holds.
LEMMA AimFollows ==
    ASSUME GroupInv, NEW o \in Owner, Aiming(co[o]), Serving(co[o])
    PROVE  Below(co[o].mem, co[o].want)
<1> DEFINE me == co[o]
<1>1. CoInv(me, anchor, delivered) /\ CoType(me) /\ me.mem \in Snapshot /\ me.want \in Snapshot
  BY OneCoordinator DEF Snap
<1>2. me.op \in {"commit", "ack", "prune"}
  BY DEF Aiming, Serving
<1>3. me.want.rev = me.mem.rev + 1 /\ me.mem.rev \in Nat /\ me.mem.head \in Seq(Op)
  BY <1>1, HeadsTyped DEF CoType, Aimed, AimedAt
<1>4. IsAncestor(me.mem.head, me.want.head)
  <2>1. CASE me.op = "commit"
    <3>1. PICK x \in Op : me.want.head = Append(me.mem.head, x)
      BY <1>1, <2>1 DEF CoType, Aimed, Recorded, Recording
    <3> QED
      BY <1>3, <3>1, AncestorAppend
  <2>2. CASE me.op \in {"ack", "prune"}
    <3>1. me.want.head = me.mem.head
      BY <1>1, <2>2 DEF CoType, Aimed, AimedAt
    <3> QED
      BY <1>3, <3>1, AncestorOrder
  <2> QED
    BY <1>2, <2>1, <2>2
<1> QED
  BY <1>3, <1>4 DEF Below

\* The anchor that a write leads to.
LEMMA AdvancedAnchor ==
    ASSUME GroupInv, NEW o \in Owner, co[o].pc = "advance", anchor = Expected(o)
    PROVE  AnchorInv(Active(co[o].want), delivered) /\ Grows(anchor, Active(co[o].want))
<1> DEFINE me == co[o]
<1>1. /\ CoInv(me, anchor, delivered) /\ CoType(me) /\ Snap(me.want) /\ Aiming(me)
      /\ me \in Coordinator
  BY OneCoordinator DEF Aiming
<1>2. /\ AimedAt(me) /\ me.op # "package" /\ me.op # "none"
      /\ me.win \in Windows /\ me.want.head # << >>
  BY <1>1 DEF CoType, Aimed, AimedAt
<1>3. Verifies(me.want, me.win)
  BY <1>1, <1>2 DEF CoInv, Checked
<1>4. AnchorInv(Active(me.want), delivered)
  BY <1>1, <1>2, <1>3 DEF CoInv, AnchorInv, AnchorType, Anchored, Active, Snap
<1>5. Grows(anchor, Active(me.want))
  <2>1. CASE me.op \in First
    BY <2>1 DEF Expected, NoAnchor, NoSnapshot, Grows
  <2>2. CASE me.op \notin First
    <3>1. anchor = Active(me.mem)
      BY <2>2 DEF Expected
    <3>2. me.op \in {"commit", "ack", "prune"}
      BY <1>1, <1>2, <2>2 DEF Coordinator, First
    <3>3. Below(me.mem, me.want)
      BY <1>1, <3>2, AimFollows DEF Serving
    <3> QED
      BY <3>1, <3>3 DEF Grows, Active
  <2> QED
    BY <2>1, <2>2
<1> QED
  BY <1>4, <1>5

\* A step of one coordinator and the anchor.
LEMMA AnchorStep ==
    ASSUME GroupInv, NEW o \in Owner, NEW c, Become(o, c), Faulty, UNCHANGED <<store, External>>,
           AnchorInv(anchor', delivered), Grows(anchor, anchor'), CoInv(c, anchor, delivered)
    PROVE  GroupInv'
<1>1. /\ store' = store /\ delivered' = delivered /\ told' = told
      /\ given' = given /\ backup' = backup /\ backups' = backups
  BY DEF External
<1>2. faults' \in 0..MaxFaults
  <2>1. faults \in 0..MaxFaults /\ MaxFaults \in Nat
    BY GroupConstants DEF GroupInv, World
  <2> QED
    BY <2>1 DEF Faulty, Fault, NoFault
<1>3. World'
  BY <1>1, <1>2 DEF GroupInv, World
<1>4. AnchorType(anchor) /\ AnchorType(anchor')
  BY DEF GroupInv, World, AnchorInv
<1> HIDE DEF GroupInv
<1>5. CoInv(c, anchor', delivered') /\ delivered \subseteq delivered'
  BY <1>1, <1>4, OthersKept
<1> QED
  BY <1>3, <1>5, StepOf

-----------------------------------------------------------------------------
(* Failures                                                                 *)

Reason == {"poisoned", "forked", "removed"}

\* A coordinator that learned reasons to stop.
Blamed(c, reasons) == [c EXCEPT !.why = @ \cup reasons]

LEMMA BlamedInv ==
    ASSUME NEW c \in Coordinator, NEW reasons \in SUBSET Reason
    PROVE  /\ Blamed(c, reasons) \in Coordinator
           /\ Blamed(c, reasons).pc = c.pc /\ Blamed(c, reasons).op = c.op
           /\ Blamed(c, reasons).mem = c.mem /\ Blamed(c, reasons).want = c.want
           /\ Blamed(c, reasons).rec = c.rec /\ Blamed(c, reasons).win = c.win
           /\ Blamed(c, reasons).prov = c.prov /\ c.prov \in Chain
           /\ Blamed(c, reasons).todo = c.todo
  BY DEF Blamed, Coordinator, Reason, Chain

LEMMA FailedInv ==
    ASSUME GroupInv, NEW o \in Owner, Aiming(co[o]), NEW reasons \in SUBSET Reason
    PROVE  CoInv(Failed(o, reasons), anchor, delivered)
<1> DEFINE me == co[o]
           us == Blamed(co[o], reasons)
           poisoned == "poisoned" \in us.why
           c == Failed(o, reasons)
<1> SUFFICES CoInv(c, anchor, delivered)
  OBVIOUS
<1>1. CoInv(me, anchor, delivered) /\ CoType(me) /\ me \in Coordinator
  BY OneCoordinator
<1>2. me.op # "none"
  BY <1>1 DEF CoType, Aimed, AimedAt
<1>3. /\ us \in Coordinator /\ us.op = me.op /\ us.mem = me.mem /\ us.want = me.want
      /\ us.rec = me.rec /\ us.win = me.win /\ us.prov = me.prov /\ us.prov \in Chain
  BY <1>1, BlamedInv
<1>4. c = CASE us.op \in {"commit", "boot"} -> [us EXCEPT !.pc = "reconcile"]
            [] us.op = "join" ->
                   IF poisoned THEN Off(TRUE, us.prov) ELSE [us EXCEPT !.pc = "reconcile"]
            [] us.op = "ack" ->
                   [us EXCEPT !.pc = IF us.why = {} THEN "idle" ELSE "dead",
                              !.op = "none", !.todo = {}]
            [] OTHER -> Off(poisoned, us.prov)
  BY Zenon DEF Failed, Blamed
<1>5. poisoned \in BOOLEAN
  OBVIOUS
<1> HIDE DEF c, us, poisoned
<1>6. ASSUME c = [us EXCEPT !.pc = "reconcile"], us.op \in {"commit", "boot", "join"}
      PROVE  CoInv(c, anchor, delivered)
  <2>1. /\ c \in Coordinator /\ c.pc = "reconcile" /\ c.op = me.op /\ c.mem = me.mem
        /\ c.want = me.want /\ c.rec = me.rec /\ c.win = me.win /\ c.prov = me.prov
    BY <1>3, <1>6 DEF Coordinator
  <2>2. Moves(me, c)
    BY <1>3, <1>6, <2>1 DEF Moves, Aiming, Recording
  <2> QED
    BY <1>1, <2>2, MoveInv
<1>7. CASE us.op = "ack"
  <2> DEFINE next == IF us.why = {} THEN "idle" ELSE "dead"
  <2>1. c = [us EXCEPT !.pc = next, !.op = "none", !.todo = {}] /\ next \in {"idle", "dead"}
    BY <1>4, <1>7
  <2> HIDE DEF next
  <2>2. /\ c \in Coordinator /\ c.pc \in {"idle", "dead"} /\ c.op = "none" /\ c.mem = me.mem
        /\ c.want = me.want /\ c.rec = me.rec /\ c.win = me.win /\ c.prov = me.prov
    BY <1>3, <2>1 DEF Coordinator
  <2>3. me.prov = me.mem.head /\ Serving(me)
    BY <1>1, <1>3, <1>7 DEF CoInv, InStep, Serving
  <2>4. Moves(me, c)
    BY <2>2, <2>3 DEF Moves, Aiming, Recording
  <2> QED
    BY <1>1, <2>4, MoveInv
<1>8. CASE us.op \in {"commit", "boot"}
  BY <1>4, <1>6, <1>8
<1>9. CASE us.op = "join"
  <2>1. CASE poisoned
    <3>1. c = Off(TRUE, us.prov)
      BY <1>4, <1>9, <2>1
    <3> QED
      BY <1>3, <3>1, OffInv
  <2>2. CASE ~poisoned
    BY <1>4, <1>6, <1>9, <2>2
  <2> QED
    BY <2>1, <2>2
<1>10. CASE us.op \notin {"commit", "boot", "join", "ack"}
  <2>1. c = Off(poisoned, us.prov)
    BY <1>4, <1>10
  <2> QED
    BY <1>3, <1>5, <2>1, OffInv
<1> QED
  BY <1>7, <1>8, <1>9, <1>10

LEMMA ReconciledInv ==
    ASSUME GroupInv, NEW o \in Owner, co[o].pc = "reconcile", NEW reasons \in SUBSET Reason
    PROVE  CoInv(Reconciled(o, reasons), anchor, delivered)
<1> DEFINE me == co[o]
           us == Blamed(co[o], reasons)
           poisoned == "poisoned" \in us.why
           again == "forked" \notin reasons
           c == Reconciled(o, reasons)
<1> SUFFICES CoInv(c, anchor, delivered)
  OBVIOUS
<1>1. CoInv(me, anchor, delivered) /\ CoType(me) /\ me \in Coordinator
  BY OneCoordinator
<1>2. Recording(me)
  BY <1>1 DEF CoType, Aimed
<1>3. /\ us \in Coordinator /\ us.op = me.op /\ us.mem = me.mem /\ us.want = me.want
      /\ us.rec = me.rec /\ us.win = me.win /\ us.prov = me.prov /\ us.prov \in Chain
  BY <1>1, BlamedInv
<1>4. c = CASE us.op = "commit" /\ poisoned -> [us EXCEPT !.pc = "dead", !.op = "none"]
            [] us.op = "boot" /\ poisoned -> Off(again, us.prov)
            [] OTHER -> [us EXCEPT !.pc = "undo"]
  BY Zenon DEF Reconciled, Blamed
<1>5. again \in BOOLEAN
  OBVIOUS
<1> HIDE DEF c, us, poisoned, again
<1>6. CASE us.op = "commit" /\ poisoned
  <2>1. c = [us EXCEPT !.pc = "dead", !.op = "none"]
    BY <1>4, <1>6
  <2>2. /\ c \in Coordinator /\ c.pc = "dead" /\ c.op = "none" /\ c.mem = me.mem
        /\ c.want = me.want /\ c.rec = me.rec /\ c.win = me.win /\ c.prov = me.prov
    BY <1>3, <2>1 DEF Coordinator
  <2>3. Moves(me, c)
    BY <2>2 DEF Moves, Aiming, Recording
  <2> QED
    BY <1>1, <2>3, MoveInv
<1>7. CASE us.op = "boot" /\ poisoned
  <2>1. c = Off(again, us.prov)
    BY <1>4, <1>7
  <2> QED
    BY <1>3, <1>5, <2>1, OffInv
<1>8. CASE ~(us.op \in {"commit", "boot"} /\ poisoned)
  <2>1. c = [us EXCEPT !.pc = "undo"]
    BY <1>4, <1>8
  <2>2. /\ c \in Coordinator /\ c.pc = "undo" /\ c.op = me.op /\ c.mem = me.mem
        /\ c.want = me.want /\ c.rec = me.rec /\ c.win = me.win /\ c.prov = me.prov
    BY <1>3, <2>1 DEF Coordinator
  <2>3. Moves(me, c)
    BY <1>2, <2>2 DEF Moves, Aiming, Recording
  <2> QED
    BY <1>1, <2>3, MoveInv
<1> QED
  BY <1>6, <1>7, <1>8

\* A step of coordinator o that gives it the value c by one of these lemmas.
LEMMA KeptAnchor ==
    ASSUME GroupInv
    PROVE  AnchorInv(anchor, delivered) /\ Grows(anchor, anchor)
  BY BelowOrder DEF GroupInv, World, AnchorInv, AnchorType, Grows

LEMMA ReasonsTyped ==
    ASSUME GroupInv
    PROVE  Reasons \in SUBSET Reason /\ {} \in SUBSET Reason
           /\ {"poisoned"} \in SUBSET Reason /\ {"forked"} \in SUBSET Reason
<1>1. anchor.term \in {"active", "forked", "removed"}
  BY DEF GroupInv, World, AnchorInv, AnchorType
<1> QED
  BY <1>1 DEF Reasons, Reason

-----------------------------------------------------------------------------
(* Steps of one coordinator that leave the store as it is                   *)

LEMMA AcceptLocalRemovalStep ==
    ASSUME GroupInv, NEW o \in Owner, NEW x \in Op, AcceptLocalRemoval(o, x)
    PROVE  GroupInv'
<1> DEFINE me == co[o]
           r == Append(me.mem.head, x)
           c == [me EXCEPT !.pc = "retire", !.rec = r, !.why = @ \cup {"removed"}, !.prov = << >>]
<1>1. CoInv(me, anchor, delivered) /\ me \in Coordinator /\ me.pc = "idle" /\ me.mem \in Snapshot
  BY OneCoordinator DEF AcceptLocalRemoval, Snap
<1>2. me.op = "none"
  BY <1>1 DEF CoInv, InStep
<1>3. r \in Record
  BY <1>1, NextRecord DEF AcceptLocalRemoval
<1>4. Become(o, c) /\ NoFault /\ UNCHANGED <<store, anchor, External>>
  BY DEF AcceptLocalRemoval
<1> HIDE DEF r
<1>5. /\ c \in Coordinator /\ c.pc = "retire" /\ c.op = me.op /\ c.mem = me.mem
      /\ c.want = me.want /\ c.win = me.win
  BY <1>1, <1>3 DEF Coordinator
<1> HIDE DEF c
<1>6. Moves(me, c)
  BY <1>1, <1>2, <1>5 DEF Moves, Aiming, Recording, Serving
<1> QED
  BY <1>1, <1>4, <1>6, MoveInv, QuietStep DEF Faulty

\* A member that has left stops, whatever became of the anchor.
LEMMA DeadInv ==
    ASSUME GroupInv, NEW o \in Owner, co[o].pc = "retire", NEW reasons \in SUBSET Reason
    PROVE  CoInv(Dead(o, reasons), anchor, delivered)
<1> DEFINE me == co[o]
           c == Dead(o, reasons)
<1>1. CoInv(me, anchor, delivered) /\ me \in Coordinator
  BY OneCoordinator
<1>2. /\ c \in Coordinator /\ c.pc = "dead" /\ c.op = me.op /\ c.mem = me.mem
      /\ c.want = me.want /\ c.rec = me.rec /\ c.win = me.win /\ c.prov = me.prov
  BY <1>1 DEF Dead, Coordinator, Reason
<1> HIDE DEF c
<1>3. Moves(me, c)
  BY <1>2 DEF Moves, Aiming, Recording
<1> QED
  BY <1>1, <1>3, MoveInv DEF c

LEMMA RetireStep ==
    ASSUME GroupInv, NEW o \in Owner, RetireAnchor(o) \/ RetireRefused(o)
    PROVE  GroupInv'
<1>1. /\ co[o].pc = "retire" /\ Faulty /\ UNCHANGED <<store, External>>
      /\ anchor' \in {anchor, Retired(anchor), Poisoned(co[o].mem)}
  BY DEF RetireAnchor, RetireRefused, Faulty
<1>2. PICK reasons \in SUBSET Reason : Become(o, Dead(o, reasons))
  BY ReasonsTyped DEF RetireAnchor, RetireRefused
<1>3. CoInv(Dead(o, reasons), anchor, delivered)
  BY <1>1, DeadInv
<1>4. AnchorInv(anchor', delivered) /\ Grows(anchor, anchor')
  BY <1>1, KeptAnchor, RetiredAnchor, PoisonedAnchor, OneCoordinator DEF CoInv
<1> QED
  BY <1>1, <1>2, <1>3, <1>4, AnchorStep

LEMMA PrepareFailsStep ==
    ASSUME GroupInv, NEW o \in Owner, PrepareFails(o)
    PROVE  GroupInv'
<1> DEFINE me == co[o]
           back == [me EXCEPT !.pc = "reconcile"]
           undo == [me EXCEPT !.pc = "undo"]
<1>1. /\ CoInv(me, anchor, delivered) /\ CoType(me) /\ me \in Coordinator
      /\ me.pc = "persist" /\ me.op \notin {"ack", "prune"}
  BY OneCoordinator DEF PrepareFails
<1>2. me.op \in {"package", "commit", "boot", "join"}
  BY <1>1 DEF CoType, Aimed, AimedAt, Aiming, Coordinator, First
<1>3. Faulty /\ UNCHANGED <<store, anchor, External>>
  BY DEF PrepareFails, Faulty
<1>4. CASE me.op = "package"
  <2>1. Become(o, Off(TRUE, << >>))
    BY <1>4 DEF PrepareFails
  <2>2. CoInv(Off(TRUE, << >>), anchor, delivered)
    BY OffInv DEF Chain
  <2> QED
    BY <1>3, <2>1, <2>2, QuietStep
<1>5. CASE me.op = "join"
  <2>1. Become(o, back)
    BY <1>5 DEF PrepareFails
  <2>2. /\ back \in Coordinator /\ back.pc = "reconcile" /\ back.op = me.op /\ back.mem = me.mem
        /\ back.want = me.want /\ back.rec = me.rec /\ back.win = me.win /\ back.prov = me.prov
    BY <1>1 DEF Coordinator
  <2> HIDE DEF back
  <2>3. Moves(me, back)
    BY <1>1, <1>5, <2>2 DEF Moves, Aiming, Recording
  <2> QED
    BY <1>1, <1>3, <2>1, <2>3, MoveInv, QuietStep
<1>6. CASE me.op \in {"commit", "boot"}
  <2>1. Become(o, undo)
    BY <1>6 DEF PrepareFails
  <2>2. /\ undo \in Coordinator /\ undo.pc = "undo" /\ undo.op = me.op /\ undo.mem = me.mem
        /\ undo.want = me.want /\ undo.rec = me.rec /\ undo.win = me.win /\ undo.prov = me.prov
    BY <1>1 DEF Coordinator
  <2> HIDE DEF undo
  <2>3. Moves(me, undo)
    BY <1>1, <1>6, <2>2 DEF Moves, Aiming, Recording
  <2> QED
    BY <1>1, <1>3, <2>1, <2>3, MoveInv, QuietStep
<1> QED
  BY <1>2, <1>4, <1>5, <1>6

LEMMA WriteRefusedStep ==
    ASSUME GroupInv, NEW o \in Owner, WriteRefused(o)
    PROVE  GroupInv'
<1> DEFINE why == IF co[o].op \in First \/ store.rev # co[o].mem.rev THEN {} ELSE Reasons
<1>1. Aiming(co[o])
  BY DEF WriteRefused, Aiming
<1>2. why \in SUBSET Reason
  BY ReasonsTyped
<1>3. Become(o, Failed(o, why)) /\ NoFault /\ UNCHANGED <<store, anchor, External>>
  BY DEF WriteRefused
<1> HIDE DEF why
<1> QED
  BY <1>1, <1>2, <1>3, FailedInv, QuietStep DEF Faulty

LEMMA ConfirmFailsStep ==
    ASSUME GroupInv, NEW o \in Owner, ConfirmFails(o)
    PROVE  GroupInv'
<1>1. Aiming(co[o]) /\ Faulty /\ UNCHANGED <<store, anchor, External>>
  BY DEF ConfirmFails, Aiming, Faulty
<1>2. PICK c \in {Off(FALSE, << >>), Failed(o, {}), Failed(o, {"poisoned"})} : Become(o, c)
  BY DEF ConfirmFails
<1>3. CoInv(Off(FALSE, << >>), anchor, delivered)
  BY OffInv DEF Chain
<1>4. CoInv(Failed(o, {}), anchor, delivered) /\ CoInv(Failed(o, {"poisoned"}), anchor, delivered)
  BY <1>1, ReasonsTyped, FailedInv
<1>5. CoInv(c, anchor, delivered)
  BY <1>3, <1>4
<1> QED
  BY <1>1, <1>2, <1>5, QuietStep

LEMMA AdvanceFailsStep ==
    ASSUME GroupInv, NEW o \in Owner, AdvanceFails(o)
    PROVE  GroupInv'
<1> DEFINE c == Failed(o, {"poisoned"})
<1>1. /\ co[o].pc = "advance" /\ Faulty /\ UNCHANGED <<store, External>> /\ Become(o, c)
      /\ anchor' = anchor \/ (anchor = Expected(o) /\ anchor' = Active(co[o].want))
  BY DEF AdvanceFails, Faulty
<1>2. CoInv(c, anchor, delivered)
  BY <1>1, ReasonsTyped, FailedInv DEF Aiming
<1> HIDE DEF c
<1>3. AnchorInv(anchor', delivered) /\ Grows(anchor, anchor')
  <2>1. CASE anchor' = anchor
    BY <2>1, KeptAnchor
  <2>2. CASE anchor = Expected(o) /\ anchor' = Active(co[o].want)
    BY <1>1, <2>2, AdvancedAnchor
  <2> QED
    BY <1>1, <2>1, <2>2
<1> QED
  BY <1>1, <1>2, <1>3, AnchorStep

LEMMA ReconcileStep ==
    ASSUME GroupInv, NEW o \in Owner, Reconcile(o)
    PROVE  GroupInv'
<1>1. /\ co[o].pc = "reconcile" /\ Faulty /\ UNCHANGED <<store, External>>
      /\ anchor' \in {anchor, Poisoned(store)}
  BY DEF Reconcile, Faulty
<1>2. PICK reasons \in SUBSET Reason : Become(o, Reconciled(o, reasons))
  BY ReasonsTyped DEF Reconcile
<1>3. CoInv(Reconciled(o, reasons), anchor, delivered)
  BY <1>1, ReconciledInv
<1>4. AnchorInv(anchor', delivered) /\ Grows(anchor, anchor')
  BY <1>1, KeptAnchor, PoisonedAnchor, OneCoordinator DEF Stored
<1> QED
  BY <1>1, <1>2, <1>3, <1>4, AnchorStep

LEMMA PersistAmbiguityStep ==
    ASSUME GroupInv, NEW o \in Owner, PersistAmbiguity(o)
    PROVE  GroupInv'
<1>1. /\ co[o].pc = "reconcile" /\ Faulty /\ UNCHANGED <<store, External>>
      /\ anchor' \in {anchor, Poisoned(co[o].want)}
  BY DEF PersistAmbiguity, Faulty
<1>2. PICK reasons \in SUBSET Reason : Become(o, Reconciled(o, reasons))
  BY ReasonsTyped DEF PersistAmbiguity
<1>3. CoInv(Reconciled(o, reasons), anchor, delivered)
  BY <1>1, ReconciledInv
<1>4. AnchorInv(anchor', delivered) /\ Grows(anchor, anchor')
  BY <1>1, KeptAnchor, PoisonedAnchor, OneCoordinator DEF CoInv
<1> QED
  BY <1>1, <1>2, <1>3, <1>4, AnchorStep


LEMMA UndoStep ==
    ASSUME GroupInv, NEW o \in Owner, Undo(o)
    PROVE  GroupInv'
<1> DEFINE me == co[o]
           next == IF me.why = {} THEN "idle" ELSE "dead"
           back == [me EXCEPT !.prov = me.mem.head, !.op = "none", !.pc = next]
           dead == [me EXCEPT !.pc = "dead", !.op = "none", !.why = @ \cup {"poisoned"}]
           tainted == "poisoned" \in me.why
<1>1. /\ CoInv(me, anchor, delivered) /\ CoType(me) /\ me \in Coordinator /\ me.prov \in Chain
      /\ me.mem.head \in Chain
  BY OneCoordinator DEF Coordinator, Chain, Snapshot
<1>2. me.pc = "undo" /\ Faulty /\ UNCHANGED <<store, anchor, External>>
  BY DEF Undo, UndoFirst, Faulty
<1>3. tainted \in BOOLEAN /\ next \in {"idle", "dead"}
  OBVIOUS
<1>4. IF me.op = "commit" THEN Become(o, back) \/ Become(o, dead)
      ELSE Become(o, Off(tainted, << >>)) \/ Become(o, Off(TRUE, me.prov))
  BY DEF Undo, UndoFirst
<1> HIDE DEF next, tainted
<1>5. CASE me.op = "commit" /\ Become(o, back)
  <2>1. /\ back \in Coordinator /\ back.pc \in {"idle", "dead"} /\ back.op = "none"
        /\ back.mem = me.mem /\ back.want = me.want /\ back.rec = me.rec
        /\ back.win = me.win /\ back.prov = me.mem.head
    BY <1>1, <1>3 DEF Coordinator, Chain
  <2> HIDE DEF back
  <2>2. Moves(me, back)
    BY <1>5, <2>1 DEF Moves, Aiming, Recording, Serving
  <2> QED
    BY <1>1, <1>2, <1>5, <2>2, MoveInv, QuietStep
<1>6. CASE me.op = "commit" /\ Become(o, dead)
  <2>1. /\ dead \in Coordinator /\ dead.pc = "dead" /\ dead.op = "none"
        /\ dead.mem = me.mem /\ dead.want = me.want /\ dead.rec = me.rec
        /\ dead.win = me.win
    BY <1>1 DEF Coordinator
  <2> HIDE DEF dead
  <2>2. Moves(me, dead)
    BY <2>1 DEF Moves, Aiming, Recording
  <2> QED
    BY <1>1, <1>2, <1>6, <2>2, MoveInv, QuietStep
<1>7. CASE Become(o, Off(tainted, << >>)) \/ Become(o, Off(TRUE, me.prov))
  <2>1. CoInv(Off(tainted, << >>), anchor, delivered)
    BY <1>3, OffInv DEF Chain
  <2>2. CoInv(Off(TRUE, me.prov), anchor, delivered)
    BY <1>1, OffInv
  <2> QED
    BY <1>2, <1>7, <2>1, <2>2, QuietStep
<1> QED
  BY <1>4, <1>5, <1>6, <1>7

LEMMA ImportStep ==
    ASSUME GroupInv, NEW o \in Owner, Import(o)
    PROVE  GroupInv'
<1> DEFINE me == co[o]
           c == [me EXCEPT !.pc = "idle", !.prov = me.mem.head]
<1>1. /\ CoInv(me, anchor, delivered) /\ me \in Coordinator /\ me.prov \in Chain
      /\ me.mem.head \in Chain
  BY OneCoordinator DEF Coordinator, Chain, Snapshot
<1>2. me.pc = "import" /\ Faulty /\ UNCHANGED <<store, anchor, External>>
  BY DEF Import, Faulty
<1>3. Become(o, c) \/ Become(o, Off(TRUE, me.prov)) \/ Become(o, Off(FALSE, me.prov))
  BY DEF Import
<1>4. CoInv(Off(TRUE, me.prov), anchor, delivered) /\ CoInv(Off(FALSE, me.prov), anchor, delivered)
  BY <1>1, OffInv
<1>5. /\ c \in Coordinator /\ c.pc = "idle" /\ c.op = me.op /\ c.mem = me.mem
      /\ c.want = me.want /\ c.rec = me.rec /\ c.win = me.win /\ c.prov = me.mem.head
  BY <1>1 DEF Coordinator, Chain
<1> HIDE DEF c
<1>6. me.op = "none"
  BY <1>1, <1>2 DEF CoInv, InStep
<1>7. Moves(me, c)
  BY <1>2, <1>5, <1>6 DEF Moves, Aiming, Recording, Serving
<1>8. CoInv(c, anchor, delivered)
  BY <1>1, <1>7, MoveInv
<1> QED
  BY <1>2, <1>3, <1>4, <1>8, QuietStep

LEMMA RestartStep ==
    ASSUME GroupInv, NEW o \in Owner, Crash(o) \/ Replace(o)
    PROVE  GroupInv'
<1>1. Become(o, Off(FALSE, << >>)) /\ Faulty /\ UNCHANGED <<store, anchor, External>>
  BY DEF Crash, Replace, Faulty
<1>2. CoInv(Off(FALSE, << >>), anchor, delivered)
  BY OffInv DEF Chain
<1> QED
  BY <1>1, <1>2, QuietStep

LEMMA FlushOutboxStep ==
    ASSUME GroupInv, NEW o \in Owner, FlushOutbox(o)
    PROVE  GroupInv'
<1> DEFINE me == co[o]
           c == [me EXCEPT !.pc = "send", !.todo = store.outbox]
<1>1. /\ CoInv(me, anchor, delivered) /\ me \in Coordinator /\ store.outbox \subseteq Record
  BY OneCoordinator DEF Snap, Snapshot
<1>2. /\ me.pc = "idle" /\ store.outbox # {} /\ Become(o, c) /\ NoFault
      /\ UNCHANGED <<store, anchor, External>>
  BY DEF FlushOutbox
<1>3. /\ c \in Coordinator /\ c.pc = "send" /\ c.op = me.op /\ c.mem = me.mem
      /\ c.want = me.want /\ c.rec = me.rec /\ c.win = me.win /\ c.prov = me.prov
      /\ c.todo = store.outbox
  BY <1>1 DEF Coordinator
<1> HIDE DEF c
<1>4. me.op = "none" /\ me.prov = me.mem.head
  BY <1>1, <1>2 DEF CoInv, InStep
<1>5. Moves(me, c)
  BY <1>2, <1>3, <1>4 DEF Moves, Aiming, Recording, Serving
<1> QED
  BY <1>1, <1>2, <1>5, MoveInv, QuietStep DEF Faulty

LEMMA DetectForkStep ==
    ASSUME GroupInv, NEW o \in Owner, NEW p, NEW x, DetectFork(o, p, x)
    PROVE  GroupInv'
<1> DEFINE me == co[o]
           seen == [me EXCEPT !.pc = "audit", !.why = {"forked"}]
           dead == [me EXCEPT !.pc = "dead", !.why = {"poisoned"}]
<1>1. CoInv(me, anchor, delivered) /\ me \in Coordinator
  BY OneCoordinator
<1>2. /\ me.pc = "idle" /\ Faulty /\ UNCHANGED <<store, External>>
      /\ anchor' \in {anchor, Poisoned(store)}
      /\ Become(o, seen) \/ Become(o, dead)
  BY DEF DetectFork, Faulty
<1>3. me.op = "none"
  BY <1>1, <1>2 DEF CoInv, InStep
<1>4. /\ seen \in Coordinator /\ seen.pc = "audit" /\ seen.op = me.op /\ seen.mem = me.mem
      /\ seen.want = me.want /\ seen.rec = me.rec /\ seen.win = me.win
  BY <1>1 DEF Coordinator
<1>5. /\ dead \in Coordinator /\ dead.pc = "dead" /\ dead.op = me.op /\ dead.mem = me.mem
      /\ dead.want = me.want /\ dead.rec = me.rec /\ dead.win = me.win
  BY <1>1 DEF Coordinator
<1> HIDE DEF seen, dead
<1>6. Moves(me, seen) /\ Moves(me, dead)
  BY <1>3, <1>4, <1>5 DEF Moves, Aiming, Recording
<1>7. CoInv(seen, anchor, delivered) /\ CoInv(dead, anchor, delivered)
  BY <1>1, <1>6, MoveInv
<1>8. AnchorInv(anchor', delivered) /\ Grows(anchor, anchor')
  BY <1>2, KeptAnchor, PoisonedAnchor, OneCoordinator DEF Stored
<1> QED
  BY <1>2, <1>7, <1>8, AnchorStep

LEMMA NoticeTerminalStep ==
    ASSUME GroupInv, NEW o \in Owner, NoticeTerminal(o)
    PROVE  GroupInv'
<1> DEFINE me == co[o]
           c == [me EXCEPT !.pc = "dead", !.why = Reasons]
<1>1. CoInv(me, anchor, delivered) /\ me \in Coordinator
  BY OneCoordinator
<1>2. me.pc = "idle" /\ Become(o, c) /\ NoFault /\ UNCHANGED <<store, anchor, External>>
  BY DEF NoticeTerminal
<1>3. me.op = "none"
  BY <1>1, <1>2 DEF CoInv, InStep
<1>4. /\ c \in Coordinator /\ c.pc = "dead" /\ c.op = me.op /\ c.mem = me.mem
      /\ c.want = me.want /\ c.rec = me.rec /\ c.win = me.win
  BY <1>1, ReasonsTyped DEF Coordinator, Reason
<1> HIDE DEF c
<1>5. Moves(me, c)
  BY <1>3, <1>4 DEF Moves, Aiming, Recording
<1> QED
  BY <1>1, <1>2, <1>5, MoveInv, QuietStep DEF Faulty

-----------------------------------------------------------------------------
(* Steps that change the store, what was delivered or what was handed out   *)

\* A step that leaves the coordinators as they are.
LEMMA SharedStep ==
    ASSUME GroupInv, UNCHANGED <<co, anchor>>, World', delivered \subseteq delivered'
    PROVE  GroupInv'
<1>1. ASSUME NEW o \in Owner
      PROVE  CoInv(co[o], anchor, delivered')
  <2>1. CoInv(co[o], anchor, delivered) /\ AnchorType(anchor) /\ Grows(anchor, anchor)
    BY OneCoordinator, KeptAnchor
  <2> QED
    BY <2>1, OthersKept
<1> QED
  BY <1>1 DEF GroupInv

LEMMA RetryPackageStep ==
    ASSUME GroupInv, NEW o \in Owner, NEW p \in Package, RetryPackage(o, p)
    PROVE  GroupInv'
<1>1. PICK k \in store.pend : given' = given \cup {k}
  BY DEF RetryPackage
<1>2. /\ NoFault /\ UNCHANGED <<store, anchor, co, delivered, told, backup, backups>>
      /\ k \in KeyPackage
  BY OneCoordinator DEF RetryPackage, Snap, Snapshot
<1>3. PackagesHeld(store, given) => PackagesHeld(store, given')
  BY <1>1 DEF PackagesHeld
<1>4. World'
  BY <1>1, <1>2, <1>3 DEF GroupInv, World, NoFault
<1> QED
  BY <1>2, <1>4, SharedStep

LEMMA TakeBackupStep ==
    ASSUME GroupInv, TakeBackup
    PROVE  GroupInv'
<1>1. backup' = store /\ UNCHANGED <<store, anchor, co, delivered, told, given, backups, faults>>
  BY DEF TakeBackup, NoFault
<1>2. World'
  BY <1>1 DEF GroupInv, World
<1> QED
  BY <1>1, <1>2, SharedStep

LEMMA SetBackStep ==
    ASSUME GroupInv, SetBack
    PROVE  GroupInv'
<1>1. /\ store' = backup /\ backups' = backups + 1 /\ backups < MaxBackups
      /\ UNCHANGED <<anchor, co, delivered, told, given, backup, faults>>
  BY DEF SetBack, NoFault
<1>2. backups' \in 0..MaxBackups /\ backups' # 0
  BY <1>1, GroupConstants DEF GroupInv, World
<1>3. World'
  BY <1>1, <1>2 DEF GroupInv, World
<1> QED
  BY <1>1, <1>3, SharedStep

LEMMA SendFailsStep ==
    ASSUME GroupInv, NEW o \in Owner, SendFails(o)
    PROVE  GroupInv'
<1> DEFINE me == co[o]
           c == [me EXCEPT !.pc = "idle", !.todo = {}]
           r == First2Send(me.todo)
<1>1. /\ CoInv(me, anchor, delivered) /\ CoType(me) /\ me \in Coordinator
      /\ AnchorType(anchor) /\ Grows(anchor, anchor)
  BY OneCoordinator, KeptAnchor
<1>2. /\ me.pc = "send" /\ Become(o, c) /\ delivered' \in {delivered, delivered \cup {r}}
      /\ UNCHANGED <<store, anchor, told, given, backup, backups, faults>>
  BY DEF SendFails, NoFault
<1>3. r \in Record
  BY <1>1, <1>2, SmallestRecord DEF CoType, Coordinator
<1>4. /\ c \in Coordinator /\ c.pc = "idle" /\ c.op = me.op /\ c.mem = me.mem
      /\ c.want = me.want /\ c.rec = me.rec /\ c.win = me.win /\ c.prov = me.prov
  BY <1>1 DEF Coordinator
<1> HIDE DEF c, r
<1>5. me.op = "none" /\ me.prov = me.mem.head
  BY <1>1, <1>2 DEF CoInv, InStep
<1>6. Moves(me, c)
  BY <1>2, <1>4, <1>5 DEF Moves, Aiming, Recording, Serving
<1>7. delivered \subseteq delivered' /\ delivered' \subseteq Record
  BY <1>2, <1>3 DEF GroupInv, World
<1>8. CoInv(c, anchor, delivered')
  BY <1>1, <1>6, <1>7, MoveInv, OthersKept
<1>9. World'
  <2>1. Sent(store, delivered') /\ Sent(backup, delivered') /\ Sent(anchor.snap, delivered')
    BY <1>7 DEF GroupInv, World, Stored, AnchorInv, Sent
  <2> QED
    BY <1>2, <1>7, <2>1 DEF GroupInv, World, Stored, AnchorInv
<1> QED
  BY <1>1, <1>2, <1>7, <1>8, <1>9, StepOf

\* The coordinator reads back what it wrote; a package is handed out only then.
LEMMA ConfirmStep ==
    ASSUME GroupInv, NEW o \in Owner, Confirm(o)
    PROVE  GroupInv'
<1> DEFINE me == co[o]
           c == [me EXCEPT !.pc = "advance"]
<1>1. /\ CoInv(me, anchor, delivered) /\ me \in Coordinator /\ me.pc = "confirm"
      /\ store = me.want /\ Snap(store)
  BY OneCoordinator DEF Confirm
<1>2. UNCHANGED <<store, anchor, delivered, told, backup, backups, faults>>
  BY DEF Confirm, NoFault
<1>3. CASE me.op = "package"
  <2>1. given' = given \cup (me.want.pend \ me.mem.pend) /\ Become(o, Off(FALSE, << >>))
    BY <1>3 DEF Confirm
  <2>2. given' \subseteq given \cup store.pend /\ store.pend \subseteq KeyPackage
    BY <1>1, <2>1 DEF Snap, Snapshot
  <2>3. PackagesHeld(store, given) => PackagesHeld(store, given')
    BY <2>2 DEF PackagesHeld
  <2>4. World'
    BY <1>2, <2>2, <2>3 DEF GroupInv, World
  <2>5. CoInv(Off(FALSE, << >>), anchor', delivered')
    BY OffInv DEF Chain
  <2> QED
    BY <1>2, <2>1, <2>4, <2>5, KeptAnchor, StepOf
<1>4. CASE me.op # "package"
  <2>1. Become(o, c) /\ UNCHANGED given
    BY <1>4 DEF Confirm
  <2>2. /\ c \in Coordinator /\ c.pc = "advance" /\ c.op = me.op /\ c.mem = me.mem
        /\ c.want = me.want /\ c.rec = me.rec /\ c.win = me.win /\ c.prov = me.prov
    BY <1>1 DEF Coordinator
  <2> HIDE DEF c
  <2>3. Verifies(me.want, me.win)
    BY <1>1, <1>4 DEF CoInv, Checked
  <2>4. Moves(me, c)
    BY <1>1, <1>4, <2>2, <2>3 DEF Moves, Aiming, Recording
  <2>5. UNCHANGED <<store, anchor, External>> /\ Faulty
    BY <1>2, <2>1 DEF External, Faulty, NoFault
  <2> QED
    BY <1>1, <2>1, <2>4, <2>5, MoveInv, QuietStep
<1> QED
  BY <1>3, <1>4


\* No write forgets or repeats a key package.
LEMMA PackagesFollow ==
    ASSUME NEW c, CoType(c), PackagesAimed(c), Aiming(c), NEW g, PackagesHeld(c.mem, g)
    PROVE  PackagesHeld(c.want, g)
<1>1. c.mem \in Snapshot /\ AimedAt(c)
  BY DEF CoType, Coordinator, Aimed
<1>2. CASE c.op = "package"
  <2>1. c.mem.head = << >>
    BY <1>2 DEF PackagesAimed
  <2>2. PICK k \in KeyPackage : /\ c.want = putPendingKeyPackage(c.mem, k)
                                /\ \A l \in c.mem.pend : l.op # k.op
    BY <1>2 DEF PackagesAimed
  <2>3. c.want.pend = c.mem.pend \cup {k} /\ c.want.used = c.mem.used
    BY <1>1, <2>2, PackagePut DEF Made
  <2>4. c.mem.used = {}
    BY <2>1 DEF PackagesHeld
  <2> QED
    BY <2>2, <2>3, <2>4 DEF PackagesHeld
<1>3. CASE c.op # "package"
  <2>1. c.want.head # << >> /\ c.want.pend \cup c.want.used = c.mem.pend \cup c.mem.used
    BY <1>1, <1>3 DEF AimedAt, PackagesAimed
  <2> QED
    BY <2>1 DEF PackagesHeld
<1> QED
  BY <1>2, <1>3

LEMMA WriteStep ==
    ASSUME GroupInv, NEW o \in Owner, Write(o)
    PROVE  GroupInv'
<1> DEFINE me == co[o]
           sure == [me EXCEPT !.pc = "confirm", !.amb = FALSE]
           open == [me EXCEPT !.pc = "confirm", !.amb = TRUE]
<1>1. /\ CoInv(me, anchor, delivered) /\ CoType(me) /\ me \in Coordinator
      /\ Snap(me.want) /\ Stored(store, delivered)
  BY OneCoordinator
<1>2. me.pc = "persist" /\ MayWrite(o) /\ store = me.mem
  BY DEF Write, MayWrite
<1>3. /\ store' \in {store, me.want} /\ Faulty /\ UNCHANGED <<anchor, External>>
      /\ \/ Become(o, sure)
         \/ me.op # "package" /\ Become(o, open)
         \/ Become(o, Off(FALSE, << >>))
  BY DEF Write, Faulty
<1>4. Aiming(me) /\ AimedAt(me)
  BY <1>1, <1>2 DEF CoType, Aimed, Aiming
<1>5. me.op # "package" => Verifies(me.want, me.win)
  BY <1>2, <1>4 DEF MayWrite, AimedAt
<1>6. World'
  <2>1. Stored(me.want, delivered)
    BY <1>1, <1>2 DEF MayWrite, CoInv, Stored
  <2>2. backups = 0 => PackagesHeld(me.want, given)
    <3>1. backups = 0 => PackagesHeld(me.mem, given)
      BY <1>2 DEF GroupInv, World
    <3> QED
      BY <1>1, <1>4, <3>1, PackagesFollow DEF CoInv
  <2>3. /\ anchor' = anchor /\ delivered' = delivered /\ told' = told
        /\ given' = given /\ backup' = backup /\ backups' = backups
    BY <1>3 DEF External
  <2>4. faults' \in 0..MaxFaults
    BY <1>3, GroupConstants DEF Faulty, Fault, NoFault, GroupInv, World
  <2> QED
    BY <1>3, <2>1, <2>2, <2>3, <2>4 DEF GroupInv, World
<1>7. /\ sure \in Coordinator /\ sure.pc = "confirm" /\ sure.op = me.op /\ sure.mem = me.mem
      /\ sure.want = me.want /\ sure.rec = me.rec /\ sure.win = me.win /\ sure.prov = me.prov
  BY <1>1 DEF Coordinator
<1>8. /\ open \in Coordinator /\ open.pc = "confirm" /\ open.op = me.op /\ open.mem = me.mem
      /\ open.want = me.want /\ open.rec = me.rec /\ open.win = me.win /\ open.prov = me.prov
  BY <1>1 DEF Coordinator
<1> HIDE DEF sure, open
<1>9. Moves(me, sure) /\ Moves(me, open)
  BY <1>4, <1>5, <1>7, <1>8 DEF Moves, Aiming, Recording
<1>10. /\ CoInv(sure, anchor, delivered) /\ CoInv(open, anchor, delivered)
       /\ CoInv(Off(FALSE, << >>), anchor, delivered)
  BY <1>1, <1>9, MoveInv, OffInv DEF Chain
<1>11. anchor' = anchor /\ delivered' = delivered
  BY <1>3 DEF External
<1>12. PICK c : Become(o, c) /\ CoInv(c, anchor, delivered)
  BY <1>3, <1>10
<1>13. CoInv(c, anchor', delivered') /\ Grows(anchor, anchor') /\ delivered \subseteq delivered'
  BY <1>11, <1>12, KeptAnchor
<1> QED
  BY <1>6, <1>12, <1>13, StepOf

LEMMA AuditForkStep ==
    ASSUME GroupInv, NEW o \in Owner, AuditFork(o)
    PROVE  GroupInv'
<1> DEFINE me == co[o]
           c == [me EXCEPT !.pc = "dead"]
<1>1. /\ CoInv(me, anchor, delivered) /\ me \in Coordinator
      /\ Stored(store, delivered) /\ Snap(store)
  BY OneCoordinator
<1>2. /\ me.pc = "audit" /\ Become(o, c) /\ Faulty /\ UNCHANGED <<anchor, External>>
      /\ store' \in {store, markFork(store)}
  BY DEF AuditFork, Faulty
<1>3. /\ Aim(markFork(store), store.rev + 1, store.head, store.outbox, store.pend, store.used)
      /\ Fits(markFork(store))
  BY <1>1, ForkedSnap DEF Stored
<1>4. Stored(markFork(store), delivered)
  BY <1>1, <1>3, SentKept DEF Stored, Aim, Made
<1>5. PackagesHeld(store, given) => PackagesHeld(markFork(store), given)
  BY <1>3 DEF PackagesHeld, Aim, Made
<1>6. /\ anchor' = anchor /\ delivered' = delivered /\ told' = told
      /\ given' = given /\ backup' = backup /\ backups' = backups
  BY <1>2 DEF External
<1>7. faults' \in 0..MaxFaults
  BY <1>2, GroupConstants DEF Faulty, Fault, NoFault, GroupInv, World
<1>8. World'
  BY <1>2, <1>4, <1>5, <1>6, <1>7 DEF GroupInv, World
<1>9. /\ c \in Coordinator /\ c.pc = "dead" /\ c.op = me.op /\ c.mem = me.mem
      /\ c.want = me.want /\ c.rec = me.rec /\ c.win = me.win /\ c.prov = me.prov
  BY <1>1 DEF Coordinator
<1> HIDE DEF c
<1>10. Moves(me, c)
  BY <1>9 DEF Moves, Aiming, Recording
<1>11. CoInv(c, anchor', delivered') /\ Grows(anchor, anchor') /\ delivered \subseteq delivered'
  BY <1>1, <1>6, <1>10, MoveInv, KeptAnchor
<1> QED
  BY <1>2, <1>8, <1>11, StepOf

\* The coordinator serves the state just anchored.
LEMMA CompletedInv ==
    ASSUME GroupInv, NEW o \in Owner, co[o].pc = "advance"
    PROVE  CoInv(Completed(o), Active(co[o].want), delivered)
<1> DEFINE me == co[o]
           left == me.todo \ {me.rec}
           next == CASE me.op = "prune" -> "import"
                     [] me.op = "ack" /\ left # {} -> "send"
                     [] OTHER -> "idle"
           rest == IF me.op = "ack" THEN left ELSE {}
           c == Completed(o)
<1> SUFFICES CoInv(c, Active(me.want), delivered)
  OBVIOUS
<1>1. /\ CoInv(me, anchor, delivered) /\ CoType(me) /\ me \in Coordinator
      /\ Snap(me.want) /\ Aiming(me)
  BY OneCoordinator DEF Aiming
<1>2. /\ AimedAt(me) /\ me.op \in {"commit", "boot", "join", "ack", "prune"}
      /\ me.win \in Windows /\ me.want.head # << >>
  BY <1>1 DEF CoType, Aimed, AimedAt, Coordinator, First
<1>3. c = [me EXCEPT !.mem = me.want, !.op = "none", !.amb = FALSE, !.pc = next, !.todo = rest]
  BY Zenon DEF Completed
<1>4. /\ next \in {"import", "send", "idle"}
      /\ next = "send" => rest # {}
      /\ next # "import" => me.op \in {"commit", "boot", "join", "ack"}
      /\ rest \subseteq Record
  BY <1>1, <1>2 DEF Coordinator
<1> HIDE DEF next, rest, c
<1>5. /\ c \in Coordinator /\ c.pc = next /\ c.op = "none" /\ c.mem = me.want
      /\ c.want = me.want /\ c.win = me.win /\ c.prov = me.prov /\ c.todo = rest
  BY <1>1, <1>3, <1>4 DEF Coordinator
<1>6. CoType(c)
  BY <1>1, <1>4, <1>5 DEF CoType, Aimed, Aiming, Recording, Snap
<1>7. OnLine(c, Active(me.want))
  <2>1. Below(me.want, me.want)
    BY <1>1, BelowOrder DEF Snap
  <2> QED
    BY <1>2, <1>5, <2>1 DEF OnLine, Active
<1>8. me.op \in {"commit", "boot", "join", "ack"} => me.prov = me.want.head
  BY <1>1, <1>2 DEF CoInv, InStep, Recording, AimedAt
<1>9. InStep(c) /\ Checked(c) /\ PackagesAimed(c)
  BY <1>4, <1>5, <1>8 DEF InStep, Checked, PackagesAimed, Aiming
<1> QED
  BY <1>1, <1>5, <1>6, <1>7, <1>9 DEF CoInv

LEMMA AdvanceAnchorStep ==
    ASSUME GroupInv, NEW o \in Owner, AdvanceAnchor(o)
    PROVE  GroupInv'
<1> DEFINE me == co[o]
<1>1. /\ me.pc = "advance" /\ anchor = Expected(o) /\ anchor' = Active(me.want)
      /\ Become(o, Completed(o))
      /\ UNCHANGED <<store, delivered, given, backup, backups, faults>>
      /\ told' = told \/ (Recording(me) /\ told' = told \cup {me.rec})
  BY DEF AdvanceAnchor, NoFault, Recording
<1>2. CoInv(Completed(o), anchor', delivered')
  BY <1>1, CompletedInv
<1>3. AnchorInv(anchor', delivered') /\ Grows(anchor, anchor') /\ delivered \subseteq delivered'
  BY <1>1, AdvancedAnchor
<1>4. Recording(me) => me.rec \in Record
  BY <1>1, OneCoordinator DEF CoType, Aimed, Aiming, Recorded
<1>5. World'
  BY <1>1, <1>3, <1>4 DEF GroupInv, World
<1> QED
  BY <1>1, <1>2, <1>3, <1>5, StepOf

-----------------------------------------------------------------------------
(* The invariant holds                                                      *)

LEMMA InitInv == Init => GroupInv
<1> SUFFICES ASSUME Init
             PROVE  GroupInv
  OBVIOUS
<1>1. /\ store = NoSnapshot /\ anchor = NoAnchor /\ backup = NoSnapshot
      /\ co = [o \in Owner |-> Off(FALSE, << >>)]
      /\ delivered = {} /\ told = {} /\ given = {} /\ faults = 0 /\ backups = 0
  BY DEF Init
<1>2. /\ NoSnapshot.head = << >> /\ Len(<< >>) = 0
      /\ NoSnapshot.pend = {} /\ NoSnapshot.used = {}
  BY EmptySeq DEF NoSnapshot
<1>3. Stored(NoSnapshot, {})
  BY <1>2, NoSnapshotSnap DEF Stored, Sent
<1>4. AnchorInv(NoAnchor, {})
  BY <1>2, <1>3, NoSnapshotSnap DEF AnchorInv, AnchorType, Anchored, NoAnchor, Stored, Snap
<1>5. PackagesHeld(NoSnapshot, {})
  BY <1>2 DEF PackagesHeld
<1>6. World
  BY <1>1, <1>3, <1>4, <1>5, GroupConstants DEF World
<1>7. \A o \in Owner : CoInv(Off(FALSE, << >>), anchor, delivered)
  BY OffInv DEF Chain
<1>8. Off(FALSE, << >>) \in Coordinator \/ Owner = {}
  BY <1>7 DEF CoInv, CoType
<1> QED
  BY <1>1, <1>6, <1>7, <1>8 DEF GroupInv

LEMMA RequestsStep ==
    ASSUME GroupInv, NEW o \in Owner, Requests(o)
    PROVE  GroupInv'
<1>1. CASE \E p \in Package : CreatePackage(o, p) \/ RetryPackage(o, p)
  BY <1>1, CreatePackageStep, RetryPackageStep
<1>2. CASE \E x \in Op, w \in Windows : Bootstrap(o, x, w)
  BY <1>2, BootstrapStep
<1>3. CASE \E x \in Op : CreateCommit(o, x) \/ ApplyCommit(o, x) \/ AcceptLocalRemoval(o, x)
  BY <1>3, PrepareStep, AcceptLocalRemovalStep DEF CreateCommit, ApplyCommit
<1>4. CASE \E r \in Invited, k \in store.pend, w \in Windows : Join(o, r, k, w)
  BY <1>4, JoinStep
<1>5. CASE \E p \in co[o].mem.replay \cup {<< >>}, x \in Op : DetectFork(o, p, x)
  BY <1>5, DetectForkStep
<1> QED
  BY <1>1, <1>2, <1>3, <1>4, <1>5, Zenon DEF Requests

LEMMA WorkStep ==
    ASSUME GroupInv, NEW o \in Owner, Work(o)
    PROVE  GroupInv'
  BY WriteStep, WriteRefusedStep, ConfirmStep, ConfirmFailsStep, AdvanceAnchorStep,
     AdvanceFailsStep, ReconcileStep, PersistAmbiguityStep, UndoStep, ImportStep,
     AuditForkStep, RetireStep DEF Work

LEMMA NextInv == GroupInv /\ [Next]_vars => GroupInv'
<1> SUFFICES ASSUME GroupInv, [Next]_vars
             PROVE  GroupInv'
  OBVIOUS
<1>1. ASSUME NEW o \in Owner, Requests(o) \/ Work(o)
      PROVE  GroupInv'
  BY <1>1, RequestsStep, WorkStep
<1>2. ASSUME NEW o \in Owner,
             PrepareFails(o) \/ (\E w \in Windows : Restore(o, w)) \/ Crash(o) \/ Replace(o)
      PROVE  GroupInv'
  BY <1>2, PrepareFailsStep, RestoreStep, RestartStep
<1>3. ASSUME NEW o \in Owner,
             FlushOutbox(o) \/ SendAccepted(o) \/ SendFails(o) \/ NoticeTerminal(o)
      PROVE  GroupInv'
  BY <1>3, FlushOutboxStep, SendAcceptedStep, SendFailsStep, NoticeTerminalStep
<1>4. CASE TakeBackup \/ SetBack
  BY <1>4, TakeBackupStep, SetBackStep
<1>5. CASE UNCHANGED vars
  <2>1. World'
    BY <1>5 DEF vars, GroupInv, World
  <2> QED
    BY <1>5, <2>1, SharedStep DEF vars
<1> QED
  BY <1>1, <1>2, <1>3, <1>4, <1>5, Zenon DEF Next

\* The durable state, the anchor and every coordinator fit together in all
\* reachable states.
THEOREM GroupInvariant == Spec => []GroupInv
  BY InitInv, NextInv, PTL DEF Spec


\* The variables keep their types and the durable snapshot its limits.
THEOREM GroupTypes == Spec => []TypeOK
<1>1. GroupInv => TypeOK
  BY DEF GroupInv, World, Stored, Snap, Fits, AnchorInv, AnchorType, TypeOK
<1> QED
  BY <1>1, GroupInvariant, PTL

\* Usable coordinators of any number of processes serve states of one line, in
\* their memory and in their providers.
THEOREM UsableOnOneLine == Spec => []OneLine
<1> SUFFICES ASSUME GroupInv
             PROVE  OneLine
  BY GroupInvariant, PTL
<1>1. ASSUME NEW o \in Owner, co[o].pc \in {"idle", "send"}
      PROVE  Below(co[o].mem, anchor.snap) /\ co[o].prov = co[o].mem.head
  BY <1>1 DEF GroupInv, CoInv, OnLine, Serving, InStep
<1> QED
  BY <1>1 DEF OneLine, NoSplitBrain, ProviderInStep, Below

-----------------------------------------------------------------------------
(* Promises                                                                 *)

\* What a wider window retains is enough for a narrower one.
LEMMA FloorOrder ==
    ASSUME NEW e \in Nat, NEW v \in Nat \ {0}, NEW w \in Nat \ {0}, w <= v
    PROVE  /\ AnchorFloor(e, w) \in 0..e /\ AnchorFloor(e, v) \in 0..e
           /\ AnchorFloor(e, v) <= AnchorFloor(e, w)
  BY DEF AnchorFloor, WindowFloor

LEMMA PruningVerifies ==
    ASSUME NEW s, Snap(s), s.head # << >>, NEW v \in Nat \ {0}, NEW w \in Nat \ {0},
           w <= v, Verifies(s, v)
    PROVE  Verifies(Pruned(s, w), w)
<1> DEFINE t == Pruned(s, w)
           e == Epoch(s.head)
<1>1. s.head \in Record /\ e \in Nat /\ \A r \in s.replay : Epoch(r) \in Nat
  <2>1. s.head \in Record /\ s.replay \subseteq Record
    BY HeadsTyped DEF Snap, Snapshot
  <2>2. \A r \in Record : Len(r) \in Nat \ {0}
    BY RecordIsSeq, GroupConstants
  <2>3. \A r \in Record : Epoch(r) \in Nat
    BY <2>2 DEF Epoch
  <2> QED
    BY <2>1, <2>3
<1>2. t.head = s.head /\ t.outbox = s.outbox /\ Snap(t)
  BY PrunedSnap DEF Made
<1>3. t.replay = {r \in s.replay : ~ShouldPrune(r, s.outbox, e, w)}
  BY PrunedSnap
<1> HIDE DEF t
<1>4. /\ AnchorFloor(e, w) \in 0..e /\ AnchorFloor(e, v) \in 0..e
      /\ AnchorFloor(e, v) <= AnchorFloor(e, w)
  BY <1>1, FloorOrder
<1>5. Fits(t)
  <2>1. Cardinality(t.replay) <= Cardinality(s.replay)
    BY <1>3, FS_Subset DEF Snap
  <2>2. /\ Cardinality(t.replay) \in Nat /\ Cardinality(s.replay) \in Nat
        /\ MaxReplay \in Nat
    BY <1>2, FS_CardinalityType, GroupConstants DEF Snap
  <2> QED
    BY <1>2, <2>1, <2>2 DEF Verifies, Fits
<1>6. Retained(s, v) /\ Linked(s)
  BY DEF Verifies
<1>7. ASSUME NEW r \in s.replay, Epoch(r) >= AnchorFloor(e, w)
      PROVE  r \in t.replay
  BY <1>1, <1>3, <1>4, <1>7 DEF ShouldPrune
<1>8. s.head \in t.replay
  BY <1>1, <1>4, <1>6, <1>7 DEF Linked
<1>9. Retained(t, w)
  <2>1. \A r, q \in t.replay : (Epoch(r) = Epoch(q) \/ LastOp(r) = LastOp(q)) => r = q
    BY <1>3, <1>6 DEF Retained
  <2>2. ASSUME NEW f \in AnchorFloor(e, w)..e
        PROVE  \E r \in t.replay : Epoch(r) = f
    <3>1. f \in AnchorFloor(e, v)..e
      BY <1>1, <1>4
    <3>2. PICK r \in s.replay : Epoch(r) = f
      BY <1>6, <3>1 DEF Retained
    <3>3. r \in t.replay
      BY <1>1, <1>4, <1>7, <3>2
    <3> QED
      BY <3>2, <3>3
  <2>3. \A r \in t.replay : Epoch(r) <= e /\ ~ShouldPrune(r, t.outbox, e, w)
    BY <1>2, <1>3, <1>6 DEF Retained
  <2> QED
    BY <1>2, <1>8, <2>1, <2>2, <2>3 DEF Retained
<1>10. Linked(t)
  BY <1>2, <1>3, <1>6, <1>8 DEF Linked
<1> QED
  BY <1>5, <1>9, <1>10 DEF Verifies, t

\* Nothing a coordinator promised is lost: records to deliver, states to restart
\* from, key packages handed out.
THEOREM PromisesAreKept == Spec => []PromisesKept
<1> SUFFICES ASSUME GroupInv
             PROVE  PromisesKept
  BY GroupInvariant, PTL
<1>1. AnchorInv(anchor, delivered) /\ Snap(store)
  BY DEF GroupInv, World, Stored
<1>2. DeliveriesKept
  BY <1>1 DEF AnchorInv, Sent, Brought, DeliveriesKept
<1>3. Restorable
  <2> SUFFICES ASSUME store.head # << >>, anchor = Active(store),
                      NEW w \in Windows, \A v \in Windows : w <= v
               PROVE  Verifies(Pruned(store, w), w)
    BY DEF Restorable
  <2>1. PICK v \in Windows : Verifies(store, v)
    BY <1>1 DEF AnchorInv, Anchored, Active
  <2>2. v \in Nat \ {0} /\ w \in Nat \ {0} /\ w <= v
    BY WindowsAreNat
  <2> QED
    BY <1>1, <2>1, <2>2, PruningVerifies
<1>4. OnePackage
  BY DEF GroupInv, World, PackagesHeld, OnePackage
<1> QED
  BY <1>2, <1>3, <1>4 DEF PromisesKept

-----------------------------------------------------------------------------
(* The refinement                                                           *)

LineNext == Lineage!Next \/ UNCHANGED Lineage!vars

\* A poisoned anchor stops the line, or founds it stopped.
LEMMA PoisonStops ==
    ASSUME GroupInv, UNCHANGED told, NEW s \in Snapshot, s.head # << >>,
           anchor' = anchor \/ anchor' = Poisoned(s)
    PROVE  LineNext
<1>1. AnchorType(anchor)
  BY OneCoordinator DEF GroupInv, World, AnchorInv
<1>2. CASE anchor' = anchor
  BY <1>2 DEF LineNext, Lineage!vars
<1>3. CASE anchor.term = "active" /\ anchor' = [anchor EXCEPT !.term = "forked"]
  <2>1. anchor'.snap = anchor.snap /\ anchor'.term = "forked"
    BY <1>1, <1>3 DEF AnchorType
  <2> QED
    BY <1>3, <2>1 DEF LineNext, Lineage!Next, Lineage!Stop, Lineage!Stopped
<1>4. CASE ~Present /\ anchor' = [snap |-> s, term |-> "forked"]
  <2>1. anchor.snap.head = << >> /\ anchor.term = "active"
    BY <1>4 DEF Present, NoAnchor, NoSnapshot
  <2>2. anchor'.snap.head = s.head /\ anchor'.term = "forked" /\ s.head \in Record
    BY <1>4, HeadsTyped
  <2> QED
    BY <2>1, <2>2 DEF LineNext, Lineage!Next, Lineage!Found
<1> QED
  BY <1>2, <1>3, <1>4 DEF Poisoned

\* The anchor advances by at most a record, and a caller may learn of it.
LEMMA AdvanceExtends ==
    ASSUME GroupInv, NEW o \in Owner, co[o].pc = "advance", anchor = Expected(o),
           anchor' = Active(co[o].want),
           told' = told \/ (Recording(co[o]) /\ told' = told \cup {co[o].rec}),
           Recording(co[o]) \/ told' = told
    PROVE  LineNext
<1> DEFINE me == co[o]
<1>1. /\ CoInv(me, anchor, delivered) /\ CoType(me) /\ Aiming(me) /\ me \in Coordinator
      /\ me.mem \in Snapshot
  BY OneCoordinator DEF Aiming, Snap
<1>2. AimedAt(me) /\ me.op \in {"commit", "boot", "join", "ack", "prune"}
  BY <1>1 DEF CoType, Aimed, AimedAt, Coordinator, First
<1>3. anchor'.snap.head = me.want.head /\ anchor'.term = "active"
  BY DEF Active
<1>4. CASE me.op \in {"boot", "join"}
  <2>1. anchor.snap.head = << >> /\ anchor.term = "active"
    BY <1>4 DEF Expected, First, NoAnchor, NoSnapshot
  <2>2. me.want.head = me.rec /\ me.rec \in Record
    BY <1>1, <1>4 DEF CoType, Aimed, Recorded, Recording
  <2>3. CASE told' = told
    BY <1>3, <2>1, <2>2, <2>3 DEF LineNext, Lineage!Next, Lineage!Found
  <2>4. CASE told' = told \cup {me.rec}
    BY <1>3, <2>1, <2>2, <2>4 DEF LineNext, Lineage!Next, Lineage!Tell
  <2> QED
    BY <2>3, <2>4
<1>5. CASE me.op = "commit"
  <2>1. anchor.snap.head = me.mem.head /\ anchor.term = "active"
    BY <1>5 DEF Expected, First, Active
  <2>2. /\ me.want.head = me.rec /\ me.rec \in Record
        /\ \E x \in Op : me.want.head = Append(me.mem.head, x)
    BY <1>1, <1>5 DEF CoType, Aimed, Recorded, Recording
  <2>3. me.mem.head # << >> /\ me.mem.head \in Seq(Op)
    BY <1>1, <1>5, HeadsTyped DEF CoInv, OnLine, Serving
  <2>4. /\ Len(me.want.head) = Len(me.mem.head) + 1
        /\ SubSeq(me.want.head, 1, Len(me.mem.head)) = me.mem.head
    BY <2>2, <2>3, AncestorAppend
  <2>5. Lineage!Extend
    BY <1>3, <2>1, <2>2, <2>3, <2>4 DEF Lineage!Extend
  <2>6. CASE told' = told
    BY <2>5, <2>6 DEF LineNext, Lineage!Next
  <2>7. CASE told' = told \cup {me.rec}
    BY <1>3, <2>1, <2>2, <2>5, <2>7 DEF LineNext, Lineage!Next, Lineage!Tell
  <2> QED
    BY <2>6, <2>7
<1>6. CASE me.op \in {"ack", "prune"}
  <2>1. anchor.snap.head = me.mem.head /\ anchor.term = "active"
    BY <1>6 DEF Expected, First, Active
  <2>2. me.want.head = me.mem.head /\ told' = told
    BY <1>2, <1>6 DEF AimedAt, Recording
  <2> QED
    BY <1>3, <2>1, <2>2 DEF LineNext, Lineage!vars
<1> QED
  BY <1>2, <1>4, <1>5, <1>6

LEMMA QuietLine ==
    ASSUME UNCHANGED <<anchor, told>>
    PROVE  LineNext
  BY DEF LineNext, Lineage!vars

LEMMA RequestsLine ==
    ASSUME GroupInv, NEW o \in Owner, Requests(o)
    PROVE  LineNext
<1>1. ASSUME NEW x \in Op, AcceptLocalRemoval(o, x)
      PROVE  LineNext
  BY <1>1, QuietLine DEF AcceptLocalRemoval, External
<1>2. ASSUME NEW p, NEW x, DetectFork(o, p, x)
      PROVE  LineNext
  <2>1. /\ told' = told /\ (anchor' = anchor \/ anchor' = Poisoned(store))
        /\ co[o].pc = "idle" /\ store = co[o].mem
    BY <1>2 DEF DetectFork, External, Current
  <2>2. store \in Snapshot /\ store.head # << >>
    BY <2>1, OneCoordinator DEF CoInv, OnLine, Serving, Snap
  <2> QED
    BY <2>1, <2>2, PoisonStops
<1>3. CASE \E p \in Package : CreatePackage(o, p) \/ RetryPackage(o, p)
  BY <1>3, QuietLine DEF CreatePackage, RetryPackage, External
<1>4. CASE \E x \in Op, w \in Windows : Bootstrap(o, x, w)
  BY <1>4, QuietLine DEF Bootstrap, External
<1>5. CASE \E x \in Op : CreateCommit(o, x) \/ ApplyCommit(o, x)
  BY <1>5, QuietLine DEF CreateCommit, ApplyCommit, Prepare, External
<1>6. CASE \E r \in Invited, k \in store.pend, w \in Windows : Join(o, r, k, w)
  BY <1>6, QuietLine DEF Join, External
<1> QED
  BY <1>1, <1>2, <1>3, <1>4, <1>5, <1>6, Zenon DEF Requests

LEMMA WorkLine ==
    ASSUME GroupInv, NEW o \in Owner, Work(o)
    PROVE  LineNext
<1>1. CASE Write(o) \/ WriteRefused(o) \/ ConfirmFails(o)
  BY <1>1, QuietLine DEF Write, WriteRefused, ConfirmFails, External
<1>2. CASE Confirm(o)
  BY <1>2, QuietLine DEF Confirm
<1>3. CASE Undo(o) \/ Import(o) \/ AuditFork(o)
  BY <1>3, QuietLine DEF Undo, Import, AuditFork, External
<1>4. CASE AdvanceAnchor(o)
  BY <1>4, AdvanceExtends DEF AdvanceAnchor, Recording
<1>5. CASE AdvanceFails(o)
  <2>1. /\ co[o].pc = "advance" /\ told' = told
        /\ anchor' = anchor \/ (anchor = Expected(o) /\ anchor' = Active(co[o].want))
    BY <1>5 DEF AdvanceFails, External
  <2> QED
    BY <2>1, QuietLine, AdvanceExtends
<1>6. CASE Reconcile(o)
  <2>1. /\ told' = told /\ (anchor' = anchor \/ anchor' = Poisoned(store))
        /\ store.head # << >> /\ store \in Snapshot
    BY <1>6, OneCoordinator DEF Reconcile, External, Snap
  <2> QED
    BY <2>1, PoisonStops
<1>7. CASE PersistAmbiguity(o)
  <2>1. /\ told' = told /\ (anchor' = anchor \/ anchor' = Poisoned(co[o].want))
        /\ co[o].pc = "reconcile"
    BY <1>7 DEF PersistAmbiguity, External
  <2>2. co[o].want \in Snapshot /\ co[o].want.head \in Record
    BY <2>1, OneCoordinator DEF CoType, Aimed, Recorded, Snap
  <2>3. co[o].want.head # << >>
    BY <2>2, HeadsTyped
  <2> QED
    BY <2>1, <2>2, <2>3, PoisonStops
<1>8. CASE RetireAnchor(o)
  <2>1. /\ told' = told /\ AnchorType(anchor)
        /\ anchor' = anchor \/ (anchor.term = "active" /\ anchor' = Retired(anchor))
    BY <1>8, OneCoordinator DEF RetireAnchor, External, Expected, Active, NoAnchor
  <2>2. Retired(anchor).snap = anchor.snap /\ Retired(anchor).term = "removed"
    BY <2>1 DEF Retired, AnchorType
  <2> QED
    BY <2>1, <2>2, QuietLine DEF LineNext, Lineage!Next, Lineage!Stop, Lineage!Stopped
<1>9. CASE RetireRefused(o)
  <2>1. /\ told' = told /\ (anchor' = anchor \/ anchor' = Poisoned(co[o].mem))
        /\ co[o].pc = "retire"
    BY <1>9 DEF RetireRefused, External
  <2>2. co[o].mem \in Snapshot /\ co[o].mem.head # << >>
    BY <2>1, OneCoordinator DEF CoInv, OnLine, Serving, Snap
  <2> QED
    BY <2>1, <2>2, PoisonStops
<1> QED
  BY <1>1, <1>2, <1>3, <1>4, <1>5, <1>6, <1>7, <1>8, <1>9, Zenon DEF Work

\* The coordinators implement one line that grows at its end, stops for good at a
\* fork or a removal, and of which only members are reported as committed.
THEOREM ImplementsLineage == Spec => RefinesLineage
<1>1. Init => Lineage!Init
  BY DEF Init, NoAnchor, NoSnapshot, Lineage!Init
<1>2. GroupInv /\ [Next]_vars => [Lineage!Next]_(Lineage!vars)
  <2> SUFFICES ASSUME GroupInv, [Next]_vars
               PROVE  LineNext
    BY DEF LineNext
  <2>1. ASSUME NEW o \in Owner, Requests(o) \/ Work(o)
        PROVE  LineNext
    BY <2>1, RequestsLine, WorkLine
  <2>2. ASSUME NEW o \in Owner,
               PrepareFails(o) \/ (\E w \in Windows : Restore(o, w)) \/ Crash(o) \/ Replace(o)
        PROVE  LineNext
    BY <2>2, QuietLine DEF PrepareFails, Restore, Crash, Replace, External
  <2>3. ASSUME NEW o \in Owner,
               FlushOutbox(o) \/ SendAccepted(o) \/ SendFails(o) \/ NoticeTerminal(o)
        PROVE  LineNext
    BY <2>3, QuietLine DEF FlushOutbox, SendAccepted, SendFails, NoticeTerminal, External
  <2>4. CASE TakeBackup \/ SetBack \/ UNCHANGED vars
    BY <2>4, QuietLine DEF TakeBackup, SetBack, vars
  <2> QED
    BY <2>1, <2>2, <2>3, <2>4, Zenon DEF Next
<1> QED
  BY <1>1, <1>2, GroupInvariant, PTL DEF Spec, RefinesLineage, Lineage!Spec

=============================================================================
