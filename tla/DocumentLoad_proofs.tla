------------------------ MODULE DocumentLoad_proofs ------------------------
(***************************************************************************)
(* What DocumentLoad promises, for every set of peers and authorities,      *)
(* every connection list and every K and Q: what a load installs was agreed *)
(* on by more authorities than can lie, was held while the load ran, comes  *)
(* from a writer and went to a member, and an instance a load only half     *)
(* filled stays closed.                                                    *)
(*                                                                         *)
(* The inductive invariant LoadInv says, beside the safety properties,      *)
(* where the messages under way come from (Provenance), what a counted vote *)
(* is worth (VotesAttributed), and which stage, digest and application      *)
(* state go with each phase (PhaseInv, ApplyInv).  That a quorum holds an   *)
(* honest vote is a pigeonhole argument over the signers of the votes.      *)
(***************************************************************************)
EXTENDS DocumentLoad, FiniteSetTheorems, SequenceTheorems, WellFoundedInduction, TLAPS

-----------------------------------------------------------------------------
(* The inductive invariant                                                  *)

Phase == {"idle", "probe", "fetch", "await", "queued", "applying", "completing"}
Replies == [use : {"adv", "load", "catch"}, ch : Nat, signer : Authorities,
            tips : Contents, content : Contents]
Plans == Replies \cup {NoAnswer}
Messages == Plans \cup {Unusable}
Signed == [ch : Nat, signer : Authorities, content : Contents]
Sessions == [ch : Nat, version : Nat, boot : BOOLEAN, auths : SUBSET Authorities,
             spent : Nat]

\* The shape of the variables TypeOK leaves out.
Shape ==
    /\ sess \in Sessions /\ sess.ch = loads
    /\ joining \in BOOLEAN /\ writerVersion \in Nat
    /\ pendingWriters \subseteq Authorities
    /\ plan \in [Honest -> Plans] /\ wire \in [Honest -> Messages]
    /\ archive \subseteq Signed
    /\ peerDoc \in [Honest -> 1..MaxContent] /\ DOMAIN member = Honest

\* A message an honest peer put together: it answers an earlier challenge, or
\* what it serves was held since this session was captured.
Fresh(m) == /\ m.ch <= loads /\ (m.ch = loads => m.content \in held)
Genuine(m) == m \in Replies => m.tips = m.content /\ Fresh(m)

\* While a load runs, what the honest peers hold counts as held since it began;
\* all that they prepared, wrote and signed is genuine.
Provenance ==
    /\ pc # "idle" => \A h \in Honest : peerDoc[h] \in held
    /\ \A h \in Honest : Genuine(plan[h]) /\ Genuine(wire[h])
    /\ \A m \in archive : Fresh(m)

\* A vote counts for an authority the session trusts; of an honest authority it
\* names a state that was held since the session was captured.
HeldDigest(d) == d \in {LoadAdvertisementHash(c, c) : c \in held}
VotesAttributed ==
    pc = "probe" =>
        \A p \in Peers : /\ votes[p].kind # "idle" => \E i \in DOMAIN cohort : cohort[i] = p
                         /\ votes[p].kind = "vote" =>
                              /\ votes[p].signer \in sess.auths
                              /\ votes[p].signer \notin Byzantine => HeldDigest(votes[p].digest)

\* Which place in the cohort, digest, stage and application state go with each
\* phase of a load, and which attempts are left.
PhaseInv ==
    /\ pc \in {"await", "queued", "applying", "completing"} => at <= Len(cohort)
    /\ pc = "idle" => stage = "doc"
    /\ pc \in {"idle", "probe"} \/ stage = "catch" => win = NoDigest
    /\ pc = "probe" => stage # "catch" /\ at = 1
    /\ stage = "catch" => joining /\ ~sess.boot
    /\ joining => app = "pending"
    /\ pendingWriters # Nobody => app = "complete"
    /\ outcome = "retry" => attempts < 3
    /\ pc # "idle" => outcome = "running"

\* A response is applied to an instance that is marked, or by a writer's word;
\* an application is completed when all of its content is installed.
ApplyInv ==
    /\ pc = "applying" =>
          CASE sess.boot -> app = "pending"
            [] ~sess.boot /\ stage = "catch" -> TRUE
            [] OTHER -> /\ app = "complete" /\ pendingWriters = Nobody
                        /\ resp.signer \in writers
    /\ pc = "completing" => /\ sess.boot \/ stage = "catch"
                            /\ sess.boot => app = "pending"
                            /\ Cids(resp.content) \subseteq hashes

LoadInv ==
    /\ TypeOK /\ Shape /\ Provenance /\ VotesAttributed /\ PhaseInv /\ ApplyInv
    /\ QuorumFresh /\ AppliesAgreed /\ NoOpenHalfLoad

-----------------------------------------------------------------------------
(* Lists and votes                                                          *)

LEMMA LoadConsts ==
    /\ AuthOf \in [Peers -> Authorities] /\ Byzantine \subseteq Authorities
    /\ Issuer \in Authorities /\ IsFiniteSet(Authorities)
    /\ Trusted \subseteq Authorities /\ Orders \subseteq Seq(Peers)
    /\ MaxContent \in Nat \ {0} /\ MaxLoads \in Nat \ {0} /\ MaxChecks \in Nat \ {0}
    /\ K \in Nat \ {0} /\ Q \in Nat
BY LoadConstants

\* A set of naturals that is not empty has a least element.
LEMMA LeastNatural ==
    ASSUME NEW L \in SUBSET Nat, L # {}
    PROVE  \E n \in L : \A m \in L : n <= m
<1>1. \E n \in L : \A m \in L : ~(<<m, n>> \in OpToRel(<, Nat))
  BY WFMin, NatLessThanWellFounded, Zenon
<1>2. \E n \in L : \A m \in L : ~(m < n)
  BY <1>1, Zenon DEF OpToRel
<1> QED
  BY <1>2

\* Of the positions of a list, one has each rank.
LEMMA RankExists ==
    ASSUME NEW len \in Nat, NEW P \in SUBSET (1..len), NEW n \in 1..Cardinality(P)
    PROVE  /\ IsFiniteSet(P)
           /\ \E i \in P : Cardinality(P \cap (1..i)) = n
<1> DEFINE Rank(i) == Cardinality(P \cap (1..i))
           L == {i \in Nat : Rank(i) >= n}
<1>1. IsFiniteSet(P)
  <2>1. IsFiniteSet(1..len)
    BY FS_Interval
  <2> QED
    BY <2>1, FS_Subset
<1>2. \A i \in Nat : Rank(i) \in Nat
  BY <1>1, FS_Intersection, FS_CardinalityType
<1>3. Cardinality(P) \in Nat
  BY <1>1, FS_CardinalityType
<1>4. len \in L
  <2>1. P \cap (1..len) = P
    OBVIOUS
  <2> QED
    BY <2>1, <1>3
<1>5. PICK i \in L : \A m \in L : i <= m
  BY <1>4, LeastNatural
<1>6. Rank(0) = 0
  <2>1. P \cap (1..0) = {}
    OBVIOUS
  <2> QED
    BY <2>1, FS_EmptySet
<1>7. i \in Nat /\ i # 0 /\ Rank(i) >= n /\ i - 1 \in Nat /\ ~(Rank(i - 1) >= n)
  BY <1>5, <1>6, <1>3
<1>8. P \cap (1..i) = IF i \in P THEN (P \cap (1..(i - 1))) \cup {i} ELSE P \cap (1..(i - 1))
  BY <1>7
<1>9. IsFiniteSet(P \cap (1..(i - 1)))
  BY <1>1, FS_Intersection
<1>10. Rank(i) = IF i \in P THEN Rank(i - 1) + 1 ELSE Rank(i - 1)
  <2>1. i \notin P \cap (1..(i - 1))
    BY <1>7
  <2> QED
    BY <2>1, <1>8, <1>9, FS_AddElement
<1>11. i \in P /\ Rank(i) = n
  BY <1>7, <1>10, <1>2, <1>3
<1> QED
  BY <1>1, <1>11

\* What is picked from a list is a list over the same set, as long as the number
\* of positions.
LEMMA PickedType ==
    ASSUME NEW T, NEW order \in Seq(T), NEW P \in SUBSET (DOMAIN order)
    PROVE  /\ Picked(order, P) \in Seq(T) /\ Cardinality(P) \in Nat
           /\ Len(Picked(order, P)) = Cardinality(P)
           /\ DOMAIN Picked(order, P) = 1..Cardinality(P)
<1>1. Len(order) \in Nat /\ DOMAIN order = 1..Len(order) /\ \A i \in DOMAIN order : order[i] \in T
  BY LenProperties
<1>2. Cardinality(P) \in Nat
  <2>1. IsFiniteSet(1..Len(order))
    BY <1>1, FS_Interval
  <2>2. IsFiniteSet(P)
    BY <1>1, <2>1, FS_Subset
  <2> QED
    BY <2>2, FS_CardinalityType
<1>3. ASSUME NEW n \in 1..Cardinality(P)
      PROVE  order[CHOOSE i \in P : Cardinality(P \cap (1..i)) = n] \in T
  BY <1>1, RankExists
<1>4. Picked(order, P) \in [1..Cardinality(P) -> T]
  BY <1>3 DEF Picked
<1> QED
  BY <1>2, <1>4, SeqDef, LenProperties

\* The position of an entry of a list names that entry.
LEMMA PositionNames ==
    ASSUME NEW order \in Seq(Peers), NEW p, \E i \in DOMAIN order : order[i] = p
    PROVE  PositionOf(order, p) \in Nat /\ order[PositionOf(order, p)] = p
<1> DEFINE I == {i \in DOMAIN order : order[i] = p}
<1>1. DOMAIN order \subseteq Nat
  BY LenProperties
<1>2. I \in SUBSET Nat /\ I # {}
  BY <1>1
<1>3. \E n \in I : \A m \in I : n <= m
  BY <1>2, LeastNatural
<1>4. Min(I) \in I
  BY <1>3 DEF Min
<1> QED
  BY <1>4, <1>1 DEF PositionOf

\* The first votes of two peers are by two authorities.
LEMMA FirstVotersDiffer ==
    ASSUME TypeOK, VotesAttributed, pc = "probe",
           NEW p \in FirstVoters, NEW r \in FirstVoters, votes[p].signer = votes[r].signer
    PROVE  p = r
<1>1. p \in Voters /\ r \in Voters
  BY DEF FirstVoters
<1>2. p \in Peers /\ r \in Peers /\ votes[p].kind # "idle" /\ votes[r].kind # "idle"
  BY <1>1 DEF Voters, Probed
<1>3. cohort \in Seq(Peers)
  BY DEF TypeOK
<1>4. /\ \E i \in DOMAIN cohort : cohort[i] = p
      /\ \E i \in DOMAIN cohort : cohort[i] = r
  BY <1>2 DEF VotesAttributed
<1>5. /\ PositionOf(cohort, p) \in Nat /\ cohort[PositionOf(cohort, p)] = p
      /\ PositionOf(cohort, r) \in Nat /\ cohort[PositionOf(cohort, r)] = r
  BY <1>3, <1>4, PositionNames
<1>6. /\ PositionOf(cohort, p) <= PositionOf(cohort, r)
      /\ PositionOf(cohort, r) <= PositionOf(cohort, p)
  BY <1>1 DEF FirstVoters
<1>7. PositionOf(cohort, p) = PositionOf(cohort, r)
  BY <1>5, <1>6
<1> QED
  BY <1>5, <1>7

\* A digest that reaches a quorum larger than the trusted Byzantine authorities
\* has the vote of an honest one.
LEMMA HonestVoteInQuorum ==
    ASSUME TypeOK, VotesAttributed, pc = "probe", Q > 0,
           Cardinality(Byzantine \cap sess.auths) < Q,
           NEW k, NEW d \in QualifyingDigests(RequiredQuorumQ(k))
    PROVE  HeldDigest(d)
<1> DEFINE S == {p \in FirstVoters : votes[p].digest = d}
           B == Byzantine \cap sess.auths
           signer == [p \in S |-> votes[p].signer]
<1>1. Cardinality(S) >= Q
  BY LoadConsts DEF QualifyingDigests, RequiredQuorumQ, Tally
<1>2. IsFiniteSet(B)
  BY LoadConsts, FS_Subset, FS_Intersection
<1>3. \A p \in S : /\ p \in Peers /\ p \in FirstVoters /\ votes[p].kind = "vote"
                   /\ votes[p].digest = d
  BY DEF FirstVoters, Voters, Probed
<1>4. SUFFICES ASSUME \A p \in S : votes[p].signer \in Byzantine
               PROVE  FALSE
  BY <1>3 DEF VotesAttributed
<1>5. signer \in Injection(S, B)
  <2>1. \A p \in S : signer[p] \in B
    BY <1>3, <1>4 DEF VotesAttributed
  <2>2. \A p, r \in S : signer[p] = signer[r] => p = r
    BY <1>3, FirstVotersDiffer
  <2> QED
    BY <2>1, <2>2 DEF Injection, IsInjective
<1>6. IsFiniteSet(S) /\ Cardinality(S) <= Cardinality(B)
  BY <1>2, <1>5, FS_Injection
<1> QED
  BY <1>1, <1>2, <1>6, FS_CardinalityType, LoadConsts

-----------------------------------------------------------------------------
(* Messages and the end of a load                                           *)

\* The messages that say nothing are no replies.
LEMMA SilentMessages ==
    /\ NoAnswer \in Plans /\ Plans \subseteq Messages /\ Unusable \in Messages
    /\ NoAnswer \notin Replies /\ Unusable \notin Replies
    /\ NoAnswer.content = NoContent /\ Unusable.content = NoContent
    /\ NoContent \notin Contents
    /\ \A m \in Messages : m.use \in {"adv", "load", "catch"} => m \in Replies
BY LoadConsts DEF NoAnswer, Unusable, Plans, Messages, Replies, NoContent, Contents, Forged

\* How a load leaves a phase: the streams it drops carry nothing more.
Quiet ==
    /\ plan' \in [Honest -> Plans] /\ wire' \in [Honest -> Messages]
    /\ \A h \in Honest : plan'[h] \in {plan[h], NoAnswer} /\ wire'[h] \in {wire[h], NoAnswer}
Ended(o) ==
    /\ pc' = "idle" /\ outcome' = o /\ stage' = "doc" /\ win' = NoDigest
    /\ votes' = [p \in Peers |-> NotAsked] /\ cohort' = << >> /\ at' = 1 /\ Quiet
Moved ==
    /\ pc' = "fetch" /\ stage # "catch" /\ stage' \in {"snap", "doc"}
    /\ at' \in 1..(Len(cohort) + 1) /\ UNCHANGED <<votes, win, cohort, outcome>> /\ Quiet

LEMMA FinishEnds ==
    ASSUME Shape, NEW o, Finish(o)
    PROVE  Ended(o)
BY SilentMessages DEF Finish, Ended, Quiet, Shape

LEMMA HangupQuiet ==
    ASSUME Shape, NEW p, Hangup(p)
    PROVE  Quiet
BY SilentMessages DEF Hangup, Quiet, Shape

LEMMA AdvanceMoves ==
    ASSUME TypeOK, Shape, at <= Len(cohort), NEW bind, NEW changed, NEW threw,
           Advance(bind, changed, threw)
    PROVE  \/ Moved
           \/ Ended("error")
           \/ attempts < 3 /\ Ended("retry")
<1>1. CASE (threw /\ app = "pending") \/ stage = "catch"
  BY <1>1, FinishEnds DEF Advance
<1>2. CASE ~((threw /\ app = "pending") \/ stage = "catch")
  <2>1. Hangup(Server)
    BY <1>2 DEF Advance
  <2>2. Quiet
    BY <2>1, HangupQuiet
  <2>3. Len(cohort) \in Nat
    BY LenProperties DEF TypeOK
  <2> QED
    BY <1>2, <2>2, <2>3 DEF Advance, Moved, FirstStage, TypeOK
<1> QED
  BY <1>1, <1>2

\* A signature check spends from the budget and leaves the session as it is.
SessionKept ==
    /\ sess' \in Sessions /\ sess'.spent \in 0..MaxChecks
    /\ sess'.ch = sess.ch /\ sess'.boot = sess.boot /\ sess'.auths = sess.auths
    /\ sess'.version = sess.version

LEMMA SpendKeeps ==
    ASSUME TypeOK, Shape, Affordable, Spend
    PROVE  SessionKept
<1>1. sess.spent \in 0..(MaxChecks - 1)
  BY LoadConsts DEF TypeOK, Affordable
<1>2. /\ sess.ch \in Nat /\ sess.version \in Nat /\ sess.boot \in BOOLEAN
      /\ sess.auths \in SUBSET Authorities /\ sess.spent + 1 \in 0..MaxChecks
      /\ sess.spent + 1 \in Nat
  BY <1>1, LoadConsts DEF Shape, Sessions
<1>3. sess' = [ch |-> sess.ch, version |-> sess.version, boot |-> sess.boot,
               auths |-> sess.auths, spent |-> sess.spent + 1]
  BY DEF Shape, Sessions, Spend
<1> QED
  BY <1>2, <1>3 DEF Sessions, SessionKept

LEMMA SessionUnchanged ==
    ASSUME TypeOK, Shape, UNCHANGED sess
    PROVE  SessionKept
BY DEF TypeOK, Shape, SessionKept

\* An application may add blocks and writers to a document that is not pristine.
DocumentGrows ==
    /\ UNCHANGED <<app, joining, pendingWriters>>
    /\ hashes \subseteq hashes' /\ hashes' \subseteq Contents
    /\ writers' \subseteq Authorities /\ writerVersion' \in Nat
    /\ app = "pristine" => UNCHANGED <<hashes, writers>>

\* However a load ends or moves on, the invariant holds.
LEMMA LeavingKeeps ==
    ASSUME LoadInv, pc # "idle", SessionKept, DocumentGrows,
           \/ Moved
           \/ \E o \in {"error", "no-quorum", "all-bind-failed", "unreachable",
                        "conflict", "missing"} : Ended(o)
           \/ attempts < 3 /\ Ended("retry")
           \/ app = "complete" /\ Ended("loaded"),
           pc = "probe" => ~Moved,
           UNCHANGED <<loads, attempts, peerDoc, member, archive, held>>
    PROVE  LoadInv'
<1> USE DEF LoadInv
<1>1. Quiet
  BY DEF Moved, Ended
<1>2. TypeOK'
  <2>1. << >> \in Seq(Peers) /\ Len(<< >>) = 0
    BY EmptySeq
  <2>2. NotAsked \in [kind : {"idle", "pending", "none", "vote"},
                      signer : Authorities, digest : Digests \cup {NoDigest}]
    BY LoadConsts DEF NotAsked, Pending
  <2>3. CASE Moved
    BY <2>3, <1>1, LenProperties
       DEF TypeOK, Shape, Moved, Quiet, SessionKept, Sessions, DocumentGrows
  <2>4. CASE ~Moved
    <3>1. /\ pc' = "idle" /\ stage' = "doc" /\ win' = NoDigest
          /\ votes' = [p \in Peers |-> NotAsked] /\ cohort' = << >> /\ at' = 1
          /\ outcome' \in {"error", "no-quorum", "all-bind-failed", "unreachable",
                           "conflict", "missing", "retry", "loaded"}
      BY <2>4 DEF Ended
    <3> QED
      BY <3>1, <2>1, <2>2, <1>1 DEF TypeOK, Shape, Quiet, SessionKept, Sessions, DocumentGrows
  <2> QED
    BY <2>3, <2>4
<1>3. Shape'
  BY <1>1 DEF Shape, Quiet, SessionKept, DocumentGrows
<1>4. Provenance'
  BY <1>1, SilentMessages DEF Provenance, Genuine, Fresh, Quiet, Ended, Moved
<1>5. VotesAttributed'
  BY DEF VotesAttributed, Ended, Moved
<1>6. PhaseInv'
  BY DEF PhaseInv, DocumentGrows, SessionKept, Ended, Moved, NoOpenHalfLoad
<1>7. ApplyInv'
  BY DEF ApplyInv, Ended, Moved
<1>8. QuorumFresh'
  BY DEF QuorumFresh, SessionKept, Ended, Moved
<1>9. AppliesAgreed'
  BY DEF AppliesAgreed, Ended, Moved
<1>10. NoOpenHalfLoad'
  BY DEF NoOpenHalfLoad, DocumentGrows, Ended, Moved
<1> QED
  BY <1>2, <1>3, <1>4, <1>5, <1>6, <1>7, <1>8, <1>9, <1>10

-----------------------------------------------------------------------------
(* A load begins                                                            *)

LEMMA DedupeType ==
    ASSUME NEW order \in Orders
    PROVE  /\ DedupePeersByPeerId(order) \in Seq(Peers)
           /\ Len(DedupePeersByPeerId(order)) \in Nat
           /\ DOMAIN DedupePeersByPeerId(order) = 1..Len(DedupePeersByPeerId(order))
<1> DEFINE P == {i \in DOMAIN order : \A j \in 1..(i - 1) : order[j] # order[i]}
<1>1. order \in Seq(Peers)
  BY LoadConsts
<1>2. P \in SUBSET (DOMAIN order)
  OBVIOUS
<1>3. Picked(order, P) \in Seq(Peers)
  BY <1>1, <1>2, PickedType
<1> QED
  BY <1>3, LenProperties DEF DedupePeersByPeerId

\* A captured session: its challenge is new, so nothing signed before answers it.
LEMMA CaptureFresh ==
    ASSUME TypeOK, Shape, Provenance, NEW boot \in BOOLEAN, NEW auths \in SUBSET Authorities,
           Capture(boot, auths), Quiet, UNCHANGED <<peerDoc, archive>>
    PROVE  /\ sess' \in Sessions /\ sess'.ch = loads' /\ sess'.ch \in 0..MaxLoads
           /\ sess'.spent = 0 /\ sess'.auths = auths /\ sess'.boot = boot
           /\ Provenance'
<1>1. loads \in Nat /\ loads' = loads + 1 /\ loads' \in 0..MaxLoads
  BY LoadConsts DEF TypeOK, Shape, Capture
<1>2. sess' \in Sessions /\ sess'.ch = loads' /\ sess'.spent = 0 /\ sess'.auths = auths
      /\ sess'.boot = boot
  BY <1>1 DEF Capture, Sessions, Shape
<1>3. \A m : m.ch \in Nat /\ Fresh(m) => Fresh(m)'
  BY <1>1 DEF Fresh
<1>4. \A m \in Replies \cup Signed : m.ch \in Nat
  BY DEF Replies, Signed
<1>5. \A h \in Honest : Genuine(plan[h])' /\ Genuine(wire[h])'
  BY <1>3, <1>4, SilentMessages DEF Provenance, Genuine, Quiet
<1>6. \A m \in archive' : Fresh(m)'
  BY <1>3, <1>4 DEF Provenance, Shape
<1>7. \A h \in Honest : peerDoc'[h] \in held'
  BY DEF Capture
<1> QED
  BY <1>1, <1>2, <1>5, <1>6, <1>7 DEF Provenance

LEMMA StartLoadKeeps ==
    ASSUME LoadInv, NEW order \in Orders, StartLoad(order)
    PROVE  LoadInv'
<1> DEFINE peers == DedupePeersByPeerId(order)
           k == EffectiveK(K, Len(peers))
           probe == {peers[i] : i \in 1..k}
<1> USE DEF LoadInv
<1>1. /\ peers \in Seq(Peers) /\ Len(peers) \in Nat /\ DOMAIN peers = 1..Len(peers)
      /\ order \in Seq(Peers) /\ Len(order) \in Nat /\ << >> \in Seq(Peers) /\ Len(<< >>) = 0
  BY DedupeType, LoadConsts, EmptySeq, LenProperties
<1>2. \A p \in probe : \E i \in DOMAIN peers : peers[i] = p
  BY <1>1, LoadConsts DEF EffectiveK
<1> HIDE DEF peers, k
<1>3. /\ pc = "idle" /\ app # "pending" /\ pendingWriters = Nobody
      /\ Capture(writers = {}, IF writers = {} THEN Trusted ELSE writers)
      /\ UNCHANGED <<quorumEnabled, attempts, docVars, peerDoc, member, archive>>
      /\ resp' = NoAnswer
  BY DEF StartLoad
<1>4. /\ NotAsked \in [kind : {"idle", "pending", "none", "vote"},
                       signer : Authorities, digest : Digests \cup {NoDigest}]
      /\ Pending \in [kind : {"idle", "pending", "none", "vote"},
                      signer : Authorities, digest : Digests \cup {NoDigest}]
      /\ NotAsked.kind = "idle" /\ Pending.kind = "pending"
  BY LoadConsts DEF NotAsked, Pending
<1>5. \/ Ended("no-quorum")
      \/ /\ outcome' = "running" /\ at' = 1 /\ stage' \in {"snap", "doc"}
         /\ \/ pc' = "probe" /\ cohort' = peers
            \/ pc' = "fetch" /\ cohort' = order
         /\ votes' = [p \in Peers |-> IF quorumEnabled /\ p \in probe THEN Pending
                                                                      ELSE NotAsked]
         /\ win' = NoDigest /\ Quiet
  BY FinishEnds DEF StartLoad, peers, k, FirstStage, Quiet, Shape
<1>6. /\ Quiet /\ cohort' \in Seq(Peers) /\ at' = 1 /\ at' \in 1..(Len(cohort') + 1)
      /\ win' = NoDigest /\ pc' \in {"idle", "probe", "fetch"} /\ stage' \in {"snap", "doc"}
      /\ pc' = "idle" => stage' = "doc" /\ outcome' \notin {"retry", "loaded"}
      /\ pc' # "idle" => outcome' = "running"
      /\ outcome' \in {"no-quorum", "running"}
  <2>1. cohort' \in Seq(Peers) /\ Len(cohort') \in Nat
    <3>1. cohort' \in {<< >>, peers, order}
      BY <1>5 DEF Ended
    <3> QED
      BY <1>1, <3>1
  <2>2. at' = 1
    BY <1>5 DEF Ended
  <2> QED
    BY <1>5, <2>1, <2>2 DEF Ended
<1>7. \A p \in Peers : votes'[p] \in {NotAsked, Pending}
  BY <1>5 DEF Ended
<1>8. /\ sess' \in Sessions /\ sess'.ch = loads' /\ sess'.ch \in 0..MaxLoads
      /\ sess'.spent = 0 /\ sess'.auths \subseteq Authorities /\ Provenance'
  <2>1. (IF writers = {} THEN Trusted ELSE writers) \in SUBSET Authorities
    BY LoadConsts DEF TypeOK
  <2> QED
    BY <1>3, <1>6, <2>1, CaptureFresh
<1>9. TypeOK'
  <2>1. votes' \in [Peers -> [kind : {"idle", "pending", "none", "vote"},
                              signer : Authorities, digest : Digests \cup {NoDigest}]]
    BY <1>4, <1>5 DEF Ended
  <2> QED
    BY <2>1, <1>3, <1>6, <1>8, LoadConsts DEF TypeOK, Quiet, docVars
<1>10. Shape'
  BY <1>3, <1>6, <1>8 DEF Shape, Quiet, docVars
<1>11. VotesAttributed'
  <2>1. SUFFICES ASSUME pc' = "probe", NEW p \in Peers, votes'[p].kind # "idle"
                 PROVE  \E i \in DOMAIN cohort' : cohort'[i] = p
    BY <1>4, <1>7 DEF VotesAttributed
  <2> QED
    BY <2>1, <1>2, <1>4, <1>5 DEF Ended
<1>12. PhaseInv'
  BY <1>3, <1>6 DEF PhaseInv, docVars
<1>13. ApplyInv' /\ QuorumFresh' /\ AppliesAgreed'
  BY <1>6 DEF ApplyInv, QuorumFresh, AppliesAgreed
<1>14. NoOpenHalfLoad'
  BY <1>3, <1>6 DEF NoOpenHalfLoad, docVars
<1> QED
  BY <1>8, <1>9, <1>10, <1>11, <1>12, <1>13, <1>14

LEMMA StartCatchUpKeeps ==
    ASSUME LoadInv, NEW p \in Peers, StartCatchUp(p)
    PROVE  LoadInv'
<1> USE DEF LoadInv
<1>1. /\ pc = "idle" /\ joining /\ outcome = "retry" /\ Capture(FALSE, {Issuer})
      /\ attempts' = attempts + 1
      /\ pc' = "fetch" /\ cohort' = <<p>> /\ at' = 1 /\ stage' = "catch"
      /\ outcome' = "running" /\ resp' = NoAnswer
      /\ UNCHANGED <<quorumEnabled, votes, win, failed, conflict, docVars, peerDoc, member,
                     plan, wire, archive>>
  BY DEF StartCatchUp
<1>2. Quiet
  BY <1>1 DEF Quiet, Shape
<1>3. /\ sess' \in Sessions /\ sess'.ch = loads' /\ sess'.ch \in 0..MaxLoads /\ ~sess'.boot
      /\ sess'.spent = 0 /\ sess'.auths \subseteq Authorities /\ Provenance'
  <2>1. {Issuer} \in SUBSET Authorities
    BY LoadConsts
  <2> QED
    BY <1>1, <1>2, <2>1, CaptureFresh
<1>4. cohort' \in Seq(Peers) /\ at' \in 1..(Len(cohort') + 1) /\ win' = NoDigest
      /\ attempts' \in 0..3
  BY <1>1 DEF PhaseInv, TypeOK
<1>5. TypeOK'
  BY <1>1, <1>3, <1>4, LoadConsts DEF TypeOK, docVars
<1>6. Shape'
  BY <1>1, <1>2, <1>3 DEF Shape, Quiet, docVars
<1>7. PhaseInv'
  BY <1>1, <1>3, <1>4 DEF PhaseInv, docVars
<1>8. VotesAttributed' /\ ApplyInv' /\ QuorumFresh' /\ AppliesAgreed'
  BY <1>1, <1>4 DEF VotesAttributed, ApplyInv, QuorumFresh, AppliesAgreed
<1>9. NoOpenHalfLoad'
  BY <1>1 DEF NoOpenHalfLoad, docVars
<1> QED
  BY <1>3, <1>5, <1>6, <1>7, <1>8, <1>9

-----------------------------------------------------------------------------
(* Probes and the decision                                                  *)

\* Whatever is read in answer to this session's challenge from a peer, signed by
\* an honest authority, serves a state held since the session was captured.
LEMMA AnswersGenuine ==
    ASSUME LoadInv, pc # "idle", NEW p, NEW m \in Answers(p), p \in Peers,
           m.use \in {"adv", "load", "catch"}, m.ch = sess.ch, m.signer \notin Byzantine
    PROVE  m.tips = m.content /\ m.content \in held
<1> USE DEF LoadInv
<1>1. CASE p \in Honest
  <2>1. m = wire[p]
    BY <1>1 DEF Answers
  <2>2. m \in Replies
    BY <1>1, <2>1, SilentMessages DEF Shape
  <2> QED
    BY <1>1, <2>1, <2>2 DEF Provenance, Genuine, Fresh, Shape
<1>2. CASE p \notin Honest
  <2>1. m \in ByzantineAnswers(p) /\ AuthOf[p] \in Byzantine
    BY <1>2 DEF Answers, Honest
  <2>2. CASE m \in {Message(Use, sess.ch, AuthOf[p], c, c) : c \in Contents}
                  \cup {Message(Use, sess.ch, AuthOf[p], 1, Forged)}
    BY <2>1, <2>2 DEF Message
  <2>3. CASE m \in {Message(Use, sess.ch, AuthOf[h], peerDoc[h], peerDoc[h]) : h \in Honest}
    BY <2>3 DEF Message, Provenance
  <2>4. CASE m \in {Message(Use, x.ch, x.signer, x.content, x.content) : x \in archive}
    BY <2>4 DEF Message, Provenance, Fresh, Shape
  <2> QED
    BY <2>1, <2>2, <2>3, <2>4 DEF ByzantineAnswers
<1> QED
  BY <1>1, <1>2

\* What is read from a stream is a message.
LEMMA AnswersTyped ==
    ASSUME LoadInv, NEW p \in Peers, NEW m \in Answers(p)
    PROVE  m \in Messages
<1> USE DEF LoadInv
<1>1. CASE p \in Honest
  BY <1>1 DEF Answers, Shape
<1>2. CASE p \notin Honest
  <2>1. Use \in {"adv", "load", "catch"}
    BY DEF Use
  <2>2. \A ch \in Nat, a \in Authorities, t, c \in Contents : Message(Use, ch, a, t, c) \in Messages
    BY <2>1 DEF Message, Messages, Plans, Replies
  <2>3. sess.ch \in Nat /\ 1 \in Contents /\ Forged \in Contents
    BY LoadConsts DEF Shape, Sessions, Contents, Forged
  <2>4. \A h \in Honest : AuthOf[h] \in Authorities /\ peerDoc[h] \in Contents
    BY LoadConsts DEF Honest, Shape, Contents, Forged
  <2>5. \A x \in archive : x.ch \in Nat /\ x.signer \in Authorities /\ x.content \in Contents
    BY DEF Shape, Signed
  <2>6. AuthOf[p] \in Authorities
    BY LoadConsts
  <2>7. m \in ByzantineAnswers(p)
    BY <1>2 DEF Answers
  <2>8. \/ \E c \in Contents : m = Message(Use, sess.ch, AuthOf[p], c, c)
        \/ m = Message(Use, sess.ch, AuthOf[p], 1, Forged)
        \/ \E h \in Honest : m = Message(Use, sess.ch, AuthOf[h], peerDoc[h], peerDoc[h])
        \/ \E x \in archive : m = Message(Use, x.ch, x.signer, x.content, x.content)
    BY <2>7 DEF ByzantineAnswers
  <2> QED
    BY <2>2, <2>3, <2>4, <2>5, <2>6, <2>8
<1> QED
  BY <1>1, <1>2

\* A step of the probes: one peer's ballot is settled.
LEMMA BallotKeeps ==
    ASSUME LoadInv, pc = "probe", NEW p \in Peers, votes[p] = Pending,
           \/ votes' = [votes EXCEPT ![p] = NonVote]
           \/ \E a \in sess.auths, d \in Digests :
                 /\ votes' = [votes EXCEPT ![p] = Vote(a, d)]
                 /\ a \notin Byzantine => HeldDigest(d),
           SessionKept, Quiet,
           UNCHANGED <<pc, win, cohort, at, stage, resp, outcome, loads, attempts, docVars,
                       peerDoc, member, archive, held>>
    PROVE  LoadInv'
<1> USE DEF LoadInv
<1>1. \A r \in Peers : r # p => votes'[r] = votes[r]
  BY DEF TypeOK
<1>2. /\ votes' \in [Peers -> [kind : {"idle", "pending", "none", "vote"},
                              signer : Authorities, digest : Digests \cup {NoDigest}]]
      /\ votes'[p].kind = "vote" => /\ votes'[p].signer \in sess.auths
                                    /\ votes'[p].signer \notin Byzantine =>
                                          HeldDigest(votes'[p].digest)
  <2>1. sess.auths \subseteq Authorities
    BY DEF TypeOK
  <2>2. CASE votes' = [votes EXCEPT ![p] = NonVote]
    BY <2>2, LoadConsts DEF TypeOK, NonVote, Pending
  <2>3. CASE \E a \in sess.auths, d \in Digests :
                 /\ votes' = [votes EXCEPT ![p] = Vote(a, d)]
                 /\ a \notin Byzantine => HeldDigest(d)
    BY <2>1, <2>3 DEF TypeOK, Vote
  <2> QED
    BY <2>2, <2>3
<1>3. TypeOK'
  BY <1>2 DEF TypeOK, SessionKept, Sessions, Quiet, docVars
<1>4. Shape'
  BY DEF Shape, SessionKept, Quiet, docVars
<1>5. Provenance'
  BY SilentMessages DEF Provenance, Genuine, Fresh, Quiet
<1>6. VotesAttributed'
  <2>1. votes[p].kind # "idle"
    BY DEF Pending
  <2>2. \A r \in Peers : votes'[r].kind # "idle" => \E i \in DOMAIN cohort' : cohort'[i] = r
    BY <2>1, <1>1 DEF VotesAttributed
  <2>3. \A r \in Peers : votes'[r].kind = "vote" =>
            /\ votes'[r].signer \in sess'.auths
            /\ votes'[r].signer \notin Byzantine =>
                  votes'[r].digest \in {LoadAdvertisementHash(c, c) : c \in held'}
    <3>1. held' = held /\ sess'.auths = sess.auths
      BY DEF SessionKept
    <3> QED
      BY <1>1, <1>2, <3>1 DEF VotesAttributed, HeldDigest
  <2> QED
    BY <2>2, <2>3 DEF VotesAttributed, HeldDigest
<1>7. PhaseInv' /\ ApplyInv'
  BY DEF PhaseInv, ApplyInv, SessionKept, docVars
<1>8. QuorumFresh' /\ AppliesAgreed' /\ NoOpenHalfLoad'
  BY DEF QuorumFresh, AppliesAgreed, NoOpenHalfLoad, PhaseInv, docVars
<1> QED
  BY <1>3, <1>4, <1>5, <1>6, <1>7, <1>8

LEMMA ReceiveAdvertisementKeeps ==
    ASSUME LoadInv, NEW p \in Peers, NEW m \in Answers(p), ReceiveAdvertisement(p, m)
    PROVE  LoadInv'
<1> USE DEF LoadInv
<1>1. Quiet
  BY SilentMessages DEF ReceiveAdvertisement, Quiet, Shape
<1>2. CASE /\ votes' = [votes EXCEPT ![p] = NonVote] /\ UNCHANGED sess
  BY <1>1, <1>2, SessionUnchanged, BallotKeeps DEF ReceiveAdvertisement
<1>3. CASE /\ m.use = "adv" /\ m.ch = sess.ch /\ m.signer \in sess.auths /\ Affordable
           /\ votes' = [votes EXCEPT ![p] = Vote(m.signer, DeclaredDigest(m))] /\ Spend
  <2>1. m \in Replies
    BY <1>3, AnswersTyped, SilentMessages
  <2>2. DeclaredDigest(m) \in Digests
    BY <2>1 DEF Replies, DeclaredDigest, LoadAdvertisementHash, Digests
  <2>3. m.signer \notin Byzantine => HeldDigest(DeclaredDigest(m))
    BY <1>3, AnswersGenuine DEF ReceiveAdvertisement, HeldDigest, DeclaredDigest
  <2>4. SessionKept
    BY <1>3, SpendKeeps
  <2> QED
    BY <1>1, <1>3, <2>2, <2>3, <2>4, BallotKeeps DEF ReceiveAdvertisement
<1> QED
  BY <1>2, <1>3 DEF ReceiveAdvertisement, InitialLoadChallengeEquals, TrustedSigner

LEMMA ProbeTimeoutKeeps ==
    ASSUME LoadInv, NEW p \in Peers, ProbeTimeout(p)
    PROVE  LoadInv'
BY HangupQuiet, SessionUnchanged, BallotKeeps DEF ProbeTimeout, LoadInv

LEMMA DecideQuorumKeeps ==
    ASSUME LoadInv, DecideQuorum
    PROVE  LoadInv'
<1> DEFINE q == RequiredQuorumQ(Cardinality(Probed))
           won == QualifyingDigests(q)
           c == CHOOSE x \in won : TRUE
           places == {i \in DOMAIN cohort :
                         cohort[i] \in FirstVoters /\ votes[cohort[i]].digest = c}
<1> USE DEF LoadInv
<1>1. /\ pc = "probe"
      /\ UNCHANGED <<sess, quorumEnabled, loads, attempts, docVars, peerDoc, member, archive, held>>
  BY DEF DecideQuorum
<1>2. CASE Finish("no-quorum")
  <2>1. Ended("no-quorum") /\ SessionKept
    BY <1>1, <1>2, FinishEnds, SessionUnchanged
  <2>2. DocumentGrows
    BY <1>1 DEF DocumentGrows, docVars, TypeOK, Shape
  <2>3. pc' = "idle"
    BY <2>1 DEF Ended
  <2> QED
    BY <1>1, <2>1, <2>2, <2>3, LeavingKeeps DEF Moved
<1>3. CASE /\ Cardinality(won) = 1 /\ win' = c /\ pc' = "fetch"
           /\ cohort' = Picked(cohort, places)
           /\ UNCHANGED <<votes, at, stage, resp, failed, conflict, outcome, plan, wire>>
  <2>1. c \in won
    <3>1. won # {}
      BY <1>3, FS_EmptySet
    <3> QED
      BY <3>1
  <2>2. PICK p \in FirstVoters : c = votes[p].digest
    BY <2>1 DEF QualifyingDigests
  <2>3. c \in Digests \cup {NoDigest}
    BY <2>2 DEF FirstVoters, Voters, Probed, TypeOK
  <2> HIDE DEF c
  <2>4. cohort' \in Seq(Peers) /\ Len(cohort') \in Nat
    <3>1. cohort \in Seq(Peers) /\ places \in SUBSET (DOMAIN cohort)
      BY DEF TypeOK
    <3>2. Picked(cohort, places) \in Seq(Peers)
      BY <3>1, PickedType
    <3> QED
      BY <1>3, <3>2, LenProperties
  <2>5. at = 1
    BY <1>1 DEF PhaseInv
  <2>6. TypeOK'
    BY <1>1, <1>3, <2>3, <2>4, <2>5 DEF TypeOK, docVars
  <2>7. Shape' /\ Provenance'
    BY <1>1, <1>3 DEF Shape, Provenance, Genuine, Fresh, docVars
  <2>8. VotesAttributed' /\ ApplyInv' /\ AppliesAgreed'
    BY <1>3 DEF VotesAttributed, ApplyInv, AppliesAgreed
  <2>9. PhaseInv'
    BY <1>1, <1>3 DEF PhaseInv, docVars
  <2>10. NoOpenHalfLoad'
    BY <1>1, <1>3 DEF NoOpenHalfLoad, docVars
  <2>11. QuorumFresh'
    <3>1. Cardinality(Byzantine \cap sess.auths) \in Nat
      BY LoadConsts, FS_Subset, FS_Intersection, FS_CardinalityType
    <3>2. Cardinality(Byzantine \cap sess.auths) < Q => HeldDigest(c)
      BY <1>1, <2>1, <3>1, HonestVoteInQuorum, LoadConsts
    <3> QED
      BY <1>1, <1>3, <3>2 DEF QuorumFresh, HeldDigest
  <2> QED
    BY <2>6, <2>7, <2>8, <2>9, <2>10, <2>11
<1> QED
  BY <1>2, <1>3 DEF DecideQuorum

-----------------------------------------------------------------------------
(* Fetching and applying                                                    *)

\* A step of the loader alone that misses this response, or gives up.
LEMMA AdvanceKeeps ==
    ASSUME LoadInv, pc \in {"fetch", "await", "queued", "applying"}, at <= Len(cohort),
           NEW bind, NEW changed, NEW threw, Advance(bind, changed, threw),
           SessionKept, DocumentGrows,
           UNCHANGED <<loads, attempts, peerDoc, member, archive, held>>
    PROVE  LoadInv'
<1>1. \/ Moved
      \/ Ended("error")
      \/ attempts < 3 /\ Ended("retry")
  BY AdvanceMoves DEF LoadInv
<1> QED
  BY <1>1, LeavingKeeps

LEMMA DocumentStays ==
    ASSUME TypeOK, Shape, UNCHANGED docVars
    PROVE  DocumentGrows
BY DEF TypeOK, Shape, docVars, DocumentGrows

\* A step of the loader that goes on with the same peer changes its phase, the
\* response and what the session spent.
LEMMA RequestLoadKeeps ==
    ASSUME LoadInv, RequestLoad
    PROVE  LoadInv'
<1> USE DEF LoadInv
<1>1. pc = "fetch" /\ at <= Len(cohort) /\ SessionKept /\ DocumentGrows
  BY SessionUnchanged, DocumentStays DEF RequestLoad
<1>2. CASE WriterConflict \/ Miss
  BY <1>1, <1>2, AdvanceKeeps DEF RequestLoad, WriterConflict, Miss
<1>3. CASE /\ pc' = "await"
           /\ UNCHANGED <<votes, win, cohort, at, stage, failed, conflict, outcome, plan, wire>>
  <2>1. UNCHANGED <<sess, resp, quorumEnabled, loads, attempts, docVars, peerDoc, member, archive, held>>
    BY DEF RequestLoad
  <2>2. TypeOK' /\ Shape'
    BY <1>3, <2>1 DEF TypeOK, Shape, docVars
  <2>3. Provenance' /\ VotesAttributed' /\ PhaseInv' /\ ApplyInv'
    BY <1>1, <1>3, <2>1
       DEF Provenance, Genuine, Fresh, VotesAttributed, PhaseInv, ApplyInv, docVars
  <2>4. QuorumFresh' /\ AppliesAgreed' /\ NoOpenHalfLoad'
    BY <1>3, <2>1 DEF QuorumFresh, AppliesAgreed, NoOpenHalfLoad, docVars
  <2> QED
    BY <2>2, <2>3, <2>4
<1> QED
  BY <1>2, <1>3 DEF RequestLoad

LEMMA ResponseDeadlineKeeps ==
    ASSUME LoadInv, ResponseDeadline
    PROVE  LoadInv'
<1>1. pc = "await" /\ at <= Len(cohort) /\ SessionKept /\ DocumentGrows
  BY SessionUnchanged, DocumentStays DEF ResponseDeadline, LoadInv, PhaseInv
<1> QED
  BY <1>1, AdvanceKeeps DEF ResponseDeadline, Throw

LEMMA ReceiveResponseKeeps ==
    ASSUME LoadInv, NEW m \in Answers(Server), pc = "await", ReceiveResponse(m)
    PROVE  LoadInv'
<1> USE DEF LoadInv
<1>1. /\ at <= Len(cohort) /\ DocumentGrows
      /\ UNCHANGED <<quorumEnabled, loads, attempts, docVars, peerDoc, member, archive, held>>
  BY DocumentStays DEF ReceiveResponse, PhaseInv
<1>2. SessionKept
  BY SessionUnchanged, SpendKeeps DEF ReceiveResponse, VerifiedResponse
<1>3. CASE Miss \/ BindFailure
  BY <1>1, <1>2, <1>3, AdvanceKeeps DEF Miss, BindFailure
<1>4. CASE /\ stage = "catch" \/ BindsTo(m)
           /\ resp' = m /\ pc' = "queued"
           /\ UNCHANGED <<votes, win, cohort, at, stage, failed, conflict, outcome, plan, wire>>
  <2>1. TypeOK'
    BY <1>1, <1>2, <1>4 DEF TypeOK, SessionKept, Sessions, docVars
  <2>2. Shape'
    BY <1>1, <1>2, <1>4 DEF Shape, SessionKept, docVars
  <2>3. Provenance' /\ VotesAttributed' /\ PhaseInv' /\ ApplyInv'
    BY <1>1, <1>2, <1>4
       DEF Provenance, Genuine, Fresh, VotesAttributed, PhaseInv, ApplyInv, SessionKept, docVars
  <2>4. QuorumFresh' /\ NoOpenHalfLoad'
    BY <1>1, <1>2, <1>4 DEF QuorumFresh, NoOpenHalfLoad, SessionKept, docVars
  <2>5. AppliesAgreed'
    BY <1>4 DEF AppliesAgreed, BindsTo, PhaseInv
  <2> QED
    BY <2>1, <2>2, <2>3, <2>4, <2>5
<1> QED
  BY <1>3, <1>4 DEF ReceiveResponse

LEMMA BeginApplyKeeps ==
    ASSUME LoadInv, BeginApply
    PROVE  LoadInv'
<1> USE DEF LoadInv
<1>1. /\ pc = "queued" /\ (stage = "catch" \/ pendingWriters = Nobody) /\ at <= Len(cohort)
      /\ UNCHANGED <<resp, quorumEnabled, loads, attempts, hashes, writers, writerVersion,
                     pendingWriters, joining, peerDoc, member, archive, held>>
  BY DEF BeginApply, PhaseInv
<1>2. CASE (Miss \/ WriterConflict) /\ UNCHANGED <<sess, app>>
  <2>1. SessionKept /\ DocumentGrows
    BY <1>1, <1>2, SessionUnchanged DEF DocumentGrows, TypeOK, Shape
  <2> QED
    BY <1>1, <1>2, <2>1, AdvanceKeeps DEF Miss, WriterConflict
<1>3. CASE /\ stage = "catch" \/ app # "pending"
           /\ MayApply /\ pc' = "applying" /\ app' = Marked
           /\ IF stage = "catch" \/ FromNothing THEN UNCHANGED sess ELSE Spend
           /\ UNCHANGED <<votes, win, cohort, at, stage, failed, conflict, outcome, plan, wire>>
  <2>1. SessionKept
    BY <1>3, SessionUnchanged, SpendKeeps DEF MayApply, SignerIsWriter, PhaseInv
  <2>2. sess.boot \in BOOLEAN
    BY DEF Shape, Sessions
  <2>3. TypeOK'
    BY <1>1, <1>3, <2>1 DEF TypeOK, SessionKept, Sessions, Marked
  <2>4. Shape'
    BY <1>1, <1>3, <2>1 DEF Shape, SessionKept
  <2>5. Provenance' /\ VotesAttributed'
    BY <1>1, <1>3, <2>1
       DEF Provenance, Genuine, Fresh, VotesAttributed, SessionKept
  <2>6. PhaseInv'
    BY <1>1, <1>3, <2>1, <2>2 DEF PhaseInv, SessionKept, Marked, Pristine
  <2>7. ApplyInv'
    BY <1>1, <1>3, <2>1, <2>2
       DEF ApplyInv, PhaseInv, SessionKept, Marked, MayApply, FromNothing, SignerIsWriter,
           NoOpenHalfLoad, TypeOK
  <2>8. QuorumFresh' /\ AppliesAgreed'
    BY <1>1, <1>3, <2>1 DEF QuorumFresh, AppliesAgreed, SessionKept
  <2>9. NoOpenHalfLoad'
    BY <1>1, <1>3, <2>2 DEF NoOpenHalfLoad, Marked, MayApply, FromNothing, PhaseInv, Pristine
  <2> QED
    BY <2>3, <2>4, <2>5, <2>6, <2>7, <2>8, <2>9
<1> QED
  BY <1>2, <1>3 DEF BeginApply

LEMMA ApplyKeeps ==
    ASSUME LoadInv, NEW inst \in SUBSET Contents, NEW synced \in BOOLEAN, Apply(inst, synced)
    PROVE  LoadInv'
<1> USE DEF LoadInv
<1>1. /\ pc = "applying" /\ at <= Len(cohort) /\ hashes' = hashes \cup inst
      /\ writers' = IF sess.boot /\ inst # {} THEN Authorities ELSE writers
      /\ writerVersion' = IF sess.boot /\ inst # {} THEN writerVersion + 1 ELSE writerVersion
      /\ UNCHANGED <<sess, resp, quorumEnabled, loads, attempts, pendingWriters, app, joining,
                     peerDoc, member, archive, held>>
  BY DEF Apply, PhaseInv
<1>2. app # "pristine" /\ (~sess.boot /\ stage # "catch" => app = "complete")
  BY <1>1 DEF ApplyInv, PhaseInv
<1>3. SessionKept /\ DocumentGrows
  BY <1>1, <1>2, SessionUnchanged DEF DocumentGrows, TypeOK, Shape
<1>4. CASE Miss \/ BindFailure \/ Throw
  BY <1>1, <1>3, <1>4, AdvanceKeeps DEF Miss, BindFailure, Throw
<1>5. CASE ~(sess.boot \/ stage = "catch") /\ Finish("loaded")
  <2>1. Ended("loaded") /\ app = "complete"
    BY <1>2, <1>5, FinishEnds
  <2> QED
    BY <1>1, <1>3, <2>1, LeavingKeeps
<1>6. CASE /\ sess.boot \/ stage = "catch"
           /\ MustPrefetch => InstallsAll(resp, inst)
           /\ pc' = "completing"
           /\ UNCHANGED <<votes, win, cohort, at, stage, failed, conflict, outcome, plan, wire>>
  <2>1. TypeOK' /\ Shape'
    BY <1>1, <1>3, <1>6 DEF TypeOK, Shape, DocumentGrows
  <2>2. Provenance' /\ VotesAttributed' /\ PhaseInv'
    BY <1>1, <1>6 DEF Provenance, Genuine, Fresh, VotesAttributed, PhaseInv
  <2>3. ApplyInv'
    BY <1>1, <1>6 DEF ApplyInv, MustPrefetch, InstallsAll
  <2>4. QuorumFresh' /\ AppliesAgreed' /\ NoOpenHalfLoad'
    BY <1>1, <1>2, <1>6 DEF QuorumFresh, AppliesAgreed, NoOpenHalfLoad
  <2> QED
    BY <2>1, <2>2, <2>3, <2>4
<1> QED
  BY <1>4, <1>5, <1>6 DEF Apply

LEMMA CompleteApplicationKeeps ==
    ASSUME LoadInv, CompleteApplication
    PROVE  LoadInv'
<1> USE DEF LoadInv
<1>1. /\ pc = "completing" /\ joining' = FALSE /\ at <= Len(cohort)
      /\ UNCHANGED <<sess, resp, quorumEnabled, loads, attempts, hashes, writers, writerVersion,
                     pendingWriters, peerDoc, member, archive, held>>
  BY DEF CompleteApplication, PhaseInv
<1>2. \/ app' = "complete" /\ Ended("loaded")
      \/ stage = "catch" /\ app' = app /\ Ended("error")
  BY FinishEnds DEF CompleteApplication
<1>3. /\ pc' = "idle" /\ stage' = "doc" /\ win' = NoDigest /\ Quiet
      /\ votes' = [p \in Peers |-> NotAsked] /\ cohort' = << >> /\ at' = 1
      /\ outcome' \in {"loaded", "error"} /\ app' \in {app, "complete"}
      /\ outcome' = "loaded" => app' = "complete"
  BY <1>2 DEF Ended
<1>4. TypeOK'
  <2>1. << >> \in Seq(Peers) /\ Len(<< >>) = 0
    BY EmptySeq
  <2>2. NotAsked \in [kind : {"idle", "pending", "none", "vote"},
                      signer : Authorities, digest : Digests \cup {NoDigest}]
    BY LoadConsts DEF NotAsked, Pending
  <2> QED
    BY <1>1, <1>3, <2>1, <2>2 DEF TypeOK, Quiet
<1>5. Shape'
  BY <1>1, <1>3 DEF Shape, Quiet
<1>6. Provenance'
  BY <1>1, <1>3, SilentMessages DEF Provenance, Genuine, Fresh, Quiet
<1>7. VotesAttributed' /\ ApplyInv' /\ QuorumFresh' /\ AppliesAgreed'
  BY <1>3 DEF VotesAttributed, ApplyInv, QuorumFresh, AppliesAgreed
<1>8. PhaseInv'
  BY <1>1, <1>3 DEF PhaseInv
<1>9. NoOpenHalfLoad'
  BY <1>1, <1>3 DEF NoOpenHalfLoad
<1> QED
  BY <1>4, <1>5, <1>6, <1>7, <1>8, <1>9

LEMMA ExhaustCohortKeeps ==
    ASSUME LoadInv, ExhaustCohort
    PROVE  LoadInv'
<1>1. pc = "fetch" /\ SessionKept /\ DocumentGrows
  BY SessionUnchanged, DocumentStays DEF ExhaustCohort, LoadInv
<1>2. \E o \in {"error", "all-bind-failed", "unreachable", "conflict", "missing"} : Ended(o)
  <2>1. PICK o \in {"error", "all-bind-failed", "unreachable", "conflict", "missing"} : Finish(o)
    BY DEF ExhaustCohort
  <2> QED
    BY <2>1, FinishEnds DEF LoadInv
<1> QED
  BY <1>1, <1>2, LeavingKeeps DEF ExhaustCohort

-----------------------------------------------------------------------------
(* Joins, writers and peers                                                 *)

\* Between loads, a join begins or is abandoned; a writer change comes and goes.
LEMMA AcceptInvitationKeeps ==
    ASSUME LoadInv, AcceptInvitation
    PROVE  LoadInv'
<1> USE DEF LoadInv
<1>1. /\ pc = "idle" /\ app = "pristine" /\ app' = "pending" /\ joining' = TRUE
      /\ hashes' = Cids(1) /\ writers' = Authorities /\ writerVersion' = writerVersion + 1
      /\ attempts' = 0 /\ outcome' = "retry"
      /\ UNCHANGED <<quorumEnabled, pc, sess, votes, win, cohort, at, stage, resp, failed,
                     conflict, loads, pendingWriters, peerVars>>
  BY DEF AcceptInvitation, Pristine
<1>2. Cids(1) \subseteq Contents
  BY LoadConsts DEF Cids, Contents, Forged
<1>3. TypeOK' /\ Shape'
  BY <1>1, <1>2 DEF TypeOK, Shape, peerVars
<1>4. Provenance' /\ VotesAttributed' /\ PhaseInv' /\ ApplyInv'
  BY <1>1 DEF Provenance, Genuine, Fresh, VotesAttributed, PhaseInv, ApplyInv, peerVars
<1>5. QuorumFresh' /\ AppliesAgreed' /\ NoOpenHalfLoad'
  BY <1>1 DEF QuorumFresh, AppliesAgreed, NoOpenHalfLoad, peerVars
<1> QED
  BY <1>3, <1>4, <1>5

LEMMA AbandonJoinKeeps ==
    ASSUME LoadInv, AbandonJoin
    PROVE  LoadInv'
<1> USE DEF LoadInv
<1>1. TypeOK' /\ Shape'
  BY DEF AbandonJoin, TypeOK, Shape, loadVars, peerVars
<1>2. Provenance' /\ VotesAttributed' /\ PhaseInv' /\ ApplyInv'
  BY DEF AbandonJoin, Provenance, Genuine, Fresh, VotesAttributed, PhaseInv, ApplyInv,
         loadVars, peerVars
<1>3. QuorumFresh' /\ AppliesAgreed' /\ NoOpenHalfLoad'
  BY DEF AbandonJoin, QuorumFresh, AppliesAgreed, NoOpenHalfLoad, loadVars, peerVars
<1> QED
  BY <1>1, <1>2, <1>3

LEMMA WriterChangeKeeps ==
    ASSUME LoadInv,
           \/ \E new \in (SUBSET Authorities) \ {{}} : BeginWriterChange(new)
           \/ EndWriterChange
    PROVE  LoadInv'
<1> USE DEF LoadInv
<1>1. UNCHANGED <<loadVars, hashes, app, joining, peerVars>>
  BY DEF BeginWriterChange, EndWriterChange
<1>2. /\ app = "complete" /\ writers' \subseteq Authorities /\ writerVersion' \in Nat
      /\ pendingWriters' \subseteq Authorities
  <2>1. CASE \E new \in (SUBSET Authorities) \ {{}} : BeginWriterChange(new)
    BY <2>1 DEF BeginWriterChange, TypeOK, Shape
  <2>2. CASE EndWriterChange
    BY <2>2 DEF EndWriterChange, PhaseInv, Shape, Nobody
  <2> QED
    BY <2>1, <2>2
<1>3. TypeOK' /\ Shape'
  BY <1>1, <1>2 DEF TypeOK, Shape, loadVars, peerVars
<1>4. Provenance' /\ VotesAttributed' /\ PhaseInv'
  BY <1>1, <1>2
     DEF Provenance, Genuine, Fresh, VotesAttributed, HeldDigest, PhaseInv, loadVars, peerVars
<1>5. ApplyInv'
  BY <1>1 DEF ApplyInv, BeginWriterChange, EndWriterChange, loadVars, TypeOK
<1>6. QuorumFresh' /\ AppliesAgreed' /\ NoOpenHalfLoad'
  BY <1>1, <1>2 DEF QuorumFresh, AppliesAgreed, NoOpenHalfLoad, loadVars, peerVars
<1> QED
  BY <1>3, <1>4, <1>5, <1>6

\* A step of an honest peer leaves the loader alone; what it prepares is what it
\* holds, and what it writes is what it prepared.
LEMMA PeerKeeps ==
    ASSUME LoadInv, UNCHANGED <<loadVars, docVars>>, held \subseteq held',
           Provenance', Shape'
    PROVE  LoadInv'
<1> USE DEF LoadInv
<1>1. TypeOK'
  BY DEF TypeOK, Shape, loadVars, docVars
<1>2. VotesAttributed' /\ PhaseInv' /\ ApplyInv'
  BY DEF VotesAttributed, HeldDigest, PhaseInv, ApplyInv, loadVars, docVars
<1>3. QuorumFresh' /\ AppliesAgreed' /\ NoOpenHalfLoad'
  BY DEF QuorumFresh, AppliesAgreed, NoOpenHalfLoad, loadVars, docVars
<1> QED
  BY <1>1, <1>2, <1>3

LEMMA HandlerKeeps ==
    ASSUME LoadInv, NEW p \in Honest, pc \in {"probe", "await"}, HandlerFrame(p),
           Prepare(p) \/ Refuse(p)
    PROVE  LoadInv'
<1> USE DEF LoadInv
<1>1. UNCHANGED <<loadVars, docVars, peerDoc, member, archive, held>>
  BY DEF HandlerFrame
<1>2. CASE Refuse(p)
  <2>1. Shape'
    BY <1>1, <1>2, SilentMessages DEF Refuse, Shape, loadVars, docVars
  <2>2. Provenance'
    BY <1>1, <1>2, SilentMessages
       DEF Refuse, Provenance, Genuine, Fresh, Shape, loadVars, docVars
  <2> QED
    BY <1>1, <2>1, <2>2, PeerKeeps
<1>3. CASE Prepare(p)
  <2> DEFINE m == Message(Use, sess.ch, AuthOf[p], peerDoc[p], peerDoc[p])
  <2>1. m \in Replies /\ m.tips = m.content /\ m.ch = loads /\ m.content \in held
    <3>1. Use \in {"adv", "load", "catch"} /\ AuthOf[p] \in Authorities
          /\ peerDoc[p] \in Contents /\ sess.ch \in Nat
      BY LoadConsts DEF Use, Honest, Shape, Sessions, Contents, Forged
    <3>2. peerDoc[p] \in held /\ sess.ch = loads
      BY DEF Provenance, Shape
    <3> QED
      BY <3>1, <3>2 DEF Message, Replies
  <2>2. m \in Plans /\ Genuine(m)
    <3>1. loads \in Nat
      BY DEF Shape, Sessions
    <3> QED
      BY <2>1, <3>1 DEF Plans, Genuine, Fresh
  <2> HIDE DEF m
  <2>3. plan' = [plan EXCEPT ![p] = m] /\ wire' = wire
    BY <1>3 DEF Prepare, m
  <2>4. Shape'
    BY <1>1, <2>2, <2>3 DEF Shape, loadVars, docVars
  <2>5. Provenance'
    BY <1>1, <2>2, <2>3 DEF Provenance, Genuine, Fresh, Shape, loadVars, docVars
  <2> QED
    BY <1>1, <2>4, <2>5, PeerKeeps
<1> QED
  BY <1>2, <1>3

LEMMA SendResponseKeeps ==
    ASSUME LoadInv, NEW p \in Honest, SendResponse(p)
    PROVE  LoadInv'
<1> USE DEF LoadInv
<1>1. /\ plan[p].use # "none" /\ plan' = [plan EXCEPT ![p] = NoAnswer]
      /\ UNCHANGED <<loadVars, docVars, peerDoc, member, held>>
  BY DEF SendResponse
<1>2. plan[p] \in Replies
  <2>1. NoAnswer.use = "none"
    BY DEF NoAnswer, Unusable
  <2> QED
    BY <1>1, <2>1 DEF Shape, Plans
<1>3. wire' \in [Honest -> Messages]
      /\ \A h \in Honest : wire'[h] \in {wire[h], plan[h], Unusable}
  BY <1>2, SilentMessages DEF SendResponse, Shape, Plans
<1>4. plan' \in [Honest -> Plans] /\ \A h \in Honest : plan'[h] \in {plan[h], NoAnswer}
  BY <1>1, SilentMessages DEF Shape
<1>5. \A m \in archive' : m \in archive
          \/ m = [ch |-> plan[p].ch, signer |-> plan[p].signer, content |-> plan[p].content]
  BY DEF SendResponse
<1>6. archive' \subseteq Signed
  BY <1>2, <1>5 DEF Shape, Signed, Replies
<1>7. Shape'
  BY <1>1, <1>3, <1>4, <1>6 DEF Shape, loadVars, docVars
<1>8. \A m \in archive' : Fresh(m)'
  BY <1>1, <1>2, <1>5 DEF Provenance, Genuine, Fresh, loadVars
<1>9. Provenance'
  BY <1>1, <1>3, <1>4, <1>8, SilentMessages DEF Provenance, Genuine, Fresh, loadVars, docVars
<1> QED
  BY <1>1, <1>7, <1>9, PeerKeeps

LEMMA PeerMovesOn ==
    ASSUME LoadInv, NEW p \in Honest, PeerAdvances(p) \/ PeerRemovesLoader(p)
    PROVE  LoadInv'
<1> USE DEF LoadInv
<1>1. UNCHANGED <<loadVars, docVars, plan, wire, archive>> /\ held \subseteq held'
  BY DEF PeerAdvances, PeerRemovesLoader
<1>2. /\ peerDoc' \in [Honest -> 1..MaxContent] /\ DOMAIN member' = Honest
      /\ \A h \in Honest : peerDoc'[h] = peerDoc[h] \/ peerDoc'[h] \in held'
  BY LoadConsts DEF PeerAdvances, PeerRemovesLoader, Shape
<1>3. Shape'
  BY <1>1, <1>2 DEF Shape, loadVars, docVars
<1>4. Provenance'
  BY <1>1, <1>2 DEF Provenance, Genuine, Fresh, loadVars, docVars
<1> QED
  BY <1>1, <1>3, <1>4, PeerKeeps

-----------------------------------------------------------------------------
(* The theorems                                                             *)

LEMMA LoadInit == Init => LoadInv
<1> SUFFICES ASSUME Init
             PROVE  LoadInv
  OBVIOUS
<1>1. << >> \in Seq(Peers) /\ Len(<< >>) = 0
  BY EmptySeq
<1>2. NotAsked \in [kind : {"idle", "pending", "none", "vote"},
                    signer : Authorities, digest : Digests \cup {NoDigest}]
  BY LoadConsts DEF NotAsked, Pending
<1>3. Cids(1) \subseteq Contents
  BY LoadConsts DEF Cids, Contents, Forged
<1>4. TypeOK
  BY <1>1, <1>2, <1>3, LoadConsts DEF Init, TypeOK, NoSession
<1>5. Shape
  BY SilentMessages, LoadConsts DEF Init, Shape, Sessions, NoSession, Nobody
<1>6. Provenance
  BY SilentMessages DEF Init, Provenance, Genuine
<1>7. VotesAttributed /\ PhaseInv /\ ApplyInv
  BY DEF Init, VotesAttributed, PhaseInv, ApplyInv
<1>8. QuorumFresh /\ AppliesAgreed /\ NoOpenHalfLoad
  BY DEF Init, QuorumFresh, AppliesAgreed, NoOpenHalfLoad
<1> QED
  BY <1>4, <1>5, <1>6, <1>7, <1>8 DEF LoadInv

LEMMA LoadStep == LoadInv /\ [Next]_vars => LoadInv'
<1> SUFFICES ASSUME LoadInv, [Next]_vars
             PROVE  LoadInv'
  OBVIOUS
<1>1. ASSUME NEW order \in Orders, StartLoad(order)
      PROVE  LoadInv'
  BY <1>1, StartLoadKeeps
<1>2. ASSUME NEW p \in Peers,
             \/ \E m \in Answers(p) : ReceiveAdvertisement(p, m)
             \/ ProbeTimeout(p)
             \/ StartCatchUp(p)
      PROVE  LoadInv'
  BY <1>2, ReceiveAdvertisementKeeps, ProbeTimeoutKeeps, StartCatchUpKeeps
<1>3. CASE DecideQuorum \/ RequestLoad \/ ResponseDeadline
  BY <1>3, DecideQuorumKeeps, RequestLoadKeeps, ResponseDeadlineKeeps
<1>4. ASSUME pc = "await", NEW m \in Answers(Server), ReceiveResponse(m)
      PROVE  LoadInv'
  BY <1>4, ReceiveResponseKeeps
<1>5. ASSUME NEW inst \in SUBSET Contents, NEW synced \in BOOLEAN, Apply(inst, synced)
      PROVE  LoadInv'
  BY <1>5, ApplyKeeps
<1>6. CASE BeginApply \/ CompleteApplication \/ ExhaustCohort
  BY <1>6, BeginApplyKeeps, CompleteApplicationKeeps, ExhaustCohortKeeps
<1>7. CASE AcceptInvitation \/ AbandonJoin
  BY <1>7, AcceptInvitationKeeps, AbandonJoinKeeps
<1>8. CASE \/ \E new \in (SUBSET Authorities) \ {{}} : BeginWriterChange(new)
           \/ EndWriterChange
  BY <1>8, WriterChangeKeeps
<1>9. ASSUME NEW p \in Honest,
             \/ HandleSecurityAdvertiseRequest(p) \/ HandleLoadRequest(p)
             \/ HandleSnapshotLoadRequest(p)
      PROVE  LoadInv'
  BY <1>9, HandlerKeeps
     DEF HandleSecurityAdvertiseRequest, HandleLoadRequest, HandleSnapshotLoadRequest
<1>10. ASSUME NEW p \in Honest, SendResponse(p) \/ PeerAdvances(p) \/ PeerRemovesLoader(p)
       PROVE  LoadInv'
  BY <1>10, SendResponseKeeps, PeerMovesOn
<1>11. CASE UNCHANGED vars
  <2>1. UNCHANGED <<loadVars, docVars, peerVars>>
    BY <1>11 DEF vars
  <2>2. Shape' /\ Provenance'
    BY <2>1 DEF LoadInv, Shape, Provenance, Genuine, Fresh, loadVars, docVars, peerVars
  <2> QED
    BY <2>1, <2>2, PeerKeeps DEF peerVars
<1> QED
  BY <1>1, <1>2, <1>3, <1>4, <1>5, <1>6, <1>7, <1>8, <1>9, <1>10, <1>11 DEF Next

\* Every reachable state satisfies the invariant: the variables keep their
\* shape, a session stays within its signature checks and three attempts, an
\* agreed digest is fresh, what is applied was agreed, and no half-filled
\* instance is open.
THEOREM LoadInvariant == Spec => []LoadInv
<1>1. Init => LoadInv
  BY LoadInit
<1>2. LoadInv /\ [Next]_vars => LoadInv'
  BY LoadStep
<1> QED
  BY <1>1, <1>2, PTL DEF Spec

\* The steps by which a load goes on, waits or fails never report success.
LEMMA OtherOutcomes ==
    ASSUME LoadInv, Next, outcome' = "loaded", outcome # "loaded"
    PROVE  \/ \E inst \in SUBSET Contents, synced \in BOOLEAN : Apply(inst, synced)
           \/ CompleteApplication
<1> USE DEF LoadInv
<1>1. ASSUME NEW order \in Orders, StartLoad(order)
      PROVE  FALSE
  BY <1>1 DEF StartLoad, Finish
<1>2. ASSUME NEW p \in Peers,
             \/ \E m \in Answers(p) : ReceiveAdvertisement(p, m)
             \/ ProbeTimeout(p)
             \/ StartCatchUp(p)
      PROVE  FALSE
  BY <1>2 DEF ReceiveAdvertisement, ProbeTimeout, StartCatchUp
<1>3. ASSUME DecideQuorum \/ ExhaustCohort
      PROVE  FALSE
  BY <1>3 DEF DecideQuorum, ExhaustCohort, Finish
<1>4. ASSUME NEW bind, NEW changed, NEW threw, Advance(bind, changed, threw)
      PROVE  FALSE
  BY <1>4 DEF Advance, Finish
<1>5. ~Miss /\ ~Throw /\ ~BindFailure /\ ~WriterConflict
  BY <1>4 DEF Miss, Throw, BindFailure, WriterConflict
<1>6. ASSUME RequestLoad \/ ResponseDeadline \/ BeginApply
      PROVE  FALSE
  BY <1>5, <1>6 DEF RequestLoad, ResponseDeadline, BeginApply
<1>7. ASSUME NEW m, ReceiveResponse(m)
      PROVE  FALSE
  BY <1>5, <1>7 DEF ReceiveResponse
<1>8. ASSUME \/ AcceptInvitation \/ AbandonJoin \/ EndWriterChange
             \/ \E new \in (SUBSET Authorities) \ {{}} : BeginWriterChange(new)
      PROVE  FALSE
  BY <1>8 DEF AcceptInvitation, AbandonJoin, EndWriterChange, BeginWriterChange, loadVars
<1>9. ASSUME NEW p \in Honest,
             \/ HandleSecurityAdvertiseRequest(p) \/ HandleLoadRequest(p)
             \/ HandleSnapshotLoadRequest(p) \/ SendResponse(p)
             \/ PeerAdvances(p) \/ PeerRemovesLoader(p)
      PROVE  FALSE
  BY <1>9 DEF HandleSecurityAdvertiseRequest, HandleLoadRequest, HandleSnapshotLoadRequest,
              HandlerFrame, SendResponse, PeerAdvances, PeerRemovesLoader, loadVars
<1> QED
  BY <1>1, <1>2, <1>3, <1>6, <1>7, <1>8, <1>9 DEF Next

LEMMA WholeStep ==
    ASSUME LoadInv, [Next]_vars, outcome' = "loaded", outcome # "loaded",
           win # NoDigest \/ app' # app
    PROVE  Cids(resp.content) \subseteq hashes'
<1>1. Next
  BY DEF vars, loadVars
<1>2. ASSUME NEW inst \in SUBSET Contents, NEW synced \in BOOLEAN, Apply(inst, synced)
      PROVE  Cids(resp.content) \subseteq hashes'
  <2>1. ~Miss /\ ~Throw /\ ~BindFailure
    BY DEF Miss, Throw, BindFailure, Advance, Finish
  <2>2. win # NoDigest /\ hashes' = hashes \cup inst
    BY <1>2 DEF Apply
  <2> QED
    BY <1>2, <2>1, <2>2 DEF Apply, MustPrefetch, InstallsAll
<1>3. CASE CompleteApplication
  BY <1>3 DEF CompleteApplication, LoadInv, ApplyInv
<1> QED
  BY <1>1, <1>2, <1>3, OtherOutcomes

LEMMA SignerStep ==
    ASSUME LoadInv, [Next]_vars, hashes' # hashes, app = "complete"
    PROVE  resp.signer \in writers
<1>1. Next
  BY DEF vars, docVars
<1>2. ASSUME NEW inst \in SUBSET Contents, NEW synced \in BOOLEAN, Apply(inst, synced)
      PROVE  resp.signer \in writers
  BY <1>2 DEF Apply, LoadInv, ApplyInv, PhaseInv
<1>3. AcceptInvitation \/ \E inst \in SUBSET Contents, synced \in BOOLEAN : Apply(inst, synced)
  BY <1>1 DEF Next, StartLoad, ReceiveAdvertisement, ProbeTimeout, StartCatchUp, DecideQuorum,
              RequestLoad, ResponseDeadline, ReceiveResponse, BeginApply, CompleteApplication,
              ExhaustCohort, AbandonJoin, BeginWriterChange, EndWriterChange,
              HandleSecurityAdvertiseRequest, HandleLoadRequest, HandleSnapshotLoadRequest,
              HandlerFrame, SendResponse, PeerAdvances, PeerRemovesLoader, docVars
<1> QED
  BY <1>2, <1>3 DEF AcceptInvitation, Pristine

LEMMA ServedStep ==
    ASSUME LoadInv, [Next]_vars, NEW p \in Honest,
           wire'[p].content # NoContent, wire'[p] # wire[p]
    PROVE  member[p]
<1> USE DEF LoadInv
<1>1. Next
  BY DEF vars, peerVars
<1>2. ASSUME Quiet
      PROVE  FALSE
  BY <1>2, SilentMessages DEF Quiet
<1>3. wire' # wire
  OBVIOUS
<1>4. ASSUME NEW o, Finish(o)
      PROVE  FALSE
  BY <1>2, <1>4, FinishEnds DEF Ended
<1>5. ASSUME NEW q, Hangup(q)
      PROVE  FALSE
  BY <1>2, <1>5, HangupQuiet
<1>6. ~Miss /\ ~Throw /\ ~BindFailure /\ ~WriterConflict
  BY <1>4, <1>5 DEF Miss, Throw, BindFailure, WriterConflict, Advance
<1>7. ASSUME NEW q \in Peers, NEW m \in Answers(q), ReceiveAdvertisement(q, m)
      PROVE  FALSE
  BY <1>7, SilentMessages DEF ReceiveAdvertisement, Shape
<1>8. ASSUME NEW q \in Peers, ProbeTimeout(q) \/ StartCatchUp(q)
      PROVE  FALSE
  BY <1>3, <1>5, <1>8 DEF ProbeTimeout, StartCatchUp
<1>9. ASSUME \/ \E order \in Orders : StartLoad(order)
             \/ DecideQuorum \/ CompleteApplication
      PROVE  FALSE
  BY <1>3, <1>4, <1>9 DEF StartLoad, DecideQuorum, CompleteApplication
<1>10. ASSUME ExhaustCohort
       PROVE  FALSE
  BY <1>4, <1>10 DEF ExhaustCohort
<1>11. ASSUME \/ RequestLoad \/ ResponseDeadline \/ BeginApply
              \/ \E m \in Answers(Server) : ReceiveResponse(m)
       PROVE  FALSE
  BY <1>3, <1>6, <1>11 DEF RequestLoad, ResponseDeadline, BeginApply, ReceiveResponse
<1>12. ASSUME NEW inst \in SUBSET Contents, NEW synced \in BOOLEAN, Apply(inst, synced)
       PROVE  FALSE
  BY <1>3, <1>4, <1>6, <1>12 DEF Apply
<1>13. ASSUME \/ AcceptInvitation \/ AbandonJoin \/ EndWriterChange
              \/ \E new \in (SUBSET Authorities) \ {{}} : BeginWriterChange(new)
       PROVE  FALSE
  BY <1>3, <1>13 DEF AcceptInvitation, AbandonJoin, EndWriterChange, BeginWriterChange, peerVars
<1>14. ASSUME NEW q \in Honest, Prepare(q) \/ Refuse(q)
       PROVE  FALSE
  BY <1>3, <1>14, SilentMessages DEF Prepare, Refuse, Shape
<1>15. ASSUME NEW q \in Honest,
              \/ HandleSecurityAdvertiseRequest(q) \/ HandleLoadRequest(q)
              \/ HandleSnapshotLoadRequest(q) \/ PeerAdvances(q) \/ PeerRemovesLoader(q)
       PROVE  FALSE
  BY <1>3, <1>14, <1>15
     DEF HandleSecurityAdvertiseRequest, HandleLoadRequest, HandleSnapshotLoadRequest,
         PeerAdvances, PeerRemovesLoader
<1>16. ASSUME NEW q \in Honest, SendResponse(q)
       PROVE  member[p]
  BY <1>16, SilentMessages DEF SendResponse, Shape
<1> QED
  BY <1>1, <1>7, <1>8, <1>9, <1>10, <1>11, <1>12, <1>13, <1>15, <1>16 DEF Next

\* What a load installs was agreed on, is fresh and whole, comes from a writer and
\* went to a member; an instance it only half filled stays closed; the variables
\* keep their shape.
THEOREM LoadIsSound == Spec => LoadSound
<1>1. LoadInv => TypeOK /\ QuorumFresh /\ AppliesAgreed /\ NoOpenHalfLoad
  BY DEF LoadInv
<1>2. LoadInv /\ [Next]_vars =>
        [outcome' = "loaded" /\ outcome # "loaded" /\ (win # NoDigest \/ app' # app)
            => Cids(resp.content) \subseteq hashes']_vars
  BY WholeStep
<1>3. LoadInv /\ [Next]_vars =>
        [hashes' # hashes /\ app = "complete" => resp.signer \in writers]_vars
  BY SignerStep
<1>4. LoadInv /\ [Next]_vars =>
        [\A p \in Honest : wire'[p].content # NoContent /\ wire'[p] # wire[p]
            => member[p]]_vars
  BY ServedStep
<1> QED
  BY <1>1, <1>2, <1>3, <1>4, LoadInvariant, PTL
     DEF Spec, LoadSound, LoadedWhole, SignerCurrent, ServedToMembers
=============================================================================
