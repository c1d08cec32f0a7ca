---------------------------- MODULE DocumentLoad ----------------------------
(***************************************************************************)
(* The initial load of a document (load and its helpers in                 *)
(* peerborne-document.ts, load-quorum-orchestrator.ts, load-quorum.ts and   *)
(* the policy modules they call), seen from one loading replica.            *)
(*                                                                         *)
(* A load captures a session (a fresh challenge, the trusted authorities,   *)
(* the version of the writer list), asks the first K peers for a signed     *)
(* digest of what they would serve, keeps one vote per signing authority,   *)
(* and then fetches the document from the peers that voted for the winning  *)
(* digest, one after the other, checking each response against the session  *)
(* and the digest before any of it is applied in the mutation queue.        *)
(* Writers change, peers move on and requesters are removed meanwhile.      *)
(* An accepted invitation catches up through the same code with one pinned  *)
(* signer.                                                                  *)
(*                                                                         *)
(* What a peer serves is one number, its content: 1..MaxContent are the     *)
(* states of the shared history in order, Forged is a state no honest peer  *)
(* ever held.  A content stands for the frontier and the manifest of a      *)
(* response; the tips a response declares are named by the content they      *)
(* would be right for, and its digest binds both without collisions.        *)
(* A response that cannot be read (empty, framing, unknown key, another     *)
(* document, other security commitments, no signature) is Unusable.         *)
(***************************************************************************)
EXTENDS Naturals, Sequences, FiniteSets, FiniteSetsExt, SequencesExt

CONSTANTS Peers,          \* transport identities of the other replicas
          Authorities,    \* signing keys
          AuthOf,         \* the key each peer signs with
          Byzantine,      \* authorities that sign anything
          Trusted,        \* resolveTrustedDocumentWriters, the first load's root
          Orders,         \* connection lists: sequences over Peers
          K, Q,           \* loadQuorumK, loadQuorumQ (0: not configured)
          QuorumChoices,  \* the settings of loadQuorumEnabled to explore
          AllowSinglePeer,\* loadQuorumAllowSinglePeer
          Compaction,     \* try snapshot-load before doc-load
          SnapshotOnly,   \* contents served without a change tree
          Issuer,         \* the authority an invitation pins
          MaxContent,     \* bound on the shared history
          MaxLoads,       \* bound on load sessions, hence on challenges
          MaxMutations,   \* bound on writer changes
          MaxChecks       \* signature checks one session may spend

\* validateLoadQuorumConfig: K positive, Q at most K.
ValidLoadQuorumConfig == K > 0 /\ Q <= K

ASSUME LoadConstants ==
    /\ AuthOf \in [Peers -> Authorities]
    /\ Byzantine \subseteq Authorities /\ Issuer \in Authorities
    /\ IsFiniteSet(Authorities)
    /\ Trusted \subseteq Authorities /\ Trusted # {}
    /\ Orders \subseteq Seq(Peers)
    /\ {K, MaxContent, MaxLoads, MaxChecks} \subseteq Nat \ {0}
    /\ {Q, MaxMutations} \subseteq Nat
    /\ ValidLoadQuorumConfig
    /\ QuorumChoices \subseteq BOOLEAN /\ QuorumChoices # {}
    /\ {AllowSinglePeer, Compaction} \subseteq BOOLEAN
    /\ SnapshotOnly \subseteq 1..MaxContent

Forged == MaxContent + 1
Contents == 1..Forged
NoContent == 0

\* The change blocks a content is made of.
Cids(c) == IF c = Forged THEN {Forged} ELSE 1..c

Honest == {p \in Peers : AuthOf[p] \notin Byzantine}

VARIABLES
    quorumEnabled, \* loadQuorumEnabled, fixed for the swarm
    pc,        \* idle, probe, fetch, await, queued, applying, completing
    sess,      \* the captured load session
    votes,     \* peer -> its probe: pending, none, or a vote
    win,       \* the agreed digest, NoContent without a quorum decision
    cohort,    \* the peers the load fetches from, in order
    at,        \* index in cohort
    stage,     \* snap, doc or catch
    resp,      \* the response being applied
    failed,    \* peers recorded as bind failures
    conflict,  \* a response was dropped because the writers changed
    outcome,   \* how the last load ended
    loads,     \* sessions captured so far
    attempts,  \* catch-up attempts of the current join
    hashes,    \* installed change blocks
    writers, writerVersion, pendingWriters,  \* the writer list, and a mutation in flight
    app,       \* bootstrap application: pristine, pending, complete
    joining,   \* an invitation's bootstrap continuation is active
    peerDoc,   \* the content each honest peer holds
    member,    \* whether an honest peer's lists hold the loader
    plan,      \* the response an honest peer has prepared
    wire,      \* the answer on the stream to an honest peer
    archive,   \* what honest authorities have signed
    held       \* contents honest peers held since the session was captured

loadVars == <<quorumEnabled, pc, sess, votes, win, cohort, at, stage, resp, failed, conflict,
              outcome, loads, attempts>>
docVars == <<hashes, writers, writerVersion, pendingWriters, app, joining>>
peerVars == <<peerDoc, member, plan, wire, archive, held>>
vars == <<loadVars, docVars, peerVars>>

-----------------------------------------------------------------------------
(* Messages and sessions                                                    *)

Nobody == {}
Unusable == [use |-> "unusable", ch |-> 0, signer |-> Issuer,
             tips |-> NoContent, content |-> NoContent]
NoAnswer == [Unusable EXCEPT !.use = "none"]

Message(use, ch, a, t, c) ==
    [use |-> use, ch |-> ch, signer |-> a, tips |-> t, content |-> c]

\* loadAdvertisementHash: the frontier and the manifest together.
LoadAdvertisementHash(tips, manifest) == [tips |-> tips, manifest |-> manifest]
NoDigest == LoadAdvertisementHash(NoContent, NoContent)
Digests == [tips : Contents, manifest : Contents]

\* The digest of the state a response serves, and of what it declares.
ServedDigest(m) == LoadAdvertisementHash(m.content, m.content)
DeclaredDigest(m) == LoadAdvertisementHash(m.tips, m.content)

Vote(a, d) == [kind |-> "vote", signer |-> a, digest |-> d]
Pending == [kind |-> "pending", signer |-> Issuer, digest |-> NoDigest]
NonVote == [Pending EXCEPT !.kind = "none"]
NotAsked == [Pending EXCEPT !.kind = "idle"]

NoSession == [ch |-> 0, version |-> 0, boot |-> FALSE, auths |-> {}, spent |-> 0]

Pristine == app = "pristine" /\ hashes = {}

Init ==
    /\ quorumEnabled \in QuorumChoices
    /\ pc = "idle" /\ sess = NoSession
    /\ votes = [p \in Peers |-> NotAsked]
    /\ win = NoDigest /\ cohort = <<>> /\ at = 1 /\ stage = "doc"
    /\ resp = NoAnswer /\ failed = {} /\ conflict = FALSE
    /\ outcome = "none" /\ loads = 0 /\ attempts = 0
    /\ \/ hashes = {} /\ writers = {} /\ app = "pristine"
       \/ hashes = Cids(1) /\ writers = Authorities /\ app = "complete"
    /\ writerVersion = 0 /\ pendingWriters = Nobody /\ joining = FALSE
    /\ peerDoc \in [Honest -> 1..MaxContent]
    /\ \E p \in Honest : peerDoc[p] = 1
    /\ member = [p \in Honest |-> TRUE]
    /\ plan = [p \in Honest |-> NoAnswer]
    /\ wire = [p \in Honest |-> NoAnswer]
    /\ archive = {} /\ held = {}

-----------------------------------------------------------------------------
(* Quorum policy                                                            *)

\* The entries of a list at a set of positions, in the order of the list.
Picked(order, positions) ==
    [n \in 1..Cardinality(positions) |->
        order[CHOOSE i \in positions : Cardinality(positions \cap (1..i)) = n]]

\* Keep the first connection of each peer, in order.
DedupePeersByPeerId(order) ==
    Picked(order, {i \in DOMAIN order : \A j \in 1..(i - 1) : order[j] # order[i]})

EffectiveK(k, n) == IF k < n THEN k ELSE n

\* A strict majority of the probed peers unless Q is configured.
RequiredQuorumQ(k) == IF Q > 0 THEN Q ELSE k \div 2 + 1

Probed == {p \in Peers : votes[p].kind # "idle"}
Voters == {p \in Probed : votes[p].kind = "vote"}

PositionOf(order, p) == Min({i \in DOMAIN order : order[i] = p})

\* The first vote of each authority counts, in the order the peers were probed.
EveryVoter == Voters

FirstVoters ==
    {p \in Voters : \A r \in Voters :
        votes[r].signer = votes[p].signer =>
            PositionOf(cohort, p) <= PositionOf(cohort, r)}

\* An authority signed two digests in this round.
Equivocating ==
    \E p, r \in Voters : /\ votes[p].signer = votes[r].signer
                         /\ votes[p].digest # votes[r].digest

Tally(d) == Cardinality({p \in FirstVoters : votes[p].digest = d})

\* The digests that reach the threshold; a load needs exactly one.
QualifyingDigests(q) == {d \in {votes[p].digest : p \in FirstVoters} : Tally(d) >= q}

-----------------------------------------------------------------------------
(* Starting a load                                                          *)

\* _assertLoadWriterVersion: the writers are those the session captured.
WritersUnchanged == pendingWriters = Nobody /\ writerVersion = sess.version

Capture(boot, auths) ==
    /\ loads < MaxLoads
    /\ loads' = loads + 1
    /\ sess' = [ch |-> loads + 1, version |-> writerVersion, boot |-> boot,
                auths |-> auths, spent |-> 0]
    /\ held' = {peerDoc[p] : p \in Honest}

Finish(o) ==
    /\ outcome' = o /\ pc' = "idle"
    /\ votes' = [p \in Peers |-> NotAsked]
    /\ win' = NoDigest /\ cohort' = <<>> /\ at' = 1 /\ stage' = "doc"
    /\ failed' = {} /\ conflict' = FALSE
    /\ plan' = [p \in Honest |-> NoAnswer]
    /\ wire' = [p \in Honest |-> NoAnswer]

FirstStage == IF Compaction THEN "snap" ELSE "doc"

\* runLoadQuorum refuses before probing: a configured Q no probe can reach, or a
\* single peer without the explicit setting.
QuorumRefused(k) == Q > k \/ (k = 1 /\ ~AllowSinglePeer)

\* load up to the quorum decision: the session is captured, the peers are
\* deduplicated, and the first K are probed in parallel.
StartLoad(order) ==
    LET peers == DedupePeersByPeerId(order)
        k == EffectiveK(K, Len(peers))
        probe == {peers[i] : i \in 1..k}
    IN /\ pc = "idle" /\ app # "pending" /\ pendingWriters = Nobody
       /\ Capture(writers = {}, IF writers = {} THEN Trusted ELSE writers)
       /\ IF quorumEnabled /\ QuorumRefused(k)
          THEN Finish("no-quorum") /\ resp' = NoAnswer
          ELSE /\ outcome' = "running" /\ at' = 1 /\ stage' = FirstStage
               /\ pc' = IF quorumEnabled THEN "probe" ELSE "fetch"
               /\ cohort' = IF quorumEnabled THEN peers ELSE order
               /\ votes' = [p \in Peers |->
                              IF quorumEnabled /\ p \in probe THEN Pending
                                                              ELSE NotAsked]
               /\ win' = NoDigest /\ failed' = {} /\ conflict' = FALSE
               /\ resp' = NoAnswer
               /\ UNCHANGED <<plan, wire>>
       /\ UNCHANGED <<quorumEnabled, attempts, docVars, peerDoc, member, archive>>

-----------------------------------------------------------------------------
(* What can be read from the stream to a peer                               *)

Use == CASE pc = "probe" -> "adv"
         [] pc # "probe" /\ stage = "catch" -> "catch"
         [] OTHER -> "load"

\* A peer of a Byzantine authority signs any content, and tips that are not its
\* content's; it forwards the request to an honest peer and relays the answer,
\* or replays what an honest authority signed before.
ByzantineAnswers(p) ==
    {Message(Use, sess.ch, AuthOf[p], c, c) : c \in Contents}
    \cup {Message(Use, sess.ch, AuthOf[p], 1, Forged)}
    \cup {Message(Use, sess.ch, AuthOf[h], peerDoc[h], peerDoc[h]) : h \in Honest}
    \cup {Message(Use, m.ch, m.signer, m.content, m.content) : m \in archive}

Answers(p) == IF p \in Honest THEN {wire[p]} \ {NoAnswer} ELSE ByzantineAnswers(p)

-----------------------------------------------------------------------------
(* Probes                                                                   *)

\* One signature check of this session, refused once its budget is spent.
Affordable == sess.spent < MaxChecks
Spend == sess' = [sess EXCEPT !.spent = @ + 1]

\* A message answers this session's challenge.
InitialLoadChallengeEquals(m) == m.ch = sess.ch

\* identifyInitialLoadSigner: the named signer is one the session captured.
TrustedSigner(m) == m.signer \in sess.auths

\* _probeSecurityAdvertise: an answer becomes a vote attributed to its signer,
\* anything else is a non-vote.
ReceiveAdvertisement(p, m) ==
    LET readable == m.use = "adv" /\ InitialLoadChallengeEquals(m) /\ WritersUnchanged
    IN /\ pc = "probe" /\ votes[p] = Pending
       /\ IF readable /\ TrustedSigner(m) /\ Affordable
          THEN votes' = [votes EXCEPT ![p] = Vote(m.signer, DeclaredDigest(m))] /\ Spend
          ELSE votes' = [votes EXCEPT ![p] = NonVote] /\ UNCHANGED sess
       /\ wire' = IF p \in Honest THEN [wire EXCEPT ![p] = NoAnswer] ELSE wire
       /\ UNCHANGED <<pc, win, cohort, at, stage, resp, failed, conflict, outcome,
                      quorumEnabled, loads, attempts, docVars, peerDoc, member, plan, archive, held>>

\* The stream to p is gone: what p had prepared for it reaches nobody.
Hangup(p) ==
    IF p \in Honest
    THEN /\ wire' = [wire EXCEPT ![p] = NoAnswer]
         /\ plan' = [plan EXCEPT ![p] = NoAnswer]
    ELSE UNCHANGED <<wire, plan>>

\* A probe without a timer.
NoProbeTimeout(p) ==
    /\ p \notin Honest /\ pc = "probe" /\ votes[p] = Pending
    /\ votes' = [votes EXCEPT ![p] = NonVote]
    /\ Hangup(p)
    /\ UNCHANGED <<pc, sess, win, cohort, at, stage, resp, failed, conflict, outcome,
                   quorumEnabled, loads, attempts, docVars, peerDoc, member, archive, held>>

\* _raceSecurityAdvertiseProbe: the timer wins, or the dial fails.
ProbeTimeout(p) ==
    /\ pc = "probe" /\ votes[p] = Pending
    /\ votes' = [votes EXCEPT ![p] = NonVote]
    /\ Hangup(p)
    /\ UNCHANGED <<pc, sess, win, cohort, at, stage, resp, failed, conflict, outcome,
                   quorumEnabled, loads, attempts, docVars, peerDoc, member, archive, held>>

\* runLoadQuorum after Promise.all: one authority, one vote; exactly one digest
\* may reach the threshold; the load narrows to the peers that voted for it.
DecideQuorum ==
    LET q == RequiredQuorumQ(Cardinality(Probed))
        won == QualifyingDigests(q)
    IN /\ pc = "probe" /\ \A p \in Probed : votes[p] # Pending
       /\ IF Equivocating \/ Cardinality(won) # 1
          THEN Finish("no-quorum") /\ UNCHANGED resp
          ELSE LET c == CHOOSE x \in won : TRUE
               IN /\ win' = c
                  /\ cohort' = Picked(cohort, {i \in DOMAIN cohort :
                         cohort[i] \in FirstVoters /\ votes[cohort[i]].digest = c})
                  /\ pc' = "fetch"
                  /\ UNCHANGED <<votes, at, stage, resp, failed, conflict, outcome,
                                 plan, wire>>
       /\ UNCHANGED <<sess, quorumEnabled, loads, attempts, docVars, peerDoc, member, archive, held>>

-----------------------------------------------------------------------------
(* Fetching from the cohort                                                 *)

Server == cohort[at]

\* The catch of the load loop: an incomplete application ends the load with an
\* error; otherwise a bind failure moves to the next peer, any other miss of
\* snapshot-load falls back to doc-load with the same peer.
Advance(bind, changed, threw) ==
    IF (threw /\ app = "pending") \/ stage = "catch"
    THEN Finish(IF stage = "catch" /\ changed /\ attempts < 3 THEN "retry" ELSE "error")
    ELSE /\ at' = IF stage = "snap" /\ ~bind THEN at ELSE at + 1
         /\ stage' = IF stage = "snap" /\ ~bind THEN "doc" ELSE FirstStage
         /\ failed' = IF bind THEN failed \cup {Server} ELSE failed
         /\ conflict' = (conflict \/ changed)
         /\ pc' = "fetch"
         /\ Hangup(Server)
         /\ UNCHANGED <<votes, win, cohort, outcome>>

Miss == Advance(FALSE, FALSE, FALSE)
Throw == Advance(FALSE, FALSE, TRUE)
BindFailure == Advance(TRUE, FALSE, TRUE)
WriterConflict == Advance(FALSE, TRUE, TRUE)

\* A blocked instance takes part only as the continuation that blocked it.
CanUseCurrentBootstrapState == app = "pending" => joining

\* _sendLoadRequestAndSync up to the write of the request.
RequestLoad ==
    /\ pc = "fetch" /\ at <= Len(cohort)
    /\ \/ ~WritersUnchanged /\ WriterConflict
       \/ WritersUnchanged /\ ~CanUseCurrentBootstrapState /\ Miss
       \/ /\ WritersUnchanged /\ CanUseCurrentBootstrapState
          /\ pc' = "await"
          /\ UNCHANGED <<votes, win, cohort, at, stage, failed, conflict, outcome,
                         plan, wire>>
    /\ UNCHANGED <<sess, resp, quorumEnabled, loads, attempts, docVars, peerDoc, member, archive, held>>

\* The response deadline, a dial or a stream error.
ResponseDeadline ==
    /\ pc = "await" /\ Throw
    /\ UNCHANGED <<sess, resp, quorumEnabled, loads, attempts, docVars, peerDoc, member, archive, held>>

\* The checks of a verified response before anything is applied.  A quorum load
\* strips inline changes, drops a snapshot it cannot verify yet, and needs every
\* unknown block fetched; an unbound first load needs the same of its blocks.
BindsTo(m) == /\ DeclaredDigest(m) = ServedDigest(m)
              /\ win # NoDigest => ServedDigest(m) = win

NothingToApply(m) == win # NoDigest /\ writers = {} /\ m.content \in SnapshotOnly

MustPrefetch == win # NoDigest \/ sess.boot \/ stage = "catch"

\* The response is of the right context, answers the challenge and carries a
\* signature of a trusted (or the pinned) signer.
VerifiedResponse(m) ==
    /\ m.use = IF stage = "catch" THEN "catch" ELSE "load"
    /\ InitialLoadChallengeEquals(m) /\ TrustedSigner(m)
    /\ stage = "catch" \/ Affordable

\* unknownLoadCids, prefetchLoadBlocks: there are blocks to fetch first, and any
\* of them may be unavailable.
BlocksToFetch(m) == MustPrefetch /\ ~(Cids(m.content) \subseteq hashes)

ReceiveResponse(m) ==
    LET catchUp == stage = "catch"
    IN /\ pc = "await"
       /\ IF ~VerifiedResponse(m) \/ ~CanUseCurrentBootstrapState
          THEN Miss /\ UNCHANGED <<sess, resp>>
          ELSE /\ IF catchUp THEN UNCHANGED sess ELSE Spend
               /\ \/ /\ ~catchUp /\ (~BindsTo(m) \/ NothingToApply(m))
                     /\ BindFailure /\ UNCHANGED resp
                  \/ /\ catchUp \/ (BindsTo(m) /\ ~NothingToApply(m))
                     /\ \/ /\ BlocksToFetch(m)
                           /\ IF win # NoDigest THEN BindFailure ELSE Miss
                           /\ UNCHANGED resp
                        \/ /\ resp' = m /\ pc' = "queued"
                           /\ UNCHANGED <<votes, win, cohort, at, stage, failed,
                                          conflict, outcome, plan, wire>>
       /\ UNCHANGED <<quorumEnabled, loads, attempts, docVars, peerDoc, member, archive, held>>

-----------------------------------------------------------------------------
(* Applying in the mutation queue                                           *)

\* reverifyCurrentLoadSigner: the signer is a writer now, and the signature is
\* checked again.
SignerIsWriter == resp.signer \in writers /\ Affordable

\* A first load applies to a document that holds nothing and has no writer; with
\* a writer in the list its signer is verified like that of any other load.
FromNothing == sess.boot /\ writers = {}
MayApply == stage = "catch" \/ IF FromNothing THEN Pristine ELSE SignerIsWriter

\* _markBootstrapStateApplicationPending, for a first load.
Marked == IF sess.boot THEN "pending" ELSE app

\* The head of the queue slot: the instance is not blocked, the writers are the
\* session's, and a first load still finds a document that holds nothing.
BeginApply ==
    /\ pc = "queued" /\ (stage = "catch" \/ pendingWriters = Nobody)
    /\ \/ /\ stage # "catch" /\ app = "pending"
          /\ Miss /\ UNCHANGED <<sess, app>>
       \/ /\ stage = "catch" \/ app # "pending"
          /\ \/ /\ ~WritersUnchanged
                /\ WriterConflict /\ UNCHANGED <<sess, app>>
             \/ /\ WritersUnchanged
                /\ \/ ~MayApply /\ Miss /\ UNCHANGED <<sess, app>>
                   \/ /\ MayApply
                      /\ pc' = "applying"
                      /\ app' = Marked
                      /\ IF stage = "catch" \/ FromNothing THEN UNCHANGED sess ELSE Spend
                      /\ UNCHANGED <<votes, win, cohort, at, stage, failed, conflict,
                                     outcome, plan, wire>>
    /\ UNCHANGED <<resp, quorumEnabled, loads, attempts, hashes, writers, writerVersion, pendingWriters,
                   joining, peerDoc, member, archive, held>>

\* syncInvitationMessageCompletely and the missing-CID check of a quorum load.
InstallsAll(m, inst) == Cids(m.content) \subseteq (hashes \cup inst)

\* _syncUnlocked installs some of the blocks and says whether it accepted the
\* message.  A tracked or quorum load that is not whole is an error.
Apply(inst, synced) ==
    LET whole == InstallsAll(resp, inst)
        acl == sess.boot /\ inst # {}
    IN /\ pc = "applying" /\ inst \subseteq Cids(resp.content) \ hashes
       /\ hashes' = hashes \cup inst
       /\ writers' = IF acl THEN Authorities ELSE writers
       /\ writerVersion' = IF acl THEN writerVersion + 1 ELSE writerVersion
       /\ \/ ~synced /\ Miss
          \/ /\ synced /\ MustPrefetch /\ ~whole
             /\ IF win # NoDigest THEN BindFailure ELSE Throw
          \/ /\ synced /\ (MustPrefetch => whole)
             /\ IF sess.boot \/ stage = "catch"
                THEN /\ pc' = "completing"
                     /\ UNCHANGED <<votes, win, cohort, at, stage, failed, conflict,
                                    outcome, plan, wire>>
                ELSE Finish("loaded")
       /\ UNCHANGED <<sess, resp, quorumEnabled, loads, attempts, pendingWriters, app, joining,
                      peerDoc, member, archive, held>>

\* _completeBootstrapStateApplicationUnlocked in its own queue slot; a catch-up
\* first checks that the invitation's membership is in the lists.
CompleteApplication ==
    /\ pc = "completing"
    /\ \/ app' = "complete" /\ joining' = FALSE /\ Finish("loaded")
       \/ stage = "catch" /\ Finish("error") /\ joining' = FALSE /\ UNCHANGED app
    /\ UNCHANGED <<sess, resp, quorumEnabled, loads, attempts, hashes, writers, writerVersion,
                   pendingWriters, peerDoc, member, archive, held>>

\* The end of load: no peer of the cohort served the document.
ExhaustCohort ==
    /\ pc = "fetch" /\ at > Len(cohort)
    /\ Finish(CASE win # NoDigest -> IF failed = Range(cohort) THEN "all-bind-failed"
                                                                ELSE "unreachable"
                [] win = NoDigest /\ conflict -> "conflict"
                [] win = NoDigest /\ ~conflict ->
                       IF app = "pending" THEN "error" ELSE "missing")
    /\ UNCHANGED <<sess, resp, quorumEnabled, loads, attempts, docVars, peerDoc, member, archive, held>>

-----------------------------------------------------------------------------
(* Catching up an accepted invitation                                       *)

\* The bootstrap of an accepted invitation is applied and its continuation is
\* active (modelled in Invitation); the document stays pending until caught up.
AcceptInvitation ==
    /\ pc = "idle" /\ Pristine /\ writers = {} /\ loads < MaxLoads
    /\ app' = "pending" /\ joining' = TRUE
    /\ hashes' = Cids(1) /\ writers' = Authorities
    /\ writerVersion' = writerVersion + 1
    /\ attempts' = 0 /\ outcome' = "retry"
    /\ UNCHANGED <<quorumEnabled, pc, sess, votes, win, cohort, at, stage, resp, failed,
                   conflict, loads, pendingWriters, peerVars>>

\* _loadInvitationCatchUp: at most three attempts, each with its own session,
\* against the issuer alone.
StartCatchUp(p) ==
    /\ pc = "idle" /\ joining /\ outcome = "retry" /\ pendingWriters = Nobody
    /\ AuthOf[p] = Issuer /\ Capture(FALSE, {Issuer})
    /\ attempts' = attempts + 1
    /\ pc' = "fetch" /\ cohort' = <<p>> /\ at' = 1 /\ stage' = "catch"
    /\ outcome' = "running" /\ resp' = NoAnswer
    /\ UNCHANGED <<quorumEnabled, votes, win, failed, conflict, docVars, peerDoc, member, plan, wire,
                   archive>>

\* The join failed: its continuation ends and the instance stays blocked.
AbandonJoin ==
    /\ pc = "idle" /\ joining
    /\ outcome = "error" \/ (outcome = "retry" /\ loads = MaxLoads)
    /\ joining' = FALSE
    /\ UNCHANGED <<loadVars, hashes, writers, writerVersion, pendingWriters, app, peerVars>>

-----------------------------------------------------------------------------
(* The loader's writer list                                                 *)

\* A local or received writer change, in the mutation queue; its list is visible
\* to readers only when it ends.
BeginWriterChange(new) ==
    /\ pendingWriters = Nobody /\ writers # {} /\ new # writers
    /\ writerVersion < MaxMutations
    /\ app = "complete" /\ pc \notin {"applying", "completing"}
    /\ pendingWriters' = new
    /\ UNCHANGED <<loadVars, hashes, writers, writerVersion, app, joining, peerVars>>

EndWriterChange ==
    /\ pendingWriters # Nobody
    /\ writers' = pendingWriters /\ pendingWriters' = Nobody
    /\ writerVersion' = writerVersion + 1
    /\ UNCHANGED <<loadVars, hashes, app, joining, peerVars>>

-----------------------------------------------------------------------------
(* The peers                                                                *)

\* A request of the loader waits at p.
Asked(p) == /\ wire[p].use = "none"
            /\ \/ pc = "probe" /\ votes[p] = Pending
               \/ pc = "await" /\ Server = p

\* An authorized requester gets a signed plan of what the peer holds.
Prepare(p) ==
    /\ plan' = [plan EXCEPT ![p] = Message(Use, sess.ch, AuthOf[p], peerDoc[p], peerDoc[p])]
    /\ UNCHANGED wire

Refuse(p) == wire' = [wire EXCEPT ![p] = Unusable] /\ UNCHANGED plan

HandlerFrame(p) ==
    /\ Asked(p) /\ plan[p].use = "none"
    /\ UNCHANGED <<loadVars, docVars, peerDoc, member, archive, held>>

HandleSecurityAdvertiseRequest(p) ==
    /\ pc = "probe" /\ HandlerFrame(p)
    /\ IF member[p] THEN Prepare(p) ELSE Refuse(p)

HandleLoadRequest(p) ==
    /\ pc = "await" /\ stage # "snap" /\ HandlerFrame(p)
    /\ IF member[p] THEN Prepare(p) ELSE Refuse(p)

\* snapshot-load may find no snapshot to serve.
HandleSnapshotLoadRequest(p) ==
    /\ pc = "await" /\ stage = "snap" /\ HandlerFrame(p)
    /\ \/ member[p] /\ Prepare(p)
       \/ Refuse(p)

\* _sendAuthorizedLoadResponse: the requester is authorized again in the slot
\* that writes the response.
SendResponse(p) ==
    /\ plan[p].use # "none"
    /\ plan' = [plan EXCEPT ![p] = NoAnswer]
    /\ IF member[p]
       THEN /\ wire' = [wire EXCEPT ![p] = plan[p]]
            /\ archive' = archive \cup {[ch |-> plan[p].ch, signer |-> plan[p].signer,
                                         content |-> plan[p].content]}
       ELSE wire' = [wire EXCEPT ![p] = Unusable] /\ UNCHANGED archive
    /\ UNCHANGED <<loadVars, docVars, peerDoc, member, held>>

\* An honest peer receives the next change.
PeerAdvances(p) ==
    /\ peerDoc[p] < MaxContent
    /\ peerDoc' = [peerDoc EXCEPT ![p] = @ + 1]
    /\ held' = held \cup {peerDoc[p] + 1}
    /\ UNCHANGED <<loadVars, docVars, member, plan, wire, archive>>

\* An honest peer learns that the loader was removed.
PeerRemovesLoader(p) ==
    /\ member[p]
    /\ member' = [member EXCEPT ![p] = FALSE]
    /\ UNCHANGED <<loadVars, docVars, peerDoc, plan, wire, archive, held>>

Next ==
    \/ \E order \in Orders : StartLoad(order)
    \/ \E p \in Peers : \/ \E m \in Answers(p) : ReceiveAdvertisement(p, m)
                        \/ ProbeTimeout(p)
                        \/ StartCatchUp(p)
    \/ DecideQuorum \/ RequestLoad \/ ResponseDeadline
    \/ pc = "await" /\ \E m \in Answers(Server) : ReceiveResponse(m)
    \/ BeginApply
    \/ \E inst \in SUBSET Contents, synced \in BOOLEAN : Apply(inst, synced)
    \/ CompleteApplication \/ ExhaustCohort
    \/ AcceptInvitation \/ AbandonJoin
    \/ \E new \in (SUBSET Authorities) \ {{}} : BeginWriterChange(new)
    \/ EndWriterChange
    \/ \E p \in Honest : \/ HandleSecurityAdvertiseRequest(p) \/ HandleLoadRequest(p)
                         \/ HandleSnapshotLoadRequest(p) \/ SendResponse(p)
                         \/ PeerAdvances(p) \/ PeerRemovesLoader(p)

\* Timers fire, the mutation queue drains, and the loader's own code runs on.
Fairness ==
    /\ \A p \in Peers : WF_vars(ProbeTimeout(p))
    /\ WF_vars(DecideQuorum) /\ WF_vars(RequestLoad) /\ WF_vars(ResponseDeadline)
    /\ WF_vars(BeginApply) /\ WF_vars(CompleteApplication) /\ WF_vars(ExhaustCohort)
    /\ WF_vars(\E inst \in SUBSET Contents, synced \in BOOLEAN : Apply(inst, synced))
    /\ WF_vars(EndWriterChange)

Spec == Init /\ [][Next]_vars /\ Fairness

-----------------------------------------------------------------------------
(* Properties                                                               *)

\* Every variable keeps its shape; a session spends no more signature checks
\* than InitialLoadAuthenticationBudget allows, and catch-up tries three times.
TypeOK ==
    /\ pc \in {"idle", "probe", "fetch", "await", "queued", "applying", "completing"}
    /\ sess.ch \in 0..MaxLoads /\ sess.spent \in 0..MaxChecks
    /\ sess.auths \subseteq Authorities
    /\ votes \in [Peers -> [kind : {"idle", "pending", "none", "vote"},
                            signer : Authorities, digest : Digests \cup {NoDigest}]]
    /\ win \in Digests \cup {NoDigest} /\ cohort \in Seq(Peers) /\ at \in 1..(Len(cohort) + 1)
    /\ stage \in {"snap", "doc", "catch"}
    /\ outcome \in {"none", "running", "retry", "loaded", "error", "no-quorum",
                    "all-bind-failed", "unreachable", "conflict", "missing"}
    /\ hashes \subseteq Contents /\ writers \subseteq Authorities
    /\ app \in {"pristine", "pending", "complete"}
    /\ attempts \in 0..3
    /\ DOMAIN peerDoc = Honest /\ DOMAIN wire = Honest

\* An agreed digest is one that an honest peer held while this load ran, as long
\* as fewer Byzantine authorities are trusted than votes are needed: one
\* authority behind several peers, relayed answers and answers to an earlier
\* challenge are never counted twice or as fresh.
QuorumFresh ==
    win # NoDigest /\ Cardinality(Byzantine \cap sess.auths) < Q =>
        win \in {LoadAdvertisementHash(c, c) : c \in held}

\* What a quorum load puts in its queue slot is exactly the agreed state.
AppliesAgreed ==
    pc \in {"queued", "applying", "completing"} /\ win # NoDigest => ServedDigest(resp) = win

\* A load that reports success installed all of what it accepted, except on an
\* established document without quorum, where sync alone decides.
LoadedWhole ==
    [][outcome' = "loaded" /\ outcome # "loaded" /\ (win # NoDigest \/ app' # app)
         => Cids(resp.content) \subseteq hashes']_vars

\* A document that holds blocks is never taken for a pristine one: a first load
\* that fails midway leaves the instance blocked, not half loaded and open, and
\* no load reports success on a blocked instance.
NoOpenHalfLoad ==
    /\ app = "pristine" => hashes = {} /\ writers = {}
    /\ outcome = "loaded" => app = "complete"

\* Once the document is complete, blocks come only from a response whose signer
\* is a writer at that moment, however the writers changed during the load.
SignerCurrent ==
    [][hashes' # hashes /\ app = "complete" => resp.signer \in writers]_vars

\* Document content is written only to a requester the peer's lists hold at the
\* moment of writing.
ServedToMembers ==
    [][\A p \in Honest : wire'[p].content # NoContent /\ wire'[p] # wire[p]
         => member[p]]_vars

\* Every load ends, whatever peers answer or withhold.
LoadEnds == pc # "idle" ~> pc = "idle"

\* What a load installs was agreed on, is fresh and whole, comes from a writer and
\* went to a member; an instance it only half filled stays closed.
LoadSound ==
    /\ [](TypeOK /\ QuorumFresh /\ AppliesAgreed /\ NoOpenHalfLoad)
    /\ LoadedWhole /\ SignerCurrent /\ ServedToMembers
=============================================================================
