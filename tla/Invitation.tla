------------------------------ MODULE Invitation ------------------------------
(***************************************************************************)
(* Invitations to a document.  The founder's process creates signed offers *)
(* (peerborne.ts), answers join requests arriving on concurrent streams,   *)
(* and puts exactly one collaborator into the document's ACL and key tree  *)
(* (peerborne-document.ts).  A recipient's process reserves the path,      *)
(* sends its request, verifies the acceptance and applies the bootstrap to *)
(* a candidate document that becomes visible only when it is complete.     *)
(*                                                                         *)
(* Every await of the code that another stream, the clock, close() or a    *)
(* cancelled stream can slip into is a boundary between two actions.  The  *)
(* digests of offers, requests and acceptances are injective, so a value   *)
(* stands for its digest; the random identifiers never collide.            *)
(***************************************************************************)
EXTENDS Naturals, Sequences, FiniteSets

CONSTANTS
    Offers,         \* offers the founder may create for the document
    EditorOffers,   \* the ones created with the role "editor"
    Recipients,     \* identities that may answer an offer
    Jobs,           \* streams the founder serves at the same time
    MaxTime,        \* bound on the clock
    Ttl,            \* lifetime of an offer
    MinWindow,      \* MIN_INVITATION_PROCESSING_WINDOW_MS
    MaxLives,       \* bound on process starts of a recipient
    MaxAttempts,    \* bound on onboarding runs per request
    MaxActive,      \* MAX_ACTIVE_INVITATION_OFFERS
    Defects         \* of "badSignature", "badPoint": defects requests may have

ASSUME InvitationAssumption ==
    /\ EditorOffers \subseteq Offers
    /\ {MaxTime, Ttl, MinWindow, MaxLives, MaxAttempts, MaxActive} \subseteq Nat
    /\ MinWindow <= Ttl /\ MaxLives > 0
    /\ Defects \subseteq {"badSignature", "badPoint"}

VARIABLES
    now,        \* Date.now()
    open,       \* the founder's document is in _documentRegistry
    expires,    \* [Offers -> Nat] expiresAtMs of an offer, 0 before creation
    drafts,     \* SUBSET Offers: signed by the founder, not registered yet
    registry,   \* SUBSET Offers: _invitationRegistry
    guard,      \* [Offers -> [claim, accepted]] replayGuard of a registration
    cached,     \* SUBSET acceptances: _cached of the acceptance coordinators
    waiting,    \* [Offers -> Seq(Jobs)] _queue of the acceptance coordinators
    job,        \* [Jobs -> record] the join streams being served
    op,         \* [requests -> record] the operations started (_inFlight)
    attempts,   \* [requests -> Nat] operations started for a request
    mutations,  \* Seq(tasks): _mutationQueue of the founder's document
    readers,    \* SUBSET Recipients: the reader ACL
    writers,    \* SUBSET Recipients: the writer ACL without the founder
    leaf,       \* [Recipients -> {"none","live","blank"}] leaves of the key tree
    members,    \* SUBSET Recipients: everyone who ever was in the reader ACL
    replies,    \* SUBSET acceptances sent back on some stream
    node        \* [Recipients -> record] the recipients' processes

founderVars == <<open, expires, drafts, registry, guard, cached, waiting, job, op,
                 attempts, mutations, readers, writers, leaf, members>>
vars == <<now, founderVars, replies, node>>

-----------------------------------------------------------------------------
(* Values on the wire *)

NoRequest == [offer |-> "none"]
NoAcceptance == [request |-> NoRequest]

\* A signed join request.  A process draws one request identifier per life;
\* "badSignature" and "badPoint" stand for requests that fail those checks.
InvitationJoinRequests ==
    [offer : Offers, recipient : Recipients, nonce : 1..MaxLives, form : {"sound"}]
        \cup [offer : Offers, recipient : Recipients, nonce : {0},
              form : Defects]

Role(o) == IF o \in EditorOffers THEN "editor" ELSE "reader"

\* The acceptance binds the offer and the request and carries the ACL that the
\* encrypted bootstrap attests; attempt stands for its random identifier.
InvitationAcceptance(q, attempt, rs, ws) ==
    [request |-> q, attempt |-> attempt, readers |-> rs, writers |-> ws]

verifyInvitationJoinRequest(q) == q.form # "badSignature"

importEciesPublicKey(q) == q.form # "badPoint"

\* invitationTimeDisposition: usable from its creation until it expires.
invitationTimeDisposition(o) ==
    IF expires[o] <= now THEN "expired" ELSE "usable"

assertInvitationOfferUsable(o) == invitationTimeDisposition(o) = "usable"

assertInvitationProcessingWindow(o) == expires[o] - now >= MinWindow

\* An acceptance expires with its offer, so one clock test serves both.
assertInvitationAcceptanceUsable(a) ==
    invitationTimeDisposition(a.request.offer) = "usable"

assertInvitationAcceptanceMatches(a, q) == a.request = q

-----------------------------------------------------------------------------
(* The replay guard *)

EmptyGuard == [claim |-> NoRequest, accepted |-> NoAcceptance]

\* As below without the comparison with the request that holds the claim.
JoinReplayAnyClaim(o, q) ==
    IF guard[o].claim = NoRequest THEN "accepted" ELSE "replay"

\* The guard of a registration sees one offer: it has one claim at most.
decideJoinReplay(o, q) ==
    CASE guard[o].claim = q         -> "replay"
      [] guard[o].claim = NoRequest -> "accepted"
      [] OTHER                      -> "offer-already-claimed"

decideAcceptanceReplay(g, a) ==
    CASE g.accepted = a            -> "replay"
      [] g.accepted = NoAcceptance -> "accepted"
      [] OTHER                     -> "offer-already-consumed"

recordInvitationReplayJoin(o, q) == [guard EXCEPT ![o].claim = q]

recordInvitationReplayAcceptance(o, q, a) ==
    [guard EXCEPT ![o] = [claim |-> q, accepted |-> a]]

-----------------------------------------------------------------------------
(* Founder: offers and the registry *)

\* A registration survives only while its document is the registered one.
assertRegistrationAvailable(o) == o \in registry /\ open

_pruneExpiredInvitationState ==
    {o \in registry : expires[o] > now /\ open}

\* The founder-plus-one slot is empty: no reader, no second writer, and a key
\* tree that never had a second leaf.
assertCanCreateInitialInvitation ==
    /\ readers = {}
    /\ writers = {}
    /\ \A r \in Recipients : leaf[r] = "none"

\* Room for one more offer once the expired ones are dropped.
UnderOfferCap == Cardinality(_pruneExpiredInvitationState) < MaxActive

\* createInvitationForDocument up to the signature of the offer, an await.
createInvitationForDocument(o) ==
    /\ expires[o] = 0
    /\ open
    /\ assertCanCreateInitialInvitation
    /\ UnderOfferCap
    /\ now + Ttl <= MaxTime
    /\ expires' = [expires EXCEPT ![o] = now + Ttl]
    /\ drafts' = drafts \cup {o}
    /\ registry' = _pruneExpiredInvitationState
    /\ UNCHANGED <<now, open, guard, cached, waiting, job, op, attempts,
                   mutations, readers, writers, leaf, members, replies, node>>

\* The signed offer is registered and returned if its document is still open
\* and there is room; the membership is not looked at again.  Signing, or a
\* digest, may fail as well: the offer was never shown to anyone.
registerInvitationOffer(o) ==
    /\ o \in drafts
    /\ drafts' = drafts \ {o}
    /\ \/ open /\ UnderOfferCap
          /\ registry' = _pruneExpiredInvitationState \cup {o}
          /\ UNCHANGED expires
       \/ /\ registry' = _pruneExpiredInvitationState \/ UNCHANGED registry
          /\ expires' = [expires EXCEPT ![o] = 0]
    /\ UNCHANGED <<now, open, guard, cached, waiting, job, op, attempts,
                   mutations, readers, writers, leaf, members, replies, node>>

\* close(): unregisterDocument drops the offers of the document at once.
unregisterDocument ==
    /\ open
    /\ open' = FALSE
    /\ registry' = {}
    /\ UNCHANGED <<now, expires, drafts, guard, cached, waiting, job, op, attempts,
                   mutations, readers, writers, leaf, members, replies, node>>

-----------------------------------------------------------------------------
(* Founder: serving a join stream *)

\* An operation: its phase, whether it has been admitted to mutate, the stream
\* whose signal it obeys and the acceptance it has built.
IdleOp == [phase |-> "idle", admitted |-> FALSE, by |-> "none", bundle |-> NoAcceptance]

FreeJob == [pc |-> "free", req |-> NoRequest, aborted |-> FALSE]

Free(js) == [j \in Jobs |-> IF j \in js THEN FreeJob ELSE job[j]]

Cached(q) == {a \in cached : a.request = q}

InFlight(q) == op[q].phase # "idle"

\* The stream of job j returns the acceptances as (none: it failed) unless the
\* peer has gone.
Return(js, as) ==
    /\ job' = Free(js)
    /\ replies' = replies \cup {a \in as : \E j \in js : ~job[j].aborted}

\* Requests the network can deliver: the ones recipients sent, again and
\* again, and ones that fail a check.  MaxAttempts bounds the deliveries of a
\* request that has no answer yet.
Delivered ==
    {q \in InvitationJoinRequests :
        /\ q.form = "sound" => q \in node[q.recipient].sent
        /\ \/ Cached(q) # {}
           \/ attempts[q] + Cardinality({j \in Jobs : job[j].req = q}) < MaxAttempts}

\* _processInvitationJoin up to its first await.
_processInvitationJoin(j, q) ==
    /\ job[j].pc = "free"
    /\ q \in Delivered
    /\ assertRegistrationAvailable(q.offer)
    /\ assertInvitationOfferUsable(q.offer)
    /\ job' = [job EXCEPT ![j] = [pc |-> "verify", req |-> q, aborted |-> FALSE]]
    /\ UNCHANGED <<now, open, expires, drafts, registry, guard, cached, waiting, op,
                   attempts, mutations, readers, writers, leaf, members, replies, node>>

\* The checks that must pass before a request may reach the one-time claim.
VerifiedRequest(q) == verifyInvitationJoinRequest(q) /\ importEciesPublicKey(q)

\* After the verification: reuse an answer, or queue behind other claims.
runVerified(j) ==
    LET q == job[j].req
        o == q.offer
    IN /\ job[j].pc = "verify"
       /\ \/ /\ VerifiedRequest(q) /\ Cached(q) # {}
             /\ Return({j}, Cached(q))
             /\ UNCHANGED waiting
          \/ /\ VerifiedRequest(q) /\ Cached(q) = {} /\ InFlight(q)
             /\ job' = [job EXCEPT ![j].pc = "attached"]
             /\ UNCHANGED <<waiting, replies>>
          \/ /\ VerifiedRequest(q) /\ Cached(q) = {} /\ ~InFlight(q)
             /\ assertInvitationProcessingWindow(o) /\ ~job[j].aborted
             /\ job' = [job EXCEPT ![j].pc = "queued"]
             /\ waiting' = [waiting EXCEPT ![o] = Append(@, j)]
             /\ UNCHANGED replies
          \/ /\ \/ ~VerifiedRequest(q)
                \/ /\ Cached(q) = {} /\ ~InFlight(q)
                   /\ ~assertInvitationProcessingWindow(o) \/ job[j].aborted
             /\ Return({j}, {})
             /\ UNCHANGED waiting
       /\ UNCHANGED <<now, open, expires, drafts, registry, guard, cached, op, attempts,
                      mutations, readers, writers, leaf, members, node>>

AtFront(j) == waiting[job[j].req.offer] # <<>> /\ Head(waiting[job[j].req.offer]) = j

release(o) == [waiting EXCEPT ![o] = Tail(@)]

\* The front of the queue: recheck, then begin the claim (its digests await).
runQueued(j) ==
    LET q == job[j].req
        o == q.offer
        fresh == /\ ~job[j].aborted
                 /\ assertInvitationProcessingWindow(o)
                 /\ assertRegistrationAvailable(o)
                 /\ assertInvitationOfferUsable(o)
    IN /\ job[j].pc = "queued"
       /\ AtFront(j)
       /\ \/ /\ Cached(q) # {}
             /\ Return({j}, Cached(q)) /\ waiting' = release(o)
          \/ /\ Cached(q) = {} /\ InFlight(q)
             /\ job' = [job EXCEPT ![j].pc = "attached"] /\ waiting' = release(o)
             /\ UNCHANGED replies
          \/ /\ Cached(q) = {} /\ ~InFlight(q) /\ fresh
             /\ job' = [job EXCEPT ![j].pc = "claim"]
             /\ UNCHANGED <<waiting, replies>>
          \/ /\ Cached(q) = {} /\ ~InFlight(q) /\ ~fresh
             /\ Return({j}, {}) /\ waiting' = release(o)
       /\ UNCHANGED <<now, open, expires, drafts, registry, guard, cached, op, attempts,
                      mutations, readers, writers, leaf, members, node>>

\* observeJoin after its digests: the offer must still be usable.
observeJoin(o, q) ==
    IF assertInvitationOfferUsable(o) THEN decideJoinReplay(o, q) ELSE "expired"

\* The claim is recorded, then the operation starts in the same turn unless
\* the registration, the offer or the stream has gone meanwhile.
runClaimed(j) ==
    LET q == job[j].req
        o == q.offer
        decision == observeJoin(o, q)
        admitted == decision \in {"accepted", "replay"}
        starts == /\ admitted
                  /\ assertRegistrationAvailable(o)
                  /\ ~job[j].aborted
    IN /\ job[j].pc = "claim"
       /\ AtFront(j)
       /\ guard' = IF decision = "accepted" THEN recordInvitationReplayJoin(o, q) ELSE guard
       /\ waiting' = release(o)
       /\ \/ /\ starts
             /\ op' = [op EXCEPT ![q].phase = "queued", ![q].by = j]
             /\ attempts' = [attempts EXCEPT ![q] = @ + 1]
             /\ mutations' = Append(mutations, [kind |-> "join", req |-> q])
             /\ job' = [job EXCEPT ![j].pc = "attached"]
             /\ UNCHANGED replies
          \/ /\ ~starts
             /\ Return({j}, {})
             /\ UNCHANGED <<op, attempts, mutations>>
       /\ UNCHANGED <<now, open, expires, drafts, registry, cached, readers, writers, leaf,
                      members, node>>

\* A stream closes or meets its deadline; work already started goes on.
abortStream(j) ==
    /\ job[j].pc # "free" /\ ~job[j].aborted
    /\ job' = [job EXCEPT ![j].aborted = TRUE]
    /\ UNCHANGED <<now, open, expires, drafts, registry, guard, cached, waiting, op,
                   attempts, mutations, readers, writers, leaf, members, replies, node>>

-----------------------------------------------------------------------------
(* Founder: onboarding one recipient in the document's mutation queue *)

Attached(q) == {j \in Jobs : job[j].pc = "attached" /\ job[j].req = q}

\* The mutation queue runs one task at a time.
HoldsMutationQueue(t) == mutations # <<>> /\ Head(mutations) = t

JoinTask(q) == [kind |-> "join", req |-> q]

\* The task at the front has ended.
Dequeued == Tail(mutations)

assertCanMutate(q) ==
    /\ assertRegistrationAvailable(q.offer)
    /\ assertInvitationOfferUsable(q.offer)
    /\ assertInvitationProcessingWindow(q.offer)
    /\ ~job[op[q].by].aborted

\* classifyInitialMembership: the ACL holds nobody but the founder and the
\* recipient, and exactly the offered role once it is ready to attest.
classifyInitialMembership(q, ready) ==
    /\ readers \subseteq {q.recipient}
    /\ writers \subseteq (IF Role(q.offer) = "editor" THEN {q.recipient} ELSE {})
    /\ ready => /\ readers = {q.recipient}
                /\ (Role(q.offer) = "editor" => writers = {q.recipient})

\* A tree with a second leaf may only be retried for the reader who owns it.
assertInitialInvitationBeeKEMCapacity(q) ==
    \/ \A r \in Recipients : leaf[r] = "none"
    \/ q.recipient \in readers /\ leaf[q.recipient] = "live"

\* The operation of q fails: every stream attached to it fails with it.
OpFails(q) ==
    /\ op' = [op EXCEPT ![q] = IdleOp]
    /\ mutations' = Dequeued
    /\ Return(Attached(q), {})

OpAdvances(q, phase) ==
    /\ op' = [op EXCEPT ![q].phase = phase,
                        ![q].admitted = @ \/ phase = "publishReader"]
    /\ UNCHANGED <<mutations, job, replies>>

OpUnchanged == UNCHANGED <<now, open, expires, drafts, registry, waiting, attempts, node>>

\* _buildInvitationBootstrapUnlocked up to the topology preflight.
_buildInvitationBootstrapUnlocked(q) ==
    /\ op[q].phase = "queued"
    /\ HoldsMutationQueue(JoinTask(q))
    /\ \/ /\ assertCanMutate(q)
          /\ assertInitialInvitationBeeKEMCapacity(q)
          /\ classifyInitialMembership(q, FALSE)
          /\ OpAdvances(q, "addReader")
       \/ OpFails(q)
    /\ OpUnchanged /\ UNCHANGED <<guard, cached, readers, writers, leaf, members>>

\* The reader slot is free, or already belongs to this recipient.
ReaderSlot(q) ==
    \/ q.recipient \in readers
    \/ readers = {} /\ \A r \in Recipients : leaf[r] = "none"

AfterReader(q) == IF Role(q.offer) = "editor" THEN "addWriter" ELSE "attest"

\* _addReaderUnlocked: the last admission check, then publication begins.
_addReaderUnlocked(q) ==
    /\ op[q].phase = "addReader"
    /\ \/ /\ assertCanMutate(q) /\ ReaderSlot(q)
          /\ OpAdvances(q, IF q.recipient \in readers THEN AfterReader(q)
                           ELSE "publishReader")
       \/ OpFails(q)
    /\ OpUnchanged /\ UNCHANGED <<guard, cached, readers, writers, leaf, members>>

\* The ACL row and the leaf of a new reader, installed in one turn.
InstallReader(q) ==
    /\ readers' = readers \cup {q.recipient}
    /\ members' = members \cup {q.recipient}
    /\ leaf' = [leaf EXCEPT ![q.recipient] = "live"]

\* Publication resolved: the prepared tree and the ACL row are installed in
\* one turn; a rejected publication leaves both as they were.
_publishPreparedReaderChange(q) ==
    /\ op[q].phase = "publishReader"
    /\ \/ /\ InstallReader(q)
          /\ OpAdvances(q, AfterReader(q))
       \/ OpFails(q) /\ UNCHANGED <<readers, leaf, members>>
    /\ OpUnchanged /\ UNCHANGED <<guard, cached, writers>>

\* _addWriterUnlocked: the target's leaf must be live; a retry that found the
\* reader in place is admitted here for the first time.
_addWriterUnlocked(q) ==
    /\ op[q].phase = "addWriter"
    /\ \/ /\ leaf[q.recipient] = "live" /\ q.recipient \in readers
          /\ \/ q.recipient \in writers /\ UNCHANGED writers
             \/ /\ q.recipient \notin writers
                /\ op[q].admitted \/ assertCanMutate(q)
                /\ writers' = writers \cup {q.recipient}
          /\ OpAdvances(q, "attest")
       \/ OpFails(q) /\ UNCHANGED writers
    /\ OpUnchanged /\ UNCHANGED <<guard, cached, readers, leaf, members>>

\* The ACL the bootstrap attests is the one after the membership change.
AttestedMembership(q) == <<readers, writers>>

\* The bundle is built and signed, and the mutation queue is released.
prepareInitialInvitationMembership(q) ==
    /\ op[q].phase = "attest"
    /\ \/ /\ classifyInitialMembership(q, TRUE)
          /\ assertInvitationOfferUsable(q.offer)
          /\ \E m \in {AttestedMembership(q)} :
                op' = [op EXCEPT ![q].phase = "sign",
                                 ![q].bundle = InvitationAcceptance(q, attempts[q], m[1], m[2])]
          /\ mutations' = Dequeued
          /\ UNCHANGED <<job, replies>>
       \/ OpFails(q)
    /\ OpUnchanged /\ UNCHANGED <<guard, cached, readers, writers, leaf, members>>

\* What the coordinator remembers of a successful operation.
remember(a) == cached \cup {a}

\* observeAcceptance, and the answer to every stream attached to the request.
observeAcceptance(q) ==
    LET a == op[q].bundle
        o == q.offer
        decision == IF assertInvitationAcceptanceUsable(a)
                    THEN decideAcceptanceReplay(guard[o], a) ELSE "expired"
    IN /\ op[q].phase = "sign"
       /\ op' = [op EXCEPT ![q] = IdleOp]
       /\ \/ /\ decision \in {"accepted", "replay"}
             /\ guard' = recordInvitationReplayAcceptance(o, q, a)
             /\ cached' = remember(a)
             /\ Return(Attached(q), {a})
          \/ /\ decision \notin {"accepted", "replay"}
             /\ Return(Attached(q), {})
             /\ UNCHANGED <<guard, cached>>
       /\ OpUnchanged /\ UNCHANGED <<mutations, readers, writers, leaf, members>>

-----------------------------------------------------------------------------
(* Founder: taking a role back, in the same queue *)

RoleTask(kind, r) == [kind |-> kind, req |-> r]

Enqueue(t) ==
    /\ ~ \E i \in DOMAIN mutations : mutations[i] = t
    /\ mutations' = Append(mutations, t)
    /\ UNCHANGED <<now, open, expires, drafts, registry, guard, cached, waiting, job, op,
                   attempts, readers, writers, leaf, members, replies, node>>

removeReader(r) == r \in readers /\ Enqueue(RoleTask("removeReader", r))

removeWriter(r) == r \in writers /\ Enqueue(RoleTask("removeWriter", r))

RoleUnchanged ==
    UNCHANGED <<now, open, expires, drafts, registry, guard, cached, waiting, job, op,
                attempts, members, replies, node>>

\* Downgrade an editor who stays a reader; a rejected publication changes
\* nothing.
_removeWriterUnlocked(r) ==
    /\ HoldsMutationQueue(RoleTask("removeWriter", r))
    /\ mutations' = Dequeued
    /\ \/ r \in writers \cap readers /\ writers' = writers \ {r}
       \/ UNCHANGED writers
    /\ RoleUnchanged /\ UNCHANGED <<readers, leaf>>

\* The tree after the removal of r's leaf.
BlankLeaf(r) == [leaf EXCEPT ![r] = "blank"]

\* Remove a reader who is no writer: the leaf is blanked and the ACL row goes
\* in one turn once publication resolves.
_removeReaderUnlocked(r) ==
    /\ HoldsMutationQueue(RoleTask("removeReader", r))
    /\ mutations' = Dequeued
    /\ \/ /\ r \in readers \ writers /\ leaf[r] = "live"
          /\ readers' = readers \ {r}
          /\ leaf' = BlankLeaf(r)
       \/ UNCHANGED <<readers, leaf>>
    /\ RoleUnchanged /\ UNCHANGED writers

-----------------------------------------------------------------------------
(* Recipient: accepting an offer *)

FreshCandidate == [pc |-> "idle", request |-> NoRequest, accepted |-> NoAcceptance,
                   reserved |-> FALSE, registered |-> FALSE, state |-> "pristine"]

ReservedCandidate(q) == [FreshCandidate EXCEPT !.pc = "dialing", !.request = q, !.reserved = TRUE]

FreshProcess(life) == [life |-> life, outbound |-> {}, seen |-> {}, sent |-> {},
                       doc |-> FreshCandidate]

Candidate(r) == node[r].doc

SetCandidate(r, d) == node' = [node EXCEPT ![r].doc = d]

RecipientUnchanged == UNCHANGED <<now, founderVars, replies>>

Retained(r) == {q \in node[r].outbound : expires[q.offer] > now}

\* acceptInvitation: reserve the path, then reuse or create the one request
\* this process has for the offer.
acceptInvitation(r, o) ==
    LET known == {q \in Retained(r) : q.offer = o}
        fresh == [offer |-> o, recipient |-> r, nonce |-> node[r].life, form |-> "sound"]
    IN /\ o \notin drafts /\ assertInvitationOfferUsable(o)
       /\ ~Candidate(r).reserved /\ ~Candidate(r).registered
       /\ \/ known # {}
          \/ Cardinality(Retained(r)) < MaxActive
       /\ \E q \in (IF known # {} THEN known ELSE {fresh}) :
             node' = [node EXCEPT ![r].outbound = Retained(r) \cup {q},
                                  ![r].sent = @ \cup {q},
                                  ![r].doc = ReservedCandidate(q)]
       /\ RecipientUnchanged

\* Every rendezvous address failed: the reservation is released.
firstSuccessfulInvitationRendezvous(r) ==
    /\ Candidate(r).pc = "dialing"
    /\ SetCandidate(r, FreshCandidate)
    /\ RecipientUnchanged

\* The recipient's guard forgets the claims of expired offers.
_pruneExpired(r) == {a \in node[r].seen : expires[a.request.offer] > now}

RecipientGuard(r, q) ==
    LET known == {a \in _pruneExpired(r) : a.request.offer = q.offer}
    IN [claim |-> q, accepted |-> IF known = {} THEN NoAcceptance ELSE CHOOSE a \in known : TRUE]

\* An acceptance that binds this offer and request, once per offer.
_acceptInvitationOffer(r, a) ==
    LET q == Candidate(r).request
    IN /\ Candidate(r).pc = "dialing"
       /\ a \in replies
       /\ assertInvitationAcceptanceMatches(a, q)
       /\ assertInvitationAcceptanceUsable(a)
       /\ decideAcceptanceReplay(RecipientGuard(r, q), a) \in {"accepted", "replay"}
       /\ node' = [node EXCEPT ![r].seen = _pruneExpired(r) \cup {a},
                               ![r].doc.pc = "bootstrap",
                               ![r].doc.accepted = a]
       /\ RecipientUnchanged

\* classifyAcceptedMembership: exactly the founder and this recipient.
classifyAcceptedMembership(r, o, rs, ws) ==
    /\ rs = {r}
    /\ ws = (IF Role(o) = "editor" THEN {r} ELSE {})

\* The sealed Welcome opens with the recipient's KEM key only and holds a key
\* tree of the founder and this one member.
OpensSealedWelcome(r, a) == a.request.recipient = r /\ a.readers \subseteq {r}

\* Nothing live is touched before the staged keys, the ciphertext and the
\* issuer's signature have been checked on the reserved, pristine candidate.
DetachedBootstrapChecks(r) ==
    /\ Candidate(r).state = "pristine" /\ Candidate(r).reserved
    /\ OpensSealedWelcome(r, Candidate(r).accepted)

_markBootstrapStateApplicationPending(r) ==
    SetCandidate(r, [Candidate(r) EXCEPT !.pc = "apply", !.state = "pending"])

\* The detached checks pass and the first live write begins, or the bundle is
\* refused and the pristine candidate dropped.
acceptInvitationBootstrap(r) ==
    /\ Candidate(r).pc = "bootstrap"
    /\ \/ /\ DetachedBootstrapChecks(r)
          /\ _markBootstrapStateApplicationPending(r)
       \/ SetCandidate(r, FreshCandidate)
    /\ RecipientUnchanged

\* The bootstrap state is applied and its ACL is checked, then _open registers
\* the still pending document.
_runInvitationBootstrapStateApplication(r) ==
    LET a == Candidate(r).accepted
    IN /\ Candidate(r).pc = "apply"
       /\ \/ /\ classifyAcceptedMembership(r, a.request.offer, a.readers, a.writers)
             /\ SetCandidate(r, [Candidate(r) EXCEPT !.pc = "catchUp", !.registered = TRUE])
          \/ SetCandidate(r, FreshCandidate)
       /\ RecipientUnchanged

\* What is left of a candidate whose activation failed.
Discarded == FreshCandidate

\* The founder's answer to the catch-up request: its current ACL, if its
\* document is still open.
_loadInvitationCatchUp == IF open THEN {<<readers, writers>>} ELSE {}

_markBootstrapStateApplicationComplete(r) ==
    SetCandidate(r, [Candidate(r) EXCEPT !.pc = "joined", !.state = "complete",
                                         !.reserved = FALSE])

\* Catch-up with the founder, and the ACL checked once more before the
\* document is complete; any failure closes and discards the candidate.
_activateAcceptedInvitationBootstrap(r) ==
    LET o == Candidate(r).request.offer
    IN /\ Candidate(r).pc = "catchUp"
       /\ \/ /\ \E acl \in _loadInvitationCatchUp :
                   classifyAcceptedMembership(r, o, acl[1], acl[2])
             /\ _markBootstrapStateApplicationComplete(r)
          \/ SetCandidate(r, Discarded)
       /\ RecipientUnchanged

\* The process ends and starts again: requests, guard and candidate are gone.
\* Requests already sent stay on the network.
Restart(r) ==
    /\ node[r].life < MaxLives
    /\ node' = [node EXCEPT ![r] = [FreshProcess(node[r].life + 1) EXCEPT !.sent = node[r].sent]]
    /\ RecipientUnchanged

Tick ==
    /\ now < MaxTime
    /\ now' = now + 1
    /\ UNCHANGED <<founderVars, replies, node>>

-----------------------------------------------------------------------------

Init ==
    /\ now = 0
    /\ open = TRUE
    /\ expires = [o \in Offers |-> 0]
    /\ drafts = {}
    /\ registry = {}
    /\ guard = [o \in Offers |-> EmptyGuard]
    /\ cached = {}
    /\ waiting = [o \in Offers |-> <<>>]
    /\ job = [j \in Jobs |-> FreeJob]
    /\ op = [q \in InvitationJoinRequests |-> IdleOp]
    /\ attempts = [q \in InvitationJoinRequests |-> 0]
    /\ mutations = <<>>
    /\ readers = {}
    /\ writers = {}
    /\ leaf = [r \in Recipients |-> "none"]
    /\ members = {}
    /\ replies = {}
    /\ node = [r \in Recipients |-> FreshProcess(1)]

JobStep(j) ==
    runVerified(j) \/ runQueued(j) \/ runClaimed(j)

OpStep(q) ==
    \/ _buildInvitationBootstrapUnlocked(q)
    \/ _addReaderUnlocked(q)
    \/ _publishPreparedReaderChange(q)
    \/ _addWriterUnlocked(q)
    \/ prepareInitialInvitationMembership(q)
    \/ observeAcceptance(q)

RoleStep(r) == _removeReaderUnlocked(r) \/ _removeWriterUnlocked(r)

RecipientStep(r) ==
    \/ \E o \in Offers : acceptInvitation(r, o)
    \/ firstSuccessfulInvitationRendezvous(r)
    \/ \E a \in replies : _acceptInvitationOffer(r, a)
    \/ acceptInvitationBootstrap(r)
    \/ _runInvitationBootstrapStateApplication(r)
    \/ _activateAcceptedInvitationBootstrap(r)
    \/ Restart(r)

Next ==
    \/ \E o \in Offers : createInvitationForDocument(o) \/ registerInvitationOffer(o)
    \/ unregisterDocument
    \/ \E j \in Jobs, q \in Delivered : _processInvitationJoin(j, q)
    \/ \E j \in Jobs : JobStep(j) \/ abortStream(j)
    \/ \E q \in InvitationJoinRequests : OpStep(q)
    \/ \E r \in Recipients : removeReader(r) \/ removeWriter(r) \/ RoleStep(r)
    \/ \E r \in Recipients : RecipientStep(r)
    \/ Tick

Spec == Init /\ [][Next]_vars

-----------------------------------------------------------------------------
(* Properties *)

Acceptances ==
    {InvitationAcceptance(q, n, rs, ws) :
        q \in InvitationJoinRequests, n \in 1..MaxAttempts,
        rs \in SUBSET Recipients, ws \in SUBSET Recipients}

\* Every variable keeps the shape the founder's and recipients' classes give it.
TypeOK ==
    /\ now \in 0..MaxTime /\ open \in BOOLEAN
    /\ expires \in [Offers -> 0..MaxTime]
    /\ drafts \cup registry \subseteq {o \in Offers : expires[o] > 0}
    /\ drafts \cap registry = {}
    /\ \A o \in Offers : guard[o].claim \in InvitationJoinRequests \cup {NoRequest}
    /\ cached \subseteq Acceptances /\ replies \subseteq Acceptances
    /\ \A j \in Jobs : job[j].pc \in {"free", "verify", "queued", "claim", "attached"}
    /\ readers \subseteq members /\ members \subseteq Recipients
    /\ leaf \in [Recipients -> {"none", "live", "blank"}]
    /\ \A r \in Recipients : Candidate(r).state \in {"pristine", "pending", "complete"}

\* An offer is a one-time link: onboarding work is started for one request of
\* an offer only, whatever the order in which streams verify, queue, abort and
\* claim (observeJoin awaits digests between its two checks).
SoleClaimant ==
    \A q1, q2 \in InvitationJoinRequests :
        /\ q1.offer = q2.offer /\ attempts[q1] > 0 /\ attempts[q2] > 0
        => q1 = q2

\* A request that can never be onboarded (bad signature, key not on the curve)
\* does not use the offer up.
OfferNotBurned ==
    \A o \in Offers : guard[o].claim # NoRequest => guard[o].claim.form = "sound"

\* Founder plus one: whatever offers are open and whoever joins, is revoked or
\* retries, only one identity is ever put into the reader ACL.
FounderPlusOne == Cardinality(members) <= 1 /\ writers \subseteq members

\* The ACL and the key tree agree outside a publication: a reader has a live
\* leaf, so a revocation can always rotate the key away from it.
ReadersHaveLeaves == \A r \in Recipients : r \in readers <=> leaf[r] = "live"

\* An acceptance the founder issues attests the membership the recipient will
\* insist on: exactly the recipient, with the offered role.
AcceptanceComplete ==
    \A a \in cached :
        classifyAcceptedMembership(a.request.recipient, a.request.offer, a.readers, a.writers)

\* A document whose bootstrap did not complete is neither registered nor
\* reserved once acceptInvitation has returned.
PathReleased ==
    \A r \in Recipients :
        /\ Candidate(r).pc = "idle" => ~Candidate(r).reserved /\ ~Candidate(r).registered
        /\ Candidate(r).pc = "joined" => Candidate(r).state = "complete"

\* A stream whose exact request already has an acceptance is answered with it,
\* however often the request is repeated, unless its own peer has gone.
RetryAnswered ==
    [][\A j \in Jobs : \A a \in {guard[o].accepted : o \in Offers} \ {NoAcceptance} :
          /\ job[j].pc # "free" /\ job[j].req = a.request /\ ~job[j].aborted
          /\ job'[j].pc = "free"
          => a \in replies']_vars

\* One link lets one recipient in and no other: one claimant of an offer and one
\* reader at a time, with a leaf to revoke and an acceptance that attests it,
\* nothing left behind by what failed, and the same answer for a repeated request.
OneTimeLink ==
    /\ [](SoleClaimant /\ OfferNotBurned /\ FounderPlusOne /\ ReadersHaveLeaves)
    /\ [](AcceptanceComplete /\ PathReleased)
    /\ RetryAnswered
=============================================================================
