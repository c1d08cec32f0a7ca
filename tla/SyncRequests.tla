---------------------------- MODULE SyncRequests ----------------------------
(***************************************************************************)
(* Sync requests of core/src/peerborne-document.ts with the time policy of  *)
(* core/src/policy/sync-request.ts: a member who missed updates asks for    *)
(* them over the topic and a writer answers with its latest change.         *)
(*                                                                          *)
(* Members may sign any request, and the topic may deliver it late and any  *)
(* number of times, so every request can arrive at every moment.  The wall  *)
(* clock of the answering instance may jump.  One operation at a time holds *)
(* the mutation queue; closing does not wait for it.  Encoding and the size *)
(* limits are left out.                                                     *)
(***************************************************************************)
EXTENDS Integers, FiniteSets, Functions

CONSTANTS
    Requesters,     \* identities that may sign requests
    Lifetime,       \* 60000: how long a request is fresh
    Skew,           \* 30000: how far in the future it may be
    Interval,       \* 2000: least time between two answers
    Capacity,       \* 128: requests remembered
    MaxTime,        \* bound: the clock
    MaxRoot         \* bound: changes and snapshots of the document

ASSUME SyncRequestAssumption ==
    {Lifetime, Skew, Interval, Capacity, MaxTime, MaxRoot} \subseteq Nat

VARIABLES
    wall,                   \* Date.now()
    syncRequestClock,       \* _syncRequestClock
    syncRequestsSeen,       \* _syncRequestsSeen: the issue time of each remembered request
    lastSyncResponseAt,     \* _lastSyncResponseAt
    isOpen,                 \* _subscribed
    root,                   \* _lastSyncMessage: the latest change, 0 for none
    snapshot,               \* _latestSnapshot, 0 for none
    members,                \* the requesters that are readers or writers
    turn,                   \* the operation that holds the mutation queue
    answered,               \* ghost: the requests answered
    answeredAt              \* ghost: the clock at the last answer

requestVars == <<wall, syncRequestClock, syncRequestsSeen, lastSyncResponseAt,
                 isOpen, root, snapshot, members, turn, answered, answeredAt>>

(* What requestSync signs: a request names its sender (whose request id it   *)
(* carries), the sender's time and what the sender knows.  How often a      *)
(* sender asks, and its clock, are its own affair.                          *)
SyncRequest == [requester : Requesters, issuedAt : 0 .. MaxTime,
                knownTip : 0 .. MaxRoot, knownSnapshot : 0 .. MaxRoot]

Idle == [stage |-> "idle"]

-----------------------------------------------------------------------------
(* policy/sync-request.ts                                                   *)

syncRequestTimeAllowed(issuedAt, now) == issuedAt - now >= -Lifetime /\ issuedAt - now <= Skew

FollowsTheWall(previous, observed) == observed
advanceSyncRequestClock(previous, observed) == IF previous > observed THEN previous ELSE observed

syncRequestReplayExpired(issuedAt, now) == now - issuedAt > Lifetime

pruneSyncRequestReplays(ledger, now) ==
    Restrict(ledger, {id \in DOMAIN ledger : ~syncRequestReplayExpired(ledger[id], now)})

classifySyncRequestReplay(issuedAt, now, known, size) ==
    IF ~syncRequestTimeAllowed(issuedAt, now) THEN "stale"
    ELSE IF known THEN "replay"
    ELSE IF size < Capacity THEN "fresh" ELSE "capacity"

rememberSyncRequest(ledger, id, issuedAt) ==
    [i \in DOMAIN ledger \cup {id} |-> IF i = id THEN issuedAt ELSE ledger[i]]

syncResponseAllowed(now, lastResponse, hasChange, changeKnown, hasSnapshot, snapshotKnown) ==
    /\ now - lastResponse >= Interval
    /\ hasChange
    /\ changeKnown => hasSnapshot /\ ~snapshotKnown

-----------------------------------------------------------------------------
(* Answering                                                                *)

_observeSyncRequestClock == advanceSyncRequestClock(syncRequestClock, wall)

(* The ledger it leaves and whether the request is admitted.                *)
_syncRequestCanBeAdmitted(request, now) ==
    LET seen == pruneSyncRequestReplays(syncRequestsSeen, now)
    IN  [seen |-> seen,
         ok |-> classifySyncRequestReplay(request.issuedAt, now, request.requester \in DOMAIN seen,
                                          Cardinality(DOMAIN seen)) = "fresh"]

(* _handleSyncRequest up to the verification.                               *)
AnswerBegins(request) ==
    LET now == _observeSyncRequestClock
        admission == _syncRequestCanBeAdmitted(request, now)
        allowed == syncResponseAllowed(now, lastSyncResponseAt, root # 0, request.knownTip = root,
                                       snapshot # 0, FALSE)
    IN  /\ turn = Idle /\ isOpen
        /\ syncRequestClock' = now
        /\ syncRequestsSeen' = IF allowed THEN admission.seen ELSE syncRequestsSeen
        /\ turn' = IF allowed /\ admission.ok
                   THEN [stage |-> "verifying", request |-> request, root |-> root, snapshot |-> snapshot]
                   ELSE Idle
        /\ UNCHANGED <<wall, lastSyncResponseAt, isOpen, root, snapshot, members,
                       answered, answeredAt>>

(* The verification says no, or the local user is not a writer.             *)
AnswerRefused ==
    /\ turn.stage = "verifying"
    /\ turn' = Idle
    /\ UNCHANGED <<wall, syncRequestClock, syncRequestsSeen, lastSyncResponseAt,
                   isOpen, root, snapshot, members, answered, answeredAt>>

(* The requester is a current member and signed the request.                *)
_verifySyncRequest(request) == request.requester \in members

(* Everything timed is checked again after the awaits.                      *)
AnswerVerified ==
    LET request == turn.request
        now == _observeSyncRequestClock
        admission == _syncRequestCanBeAdmitted(request, now)
        allowed == syncResponseAllowed(now, lastSyncResponseAt, turn.root # 0,
                                       request.knownTip = turn.root, turn.snapshot # 0,
                                       request.knownSnapshot = turn.snapshot)
    IN  /\ turn.stage = "verifying"
        /\ _verifySyncRequest(request)
        /\ syncRequestClock' = now
        /\ IF admission.ok /\ allowed
           THEN /\ syncRequestsSeen' = rememberSyncRequest(admission.seen, request.requester, request.issuedAt)
                /\ lastSyncResponseAt' = now
                /\ turn' = [turn EXCEPT !.stage = "signing"]
           ELSE /\ syncRequestsSeen' = admission.seen
                /\ turn' = Idle
                /\ UNCHANGED lastSyncResponseAt
        /\ UNCHANGED <<wall, isOpen, root, snapshot, members, answered, answeredAt>>

isSyncRequestFresh(request, now) == syncRequestTimeAllowed(request.issuedAt, now)

(* The condition _publishSyncBytes checks before and after the encryption.  *)
NotAsked(request, now) == TRUE
IsCurrent(request, now) == isOpen /\ isSyncRequestFresh(request, now)

(* The response is signed; _publishSyncBytes asks whether it still counts.  *)
AnswerSigned ==
    LET now == _observeSyncRequestClock
    IN  /\ turn.stage = "signing"
        /\ syncRequestClock' = now
        /\ turn' = [turn EXCEPT !.stage = IF IsCurrent(turn.request, now) THEN "encrypting" ELSE "settling"]
        /\ UNCHANGED <<wall, syncRequestsSeen, lastSyncResponseAt, isOpen, root, snapshot,
                       members, answered, answeredAt>>

_publishSyncBytes ==
    LET now == _observeSyncRequestClock
        current == IsCurrent(turn.request, now)
    IN  /\ turn.stage = "encrypting"
        /\ syncRequestClock' = now
        /\ answered' = IF current THEN answered \cup {turn.request} ELSE answered
        /\ answeredAt' = IF current THEN now ELSE answeredAt
        /\ turn' = [turn EXCEPT !.stage = "settling"]
        /\ UNCHANGED <<wall, syncRequestsSeen, lastSyncResponseAt, isOpen, root, snapshot,
                       members>>

(* Signing, encryption or the topic fails.                                  *)
AnswerFails ==
    /\ turn.stage \in {"signing", "encrypting"}
    /\ turn' = [turn EXCEPT !.stage = "settling"]
    /\ UNCHANGED <<wall, syncRequestClock, syncRequestsSeen, lastSyncResponseAt,
                   isOpen, root, snapshot, members, answered, answeredAt>>

(* finally: the interval starts again when the publication has settled.     *)
AnswerSettles ==
    LET now == _observeSyncRequestClock
    IN  /\ turn.stage = "settling"
        /\ syncRequestClock' = now
        /\ lastSyncResponseAt' = now
        /\ turn' = Idle
        /\ UNCHANGED <<wall, syncRequestsSeen, isOpen, root, snapshot, members,
                       answered, answeredAt>>

(* The topic validator looks at the time and the signature only.            *)
topicValidator ==
    /\ turn = Idle /\ isOpen
    /\ syncRequestClock' = _observeSyncRequestClock
    /\ UNCHANGED <<wall, syncRequestsSeen, lastSyncResponseAt, isOpen, root, snapshot,
                   members, turn, answered, answeredAt>>

-----------------------------------------------------------------------------
(* The rest of the document, and the clock                                  *)

(* A change or a snapshot is applied, or membership changes, in a turn.     *)
StateChanges ==
    /\ turn = Idle
    /\ \/ root < MaxRoot /\ root' = root + 1 /\ UNCHANGED <<snapshot, members>>
       \/ snapshot < root /\ snapshot' = root /\ UNCHANGED <<root, members>>
       \/ \E r \in Requesters : members' = members \ {r} /\ members # members' /\ UNCHANGED <<root, snapshot>>
    /\ UNCHANGED <<wall, syncRequestClock, syncRequestsSeen, lastSyncResponseAt,
                   isOpen, turn, answered, answeredAt>>

(* Neither close() nor open() takes a turn for this.                        *)
CloseOrOpen ==
    /\ isOpen' = ~isOpen
    /\ UNCHANGED <<wall, syncRequestClock, syncRequestsSeen, lastSyncResponseAt,
                   root, snapshot, members, turn, answered, answeredAt>>

ClockMoves ==
    /\ wall' \in (0 .. MaxTime) \ {wall}
    /\ UNCHANGED <<syncRequestClock, syncRequestsSeen, lastSyncResponseAt,
                   isOpen, root, snapshot, members, turn, answered, answeredAt>>

SyncRequestInit ==
    /\ wall = 0 /\ syncRequestClock = 0 /\ syncRequestsSeen = << >>
    /\ lastSyncResponseAt = 0
    /\ isOpen = TRUE /\ root = 0 /\ snapshot = 0
    /\ members = Requesters
    /\ turn = Idle
    /\ answered = {} /\ answeredAt = 0

SyncRequestNext ==
    \/ \E request \in SyncRequest : AnswerBegins(request)
    \/ AnswerRefused
    \/ AnswerVerified
    \/ AnswerSigned
    \/ _publishSyncBytes
    \/ AnswerFails
    \/ AnswerSettles
    \/ topicValidator
    \/ StateChanges
    \/ CloseOrOpen
    \/ ClockMoves

SyncRequestSpec == SyncRequestInit /\ [][SyncRequestNext]_requestVars

-----------------------------------------------------------------------------
Publishes == answered' # answered \/ answeredAt' # answeredAt

(* The topic may replay a signed request for as long as it likes, the clock *)
(* may jump back and the ledger forgets: a request is published an answer   *)
(* at most once all the same (_handleSyncRequest).                          *)
AnsweredOnce == turn.stage \in {"signing", "encrypting"} => turn.request \notin answered

(* What is forgotten could not be admitted any more.                        *)
LedgerRemembers ==
    \A request \in answered :
        syncRequestTimeAllowed(request.issuedAt, syncRequestClock) =>
            request.requester \in DOMAIN syncRequestsSeen

(* Requests cannot make an instance answer more often than the interval,    *)
(* whatever the wall clock does and however long a publication takes.       *)
AnswersSpaced == [][Publishes => answeredAt' - answeredAt >= Interval]_requestVars

(* An answer leaves for a request that is still fresh, from a document that *)
(* is still open, although signing and encryption take their time.          *)
AnswersCurrent ==
    [][Publishes => isOpen /\ syncRequestTimeAllowed(turn.request.issuedAt, answeredAt')]_requestVars

(* What goes out is the change the request was admitted with, to a member.  *)
AnswersMembers ==
    turn.stage \in {"signing", "encrypting"} =>
        /\ turn.request.requester \in members
        /\ turn.root = root /\ turn.snapshot = snapshot

(* A sync request is answered at most once and only to a member, with the   *)
(* change it was admitted with, while it is fresh and the document open,    *)
(* and answers keep their interval, although the wall clock jumps, the      *)
(* topic replays and the ledger forgets (_handleSyncRequest).               *)
RequestsAccounted ==
    /\ [](LedgerRemembers /\ AnsweredOnce /\ AnswersMembers)
    /\ AnswersCurrent /\ AnswersSpaced
=============================================================================
