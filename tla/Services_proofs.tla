-------------------------- MODULE Services_proofs --------------------------
(***************************************************************************)
(* What the services around a document promise, for every number of        *)
(* members, peers, topics and connections and all limits: sync requests    *)
(* are answered once, in time and to members; an index follows the         *)
(* documents it tracks; the relay keeps its caps.                          *)
(*                                                                         *)
(* None of the properties is inductive.  RequestInv adds the exact time    *)
(* the ledger remembers of every answered request that is not expired, and *)
(* how the times of answers lie to each other and to the clock.  The       *)
(* registry of topics needs that no permanent topic is ever tracked; the   *)
(* gateway, what the tokens left to a session say of the bytes it carried. *)
(* An index needs to know, of every row and of the rows a rebuild will     *)
(* write, that it is current or that the last operation of its document,   *)
(* which is still to run, makes it so.                                     *)
(***************************************************************************)
EXTENDS SyncRequests, DocumentSession, IndexMaintenance, RelayServer, FiniteSetTheorems, TLAPS

-----------------------------------------------------------------------------
(* Sync requests                                                           *)

Answering == [stage : {"verifying", "signing", "encrypting", "settling"},
              request : SyncRequest, root : Nat, snapshot : Nat]

RequestShape ==
    /\ {wall, syncRequestClock, lastSyncResponseAt, root, snapshot, answeredAt} \subseteq Nat
    /\ isOpen \in BOOLEAN /\ members \subseteq Requesters
    /\ turn \in Answering \cup {Idle} /\ answered \subseteq SyncRequest
    /\ DOMAIN syncRequestsSeen \subseteq Requesters
    /\ syncRequestsSeen \in [DOMAIN syncRequestsSeen -> Nat]

\* The ledger has the time of every answered request, and of the one an answer
\* is made for, until that request is too old to be admitted again.
Remembered(request) ==
    syncRequestClock - request.issuedAt <= Lifetime =>
        /\ request.requester \in DOMAIN syncRequestsSeen
        /\ syncRequestsSeen[request.requester] = request.issuedAt
LedgerExact ==
    /\ \A request \in answered : Remembered(request)
    /\ turn.stage \in {"signing", "encrypting"} => Remembered(turn.request)

\* An answer being made began an interval after the last one went out; the next
\* one may begin an interval after this one has settled.
AnswerTimes ==
    /\ lastSyncResponseAt <= syncRequestClock /\ answeredAt <= syncRequestClock
    /\ turn.stage # "settling" => answeredAt <= lastSyncResponseAt
    /\ turn.stage \in {"signing", "encrypting"} => lastSyncResponseAt - answeredAt >= Interval

\* Nothing changes the document while a request is being answered.
TurnCurrent == turn \in Answering => turn.root = root /\ turn.snapshot = snapshot

RequestInv ==
    RequestShape /\ LedgerExact /\ AnswerTimes /\ TurnCurrent /\ AnsweredOnce /\ AnswersMembers

LEMMA RequestConsts ==
    {Lifetime, Skew, Interval, Capacity, MaxTime, MaxRoot} \subseteq Nat
BY SyncRequestAssumption

\* Idle is not the turn of a request, and every request has a time.
LEMMA RequestFacts ==
    /\ Idle \notin Answering /\ Idle.stage = "idle"
    /\ \A t \in Answering : /\ t.stage \in {"verifying", "signing", "encrypting", "settling"}
                            /\ t.request \in SyncRequest /\ t.root \in Nat /\ t.snapshot \in Nat
    /\ \A q \in SyncRequest : q.requester \in Requesters /\ q.issuedAt \in Nat
<1>1. Idle \notin Answering /\ Idle.stage = "idle"
  BY DEF Idle, Answering
<1>2. \A t \in Answering : /\ t.stage \in {"verifying", "signing", "encrypting", "settling"}
                           /\ t.request \in SyncRequest /\ t.root \in Nat /\ t.snapshot \in Nat
  BY DEF Answering
<1>3. \A q \in SyncRequest : q.requester \in Requesters /\ q.issuedAt \in Nat
  BY RequestConsts DEF SyncRequest
<1> QED
  BY <1>1, <1>2, <1>3

\* The clock an instance observes never runs backwards, whatever the wall does.
LEMMA ClockAdvances ==
    ASSUME RequestShape
    PROVE  _observeSyncRequestClock \in Nat /\ _observeSyncRequestClock >= syncRequestClock
BY DEF RequestShape, _observeSyncRequestClock, advanceSyncRequestClock

\* Pruning keeps exactly the entries that are not expired.
LEMMA PruningKeeps ==
    ASSUME NEW ledger, NEW now
    PROVE  LET kept == pruneSyncRequestReplays(ledger, now) IN
           /\ DOMAIN kept = {id \in DOMAIN ledger : ~syncRequestReplayExpired(ledger[id], now)}
           /\ \A id \in DOMAIN kept : kept[id] = ledger[id]
BY DEF pruneSyncRequestReplays, Restrict

\* What was exact of the ledger is exact of the pruned one, at a later time.
LEMMA PruningRemembers ==
    ASSUME RequestShape, NEW request \in SyncRequest, Remembered(request),
           NEW now \in Nat, now >= syncRequestClock, now - request.issuedAt <= Lifetime
    PROVE  LET kept == pruneSyncRequestReplays(syncRequestsSeen, now) IN
           /\ request.requester \in DOMAIN kept
           /\ kept[request.requester] = request.issuedAt
<1>1. request.issuedAt \in Nat /\ Lifetime \in Nat /\ syncRequestClock \in Nat
  BY RequestFacts, RequestConsts DEF RequestShape
<1>2. syncRequestClock - request.issuedAt <= Lifetime
  BY <1>1
<1>3. /\ request.requester \in DOMAIN syncRequestsSeen
      /\ syncRequestsSeen[request.requester] = request.issuedAt
  BY <1>2 DEF Remembered
<1>4. ~syncRequestReplayExpired(syncRequestsSeen[request.requester], now)
  BY <1>1, <1>3 DEF syncRequestReplayExpired
<1> QED
  BY <1>3, <1>4 DEF pruneSyncRequestReplays, Restrict

\* The pruned ledger has the shape of the ledger.
LEMMA PruningTyped ==
    ASSUME RequestShape, NEW now
    PROVE  LET kept == pruneSyncRequestReplays(syncRequestsSeen, now) IN
           DOMAIN kept \subseteq Requesters /\ kept \in [DOMAIN kept -> Nat]
BY DEF RequestShape, pruneSyncRequestReplays, Restrict

\* A step that leaves ledger, clock, answers and document alone, and ends the
\* turn or keeps its stage, keeps the invariant.
LEMMA TurnEnds ==
    ASSUME RequestInv, RequestShape',
           UNCHANGED <<syncRequestClock, syncRequestsSeen, lastSyncResponseAt, answered, answeredAt>>,
           turn' = Idle, turn.stage # "settling"
    PROVE  RequestInv'
<1>1. turn'.stage = "idle" /\ turn' \notin Answering
  BY RequestFacts
<1>2. LedgerExact'
  BY <1>1 DEF RequestInv, LedgerExact, Remembered
<1>3. AnswerTimes'
  BY <1>1 DEF RequestInv, AnswerTimes
<1> QED
  BY <1>1, <1>2, <1>3 DEF RequestInv, TurnCurrent, AnsweredOnce, AnswersMembers

\* A later clock, and the ledger as it was or pruned at that clock, keep what is
\* remembered of the same answers.
LEMMA LedgerAdvances ==
    ASSUME RequestInv, syncRequestClock' \in Nat, syncRequestClock' >= syncRequestClock,
           \/ syncRequestsSeen' = syncRequestsSeen
           \/ syncRequestsSeen' = pruneSyncRequestReplays(syncRequestsSeen, syncRequestClock'),
           NEW request \in SyncRequest, Remembered(request)
    PROVE  Remembered(request)'
<1> SUFFICES ASSUME syncRequestClock' - request.issuedAt <= Lifetime
             PROVE  /\ request.requester \in DOMAIN syncRequestsSeen'
                    /\ syncRequestsSeen'[request.requester] = request.issuedAt
  BY DEF Remembered
<1>1. CASE syncRequestsSeen' = syncRequestsSeen
  <2>1. syncRequestClock - request.issuedAt <= Lifetime
    BY RequestFacts, RequestConsts DEF RequestInv, RequestShape
  <2> QED
    BY <1>1, <2>1 DEF Remembered
<1>2. CASE syncRequestsSeen' = pruneSyncRequestReplays(syncRequestsSeen, syncRequestClock')
  BY <1>2, PruningRemembers DEF RequestInv
<1> QED
  BY <1>1, <1>2

LEMMA BeginsKeeps ==
    ASSUME RequestInv, NEW request \in SyncRequest, AnswerBegins(request)
    PROVE  RequestInv'
<1> USE RequestFacts
<1>1. /\ syncRequestClock' \in Nat /\ syncRequestClock' >= syncRequestClock
      /\ turn = Idle
      /\ \/ syncRequestsSeen' = syncRequestsSeen
         \/ syncRequestsSeen' = pruneSyncRequestReplays(syncRequestsSeen, syncRequestClock')
      /\ UNCHANGED <<wall, lastSyncResponseAt, isOpen, root, snapshot, members, answered, answeredAt>>
      /\ \/ turn' = Idle
         \/ turn' = [stage |-> "verifying", request |-> request, root |-> root, snapshot |-> snapshot]
  BY ClockAdvances DEF RequestInv, AnswerBegins, _syncRequestCanBeAdmitted
<1>2. turn' \in Answering \cup {Idle} /\ turn'.stage \in {"idle", "verifying"}
  BY <1>1 DEF RequestInv, RequestShape, Answering
<1>3. RequestShape'
  <2>1. DOMAIN syncRequestsSeen' \subseteq Requesters /\ syncRequestsSeen' \in [DOMAIN syncRequestsSeen' -> Nat]
    BY <1>1, PruningTyped DEF RequestInv, RequestShape
  <2> QED
    BY <1>1, <1>2, <2>1 DEF RequestInv, RequestShape
<1>4. LedgerExact'
  <2>1. \A q \in answered : Remembered(q)'
    BY <1>1, LedgerAdvances DEF RequestInv, RequestShape, LedgerExact
  <2> QED
    BY <1>1, <1>2, <2>1 DEF LedgerExact
<1>5. AnswerTimes'
  BY <1>1, <1>2 DEF RequestInv, RequestShape, AnswerTimes
<1>6. TurnCurrent'
  BY <1>1 DEF TurnCurrent
<1> QED
  BY <1>2, <1>3, <1>4, <1>5, <1>6 DEF RequestInv, AnsweredOnce, AnswersMembers

\* A request found fresh is timely and unknown.
LEMMA FreshIsAllowed ==
    ASSUME NEW issuedAt, NEW now, NEW known, NEW size,
           classifySyncRequestReplay(issuedAt, now, known, size) = "fresh"
    PROVE  syncRequestTimeAllowed(issuedAt, now) /\ ~known
BY DEF classifySyncRequestReplay

\* An admitted request was not answered: what would be remembered of it would
\* make it a replay, and what is too old to be remembered is stale.
LEMMA AdmittedIsNew ==
    ASSUME RequestInv, NEW request \in SyncRequest, NEW now \in Nat, now >= syncRequestClock,
           _syncRequestCanBeAdmitted(request, now).ok
    PROVE  /\ \A q \in answered : q.requester = request.requester => now - q.issuedAt > Lifetime
           /\ now - request.issuedAt <= Lifetime
           /\ request \notin answered
<1> DEFINE kept == pruneSyncRequestReplays(syncRequestsSeen, now)
<1>1. /\ syncRequestTimeAllowed(request.issuedAt, now)
      /\ request.requester \notin DOMAIN kept
  <2>1. classifySyncRequestReplay(request.issuedAt, now, request.requester \in DOMAIN kept,
                                  Cardinality(DOMAIN kept)) = "fresh"
    BY DEF _syncRequestCanBeAdmitted
  <2> QED
    BY <2>1, FreshIsAllowed
<1>2. now - request.issuedAt <= Lifetime
  BY <1>1, RequestFacts, RequestConsts DEF syncRequestTimeAllowed
<1>3. \A q \in answered : q.requester = request.requester => now - q.issuedAt > Lifetime
  <2> SUFFICES ASSUME NEW q \in answered, q.requester = request.requester,
                      ~(now - q.issuedAt > Lifetime)
               PROVE  FALSE
    OBVIOUS
  <2>1. q \in SyncRequest /\ Remembered(q)
    BY DEF RequestInv, RequestShape, LedgerExact
  <2>2. now - q.issuedAt <= Lifetime
    BY <2>1, RequestFacts, RequestConsts
  <2> QED
    BY <1>1, <2>1, <2>2, PruningRemembers DEF RequestInv
<1> QED
  BY <1>2, <1>3, RequestFacts, RequestConsts

LEMMA VerifiedKeeps ==
    ASSUME RequestInv, AnswerVerified
    PROVE  RequestInv'
<1> DEFINE request == turn.request
           now == _observeSyncRequestClock
           admission == _syncRequestCanBeAdmitted(request, now)
           allowed == syncResponseAllowed(now, lastSyncResponseAt, turn.root # 0,
                                          request.knownTip = turn.root, turn.snapshot # 0,
                                          request.knownSnapshot = turn.snapshot)
<1>1. /\ turn \in Answering /\ turn.stage = "verifying"
      /\ request \in SyncRequest /\ request.requester \in Requesters /\ request.issuedAt \in Nat
      /\ request.requester \in members
      /\ turn.root = root /\ turn.snapshot = snapshot
  BY RequestFacts DEF RequestInv, RequestShape, AnswerVerified, _verifySyncRequest, TurnCurrent
<1>2. /\ now \in Nat /\ now >= syncRequestClock /\ syncRequestClock' = now
      /\ UNCHANGED <<wall, isOpen, root, snapshot, members, answered, answeredAt>>
  BY ClockAdvances DEF RequestInv, AnswerVerified
<1>3. admission.seen = pruneSyncRequestReplays(syncRequestsSeen, now)
  BY DEF _syncRequestCanBeAdmitted
<1>4. CASE ~(admission.ok /\ allowed)
  <2>1. /\ syncRequestsSeen' = pruneSyncRequestReplays(syncRequestsSeen, syncRequestClock')
        /\ turn' = Idle /\ lastSyncResponseAt' = lastSyncResponseAt
    BY <1>2, <1>3, <1>4 DEF AnswerVerified
  <2>2. RequestShape'
    <3>1. DOMAIN syncRequestsSeen' \subseteq Requesters /\ syncRequestsSeen' \in [DOMAIN syncRequestsSeen' -> Nat]
      BY <2>1, PruningTyped DEF RequestInv
    <3> QED
      BY <1>2, <2>1, <3>1 DEF RequestInv, RequestShape
  <2>3. LedgerExact'
    <3>1. \A q \in answered : Remembered(q)'
      BY <1>2, <2>1, LedgerAdvances DEF RequestInv, RequestShape, LedgerExact
    <3> QED
      BY <1>2, <2>1, <3>1, RequestFacts DEF LedgerExact
  <2>4. AnswerTimes'
    BY <1>1, <1>2, <2>1, RequestFacts DEF RequestInv, RequestShape, AnswerTimes
  <2> QED
    BY <2>1, <2>2, <2>3, <2>4, RequestFacts DEF RequestInv, TurnCurrent, AnsweredOnce, AnswersMembers
<1>5. CASE admission.ok /\ allowed
  <2> DEFINE kept == pruneSyncRequestReplays(syncRequestsSeen, now)
  <2>1. /\ syncRequestsSeen' = rememberSyncRequest(kept, request.requester, request.issuedAt)
        /\ turn' = [turn EXCEPT !.stage = "signing"] /\ lastSyncResponseAt' = now
    BY <1>3, <1>5 DEF AnswerVerified
  <2>2. /\ turn' \in Answering /\ turn'.stage = "signing" /\ turn'.request = request
        /\ turn'.root = turn.root /\ turn'.snapshot = turn.snapshot
    BY <1>1, <2>1 DEF Answering
  <2>3. /\ DOMAIN syncRequestsSeen' = DOMAIN kept \cup {request.requester}
        /\ syncRequestsSeen'[request.requester] = request.issuedAt
        /\ \A r \in DOMAIN kept : r # request.requester => syncRequestsSeen'[r] = kept[r]
        /\ syncRequestsSeen' = [r \in DOMAIN syncRequestsSeen' |-> syncRequestsSeen'[r]]
    BY <2>1 DEF rememberSyncRequest
  <2>4. DOMAIN kept \subseteq Requesters /\ kept \in [DOMAIN kept -> Nat]
    BY PruningTyped DEF RequestInv
  <2>5. RequestShape'
    <3>1. DOMAIN syncRequestsSeen' \subseteq Requesters
      BY <1>1, <2>3, <2>4
    <3>2. \A r \in DOMAIN syncRequestsSeen' : syncRequestsSeen'[r] \in Nat
      BY <1>1, <2>3, <2>4
    <3>3. syncRequestsSeen' \in [DOMAIN syncRequestsSeen' -> Nat]
      BY <2>3, <3>2
    <3> QED
      BY <1>2, <2>1, <2>2, <3>1, <3>3 DEF RequestInv, RequestShape
  <2>6. /\ \A q \in answered : q.requester = request.requester => now - q.issuedAt > Lifetime
        /\ request \notin answered
    BY <1>1, <1>2, <1>5, AdmittedIsNew
  <2>7. LedgerExact'
    <3>1. ASSUME NEW q \in answered
          PROVE  Remembered(q)'
      <4> SUFFICES ASSUME now - q.issuedAt <= Lifetime
                   PROVE  /\ q.requester \in DOMAIN syncRequestsSeen'
                          /\ syncRequestsSeen'[q.requester] = q.issuedAt
        BY <1>2 DEF Remembered
      <4>1. q \in SyncRequest /\ Remembered(q) /\ q.issuedAt \in Nat
        BY RequestFacts DEF RequestInv, RequestShape, LedgerExact
      <4>2. q.requester # request.requester
        BY <1>2, <2>6, <4>1, RequestConsts
      <4>3. q.requester \in DOMAIN kept /\ kept[q.requester] = q.issuedAt
        BY <1>2, <4>1, PruningRemembers DEF RequestInv
      <4> QED
        BY <2>3, <4>2, <4>3
    <3>2. Remembered(turn.request)'
      BY <2>2, <2>3 DEF Remembered
    <3> QED
      BY <1>2, <3>1, <3>2 DEF LedgerExact
  <2>8. AnswerTimes'
    <3>1. now - lastSyncResponseAt >= Interval
      BY <1>5 DEF syncResponseAllowed
    <3>2. answeredAt <= lastSyncResponseAt /\ answeredAt \in Nat /\ lastSyncResponseAt \in Nat
      BY <1>1 DEF RequestInv, RequestShape, AnswerTimes
    <3>3. now - answeredAt >= Interval
      BY <1>2, <3>1, <3>2, RequestConsts
    <3> QED
      BY <1>2, <2>1, <2>2, <3>2, <3>3, RequestConsts DEF AnswerTimes
  <2> QED
    BY <1>1, <1>2, <2>2, <2>5, <2>6, <2>7, <2>8 DEF RequestInv, TurnCurrent, AnsweredOnce, AnswersMembers
<1> QED
  BY <1>4, <1>5

\* The later steps of an answer only move its stage on, with a later clock; an
\* answer goes out at most once, from the stage before the last.
LEMMA AnswerGoesOn ==
    ASSUME RequestInv, AnswerSigned \/ _publishSyncBytes \/ AnswerFails
    PROVE  /\ turn \in Answering /\ turn' \in Answering
           /\ turn'.request = turn.request /\ turn'.root = turn.root /\ turn'.snapshot = turn.snapshot
           /\ turn.stage \in {"signing", "encrypting"} /\ turn'.stage \in {"encrypting", "settling"}
           /\ syncRequestClock' \in Nat /\ syncRequestClock' >= syncRequestClock
           /\ UNCHANGED <<wall, syncRequestsSeen, lastSyncResponseAt, isOpen, root, snapshot, members>>
<1>1. turn \in Answering /\ turn.stage \in {"signing", "encrypting"}
  BY RequestFacts DEF RequestInv, RequestShape, AnswerSigned, _publishSyncBytes, AnswerFails
<1>2. turn' = [turn EXCEPT !.stage = "encrypting"] \/ turn' = [turn EXCEPT !.stage = "settling"]
  BY DEF AnswerSigned, _publishSyncBytes, AnswerFails
<1>3. /\ turn' \in Answering /\ turn'.stage \in {"encrypting", "settling"}
      /\ turn'.request = turn.request /\ turn'.root = turn.root /\ turn'.snapshot = turn.snapshot
  BY <1>1, <1>2 DEF Answering
<1>4. syncRequestClock' \in Nat /\ syncRequestClock' >= syncRequestClock
  BY ClockAdvances DEF RequestInv, RequestShape, AnswerSigned, _publishSyncBytes, AnswerFails
<1>5. UNCHANGED <<wall, syncRequestsSeen, lastSyncResponseAt, isOpen, root, snapshot, members>>
  BY DEF AnswerSigned, _publishSyncBytes, AnswerFails
<1> QED
  BY <1>1, <1>3, <1>4, <1>5

LEMMA GoingOnKeeps ==
    ASSUME RequestInv, AnswerSigned \/ _publishSyncBytes \/ AnswerFails
    PROVE  RequestInv'
<1>1. /\ turn \in Answering /\ turn' \in Answering
      /\ turn'.request = turn.request /\ turn'.root = turn.root /\ turn'.snapshot = turn.snapshot
      /\ turn.stage \in {"signing", "encrypting"} /\ turn'.stage \in {"encrypting", "settling"}
      /\ syncRequestClock' \in Nat /\ syncRequestClock' >= syncRequestClock
      /\ UNCHANGED <<wall, syncRequestsSeen, lastSyncResponseAt, isOpen, root, snapshot, members>>
  BY AnswerGoesOn
<1>2. \/ answered' = answered /\ answeredAt' = answeredAt
      \/ /\ turn'.stage = "settling"
         /\ answered' = answered \cup {turn.request} /\ answeredAt' = syncRequestClock'
  <2>1. CASE AnswerSigned \/ AnswerFails
    BY <2>1 DEF AnswerSigned, AnswerFails
  <2>2. CASE _publishSyncBytes
    <3>1. turn'.stage = "settling"
      BY <1>1, <2>2 DEF _publishSyncBytes, Answering
    <3> QED
      BY <2>2, <3>1 DEF _publishSyncBytes
  <2> QED
    BY <2>1, <2>2
<1>3. turn.request \in SyncRequest
  BY <1>1, RequestFacts
<1>4. RequestShape'
  <2>1. answered' \subseteq SyncRequest /\ answeredAt' \in Nat
    BY <1>1, <1>2, <1>3 DEF RequestInv, RequestShape
  <2> QED
    BY <1>1, <2>1 DEF RequestInv, RequestShape
<1>5. LedgerExact'
  <2>1. \A q \in answered \cup {turn.request} : Remembered(q)'
    <3>1. \A q \in answered \cup {turn.request} : q \in SyncRequest /\ Remembered(q)
      BY <1>1, <1>3 DEF RequestInv, RequestShape, LedgerExact
    <3> QED
      BY <1>1, <3>1, LedgerAdvances
  <2> QED
    BY <1>1, <1>2, <2>1 DEF LedgerExact, Remembered
<1>6. AnswerTimes'
  BY <1>1, <1>2, RequestConsts DEF RequestInv, RequestShape, AnswerTimes
<1>7. AnsweredOnce' /\ AnswersMembers' /\ TurnCurrent'
  BY <1>1, <1>2 DEF RequestInv, AnsweredOnce, AnswersMembers, TurnCurrent
<1> QED
  BY <1>4, <1>5, <1>6, <1>7 DEF RequestInv

LEMMA SettlesKeeps ==
    ASSUME RequestInv, AnswerSettles
    PROVE  RequestInv'
<1>1. /\ turn' = Idle /\ turn'.stage = "idle" /\ turn' \notin Answering
      /\ syncRequestClock' \in Nat /\ syncRequestClock' >= syncRequestClock
      /\ lastSyncResponseAt' = syncRequestClock'
      /\ UNCHANGED <<wall, syncRequestsSeen, isOpen, root, snapshot, members, answered, answeredAt>>
  BY ClockAdvances, RequestFacts DEF RequestInv, AnswerSettles
<1>2. RequestShape'
  BY <1>1 DEF RequestInv, RequestShape
<1>3. LedgerExact'
  <2>1. \A q \in answered : Remembered(q)'
    BY <1>1, LedgerAdvances DEF RequestInv, RequestShape, LedgerExact
  <2> QED
    BY <1>1, <2>1 DEF LedgerExact
<1>4. AnswerTimes'
  BY <1>1 DEF RequestInv, RequestShape, AnswerTimes
<1> QED
  BY <1>1, <1>2, <1>3, <1>4 DEF RequestInv, TurnCurrent, AnsweredOnce, AnswersMembers

\* What else happens leaves answers and ledger alone; the document changes only
\* between turns.
LEMMA OthersKeep ==
    ASSUME RequestInv,
           AnswerRefused \/ topicValidator \/ StateChanges \/ CloseOrOpen \/ ClockMoves
    PROVE  RequestInv'
<1>1. /\ syncRequestClock' \in Nat /\ syncRequestClock' >= syncRequestClock
      /\ UNCHANGED <<syncRequestsSeen, lastSyncResponseAt, answered, answeredAt>>
  BY ClockAdvances
     DEF RequestInv, RequestShape, AnswerRefused, topicValidator, StateChanges, CloseOrOpen, ClockMoves
<1>2. \/ turn' = turn /\ UNCHANGED <<root, snapshot, members>>
      \/ turn' = Idle /\ turn.stage \in {"idle", "verifying"}
  BY RequestFacts DEF AnswerRefused, topicValidator, StateChanges, CloseOrOpen, ClockMoves
<1>3. RequestShape'
  <2>1. wall' \in Nat
    BY RequestConsts
       DEF RequestInv, RequestShape, AnswerRefused, topicValidator, StateChanges, CloseOrOpen, ClockMoves
  <2>2. isOpen' \in BOOLEAN
    BY DEF RequestInv, RequestShape, AnswerRefused, topicValidator, StateChanges, CloseOrOpen, ClockMoves
  <2>3. root' \in Nat /\ snapshot' \in Nat /\ members' \subseteq Requesters
    BY DEF RequestInv, RequestShape, AnswerRefused, topicValidator, StateChanges, CloseOrOpen, ClockMoves
  <2> QED
    BY <1>1, <1>2, <2>1, <2>2, <2>3 DEF RequestInv, RequestShape
<1>4. LedgerExact'
  <2>1. ASSUME NEW q \in SyncRequest, Remembered(q)
        PROVE  Remembered(q)'
    BY <1>1, <2>1, LedgerAdvances
  <2>2. \A q \in answered : Remembered(q)'
    BY <2>1 DEF RequestInv, RequestShape, LedgerExact
  <2>3. turn' = turn /\ turn.stage \in {"signing", "encrypting"} => Remembered(turn.request)'
    BY <2>1, RequestFacts DEF RequestInv, RequestShape, LedgerExact, Remembered
  <2> QED
    BY <1>1, <1>2, <2>2, <2>3, RequestFacts DEF LedgerExact, Remembered
<1>5. AnswerTimes'
  BY <1>1, <1>2, RequestFacts DEF RequestInv, RequestShape, AnswerTimes
<1>6. AnsweredOnce' /\ AnswersMembers' /\ TurnCurrent'
  BY <1>1, <1>2, RequestFacts DEF RequestInv, AnsweredOnce, AnswersMembers, TurnCurrent
<1> QED
  BY <1>3, <1>4, <1>5, <1>6 DEF RequestInv

LEMMA RequestInvInit == SyncRequestInit => RequestInv
<1> SUFFICES ASSUME SyncRequestInit PROVE RequestInv
  OBVIOUS
<1>1. DOMAIN syncRequestsSeen = {} /\ syncRequestsSeen \in [DOMAIN syncRequestsSeen -> Nat]
  BY DEF SyncRequestInit
<1>2. turn = Idle /\ turn.stage = "idle" /\ turn \notin Answering
  BY RequestFacts DEF SyncRequestInit
<1> QED
  BY <1>1, <1>2 DEF SyncRequestInit, RequestInv, RequestShape, LedgerExact, AnswerTimes, TurnCurrent,
                    AnsweredOnce, AnswersMembers

LEMMA RequestInvStep == RequestInv /\ [SyncRequestNext]_requestVars => RequestInv'
<1> SUFFICES ASSUME RequestInv, [SyncRequestNext]_requestVars PROVE RequestInv'
  OBVIOUS
<1>1. ASSUME NEW request \in SyncRequest, AnswerBegins(request) PROVE RequestInv'
  BY <1>1, BeginsKeeps
<1>2. CASE AnswerVerified
  BY <1>2, VerifiedKeeps
<1>3. CASE AnswerSigned \/ _publishSyncBytes \/ AnswerFails
  BY <1>3, GoingOnKeeps
<1>4. CASE AnswerSettles
  BY <1>4, SettlesKeeps
<1>5. CASE AnswerRefused \/ topicValidator \/ StateChanges \/ CloseOrOpen \/ ClockMoves
  BY <1>5, OthersKeep
<1>6. CASE UNCHANGED requestVars
  BY <1>6 DEF requestVars, RequestInv, RequestShape, LedgerExact, Remembered, AnswerTimes, TurnCurrent,
              AnsweredOnce, AnswersMembers
<1> QED
  BY <1>1, <1>2, <1>3, <1>4, <1>5, <1>6 DEF SyncRequestNext

\* What the ledger does not remember is stale.
LEMMA RequestInvSafe == RequestInv => LedgerRemembers /\ AnsweredOnce /\ AnswersMembers
<1> SUFFICES ASSUME RequestInv PROVE LedgerRemembers
  BY DEF RequestInv
<1> SUFFICES ASSUME NEW request \in answered,
                    syncRequestTimeAllowed(request.issuedAt, syncRequestClock)
             PROVE  request.requester \in DOMAIN syncRequestsSeen
  BY DEF LedgerRemembers
<1>1. request.issuedAt \in Nat /\ syncRequestClock \in Nat /\ Remembered(request)
  BY RequestFacts DEF RequestInv, RequestShape, LedgerExact
<1> QED
  BY <1>1, RequestConsts DEF syncRequestTimeAllowed, Remembered

\* An answer goes out only from _publishSyncBytes, which asks once more.
LEMMA RequestStepSafe ==
    ASSUME RequestInv, [SyncRequestNext]_requestVars, Publishes
    PROVE  /\ answeredAt' - answeredAt >= Interval
           /\ isOpen /\ syncRequestTimeAllowed(turn.request.issuedAt, answeredAt')
<1>1. _publishSyncBytes
  BY DEF Publishes, SyncRequestNext, requestVars, AnswerBegins, AnswerRefused, AnswerVerified, AnswerSigned,
         AnswerFails, AnswerSettles, topicValidator, StateChanges, CloseOrOpen, ClockMoves
<1>2. /\ IsCurrent(turn.request, _observeSyncRequestClock)
      /\ answeredAt' = _observeSyncRequestClock
  BY <1>1 DEF Publishes, _publishSyncBytes
<1>3. lastSyncResponseAt - answeredAt >= Interval /\ lastSyncResponseAt <= syncRequestClock
  BY <1>1 DEF RequestInv, AnswerTimes, _publishSyncBytes
<1>4. /\ answeredAt \in Nat /\ lastSyncResponseAt \in Nat /\ syncRequestClock \in Nat
      /\ answeredAt' \in Nat /\ answeredAt' >= syncRequestClock
  BY <1>2, ClockAdvances DEF RequestInv, RequestShape
<1> QED
  BY <1>2, <1>3, <1>4, RequestConsts DEF IsCurrent, isSyncRequestFresh

\* The inductive invariant of the sync requests.
THEOREM RequestInvariant == SyncRequestSpec => []RequestInv
BY RequestInvInit, RequestInvStep, PTL DEF SyncRequestSpec

\* Whatever is replayed and however the clock jumps, a request is answered once,
\* to a member, with the change it was admitted with, in time, and answers keep
\* their interval (_handleSyncRequest, _publishSyncBytes).
THEOREM RequestsAreAccounted == SyncRequestSpec => RequestsAccounted
<1>1. RequestInv => LedgerRemembers /\ AnsweredOnce /\ AnswersMembers
  BY RequestInvSafe
<1>2. RequestInv /\ [SyncRequestNext]_requestVars =>
        [Publishes => isOpen /\ syncRequestTimeAllowed(turn.request.issuedAt, answeredAt')]_requestVars
  BY RequestStepSafe
<1>3. RequestInv /\ [SyncRequestNext]_requestVars =>
        [Publishes => answeredAt' - answeredAt >= Interval]_requestVars
  BY RequestStepSafe
<1> QED
  BY <1>1, <1>2, <1>3, RequestInvariant, PTL
     DEF SyncRequestSpec, RequestsAccounted, AnswersCurrent, AnswersSpaced

-----------------------------------------------------------------------------
(* The topic registry of the relay                                         *)

RelayShape ==
    /\ remote \in [RelayPeers -> SUBSET RelayTopicNames]
    /\ DOMAIN topicPeers \subseteq RelayTopicNames /\ DOMAIN peerTopics \subseteq RelayPeers
    /\ \A t \in DOMAIN topicPeers : topicPeers[t] \subseteq RelayPeers
    /\ \A p \in DOMAIN peerTopics : peerTopics[p] \subseteq RelayTopicNames
    /\ IsFiniteSet(DOMAIN topicPeers) /\ \A p \in RelayPeers : IsFiniteSet(TopicsOf(p))

\* No permanent topic is tracked, so that giving up what is tracked never ends a
\* subscription the operator configured.
PermanentUntracked == DOMAIN topicPeers \cap PermanentTopics = {}

RelayInv == RelayShape /\ PermanentUntracked /\ IndexesInverse /\ WithinCaps

TopicsIn(causes) == {pt[2] : pt \in causes}

LEMMA RelayConsts ==
    /\ maxAutoTopics \in Nat /\ maxAutoTopicsPerPeer \in Nat
    /\ DynamicTopics \cap PermanentTopics = {}
BY RelayAssumption

\* One more element than a set below a bound stays within it.
LEMMA OneMore ==
    ASSUME NEW S, IsFiniteSet(S), NEW x, NEW T \in SUBSET (S \cup {x}), NEW n \in Nat,
           Cardinality(S) <= n, x \in T /\ x \notin S => Cardinality(S) < n
    PROVE  IsFiniteSet(T) /\ Cardinality(T) <= n
<1>1. /\ IsFiniteSet(S \cup {x}) /\ Cardinality(S) \in Nat
      /\ Cardinality(S \cup {x}) = IF x \in S THEN Cardinality(S) ELSE Cardinality(S) + 1
  BY FS_AddElement, FS_CardinalityType
<1>2. IsFiniteSet(T)
  BY <1>1, FS_Subset
<1>3. CASE x \in T
  <2>1. Cardinality(T) <= Cardinality(S \cup {x}) /\ Cardinality(T) \in Nat
    BY <1>1, <1>2, FS_Subset, FS_CardinalityType
  <2> QED
    BY <1>1, <1>2, <1>3, <2>1
<1>4. CASE x \notin T
  <2>1. T \subseteq S
    BY <1>4
  <2>2. Cardinality(T) <= Cardinality(S) /\ Cardinality(T) \in Nat
    BY <1>2, <2>1, FS_Subset, FS_CardinalityType
  <2> QED
    BY <1>1, <1>2, <2>2
<1> QED
  BY <1>2, <1>3, <1>4

\* The causes tell who tracks what in both indexes.
LEMMA CausesTell ==
    ASSUME RelayInv
    PROVE  /\ Causes \subseteq RelayPeers \X RelayTopicNames
           /\ DOMAIN topicPeers = TopicsIn(Causes)
           /\ \A p \in RelayPeers : TopicsOf(p) = {t \in RelayTopicNames : <<p, t>> \in Causes}
           /\ \A t \in DOMAIN topicPeers : topicPeers[t] = {p \in RelayPeers : <<p, t>> \in Causes}
<1>1. Causes \subseteq RelayPeers \X RelayTopicNames
  BY DEF Causes
<1>2. ASSUME NEW t \in DOMAIN topicPeers
      PROVE  topicPeers[t] = {p \in RelayPeers : <<p, t>> \in Causes} /\ t \in TopicsIn(Causes)
  <2>1. t \in RelayTopicNames /\ topicPeers[t] \subseteq RelayPeers /\ topicPeers[t] # {}
    BY DEF RelayInv, RelayShape, IndexesInverse
  <2>2. \A p \in RelayPeers : <<p, t>> \in Causes <=> p \in topicPeers[t]
    BY <2>1 DEF Causes
  <2>3. PICK p \in topicPeers[t] : TRUE
    BY <2>1
  <2>4. <<p, t>> \in Causes /\ <<p, t>>[2] = t
    BY <2>1, <2>2
  <2> QED
    BY <2>1, <2>2, <2>4 DEF TopicsIn
<1>3. TopicsIn(Causes) \subseteq DOMAIN topicPeers
  BY DEF TopicsIn, Causes
<1>4. \A p \in RelayPeers : TopicsOf(p) = {t \in RelayTopicNames : <<p, t>> \in Causes}
  BY DEF RelayInv, RelayShape, IndexesInverse, TopicsOf
<1> QED
  BY <1>1, <1>2, <1>3, <1>4

\* Whatever is added and removed, both indexes show the causes that are left,
\* and the relay is subscribed to its permanent topics and to those they name.
LEMMA TrackKeeps ==
    ASSUME RelayInv, NEW removed, NEW gained \in SUBSET (RelayPeers \X RelayTopicNames),
           Track(removed, gained), TopicsIn(gained) \cap PermanentTopics = {}
    PROVE  LET causes == (Causes \ removed) \cup gained IN
           /\ DOMAIN topicPeers' = TopicsIn(causes)
           /\ \A p \in RelayPeers : TopicsOf(p)' = {t \in RelayTopicNames : <<p, t>> \in causes}
           /\ \A t \in DOMAIN topicPeers' : topicPeers'[t] \subseteq RelayPeers
           /\ DOMAIN peerTopics' \subseteq RelayPeers
           /\ \A p \in DOMAIN peerTopics' : peerTopics'[p] \subseteq RelayTopicNames
           /\ DOMAIN topicPeers' \subseteq RelayTopicNames
           /\ PermanentUntracked' /\ IndexesInverse'
<1> DEFINE causes == (Causes \ removed) \cup gained
           left(p) == (TopicsOf(p) \ {t \in RelayTopicNames : <<p, t>> \in removed})
                        \cup {t \in RelayTopicNames : <<p, t>> \in gained}
<1>1. causes \subseteq RelayPeers \X RelayTopicNames
  BY CausesTell
<1>2. /\ topicPeers' = [t \in {t \in RelayTopicNames : PeersOf(t, causes) # {}} |-> PeersOf(t, causes)]
      /\ peerTopics' = [p \in {p \in RelayPeers : left(p) # {}} |-> left(p)]
      /\ forwarded' = (forwarded \ (DOMAIN topicPeers \ TopicsIn(causes)))
                         \cup (TopicsIn(causes) \ DOMAIN topicPeers)
  BY DEF Track, SetTopicPeers, SetPeerTopics, Forward, TopicsIn
<1>3. \A p \in RelayPeers : left(p) = {t \in RelayTopicNames : <<p, t>> \in causes}
  BY CausesTell
<1>4. DOMAIN topicPeers' = TopicsIn(causes)
  <2>1. \A t \in RelayTopicNames : PeersOf(t, causes) # {} <=> t \in TopicsIn(causes)
    <3>1. ASSUME NEW t \in RelayTopicNames, NEW p \in PeersOf(t, causes) PROVE t \in TopicsIn(causes)
      <4>1. <<p, t>> \in causes /\ <<p, t>>[2] = t
        BY <3>1 DEF PeersOf
      <4> QED
        BY <4>1 DEF TopicsIn
    <3>2. ASSUME NEW t \in TopicsIn(causes) PROVE PeersOf(t, causes) # {}
      <4>1. PICK pt \in causes : pt[2] = t
        BY <3>2 DEF TopicsIn
      <4>2. pt = <<pt[1], t>> /\ pt[1] \in RelayPeers
        BY <1>1, <4>1
      <4> QED
        BY <4>1, <4>2 DEF PeersOf
    <3> QED
      BY <3>1, <3>2
  <2>2. TopicsIn(causes) \subseteq RelayTopicNames
    BY <1>1 DEF TopicsIn
  <2> QED
    BY <1>2, <2>1, <2>2
<1>5. \A p \in RelayPeers : TopicsOf(p)' = {t \in RelayTopicNames : <<p, t>> \in causes}
  BY <1>2, <1>3 DEF TopicsOf
<1>6. /\ \A t \in DOMAIN topicPeers' : topicPeers'[t] = PeersOf(t, causes) /\ topicPeers'[t] # {}
      /\ \A p \in DOMAIN peerTopics' : peerTopics'[p] = left(p) /\ peerTopics'[p] # {} /\ p \in RelayPeers
      /\ DOMAIN topicPeers' \subseteq RelayTopicNames
  BY <1>2
<1>7. /\ \A t \in DOMAIN topicPeers' : topicPeers'[t] \subseteq RelayPeers
      /\ DOMAIN peerTopics' \subseteq RelayPeers
      /\ \A p \in DOMAIN peerTopics' : peerTopics'[p] \subseteq RelayTopicNames
  BY <1>3, <1>6 DEF PeersOf
<1>8. PermanentUntracked'
  <2>1. TopicsIn(causes) \subseteq TopicsIn(Causes) \cup TopicsIn(gained)
    BY DEF TopicsIn
  <2> QED
    BY <1>4, <2>1, CausesTell DEF RelayInv, PermanentUntracked
<1>9. IndexesInverse'
  <2>1. \A p \in RelayPeers, t \in RelayTopicNames : (<<p, t>> \in Causes') <=> <<p, t>> \in causes
    <3> SUFFICES ASSUME NEW p \in RelayPeers, NEW t \in RelayTopicNames
                 PROVE  (<<p, t>> \in Causes') <=> <<p, t>> \in causes
      OBVIOUS
    <3>1. (<<p, t>> \in Causes') <=> t \in DOMAIN topicPeers' /\ p \in topicPeers'[t]
      BY DEF Causes
    <3> QED
      BY <1>2, <3>1 DEF PeersOf
  <2>2. forwarded' = PermanentTopics \cup DOMAIN topicPeers'
    BY <1>2, <1>4, <1>8 DEF RelayInv, IndexesInverse, PermanentUntracked
  <2> QED
    BY <1>5, <1>6, <2>1, <2>2 DEF IndexesInverse
<1> QED
  BY <1>4, <1>5, <1>6, <1>7, <1>8, <1>9

\* A step of the registry that stays within the caps keeps the invariant.
LEMMA TrackWithin ==
    ASSUME RelayInv, NEW removed, NEW gained \in SUBSET (RelayPeers \X RelayTopicNames),
           Track(removed, gained), TopicsIn(gained) \cap PermanentTopics = {},
           remote' \in [RelayPeers -> SUBSET RelayTopicNames],
           NEW t, TopicsIn(gained) \subseteq {t},
           t \in TopicsIn(gained) => t \in DOMAIN topicPeers \/ Cardinality(DOMAIN topicPeers) < maxAutoTopics,
           \A p \in RelayPeers : <<p, t>> \in gained => t \in TopicsOf(p) \/ PeerHasCapacity(p)
    PROVE  RelayInv'
<1> DEFINE causes == (Causes \ removed) \cup gained
<1>1. /\ DOMAIN topicPeers' = TopicsIn(causes)
      /\ \A p \in RelayPeers : TopicsOf(p)' = {u \in RelayTopicNames : <<p, u>> \in causes}
      /\ \A u \in DOMAIN topicPeers' : topicPeers'[u] \subseteq RelayPeers
      /\ DOMAIN peerTopics' \subseteq RelayPeers
      /\ \A p \in DOMAIN peerTopics' : peerTopics'[p] \subseteq RelayTopicNames
      /\ DOMAIN topicPeers' \subseteq RelayTopicNames
      /\ PermanentUntracked' /\ IndexesInverse'
  BY TrackKeeps
<1>2. IsFiniteSet(DOMAIN topicPeers') /\ Cardinality(DOMAIN topicPeers') <= maxAutoTopics
  <2>1. DOMAIN topicPeers' \subseteq DOMAIN topicPeers \cup {t}
    BY <1>1, CausesTell DEF TopicsIn
  <2>2. t \in DOMAIN topicPeers' /\ t \notin DOMAIN topicPeers => t \in TopicsIn(gained)
    BY <1>1, CausesTell DEF TopicsIn
  <2> QED
    BY <2>1, <2>2, OneMore, RelayConsts DEF RelayInv, RelayShape, WithinCaps
<1>3. ASSUME NEW p \in RelayPeers
      PROVE  IsFiniteSet(TopicsOf(p)') /\ Cardinality(TopicsOf(p)') <= maxAutoTopicsPerPeer
  <2>1. \A u : <<p, u>> \in gained => u = t
    <3> SUFFICES ASSUME NEW u, <<p, u>> \in gained PROVE u = t
      OBVIOUS
    <3>1. <<p, u>>[2] = u
      OBVIOUS
    <3> QED
      BY <3>1 DEF TopicsIn
  <2>2. TopicsOf(p)' \subseteq TopicsOf(p) \cup {t}
    BY <1>1, <2>1, CausesTell
  <2>3. t \in TopicsOf(p)' /\ t \notin TopicsOf(p) => Cardinality(TopicsOf(p)) < maxAutoTopicsPerPeer
    BY <1>1, CausesTell DEF PeerHasCapacity
  <2>4. IsFiniteSet(TopicsOf(p)) /\ Cardinality(TopicsOf(p)) <= maxAutoTopicsPerPeer
    BY DEF RelayInv, RelayShape, WithinCaps
  <2> HIDE DEF causes
  <2> DEFINE S == TopicsOf(p)
             T == TopicsOf(p)'
  <2>5. /\ IsFiniteSet(S) /\ Cardinality(S) <= maxAutoTopicsPerPeer /\ T \in SUBSET (S \cup {t})
        /\ t \in T /\ t \notin S => Cardinality(S) < maxAutoTopicsPerPeer
    BY <2>2, <2>3, <2>4
  <2> HIDE DEF S, T
  <2>6. IsFiniteSet(T) /\ Cardinality(T) <= maxAutoTopicsPerPeer
    BY <2>5, OneMore, RelayConsts
  <2> QED
    BY <2>6 DEF T
<1> QED
  BY <1>1, <1>2, <1>3 DEF RelayInv, RelayShape, WithinCaps

\* The empty set of causes names no topic.
LEMMA NothingAdded == TopicsIn({}) = {}
BY DEF TopicsIn

LEMMA RemoteChangeKeeps ==
    ASSUME RelayInv, NEW p \in RelayPeers, NEW t \in RelayTopicNames, NEW subscribe \in BOOLEAN,
           RemoteChange(p, t, subscribe)
    PROVE  RelayInv'
<1>1. remote' \in [RelayPeers -> SUBSET RelayTopicNames]
  BY DEF RelayInv, RelayShape, RemoteChange, PeerChanges
<1>2. CASE subscribe /\ Admits(p, t)
  <2>1. Track({}, {<<p, t>>})
    BY <1>2 DEF RemoteChange, subscriptionChanged
  <2>2. TopicsIn({<<p, t>>}) = {t}
    BY DEF TopicsIn
  <2>3. t \notin PermanentTopics
    BY <1>2 DEF Admits, shouldAutoSubscribe, RelayInv, PermanentUntracked
  <2>4. t \in DOMAIN topicPeers \/ Cardinality(DOMAIN topicPeers) < maxAutoTopics
    BY <1>2 DEF Admits, shouldAutoSubscribe
  <2>5. \A q \in RelayPeers : <<q, t>> \in {<<p, t>>} => PeerHasCapacity(q)
    BY <1>2 DEF Admits
  <2>6. {<<p, t>>} \in SUBSET (RelayPeers \X RelayTopicNames)
    OBVIOUS
  <2> QED
    <3>1. /\ TopicsIn({<<p, t>>}) \cap PermanentTopics = {} /\ TopicsIn({<<p, t>>}) \subseteq {t}
          /\ \A q \in RelayPeers : <<q, t>> \in {<<p, t>>} => t \in TopicsOf(q) \/ PeerHasCapacity(q)
      BY <2>2, <2>3, <2>5
    <3> HIDE DEF RemoteChange
    <3> QED
      BY <1>1, <2>1, <2>4, <2>6, <3>1, TrackWithin
<1>3. CASE ~(subscribe /\ Admits(p, t))
  <2>1. PICK removed : Track(removed, {})
    BY <1>3 DEF RemoteChange, subscriptionChanged
  <2> QED
    BY <1>1, <2>1, NothingAdded, TrackWithin
<1> QED
  BY <1>2, <1>3

\* GossipSub's own view has no part in the invariant.
LEMMA MissedChangeKeeps ==
    ASSUME RelayInv, NEW p \in RelayPeers, NEW t \in RelayTopicNames, NEW subscribe \in BOOLEAN,
           MissedChange(p, t, subscribe)
    PROVE  RelayInv'
<1>1. remote' \in [RelayPeers -> SUBSET RelayTopicNames]
  BY DEF RelayInv, RelayShape, MissedChange, PeerChanges
<1> QED
  BY <1>1 DEF MissedChange, RelayInv, RelayShape, PermanentUntracked, IndexesInverse, WithinCaps, TopicsOf, Causes

LEMMA DisconnectKeeps ==
    ASSUME RelayInv, NEW p \in RelayPeers, peerDisconnected(p)
    PROVE  RelayInv'
<1>1. remote' \in [RelayPeers -> SUBSET RelayTopicNames]
  BY DEF RelayInv, RelayShape, peerDisconnected
<1>2. Track({p} \X TopicsOf(p), {})
  BY DEF peerDisconnected
<1> QED
  BY <1>1, <1>2, NothingAdded, TrackWithin

LEMMA ReconcileKeeps ==
    ASSUME RelayInv, NEW t \in RelayTopicNames, reconcileTopic(t)
    PROVE  RelayInv'
<1> DEFINE gained == ReconciledPeers(t) \X {t}
<1>1. /\ t \in DOMAIN topicPeers /\ Track(topicPeers[t] \X {t}, gained)
      /\ remote' \in [RelayPeers -> SUBSET RelayTopicNames]
  BY DEF RelayInv, RelayShape, reconcileTopic
<1>2. gained \in SUBSET (RelayPeers \X RelayTopicNames) /\ TopicsIn(gained) \subseteq {t}
  BY DEF ReconciledPeers, TopicsIn
<1>3. t \notin PermanentTopics
  BY <1>1 DEF RelayInv, PermanentUntracked
<1>4. \A p \in RelayPeers : <<p, t>> \in gained => t \in TopicsOf(p) \/ PeerHasCapacity(p)
  BY <1>1, CausesTell DEF ReconciledPeers
<1> HIDE DEF gained
<1> QED
  BY <1>1, <1>2, <1>3, <1>4, TrackWithin

LEMMA RelayInvInit == RelayInit => RelayInv
<1> SUFFICES ASSUME RelayInit PROVE RelayInv
  OBVIOUS
<1>1. DOMAIN topicPeers = {} /\ DOMAIN peerTopics = {} /\ \A p \in RelayPeers : TopicsOf(p) = {}
  BY DEF RelayInit, TopicsOf
<1>2. IsFiniteSet({}) /\ Cardinality({}) = 0
  BY FS_EmptySet
<1>3. remote \in [RelayPeers -> SUBSET RelayTopicNames] /\ forwarded = PermanentTopics
  BY DEF RelayInit
<1>4. RelayShape /\ PermanentUntracked
  BY <1>1, <1>2, <1>3 DEF RelayShape, PermanentUntracked
<1>5. IndexesInverse
  BY <1>1, <1>3 DEF IndexesInverse, Causes
<1>6. WithinCaps
  BY <1>1, <1>2, RelayConsts DEF WithinCaps
<1> QED
  BY <1>4, <1>5, <1>6 DEF RelayInv

LEMMA RelayInvStep == RelayInv /\ [RelayNext]_relayVars => RelayInv'
<1> SUFFICES ASSUME RelayInv, [RelayNext]_relayVars PROVE RelayInv'
  OBVIOUS
<1>1. ASSUME NEW p \in RelayPeers, NEW t \in RelayTopicNames, NEW s \in BOOLEAN, RemoteChange(p, t, s)
      PROVE  RelayInv'
  BY <1>1, RemoteChangeKeeps
<1>2. ASSUME NEW p \in RelayPeers, NEW t \in RelayTopicNames, NEW s \in BOOLEAN, MissedChange(p, t, s)
      PROVE  RelayInv'
  BY <1>2, MissedChangeKeeps
<1>3. ASSUME NEW p \in RelayPeers, peerDisconnected(p) PROVE RelayInv'
  BY <1>3, DisconnectKeeps
<1>4. ASSUME NEW t \in RelayTopicNames, reconcileTopic(t) PROVE RelayInv'
  BY <1>4, ReconcileKeeps
<1>5. CASE UNCHANGED relayVars
  BY <1>5 DEF relayVars, RelayInv, RelayShape, PermanentUntracked, IndexesInverse, WithinCaps, TopicsOf, Causes
<1> QED
  BY <1>1, <1>2, <1>3, <1>4, <1>5 DEF RelayNext

-----------------------------------------------------------------------------
(* The gateway of the relay                                                *)

\* What a session has carried, and what its tokens still let through, keep to
\* the rate up to the last refill; afterwards the clock only adds to it.
Metered(s) ==
    /\ carried[s] + session[s].tokens <= burstBytes + (session[s].refilledAt - openedAt[s]) * bytesPerTick
    /\ 0 <= session[s].tokens /\ openedAt[s] <= session[s].refilledAt
    /\ session[s].refilledAt <= clock
    /\ carried[s] <= session[s].bytes

GatewayShape ==
    /\ clock \in Nat /\ used \in Nat /\ exhausted \in BOOLEAN
    /\ tunnel \in [Sessions -> {"none", "connecting", "open", "closed"}]
    /\ carried \in [Sessions -> Nat] /\ openedAt \in [Sessions -> Nat]
    /\ session \in [Sessions -> [ip : Addresses \cup {"none"}, bytes : Nat, tokens : Int, refilledAt : Nat]]
    /\ limiterSessions \subseteq Sessions /\ IsFiniteSet(limiterSessions)

GatewayInv ==
    /\ GatewayShape /\ SlotsExact /\ CarriedWithinLimits /\ ExhaustionStopsAll
    /\ \A s \in Sessions : openedAt[s] <= clock
    /\ \A s \in Live : Metered(s)
    /\ \A s \in Sessions : tunnel[s] = "none" => carried[s] = 0

LEMMA GatewayConsts ==
    {maxConnections, maxConnectionsPerIp, sessionBytes, totalBytes, bytesPerTick, burstBytes, MaxChunk} \subseteq Nat
BY GatewayAssumption

\* A rate over a time that goes on is the sum over its two parts.
LEMMA RateAdds ==
    ASSUME NEW a \in Int, NEW b \in Int, NEW c \in Int, NEW r \in Nat, a <= b, b <= c
    PROVE  /\ (b - a) * r + (c - b) * r = (c - a) * r
           /\ 0 <= (c - b) * r /\ (b - a) * r <= (c - a) * r
<1>1. (b - a) * r + (c - b) * r = (c - a) * r
  OBVIOUS
<1>2. 0 <= (c - b) * r
  OBVIOUS
<1> QED
  BY <1>1, <1>2

LEMMA GatewayInvInit == GatewayInit => GatewayInv
<1> SUFFICES ASSUME GatewayInit PROVE GatewayInv
  OBVIOUS
<1>1. GatewayShape
  <2>1. /\ tunnel \in [Sessions -> {"none", "connecting", "open", "closed"}]
        /\ carried \in [Sessions -> Nat] /\ openedAt \in [Sessions -> Nat]
    BY DEF GatewayInit
  <2>2. [ip |-> "none", bytes |-> 0, tokens |-> 0, refilledAt |-> 0]
          \in [ip : Addresses \cup {"none"}, bytes : Nat, tokens : Int, refilledAt : Nat]
    OBVIOUS
  <2>3. session \in [Sessions -> [ip : Addresses \cup {"none"}, bytes : Nat, tokens : Int, refilledAt : Nat]]
    BY <2>2 DEF GatewayInit
  <2>4. clock \in Nat /\ used \in Nat /\ exhausted \in BOOLEAN
    BY DEF GatewayInit
  <2>5. limiterSessions \subseteq Sessions /\ IsFiniteSet(limiterSessions)
    BY FS_EmptySet DEF GatewayInit
  <2> QED
    BY <2>1, <2>3, <2>4, <2>5 DEF GatewayShape
<1>2. Live = {} /\ limiterSessions = {} /\ \A ip \in Addresses : Connections(ip) = {}
  BY DEF GatewayInit, Live, Connections
<1>3. SlotsExact
  BY <1>2, FS_EmptySet, GatewayConsts DEF SlotsExact
<1>4. CarriedWithinLimits
  <2>1. \A s \in Sessions : (clock - openedAt[s]) * bytesPerTick = 0
    BY GatewayConsts DEF GatewayInit
  <2> QED
    BY <2>1, GatewayConsts DEF GatewayInit, CarriedWithinLimits
<1> QED
  BY <1>1, <1>2, <1>3, <1>4 DEF GatewayInit, GatewayInv, ExhaustionStopsAll

LEMMA ConnectedKeeps ==
    ASSUME GatewayInv, NEW s \in Sessions, UpstreamConnected(s)
    PROVE  GatewayInv'
<1>1. Live' = Live /\ \A x \in Sessions : tunnel'[x] = "none" => tunnel[x] = "none"
  BY DEF GatewayInv, GatewayShape, UpstreamConnected, Live
<1>2. GatewayShape'
  BY DEF GatewayInv, GatewayShape, UpstreamConnected
<1>3. UNCHANGED <<clock, session, limiterSessions, used, exhausted, carried, openedAt>>
  BY DEF UpstreamConnected
<1>4. SlotsExact' /\ CarriedWithinLimits' /\ ExhaustionStopsAll'
  BY <1>1, <1>3 DEF GatewayInv, SlotsExact, Connections, CarriedWithinLimits, ExhaustionStopsAll
<1> QED
  BY <1>1, <1>2, <1>3, <1>4 DEF GatewayInv, Metered

\* Tunnels that close give back their slots, and only those.
LEMMA ClosingFrees ==
    ASSUME GatewayInv, NEW stopped \in SUBSET Live, Closing(stopped), UNCHANGED <<openedAt>>,
           \A s \in Sessions : session'[s].ip = session[s].ip
    PROVE  /\ tunnel' \in [Sessions -> {"none", "connecting", "open", "closed"}]
           /\ limiterSessions' \subseteq Sessions /\ IsFiniteSet(limiterSessions')
           /\ Live' = Live \ stopped /\ SlotsExact'
           /\ \A s \in Sessions : tunnel'[s] = "none" => tunnel[s] = "none"
<1>1. /\ tunnel' \in [Sessions -> {"none", "connecting", "open", "closed"}]
      /\ \A s \in Sessions : tunnel'[s] = IF s \in stopped THEN "closed" ELSE tunnel[s]
      /\ limiterSessions' = limiterSessions \ stopped
  BY DEF Closing, GatewayInv, GatewayShape
<1>2. Live' = Live \ stopped /\ limiterSessions' = Live'
  BY <1>1 DEF Live, GatewayInv, SlotsExact
<1>3. IsFiniteSet(limiterSessions') /\ limiterSessions' \subseteq Sessions
  BY <1>1, FS_Subset DEF GatewayInv, GatewayShape
<1>4. Cardinality(Live') <= maxConnections
  <2>1. IsFiniteSet(Live) /\ Live' \subseteq Live /\ Cardinality(Live) <= maxConnections
    BY <1>2 DEF GatewayInv, GatewayShape, SlotsExact
  <2> QED
    BY <2>1, FS_Subset, FS_CardinalityType, GatewayConsts
<1>5. ASSUME NEW ip \in Addresses
      PROVE  Cardinality(Connections(ip)') <= maxConnectionsPerIp
  <2> DEFINE old == Connections(ip)
             new == Connections(ip)'
  <2>1. new \subseteq old
    BY <1>1, <1>3 DEF Connections
  <2>2. IsFiniteSet(old) /\ Cardinality(old) <= maxConnectionsPerIp
    <3>1. old \subseteq limiterSessions
      BY DEF Connections
    <3> QED
      BY <3>1, FS_Subset DEF GatewayInv, GatewayShape, SlotsExact
  <2> HIDE DEF old, new
  <2>3. Cardinality(new) <= maxConnectionsPerIp
    BY <2>1, <2>2, FS_Subset, FS_CardinalityType, GatewayConsts
  <2> QED
    BY <2>3 DEF new
<1>6. SlotsExact'
  BY <1>2, <1>4, <1>5 DEF SlotsExact
<1> QED
  BY <1>1, <1>2, <1>3, <1>6

LEMMA TunnelClosesKeeps ==
    ASSUME GatewayInv, NEW s \in Sessions, TunnelCloses(s)
    PROVE  GatewayInv'
<1>1. s \in Live /\ Closing({s}) /\ UNCHANGED <<clock, session, used, exhausted, carried, openedAt>>
  BY DEF TunnelCloses
<1>2. /\ tunnel' \in [Sessions -> {"none", "connecting", "open", "closed"}]
      /\ limiterSessions' \subseteq Sessions /\ IsFiniteSet(limiterSessions')
      /\ Live' = Live \ {s} /\ SlotsExact'
      /\ \A x \in Sessions : tunnel'[x] = "none" => tunnel[x] = "none"
  BY <1>1, ClosingFrees
<1>3. GatewayShape'
  BY <1>1, <1>2 DEF GatewayInv, GatewayShape
<1>4. CarriedWithinLimits' /\ ExhaustionStopsAll'
  BY <1>1, <1>2 DEF GatewayInv, CarriedWithinLimits, ExhaustionStopsAll
<1> QED
  BY <1>1, <1>2, <1>3, <1>4 DEF GatewayInv, Metered

LEMMA TickKeeps ==
    ASSUME GatewayInv, GatewayTick
    PROVE  GatewayInv'
<1>1. /\ clock' = clock + 1 /\ clock \in Nat
      /\ UNCHANGED <<session, limiterSessions, tunnel, used, exhausted, carried, openedAt>>
  BY DEF GatewayInv, GatewayShape, GatewayTick
<1>2. GatewayShape' /\ SlotsExact' /\ ExhaustionStopsAll' /\ Live' = Live
  BY <1>1 DEF GatewayInv, GatewayShape, SlotsExact, ExhaustionStopsAll, Live, Connections
<1>3. CarriedWithinLimits'
  <2>1. ASSUME NEW s \in Sessions
        PROVE  carried'[s] <= burstBytes + (clock' - openedAt'[s]) * bytesPerTick
    <3>1. /\ openedAt[s] \in Nat /\ carried[s] \in Nat /\ openedAt[s] <= clock
          /\ carried[s] <= burstBytes + (clock - openedAt[s]) * bytesPerTick
      BY DEF GatewayInv, GatewayShape, CarriedWithinLimits
    <3>2. (clock - openedAt[s]) * bytesPerTick <= (clock' - openedAt[s]) * bytesPerTick
      BY <1>1, <3>1, RateAdds, GatewayConsts
    <3> DEFINE a == (clock - openedAt[s]) * bytesPerTick
               b == (clock' - openedAt[s]) * bytesPerTick
    <3>3. a \in Int /\ b \in Int
      BY <1>1, <3>1, GatewayConsts
    <3> HIDE DEF a, b
    <3>4. carried[s] <= burstBytes + b
      BY <3>1, <3>2, <3>3, GatewayConsts DEF a, b
    <3> QED
      BY <1>1, <3>4 DEF b
  <2> QED
    BY <1>1, <2>1 DEF GatewayInv, CarriedWithinLimits
<1>4. /\ \A s \in Sessions : openedAt'[s] <= clock'
      /\ \A s \in Live' : Metered(s)'
  <2>1. \A s \in Sessions : openedAt[s] \in Nat /\ session[s].refilledAt \in Nat
    BY DEF GatewayInv, GatewayShape
  <2>2. Live \subseteq Sessions
    BY DEF Live
  <2> QED
    BY <1>1, <1>2, <2>1, <2>2 DEF GatewayInv, Metered
<1> QED
  BY <1>1, <1>2, <1>3, <1>4 DEF GatewayInv

\* An admitted session takes a slot that is free, of the relay and of its address.
LEMMA AdmissionWithin ==
    ASSUME GatewayInv, NEW s \in Sessions, NEW ip \in Addresses, tunnel[s] = "none",
           Cardinality(limiterSessions) < maxConnections,
           Cardinality(Connections(ip)) < maxConnectionsPerIp,
           session' = [session EXCEPT ![s] = [ip |-> ip, bytes |-> 0, tokens |-> burstBytes, refilledAt |-> clock]],
           limiterSessions' = limiterSessions \cup {s},
           tunnel' = [tunnel EXCEPT ![s] = "connecting"]
    PROVE  /\ IsFiniteSet(limiterSessions') /\ limiterSessions' \subseteq Sessions
           /\ Live' = Live \cup {s} /\ s \notin Live /\ SlotsExact'
<1>1. Live' = Live \cup {s} /\ s \notin Live /\ limiterSessions' = Live' /\ limiterSessions = Live
  BY DEF GatewayInv, GatewayShape, SlotsExact, Live
<1>2. IsFiniteSet(limiterSessions') /\ limiterSessions' \subseteq Sessions /\ IsFiniteSet(limiterSessions)
  BY FS_AddElement DEF GatewayInv, GatewayShape
<1>3. Cardinality(Live') <= maxConnections
  BY <1>1, <1>2, FS_AddElement, FS_CardinalityType, GatewayConsts
<1>4. ASSUME NEW a \in Addresses
      PROVE  Cardinality(Connections(a)') <= maxConnectionsPerIp
  <2> DEFINE old == Connections(a)
             new == Connections(a)'
  <2>1. IsFiniteSet(old) /\ Cardinality(old) <= maxConnectionsPerIp
    <3>1. old \subseteq limiterSessions
      BY DEF Connections
    <3> QED
      BY <1>2, <3>1, FS_Subset DEF GatewayInv, SlotsExact
  <2>2. \A x \in Sessions : x # s => session'[x].ip = session[x].ip
    BY DEF GatewayInv, GatewayShape
  <2>3. session'[s].ip = ip
    BY DEF GatewayInv, GatewayShape
  <2>4. new \in SUBSET (old \cup {s}) /\ (s \in new /\ s \notin old => a = ip)
    BY <1>2, <2>2, <2>3 DEF Connections
  <2>5. s \in new /\ s \notin old => Cardinality(old) < maxConnectionsPerIp
    BY <2>4
  <2> HIDE DEF old, new
  <2>6. Cardinality(new) <= maxConnectionsPerIp
    BY <2>1, <2>4, <2>5, OneMore, GatewayConsts
  <2> QED
    BY <2>6 DEF new
<1> QED
  BY <1>1, <1>2, <1>3, <1>4 DEF SlotsExact

LEMMA UpgradeKeeps ==
    ASSUME GatewayInv, NEW s \in Sessions, NEW ip \in Addresses, Upgrade(s, ip)
    PROVE  GatewayInv'
<1>1. tunnel[s] = "none" /\ ~exhausted /\ UNCHANGED <<clock, used, exhausted, carried>>
  BY DEF Upgrade
<1>2. CASE UNCHANGED <<session, limiterSessions, tunnel, openedAt>>
  <2>1. Live' = Live /\ \A a \in Addresses : Connections(a)' = Connections(a)
    BY <1>2 DEF Live, Connections
  <2> QED
    BY <1>1, <1>2, <2>1 DEF GatewayInv, GatewayShape, SlotsExact, CarriedWithinLimits, ExhaustionStopsAll, Metered
<1>3. CASE ~UNCHANGED <<session, limiterSessions, tunnel, openedAt>>
  <2>1. /\ Cardinality(limiterSessions) < maxConnections
        /\ Cardinality(Connections(ip)) < maxConnectionsPerIp
        /\ session' = [session EXCEPT ![s] = [ip |-> ip, bytes |-> 0, tokens |-> burstBytes, refilledAt |-> clock]]
        /\ limiterSessions' = limiterSessions \cup {s}
        /\ tunnel' = [tunnel EXCEPT ![s] = "connecting"]
        /\ openedAt' = [openedAt EXCEPT ![s] = clock]
    BY <1>3 DEF Upgrade, MayOpen
  <2>2. /\ IsFiniteSet(limiterSessions') /\ limiterSessions' \subseteq Sessions
        /\ Live' = Live \cup {s} /\ s \notin Live /\ SlotsExact'
    BY <1>1, <2>1, AdmissionWithin
  <2>3. GatewayShape'
    <3>1. clock \in Nat /\ burstBytes \in Nat
      BY GatewayConsts DEF GatewayInv, GatewayShape
    <3>2. openedAt' \in [Sessions -> Nat] /\ tunnel' \in [Sessions -> {"none", "connecting", "open", "closed"}]
      BY <2>1, <3>1 DEF GatewayInv, GatewayShape
    <3>3. session' \in [Sessions -> [ip : Addresses \cup {"none"}, bytes : Nat, tokens : Int, refilledAt : Nat]]
      BY <2>1, <3>1 DEF GatewayInv, GatewayShape
    <3> QED
      BY <1>1, <2>2, <3>2, <3>3 DEF GatewayInv, GatewayShape
  <2>4. carried[s] = 0 /\ carried'[s] = 0 /\ openedAt'[s] = clock /\ clock \in Nat
    BY <1>1, <2>1 DEF GatewayInv, GatewayShape
  <2>5. (clock - openedAt'[s]) * bytesPerTick = 0
    BY <2>4, GatewayConsts
  <2>6. CarriedWithinLimits'
    BY <1>1, <2>1, <2>4, <2>5, GatewayConsts DEF GatewayInv, GatewayShape, CarriedWithinLimits
  <2>7. \A x \in Live' : Metered(x)'
    <3>1. Metered(s)'
      <4>1. session'[s] = [ip |-> ip, bytes |-> 0, tokens |-> burstBytes, refilledAt |-> clock]
        BY <2>1 DEF GatewayInv, GatewayShape
      <4> QED
        BY <1>1, <2>4, <2>5, <4>1, GatewayConsts DEF Metered
    <3>2. ASSUME NEW x \in Live PROVE Metered(x)'
      <4>1. x \in Sessions /\ x # s
        BY <2>2 DEF Live
      <4>2. session'[x] = session[x] /\ openedAt'[x] = openedAt[x]
        BY <2>1, <4>1 DEF GatewayInv, GatewayShape
      <4> QED
        BY <1>1, <4>2 DEF GatewayInv, Metered
    <3> QED
      BY <2>2, <3>1, <3>2
  <2>8. /\ \A x \in Sessions : openedAt'[x] <= clock'
        /\ \A x \in Sessions : tunnel'[x] = "none" => carried'[x] = 0
    BY <1>1, <2>1, <2>4 DEF GatewayInv, GatewayShape
  <2>9. ExhaustionStopsAll'
    BY <1>1 DEF ExhaustionStopsAll
  <2> QED
    BY <2>2, <2>3, <2>6, <2>7, <2>8, <2>9 DEF GatewayInv
<1> QED
  BY <1>2, <1>3

\* A chunk that passes was paid with tokens of the session, all of which came in
\* at the rate.
LEMMA ChunkMetered ==
    ASSUME GatewayInv, NEW s \in Live, NEW bytes \in Nat,
           Refilled(s) - bytes >= 0,
           session' = [session EXCEPT ![s].bytes = session[s].bytes + bytes,
                                      ![s].tokens = Refilled(s) - bytes, ![s].refilledAt = clock],
           carried' = [carried EXCEPT ![s] = @ + bytes],
           UNCHANGED <<clock, openedAt>>
    PROVE  /\ Metered(s)' /\ carried'[s] \in Nat
           /\ carried'[s] <= burstBytes + (clock' - openedAt'[s]) * bytesPerTick
<1>1. s \in Sessions /\ Metered(s)
  BY DEF GatewayInv, Live
<1>2. /\ session[s].bytes \in Nat /\ session[s].tokens \in Int /\ session[s].refilledAt \in Nat
      /\ carried[s] \in Nat /\ openedAt[s] \in Nat /\ clock \in Nat
      /\ bytesPerTick \in Nat /\ burstBytes \in Nat
  BY <1>1, GatewayConsts DEF GatewayInv, GatewayShape
<1>3. /\ session'[s].bytes = session[s].bytes + bytes /\ session'[s].tokens = Refilled(s) - bytes
      /\ session'[s].refilledAt = clock /\ carried'[s] = carried[s] + bytes
  BY <1>1 DEF GatewayInv, GatewayShape
<1> DEFINE before == (session[s].refilledAt - openedAt[s]) * bytesPerTick
           since  == (clock - session[s].refilledAt) * bytesPerTick
           all    == (clock - openedAt[s]) * bytesPerTick
<1>4. before \in Int /\ since \in Int /\ all \in Int /\ before + since = all
  BY <1>1, <1>2, RateAdds DEF Metered
<1>5. Refilled(s) \in Int /\ Refilled(s) <= session[s].tokens + since
  BY <1>2, <1>4 DEF Refilled, Least
<1>6. carried[s] + session[s].tokens <= burstBytes + before /\ carried[s] <= session[s].bytes
  BY <1>1 DEF Metered
<1>7. openedAt[s] <= clock
  BY <1>1 DEF GatewayInv
<1> HIDE DEF before, since, all
<1>8. carried[s] + bytes + (Refilled(s) - bytes) <= burstBytes + all
  BY <1>2, <1>4, <1>5, <1>6
<1>9. carried'[s] + session'[s].tokens <= burstBytes + all /\ carried'[s] <= burstBytes + all
  BY <1>2, <1>3, <1>4, <1>5, <1>8
<1>10. carried'[s] <= session'[s].bytes /\ 0 <= session'[s].tokens /\ carried'[s] \in Nat
  BY <1>2, <1>3, <1>6
<1> QED
  BY <1>2, <1>3, <1>7, <1>9, <1>10 DEF Metered, all

LEMMA ChunkKeeps ==
    ASSUME GatewayInv, NEW s \in Sessions, NEW bytes \in 1..MaxChunk, Chunk(s, bytes)
    PROVE  GatewayInv'
<1> DEFINE over   == bytes > totalBytes - used
           spent  == over \/ used + bytes >= totalBytes
           total  == session[s].bytes + bytes
           tokens == Refilled(s) - bytes
           passes == ~spent /\ total <= sessionBytes /\ tokens >= 0
<1>1. /\ tunnel[s] = "open" /\ ~exhausted /\ exhausted' = spent
      /\ used' = IF over THEN used ELSE used + bytes
      /\ session' = IF over THEN session
                    ELSE [session EXCEPT ![s].bytes = total, ![s].tokens = tokens, ![s].refilledAt = clock]
      /\ UNCHANGED <<clock, openedAt>>
  BY DEF Chunk
<1>2. /\ bytes \in Nat /\ used \in Nat /\ totalBytes \in Nat /\ s \in Live
      /\ session[s].bytes \in Nat /\ session[s].tokens \in Int /\ session[s].refilledAt \in Nat /\ clock \in Nat
  BY <1>1, GatewayConsts DEF GatewayInv, GatewayShape, Live
<1>3. tokens \in Int /\ total \in Nat /\ spent \in BOOLEAN
  BY <1>2, GatewayConsts DEF Refilled, Least
<1>4. /\ session' \in [Sessions -> [ip : Addresses \cup {"none"}, bytes : Nat, tokens : Int, refilledAt : Nat]]
      /\ \A x \in Sessions : session'[x].ip = session[x].ip
      /\ \A x \in Sessions : x # s => session'[x] = session[x]
  BY <1>1, <1>2, <1>3 DEF GatewayInv, GatewayShape
<1>5. used' \in Nat /\ used' <= totalBytes /\ exhausted' \in BOOLEAN
  BY <1>1, <1>2, <1>3 DEF GatewayInv, CarriedWithinLimits
<1>6. CASE ~passes
  <2>1. Closing(Stopped(s, spent)) /\ carried' = carried
    BY <1>6 DEF Chunk
  <2>2. Stopped(s, spent) \in SUBSET Live /\ s \in Stopped(s, spent) /\ (spent => Stopped(s, spent) = Live)
    BY <1>2 DEF Stopped
  <2>3. /\ tunnel' \in [Sessions -> {"none", "connecting", "open", "closed"}]
        /\ limiterSessions' \subseteq Sessions /\ IsFiniteSet(limiterSessions')
        /\ Live' = Live \ Stopped(s, spent) /\ SlotsExact'
        /\ \A x \in Sessions : tunnel'[x] = "none" => tunnel[x] = "none"
    BY <1>1, <1>4, <2>1, <2>2, ClosingFrees
  <2>4. GatewayShape'
    BY <1>1, <1>4, <1>5, <2>1, <2>3 DEF GatewayInv, GatewayShape
  <2>5. CarriedWithinLimits'
    BY <1>1, <1>5, <2>1 DEF GatewayInv, CarriedWithinLimits
  <2>6. ExhaustionStopsAll'
    BY <1>1, <2>2, <2>3 DEF ExhaustionStopsAll
  <2>7. ASSUME NEW x \in Live' PROVE Metered(x)'
    <3>1. x \in Live /\ x # s /\ x \in Sessions
      BY <2>2, <2>3 DEF Live
    <3>2. session'[x] = session[x]
      BY <1>4, <3>1
    <3> QED
      BY <1>1, <2>1, <3>1, <3>2 DEF GatewayInv, Metered
  <2> QED
    BY <1>1, <2>1, <2>3, <2>4, <2>5, <2>6, <2>7 DEF GatewayInv
<1>7. CASE passes
  <2>1. carried' = [carried EXCEPT ![s] = @ + bytes] /\ UNCHANGED <<tunnel, limiterSessions>>
    BY <1>7 DEF Chunk
  <2>2. session' = [session EXCEPT ![s].bytes = total, ![s].tokens = tokens, ![s].refilledAt = clock]
    BY <1>1, <1>7
  <2>3. /\ Metered(s)' /\ carried'[s] \in Nat
        /\ carried'[s] <= burstBytes + (clock' - openedAt'[s]) * bytesPerTick
    BY <1>1, <1>2, <1>7, <2>1, <2>2, ChunkMetered
  <2>4. carried'[s] <= sessionBytes
    <3>1. carried[s] <= session[s].bytes /\ carried[s] \in Nat /\ carried'[s] = carried[s] + bytes
      BY <1>2, <2>1 DEF GatewayInv, GatewayShape, Metered
    <3> QED
      BY <1>2, <1>7, <3>1, GatewayConsts
  <2>5. carried' \in [Sessions -> Nat] /\ \A x \in Sessions : x # s => carried'[x] = carried[x]
    BY <1>2, <2>1 DEF GatewayInv, GatewayShape
  <2>6. GatewayShape'
    BY <1>1, <1>4, <1>5, <2>1, <2>5 DEF GatewayInv, GatewayShape
  <2>7. Live' = Live /\ \A ip \in Addresses : Connections(ip)' = Connections(ip)
    BY <1>4, <2>1 DEF Live, Connections, GatewayInv, GatewayShape
  <2>8. SlotsExact'
    BY <2>1, <2>7 DEF GatewayInv, SlotsExact
  <2>9. CarriedWithinLimits'
    BY <1>1, <1>5, <2>3, <2>4, <2>5 DEF GatewayInv, CarriedWithinLimits
  <2>10. ExhaustionStopsAll'
    BY <1>1, <1>7 DEF ExhaustionStopsAll
  <2>11. ASSUME NEW x \in Live' PROVE Metered(x)'
    <3>1. CASE x = s
      BY <2>3, <3>1
    <3>2. CASE x # s
      <4>1. x \in Sessions /\ x \in Live
        BY <2>7 DEF Live
      <4>2. session'[x] = session[x] /\ carried'[x] = carried[x]
        BY <1>4, <2>5, <3>2, <4>1
      <4> QED
        BY <1>1, <4>1, <4>2 DEF GatewayInv, Metered
    <3> QED
      BY <3>1, <3>2
  <2>12. \A x \in Sessions : tunnel'[x] = "none" => carried'[x] = 0
    BY <1>1, <2>1, <2>5 DEF GatewayInv
  <2> QED
    BY <1>1, <2>6, <2>8, <2>9, <2>10, <2>11, <2>12 DEF GatewayInv
<1> QED
  BY <1>6, <1>7

LEMMA GatewayInvStep == GatewayInv /\ [GatewayNext]_gatewayVars => GatewayInv'
<1> SUFFICES ASSUME GatewayInv, [GatewayNext]_gatewayVars PROVE GatewayInv'
  OBVIOUS
<1>1. ASSUME NEW s \in Sessions, NEW ip \in Addresses, Upgrade(s, ip) PROVE GatewayInv'
  BY <1>1, UpgradeKeeps
<1>2. ASSUME NEW s \in Sessions, UpstreamConnected(s) PROVE GatewayInv'
  BY <1>2, ConnectedKeeps
<1>3. ASSUME NEW s \in Sessions, TunnelCloses(s) PROVE GatewayInv'
  BY <1>3, TunnelClosesKeeps
<1>4. ASSUME NEW s \in Sessions, NEW bytes \in 1 .. MaxChunk, Chunk(s, bytes) PROVE GatewayInv'
  BY <1>4, ChunkKeeps
<1>5. CASE GatewayTick
  BY <1>5, TickKeeps
<1>6. CASE UNCHANGED gatewayVars
  BY <1>6 DEF gatewayVars, GatewayInv, GatewayShape, SlotsExact, CarriedWithinLimits, ExhaustionStopsAll,
              Metered, Live, Connections
<1> QED
  BY <1>1, <1>2, <1>3, <1>4, <1>5, <1>6 DEF GatewayNext

\* The inductive invariants of the registry and of the gateway.
THEOREM RegistryInvariant == RelaySpec => []RelayInv
BY RelayInvInit, RelayInvStep, PTL DEF RelaySpec

THEOREM GatewayInvariant == GatewaySpec => []GatewayInv
BY GatewayInvInit, GatewayInvStep, PTL DEF GatewaySpec

\* Whatever events the relay misses and however its connections end, its topic
\* indexes agree, and topics, connections and bytes stay within their caps.
THEOREM RelayStaysBounded == RelaySpec /\ GatewaySpec => RelayBounded
<1>1. RelayInv => IndexesInverse /\ WithinCaps
  BY DEF RelayInv
<1>2. GatewayInv => SlotsExact /\ CarriedWithinLimits /\ ExhaustionStopsAll
  BY DEF GatewayInv
<1> QED
  BY <1>1, <1>2, RegistryInvariant, GatewayInvariant, PTL DEF RelayBounded

-----------------------------------------------------------------------------
(* The instances of a path                                                 *)

Documents == [kind : {"legacy", "coordinated"},
              activation : {"no", "loading", "validating", "founding", "authorizing", "activating",
                            "accepting", "catching", "failing"},
              handlers : 0..MaxHandlers, listening : 0..MaxHandlers, on : 0..MaxNodes, subscribed : BOOLEAN,
              validator : BOOLEAN, closing : SUBSET {"failed", "called"}, state : BOOLEAN,
              ready : BOOLEAN, created : BOOLEAN, opened : BOOLEAN, engineClosed : BOOLEAN, stranded : BOOLEAN]
Pubsubs == [listeners : SUBSET (Instances \X (1..MaxHandlers)), topic : BOOLEAN,
            validator : Instances \cup {None}]

SessionShape ==
    /\ node \in 0..MaxNodes /\ nodes \in 0..MaxNodes
    /\ initializing \in {"stopping", "starting"} => nodes < MaxNodes
    /\ registry \in Instances \cup {None} /\ reserved \in Instances \cup {None}
    /\ pubsub \in [1..MaxNodes -> Pubsubs] /\ doc \in [Instances -> Documents]

\* A subscribed instance is the registered one and hears its topic on its node.
Subscribed(i) ==
    /\ registry = i /\ doc[i].on \in 1..MaxNodes
    /\ \E h \in 1..MaxHandlers : <<i, h>> \in pubsub[doc[i].on].listeners
    /\ pubsub[doc[i].on].topic

\* A registration without a subscription is about to get it, about to be closed,
\* or what a close() that threw left behind.
RouteExact(i) ==
    /\ doc[i].subscribed => Subscribed(i)
    /\ doc[i].validator => doc[i].subscribed
    /\ doc[i].activation = "activating" => registry = i /\ ~doc[i].subscribed /\ doc[i].on \in 1..MaxNodes
    /\ registry = i /\ ~doc[i].subscribed =>
           doc[i].closing # {} \/ doc[i].stranded \/ doc[i].activation = "activating"
    /\ doc[i].opened => doc[i].subscribed /\ doc[i].closing = {}
RoutesExact == \A i \in Instances : RouteExact(i)

SessionInv == SessionShape /\ RoutesExact /\ ReservedPath

LEMMA SessionConsts ==
    /\ MaxNodes \in Nat /\ MaxHandlers \in Nat
    /\ None \notin Instances
BY SessionAssumption DEF None

LEMMA NewDocumentTyped == NewDocument("legacy") \in Documents /\ NewDocument("coordinated") \in Documents
BY SessionConsts DEF NewDocument, Documents

LEMMA ShapeOf ==
    ASSUME SessionInv, NEW i \in Instances
    PROVE  /\ doc[i] \in Documents /\ doc \in [Instances -> Documents]
           /\ reserved \in Instances \cup {None} /\ ReservedPath /\ RouteExact(i)
BY DEF SessionInv, SessionShape, RoutesExact

\* A route depends on its own instance, on the registry and on the pubsubs.
LEMMA OtherRoutes ==
    ASSUME SessionInv, NEW j \in Instances, doc'[j] = doc[j], UNCHANGED <<registry, pubsub>>
    PROVE  RouteExact(j)'
<1>1. RouteExact(j)
  BY ShapeOf
<1> QED
  BY <1>1, Zenon DEF RouteExact, Subscribed

\* A step of one instance that leaves its subscription alone, and ends no close.
LEMMA LocalKeeps ==
    ASSUME SessionInv,
           NEW i \in Instances, NEW d \in Documents, doc' = [doc EXCEPT ![i] = d],
           d.subscribed = doc[i].subscribed, d.on = doc[i].on, d.validator = doc[i].validator,
           doc[i].closing \subseteq d.closing, d.stranded = doc[i].stranded,
           d.activation = "activating" => doc[i].activation = "activating",
           doc[i].activation = "activating" => d.activation = "activating" \/ d.closing # {},
           d.opened => d.subscribed /\ d.closing = {},
           UNCHANGED <<nodeVars, registry, pubsub>>,
           reserved' \in Instances \cup {None}, ReservedPath'
    PROVE  SessionInv'
<1>1. /\ doc' \in [Instances -> Documents] /\ doc'[i] = d
      /\ \A j \in Instances : j # i => doc'[j] = doc[j]
      /\ UNCHANGED <<node, nodes, initializing>>
  BY DEF SessionInv, SessionShape, nodeVars
<1>2. SessionShape'
  BY <1>1 DEF SessionInv, SessionShape
<1>3. RouteExact(i)'
  <2>1. RouteExact(i)
    BY ShapeOf
  <2>2. d.subscribed => Subscribed(i)'
    BY <1>1, <2>1 DEF RouteExact, Subscribed
  <2> QED
    BY <1>1, <2>1, <2>2 DEF RouteExact
<1>4. ASSUME NEW j \in Instances, j # i PROVE RouteExact(j)'
  BY <1>1, <1>4, OtherRoutes
<1> QED
  BY <1>2, <1>3, <1>4 DEF SessionInv, RoutesExact

\* A step of the registered instance: no other instance has a route to lose.
LEMMA RegisteredKeeps ==
    ASSUME SessionInv, NEW i \in Instances, NEW d \in Documents, doc' = [doc EXCEPT ![i] = d],
           registry \in {None, i}, registry' = i, reserved \in {None, i} \/ registry = i,
           pubsub' \in [1..MaxNodes -> Pubsubs], RouteExact(i)',
           UNCHANGED <<nodeVars, reserved>>
    PROVE  SessionInv'
<1>1. /\ doc' \in [Instances -> Documents]
      /\ \A j \in Instances : j # i => doc'[j] = doc[j]
      /\ UNCHANGED <<node, nodes, initializing>>
  BY DEF SessionInv, SessionShape, nodeVars
<1>2. SessionShape'
  BY <1>1 DEF SessionInv, SessionShape
<1>3. ASSUME NEW j \in Instances, j # i PROVE RouteExact(j)'
  <2>1. RouteExact(j) /\ doc'[j] = doc[j] /\ registry # j
    BY <1>1, <1>3, ShapeOf, SessionConsts
  <2> QED
    BY <1>3, <2>1 DEF RouteExact, Subscribed
<1>4. ReservedPath'
  BY DEF SessionInv, ReservedPath
<1> QED
  BY <1>2, <1>3, <1>4 DEF SessionInv, RoutesExact

\* The message handler an instance makes, and the failure of what it is doing.
LEMMA ListensKeeps ==
    ASSUME NEW d \in Documents, d.handlers < MaxHandlers
    PROVE  /\ Listens(d) \in Documents /\ Listens(d).listening \in 1..MaxHandlers
           /\ Listens(d).subscribed = d.subscribed /\ Listens(d).on = d.on /\ Listens(d).validator = d.validator
           /\ Listens(d).closing = d.closing /\ Listens(d).opened = d.opened /\ Listens(d).stranded = d.stranded
           /\ Listens(d).activation = d.activation
<1>1. d.handlers + 1 \in 1..MaxHandlers
  BY SessionConsts DEF Documents
<1>2. [d EXCEPT !.handlers = d.handlers + 1] \in Documents
  BY <1>1 DEF Documents
<1>3. Listens(d) \in Documents /\ Listens(d).listening = d.handlers + 1
  BY <1>1, <1>2 DEF Documents, Listens
<1> QED
  BY <1>1, <1>3 DEF Documents, Listens

LEMMA FailingKeeps ==
    ASSUME NEW d \in Documents
    PROVE  /\ OpenFails(d) \in Documents /\ OpenFails(d).subscribed = d.subscribed /\ OpenFails(d).on = d.on
           /\ OpenFails(d).validator = d.validator /\ OpenFails(d).closing = d.closing \cup {"failed"}
           /\ OpenFails(d).opened = FALSE /\ OpenFails(d).stranded = d.stranded
           /\ OpenFails(d).activation = "failing"
<1> DEFINE closed == d.engineClosed \/ d.kind = "coordinated"
<1>1. closed \in BOOLEAN
  BY DEF Documents
<1>2. OpenFails(d) = [d EXCEPT !.activation = "failing", !.closing = d.closing \cup {"failed"}, !.opened = FALSE,
                               !.engineClosed = closed]
  BY DEF OpenFails, Documents
<1> HIDE DEF closed
<1>3. d.closing \cup {"failed"} \in SUBSET {"failed", "called"}
  BY DEF Documents
<1>4. OpenFails(d) \in Documents
  BY <1>1, <1>2, <1>3 DEF Documents
<1>5. /\ OpenFails(d).subscribed = d.subscribed /\ OpenFails(d).on = d.on
      /\ OpenFails(d).validator = d.validator /\ OpenFails(d).closing = d.closing \cup {"failed"}
      /\ OpenFails(d).opened = FALSE /\ OpenFails(d).stranded = d.stranded
      /\ OpenFails(d).activation = "failing"
  BY <1>2 DEF Documents
<1> QED
  BY <1>4, <1>5

\* An instance that registers finds the path free, and is subscribed or about to
\* close what it began.
LEMMA RegisterKeeps ==
    ASSUME SessionInv, NEW i \in Instances, NEW d \in Documents,
           NEW after \in {"no", "founding", "catching"}, Register(i, d, after),
           d.subscribed = doc[i].subscribed, d.on = doc[i].on, d.validator = doc[i].validator,
           d.closing = doc[i].closing, d.opened = doc[i].opened, d.stranded = doc[i].stranded,
           doc[i].activation # "activating"
    PROVE  SessionInv'
<1> DEFINE made == Listens(d)
<1>1. /\ made \in Documents /\ made.listening \in 1..MaxHandlers
      /\ made.subscribed = d.subscribed /\ made.on = d.on /\ made.validator = d.validator
      /\ made.closing = d.closing /\ made.opened = d.opened /\ made.stranded = d.stranded
  BY ListensKeeps DEF Register
<1>2. UNCHANGED <<nodeVars, reserved>>
  BY DEF Register
<1>3. (d.opened => d.subscribed /\ d.closing = {}) /\ (d.validator => d.subscribed)
  BY ShapeOf DEF RouteExact
<1> HIDE DEF made
<1>4. CASE node = 0 /\ doc' = [doc EXCEPT ![i] = [made EXCEPT !.activation = "no"]] /\ UNCHANGED <<registry, pubsub>>
  <2> DEFINE e == [made EXCEPT !.activation = "no"]
  <2>1. /\ e \in Documents /\ e.subscribed = d.subscribed /\ e.on = d.on /\ e.closing = d.closing
        /\ e.opened = d.opened /\ e.validator = d.validator /\ e.stranded = d.stranded /\ e.activation = "no"
    BY <1>1 DEF Documents
  <2>2. doc' = [doc EXCEPT ![i] = e]
    BY <1>4
  <2>3. reserved' \in Instances \cup {None} /\ ReservedPath'
    BY <1>2, <1>4, ShapeOf DEF ReservedPath
  <2> HIDE DEF e
  <2>4. /\ e.subscribed = doc[i].subscribed /\ e.on = doc[i].on /\ e.validator = doc[i].validator
        /\ doc[i].closing \subseteq e.closing /\ e.stranded = doc[i].stranded
        /\ e.opened => e.subscribed /\ e.closing = {}
    BY <1>3, <2>1
  <2>5. UNCHANGED <<nodeVars, registry, pubsub>>
    BY <1>2, <1>4
  <2> QED
    BY <2>1, <2>2, <2>3, <2>4, <2>5, LocalKeeps
<1> DEFINE failed == OpenFails(made)
<1>5. /\ failed \in Documents /\ failed.subscribed = d.subscribed /\ failed.on = d.on
      /\ failed.closing = d.closing \cup {"failed"} /\ failed.opened = FALSE
      /\ failed.validator = d.validator /\ failed.stranded = d.stranded /\ failed.activation = "failing"
  BY <1>1, FailingKeeps
<1> HIDE DEF failed
<1>6. CASE doc' = [doc EXCEPT ![i] = failed] /\ UNCHANGED <<registry, pubsub>>
  <2>1. reserved' \in Instances \cup {None} /\ ReservedPath'
    BY <1>2, <1>6, ShapeOf DEF ReservedPath
  <2> QED
    BY <1>2, <1>5, <1>6, <2>1, LocalKeeps
<1> DEFINE full == [made EXCEPT !.activation = after, !.on = node, !.subscribed = TRUE,
                                !.validator = TRUE, !.opened = (after = "no" /\ d.closing = {})]
<1>7. CASE /\ node # 0 /\ CanRegister(i) /\ registry' = i
           /\ \/ /\ pubsub' = [pubsub EXCEPT ![node].listeners = @ \cup {<<i, made.listening>>}]
                 /\ doc' = [doc EXCEPT ![i] = failed]
              \/ /\ pubsub' = [pubsub EXCEPT ![node] =
                        [listeners |-> @.listeners \cup {<<i, made.listening>>}, topic |-> TRUE, validator |-> i]]
                 /\ doc' = [doc EXCEPT ![i] = full]
  <2>1. registry = None /\ reserved \in {None, i} /\ node \in 1..MaxNodes
    BY <1>7, SessionConsts DEF CanRegister, SessionInv, SessionShape
  <2>2. ~d.subscribed /\ ~d.validator
    BY <1>3, <2>1, ShapeOf, SessionConsts DEF RouteExact, Subscribed
  <2>3. /\ full \in Documents /\ full.subscribed /\ full.on = node /\ full.activation = after
        /\ full.closing = d.closing /\ (full.opened => d.closing = {})
    <3> DEFINE begun == [made EXCEPT !.activation = after, !.on = node]
               b == after = "no" /\ d.closing = {}
    <3>1. begun \in Documents /\ begun.closing = d.closing /\ begun.on = node /\ begun.activation = after
      <4>1. node \in 0..MaxNodes /\ made \in Documents /\ made.closing = d.closing
        BY <1>1, <2>1, SessionConsts
      <4> QED
        BY <4>1 DEF Documents
    <3>2. b \in BOOLEAN /\ (b => d.closing = {})
      OBVIOUS
    <3>3. full = [begun EXCEPT !.subscribed = TRUE, !.validator = TRUE, !.opened = b]
      BY <1>1 DEF Documents
    <3> HIDE DEF begun, b, full
    <3>4. full \in Documents
      BY <3>1, <3>2, <3>3 DEF Documents
    <3>5. /\ full.subscribed = TRUE /\ full.on = begun.on /\ full.closing = begun.closing
          /\ full.activation = begun.activation /\ full.opened = b
      BY <3>1, <3>3 DEF Documents
    <3> QED
      BY <3>1, <3>2, <3>4, <3>5
  <2>4. <<i, made.listening>> \in Instances \X (1..MaxHandlers)
    BY <1>1
  <2>5. pubsub[node] \in Pubsubs /\ pubsub \in [1..MaxNodes -> Pubsubs] /\ doc \in [Instances -> Documents]
    BY <2>1 DEF SessionInv, SessionShape
  <2> HIDE DEF full
  <2>6. CASE /\ pubsub' = [pubsub EXCEPT ![node].listeners = @ \cup {<<i, made.listening>>}]
             /\ doc' = [doc EXCEPT ![i] = failed]
    <3>1. pubsub' \in [1..MaxNodes -> Pubsubs]
      BY <2>1, <2>4, <2>5, <2>6 DEF Pubsubs
    <3>2. doc'[i] = failed
      BY <2>5, <2>6
    <3>3. RouteExact(i)'
      BY <1>5, <2>2, <3>2 DEF RouteExact
    <3> QED
      BY <1>2, <1>5, <1>7, <2>1, <2>6, <3>1, <3>3, RegisteredKeeps
  <2>7. CASE /\ pubsub' = [pubsub EXCEPT ![node] =
                    [listeners |-> @.listeners \cup {<<i, made.listening>>}, topic |-> TRUE, validator |-> i]]
             /\ doc' = [doc EXCEPT ![i] = full]
    <3> DEFINE topic == [listeners |-> pubsub[node].listeners \cup {<<i, made.listening>>},
                         topic |-> TRUE, validator |-> i]
    <3>1. topic \in Pubsubs /\ pubsub' = [pubsub EXCEPT ![node] = topic]
      BY <2>4, <2>5, <2>7 DEF Pubsubs
    <3>2. pubsub' \in [1..MaxNodes -> Pubsubs] /\ pubsub'[node] = topic
      BY <2>1, <2>5, <3>1
    <3>3. doc'[i] = full
      BY <2>5, <2>7
    <3>4. Subscribed(i)'
      BY <1>1, <1>7, <2>1, <2>3, <3>2, <3>3 DEF Subscribed
    <3>5. RouteExact(i)'
      BY <2>3, <3>3, <3>4 DEF RouteExact
    <3> QED
      BY <1>2, <1>7, <2>1, <2>3, <2>7, <3>2, <3>5, RegisteredKeeps
  <2> QED
    BY <1>7, <2>6, <2>7
<1> QED
  BY <1>4, <1>6, <1>7 DEF Register, made, failed

\* The steps of initialize() leave every instance as it was.
LEMMA NodeKeeps ==
    ASSUME SessionInv,
           \/ initialize \/ NodeStopped \/ createAndStartHeliaNode \/ StartFails
           \/ _registerSharedProtocolHandlers
    PROVE  SessionInv'
<1>1. UNCHANGED <<registry, pubsub, doc>> /\ reserved' \in {None, reserved}
  BY DEF initialize, NodeStopped, createAndStartHeliaNode, StartFails, _registerSharedProtocolHandlers
<1>2. SessionShape'
  BY <1>1, SessionConsts
     DEF SessionInv, SessionShape, initialize, NodeStopped, createAndStartHeliaNode, StartFails,
         _registerSharedProtocolHandlers
<1>3. RoutesExact'
  BY <1>1, OtherRoutes DEF RoutesExact
<1> QED
  BY <1>1, <1>2, <1>3 DEF SessionInv, ReservedPath

\* Instances open, load, validate, found and restore.
LEMMA ActivationKeeps ==
    ASSUME SessionInv, NEW i \in Instances, NEW answer \in BOOLEAN,
           \/ open(i) \/ LoadEnds(i, answer) \/ create(i) \/ ValidationEnds(i, answer)
           \/ FounderPublished(i, answer) \/ restoreCheckpoint(i) \/ BootstrapApplied(i)
           \/ _openCoordinated(i)
    PROVE  SessionInv'
<1>1. doc[i] \in Documents /\ doc \in [Instances -> Documents] /\ reserved \in Instances \cup {None} /\ ReservedPath
  BY ShapeOf
<1>2. doc[i].opened => doc[i].subscribed /\ doc[i].closing = {}
  BY ShapeOf DEF RouteExact
<1>3. doc[i].activation # "activating"
  BY DEF open, LoadEnds, create, ValidationEnds, FounderPublished, restoreCheckpoint, BootstrapApplied,
         _openCoordinated, MayActivate
<1>4. ASSUME NEW d \in Documents, NEW after \in {"no", "founding", "catching"}, Register(i, d, after),
             d.subscribed = doc[i].subscribed, d.on = doc[i].on, d.validator = doc[i].validator,
             d.closing = doc[i].closing, d.opened = doc[i].opened, d.stranded = doc[i].stranded
      PROVE  SessionInv'
  BY <1>3, <1>4, RegisterKeeps
<1>5. ASSUME NEW what \in {"no", "loading", "validating", "authorizing"}, Activates(i, what)
      PROVE  SessionInv'
  <2> DEFINE d == [doc[i] EXCEPT !.activation = what]
  <2>1. /\ d \in Documents /\ d.subscribed = doc[i].subscribed /\ d.on = doc[i].on
        /\ d.closing = doc[i].closing /\ d.opened = doc[i].opened
        /\ d.validator = doc[i].validator /\ d.stranded = doc[i].stranded /\ d.activation # "activating"
    BY <1>1 DEF Documents
  <2>2. doc' = [doc EXCEPT ![i] = d] /\ UNCHANGED <<nodeVars, registry, reserved, pubsub>>
    BY <1>1, <1>5 DEF Activates
  <2> HIDE DEF d
  <2> QED
    BY <1>1, <1>2, <1>3, <2>1, <2>2, LocalKeeps DEF ReservedPath
<1>6. CASE open(i)
  <2> DEFINE d == [doc[i] EXCEPT !.ready = FALSE, !.state = TRUE]
  <2>1. /\ d \in Documents /\ d.subscribed = doc[i].subscribed /\ d.on = doc[i].on
        /\ d.closing = doc[i].closing /\ d.opened = doc[i].opened
        /\ d.validator = doc[i].validator /\ d.stranded = doc[i].stranded
    BY <1>1 DEF Documents
  <2>2. Register(i, d, "no") \/ Activates(i, "loading")
    BY <1>6 DEF open
  <2> HIDE DEF d
  <2> QED
    BY <1>4, <1>5, <2>1, <2>2
<1>7. CASE LoadEnds(i, answer) \/ BootstrapApplied(i)
  <2> DEFINE d == [doc[i] EXCEPT !.state = TRUE]
  <2>1. /\ d \in Documents /\ d.subscribed = doc[i].subscribed /\ d.on = doc[i].on
        /\ d.closing = doc[i].closing /\ d.opened = doc[i].opened
        /\ d.validator = doc[i].validator /\ d.stranded = doc[i].stranded
    BY <1>1 DEF Documents
  <2>2. Register(i, d, "no") \/ Register(i, d, "catching") \/ Activates(i, "no")
    BY <1>7 DEF LoadEnds, BootstrapApplied
  <2> HIDE DEF d
  <2> QED
    BY <1>4, <1>5, <2>1, <2>2
<1>8. CASE create(i) \/ _openCoordinated(i)
  BY <1>5, <1>8 DEF create, _openCoordinated
<1>9. CASE ValidationEnds(i, answer)
  <2>1. Register(i, doc[i], "founding") \/ Activates(i, "no")
    BY <1>9 DEF ValidationEnds
  <2> QED
    BY <1>1, <1>4, <1>5, <2>1
<1>10. CASE FounderPublished(i, answer)
  <2> DEFINE b == doc[i].subscribed /\ doc[i].closing = {}
             ok == [doc[i] EXCEPT !.activation = "no", !.created = TRUE, !.state = TRUE, !.opened = b]
             failed == OpenFails(doc[i])
             no == [failed EXCEPT !.created = TRUE]
             d == IF answer THEN ok ELSE no
  <2>1. b \in BOOLEAN /\ (b => doc[i].subscribed /\ doc[i].closing = {})
    BY <1>1 DEF Documents
  <2>2. doc' = [doc EXCEPT ![i] = d] /\ UNCHANGED <<nodeVars, registry, reserved, pubsub>>
    BY <1>1, <1>10 DEF FounderPublished
  <2> HIDE DEF b
  <2>3. /\ ok \in Documents /\ ok.subscribed = doc[i].subscribed /\ ok.on = doc[i].on
        /\ ok.closing = doc[i].closing /\ ok.opened = b
        /\ ok.validator = doc[i].validator /\ ok.stranded = doc[i].stranded /\ ok.activation = "no"
    BY <1>1, <2>1 DEF Documents
  <2>4. /\ failed \in Documents /\ failed.subscribed = doc[i].subscribed /\ failed.on = doc[i].on
        /\ failed.validator = doc[i].validator /\ failed.closing = doc[i].closing \cup {"failed"}
        /\ failed.opened = FALSE /\ failed.stranded = doc[i].stranded /\ failed.activation = "failing"
    BY <1>1, FailingKeeps
  <2> HIDE DEF failed
  <2>5. /\ no \in Documents /\ no.subscribed = doc[i].subscribed /\ no.on = doc[i].on
        /\ no.closing = doc[i].closing \cup {"failed"} /\ no.opened = FALSE
        /\ no.validator = doc[i].validator /\ no.stranded = doc[i].stranded /\ no.activation = "failing"
    BY <2>4 DEF Documents
  <2> HIDE DEF ok, no
  <2>6. /\ d \in Documents /\ d.subscribed = doc[i].subscribed /\ d.on = doc[i].on
        /\ doc[i].closing \subseteq d.closing /\ (d.opened => d.subscribed /\ d.closing = {})
        /\ d.validator = doc[i].validator /\ d.stranded = doc[i].stranded /\ d.activation # "activating"
    BY <2>1, <2>3, <2>5
  <2> HIDE DEF d
  <2> QED
    BY <1>1, <1>3, <2>2, <2>6, LocalKeeps DEF ReservedPath
<1>11. CASE restoreCheckpoint(i)
  <2> DEFINE d == [doc[i] EXCEPT !.ready = TRUE, !.state = TRUE]
  <2>1. /\ d \in Documents /\ d.subscribed = doc[i].subscribed /\ d.on = doc[i].on
        /\ d.closing = doc[i].closing /\ d.opened = doc[i].opened
        /\ d.validator = doc[i].validator /\ d.stranded = doc[i].stranded /\ d.activation = doc[i].activation
    BY <1>1 DEF Documents
  <2>2. doc' = [doc EXCEPT ![i] = d] /\ UNCHANGED <<nodeVars, registry, reserved, pubsub>>
    BY <1>1, <1>11 DEF restoreCheckpoint
  <2> HIDE DEF d
  <2> QED
    BY <1>1, <1>2, <1>3, <2>1, <2>2, LocalKeeps DEF ReservedPath
<1> QED
  BY <1>6, <1>7, <1>8, <1>9, <1>10, <1>11

\* A coordinated document registers, activates its engine and subscribes the node
\* it registered on.
LEMMA CoordinatedKeeps ==
    ASSUME SessionInv, NEW i \in Instances, NEW answer \in BOOLEAN,
           AuthorizationEnds(i, answer) \/ EngineActivates(i, answer)
    PROVE  SessionInv'
<1>1. doc[i] \in Documents /\ doc \in [Instances -> Documents] /\ reserved \in Instances \cup {None} /\ ReservedPath
  BY ShapeOf
<1>2. RouteExact(i)
  BY ShapeOf
<1> DEFINE failed == OpenFails(doc[i])
<1>3. /\ failed \in Documents /\ failed.subscribed = doc[i].subscribed /\ failed.on = doc[i].on
      /\ failed.validator = doc[i].validator /\ failed.closing = doc[i].closing \cup {"failed"}
      /\ failed.opened = FALSE /\ failed.stranded = doc[i].stranded /\ failed.activation = "failing"
  BY <1>1, FailingKeeps
<1> HIDE DEF failed
<1>4. CASE AuthorizationEnds(i, answer)
  <2>1. UNCHANGED <<nodeVars, reserved, pubsub>> /\ doc[i].activation = "authorizing"
    BY <1>4 DEF AuthorizationEnds
  <2>2. CASE /\ registry' = registry
             /\ \/ doc' = [doc EXCEPT ![i].activation = "no"]
                \/ doc' = [doc EXCEPT ![i].activation = "no", ![i].engineClosed = TRUE]
    <3>1. PICK closed \in BOOLEAN :
            doc' = [doc EXCEPT ![i] = [doc[i] EXCEPT !.activation = "no", !.engineClosed = closed]]
      <4>1. CASE doc' = [doc EXCEPT ![i].activation = "no"]
        <5>1. doc' = [doc EXCEPT ![i] = [doc[i] EXCEPT !.activation = "no", !.engineClosed = doc[i].engineClosed]]
              /\ doc[i].engineClosed \in BOOLEAN
          BY <1>1, <4>1 DEF Documents
        <5> QED
          BY <5>1
      <4>2. CASE doc' = [doc EXCEPT ![i].activation = "no", ![i].engineClosed = TRUE]
        <5>1. doc' = [doc EXCEPT ![i] = [doc[i] EXCEPT !.activation = "no", !.engineClosed = TRUE]]
          BY <1>1, <4>2
        <5> QED
          BY <5>1
      <4> QED
        BY <2>2, <4>1, <4>2
    <3> DEFINE d == [doc[i] EXCEPT !.activation = "no", !.engineClosed = closed]
    <3>2. /\ d \in Documents /\ d.subscribed = doc[i].subscribed /\ d.on = doc[i].on
          /\ d.closing = doc[i].closing /\ d.opened = doc[i].opened
          /\ d.validator = doc[i].validator /\ d.stranded = doc[i].stranded /\ d.activation = "no"
      BY <1>1 DEF Documents
    <3>3. doc' = [doc EXCEPT ![i] = d]
      BY <3>1
    <3> HIDE DEF d
    <3> QED
      BY <1>1, <1>2, <2>1, <2>2, <3>2, <3>3, LocalKeeps DEF ReservedPath, RouteExact
  <2>3. CASE /\ node # 0 /\ CanRegister(i) /\ registry' = i
             /\ \/ doc' = [doc EXCEPT ![i] = failed]
                \/ doc' = [doc EXCEPT ![i] = [doc[i] EXCEPT !.activation = "activating", !.on = node]]
    <3>1. /\ registry = None /\ reserved \in {None, i} /\ node \in 1..MaxNodes
          /\ pubsub' \in [1..MaxNodes -> Pubsubs]
      BY <2>1, <2>3, SessionConsts DEF CanRegister, SessionInv, SessionShape
    <3>2. ~doc[i].subscribed /\ ~doc[i].validator /\ ~doc[i].opened
      BY <1>2, <3>1, SessionConsts DEF RouteExact, Subscribed
    <3>3. CASE doc' = [doc EXCEPT ![i] = failed]
      <4>1. doc'[i] = failed
        BY <1>1, <3>3
      <4>2. RouteExact(i)'
        BY <1>3, <3>2, <4>1 DEF RouteExact
      <4> QED
        BY <1>3, <2>1, <2>3, <3>1, <3>3, <4>2, RegisteredKeeps
    <3>4. CASE doc' = [doc EXCEPT ![i] = [doc[i] EXCEPT !.activation = "activating", !.on = node]]
      <4> DEFINE d == [doc[i] EXCEPT !.activation = "activating", !.on = node]
      <4>1. node \in 0..MaxNodes
        BY <3>1, SessionConsts
      <4>2. /\ d \in Documents /\ d.subscribed = doc[i].subscribed /\ d.on = node
            /\ d.opened = doc[i].opened /\ d.validator = doc[i].validator /\ d.activation = "activating"
        BY <1>1, <4>1 DEF Documents
      <4>3. doc' = [doc EXCEPT ![i] = d] /\ doc'[i] = d
        BY <1>1, <3>4
      <4> HIDE DEF d
      <4>4. RouteExact(i)'
        BY <2>3, <3>1, <3>2, <4>2, <4>3 DEF RouteExact
      <4> QED
        BY <2>1, <2>3, <3>1, <4>2, <4>3, <4>4, RegisteredKeeps
    <3> QED
      BY <2>3, <3>3, <3>4
  <2> QED
    BY <1>1, <1>4, <2>2, <2>3 DEF AuthorizationEnds, failed
<1>5. CASE EngineActivates(i, answer)
  <2>1. /\ UNCHANGED <<nodeVars, registry, reserved>> /\ doc[i].activation = "activating"
        /\ registry = i /\ ~doc[i].subscribed /\ ~doc[i].validator /\ ~doc[i].opened
        /\ doc[i].on \in 1..MaxNodes
    BY <1>2, <1>5 DEF EngineActivates, RouteExact
  <2> DEFINE n == doc[i].on
             made == Listens(doc[i])
             heard == pubsub[n].listeners \cup {<<i, made.listening>>}
  <2>2. CASE doc' = [doc EXCEPT ![i] = failed] /\ pubsub' = pubsub
    <3>1. doc'[i] = failed /\ pubsub' \in [1..MaxNodes -> Pubsubs]
      BY <1>1, <2>2 DEF SessionInv, SessionShape
    <3>2. RouteExact(i)'
      BY <1>3, <2>1, <3>1 DEF RouteExact
    <3> QED
      BY <1>3, <2>1, <2>2, <3>1, <3>2, RegisteredKeeps
  <2>3. CASE doc[i].handlers < MaxHandlers
    <3>1. /\ made \in Documents /\ made.listening \in 1..MaxHandlers
          /\ made.subscribed = doc[i].subscribed /\ made.on = doc[i].on /\ made.validator = doc[i].validator
          /\ made.closing = doc[i].closing /\ made.opened = doc[i].opened
      BY <1>1, <2>3, ListensKeeps
    <3> HIDE DEF made
    <3>2. <<i, made.listening>> \in Instances \X (1..MaxHandlers)
      BY <3>1
    <3>3. pubsub[n] \in Pubsubs /\ pubsub \in [1..MaxNodes -> Pubsubs]
      BY <2>1 DEF SessionInv, SessionShape
    <3>4. heard \in SUBSET (Instances \X (1..MaxHandlers)) /\ <<i, made.listening>> \in heard
      BY <3>2, <3>3 DEF Pubsubs
    <3> HIDE DEF heard
    <3>5. CASE /\ pubsub' = [pubsub EXCEPT ![n].listeners = heard]
               /\ doc' = [doc EXCEPT ![i] = OpenFails(made)]
      <4>1. pubsub' \in [1..MaxNodes -> Pubsubs]
        BY <2>1, <3>3, <3>4, <3>5 DEF Pubsubs
      <4> DEFINE e == OpenFails(made)
      <4>2. /\ e \in Documents /\ e.subscribed = made.subscribed /\ e.validator = made.validator
            /\ e.closing = made.closing \cup {"failed"} /\ e.opened = FALSE /\ e.activation = "failing"
        BY <3>1, FailingKeeps
      <4>3. doc' = [doc EXCEPT ![i] = e]
        BY <3>5
      <4> HIDE DEF e
      <4>4. doc'[i] = e
        BY <1>1, <4>3
      <4>5. RouteExact(i)'
        BY <2>1, <3>1, <4>2, <4>4 DEF RouteExact
      <4> QED
        BY <2>1, <4>1, <4>2, <4>3, <4>5, RegisteredKeeps
    <3>6. CASE /\ pubsub' = [pubsub EXCEPT ![n].listeners = heard, ![n].topic = TRUE]
               /\ doc' = [doc EXCEPT ![i] = [made EXCEPT !.activation = "no", !.subscribed = TRUE,
                                                         !.opened = (doc[i].closing = {})]]
      <4> DEFINE b == doc[i].closing = {}
                 d == [made EXCEPT !.activation = "no", !.subscribed = TRUE, !.opened = b]
      <4>1. b \in BOOLEAN /\ doc' = [doc EXCEPT ![i] = d]
        BY <3>6
      <4>2. b => doc[i].closing = {}
        OBVIOUS
      <4> HIDE DEF b
      <4>3. /\ d \in Documents /\ d.subscribed = TRUE /\ d.on = n /\ d.closing = doc[i].closing
            /\ d.activation = "no" /\ d.opened = b /\ d.validator = doc[i].validator
        BY <3>1, <4>1 DEF Documents
      <4> HIDE DEF d
      <4>4. doc'[i] = d
        BY <1>1, <4>1
      <4>5. /\ pubsub' \in [1..MaxNodes -> Pubsubs]
            /\ pubsub'[n].listeners = heard /\ pubsub'[n].topic = TRUE
        BY <2>1, <3>3, <3>4, <3>6 DEF Pubsubs
      <4>6. Subscribed(i)'
        BY <2>1, <3>1, <3>4, <4>3, <4>4, <4>5 DEF Subscribed
      <4>7. RouteExact(i)'
        BY <2>1, <4>2, <4>3, <4>4, <4>6 DEF RouteExact
      <4> QED
        BY <2>1, <4>1, <4>3, <4>5, <4>7, RegisteredKeeps
    <3> QED
      BY <1>5, <2>2, <2>3, <3>5, <3>6 DEF EngineActivates, failed, heard, made
  <2> QED
    BY <1>5, <2>2, <2>3 DEF EngineActivates, failed
<1> QED
  BY <1>4, <1>5

\* Invitations reserve a free path, and give it back; close() only announces.
LEMMA AnnouncementKeeps ==
    ASSUME SessionInv, NEW i \in Instances, NEW ok \in BOOLEAN,
           acceptInvitation(i) \/ AcceptanceEnds(i, ok) \/ close(i)
    PROVE  SessionInv'
<1>1. doc[i] \in Documents /\ doc \in [Instances -> Documents] /\ reserved \in Instances \cup {None} /\ ReservedPath
  BY ShapeOf
<1>2. doc[i].opened => doc[i].subscribed /\ doc[i].closing = {}
  BY ShapeOf DEF RouteExact
<1>3. CASE acceptInvitation(i)
  <2> DEFINE d == [doc[i] EXCEPT !.activation = "accepting"]
  <2>1. /\ d \in Documents /\ d.subscribed = doc[i].subscribed /\ d.on = doc[i].on
        /\ d.closing = doc[i].closing /\ d.opened = doc[i].opened
        /\ d.validator = doc[i].validator /\ d.stranded = doc[i].stranded /\ d.activation = "accepting"
    BY <1>1 DEF Documents
  <2>2. doc' = [doc EXCEPT ![i] = d] /\ UNCHANGED <<nodeVars, registry, pubsub>>
    BY <1>1, <1>3 DEF acceptInvitation
  <2>4. doc[i].activation = "no"
    BY <1>3 DEF acceptInvitation, NewDocument
  <2>3. reserved' \in Instances \cup {None} /\ ReservedPath'
    BY <1>3 DEF acceptInvitation, ReservedPath
  <2> HIDE DEF d
  <2> QED
    BY <1>2, <2>1, <2>2, <2>3, <2>4, LocalKeeps
<1>4. CASE AcceptanceEnds(i, ok)
  <2> DEFINE b == doc[i].subscribed /\ doc[i].closing = {}
             yes == [doc[i] EXCEPT !.activation = "no", !.opened = b]
             no == OpenFails(doc[i])
             d == IF ok THEN yes ELSE no
  <2>1. b \in BOOLEAN /\ (b => doc[i].subscribed /\ doc[i].closing = {})
    BY <1>1 DEF Documents
  <2>2. /\ doc' = [doc EXCEPT ![i] = d] /\ UNCHANGED <<nodeVars, registry, pubsub>>
        /\ doc[i].activation # "activating"
    BY <1>1, <1>4 DEF AcceptanceEnds
  <2>3. reserved' \in Instances \cup {None} /\ ReservedPath'
    BY <1>1, <1>4 DEF AcceptanceEnds, ReservedPath
  <2> HIDE DEF b
  <2>4. /\ yes \in Documents /\ yes.subscribed = doc[i].subscribed /\ yes.on = doc[i].on
        /\ yes.closing = doc[i].closing /\ yes.opened = b
        /\ yes.validator = doc[i].validator /\ yes.stranded = doc[i].stranded /\ yes.activation = "no"
    BY <1>1, <2>1 DEF Documents
  <2>5. /\ no \in Documents /\ no.subscribed = doc[i].subscribed /\ no.on = doc[i].on
        /\ no.opened = FALSE /\ no.closing = doc[i].closing \cup {"failed"}
        /\ no.validator = doc[i].validator /\ no.stranded = doc[i].stranded /\ no.activation = "failing"
    BY <1>1, FailingKeeps
  <2> HIDE DEF yes, no
  <2>6. /\ d \in Documents /\ d.subscribed = doc[i].subscribed /\ d.on = doc[i].on
        /\ doc[i].closing \subseteq d.closing /\ (d.opened => d.subscribed /\ d.closing = {})
        /\ d.validator = doc[i].validator /\ d.stranded = doc[i].stranded /\ d.activation # "activating"
    BY <2>1, <2>4, <2>5
  <2> HIDE DEF d
  <2> QED
    BY <2>2, <2>3, <2>6, LocalKeeps
<1>5. CASE close(i)
  <2> DEFINE closed == doc[i].engineClosed \/ doc[i].kind = "coordinated"
             d == [doc[i] EXCEPT !.closing = @ \cup {"called"}, !.opened = FALSE, !.engineClosed = closed]
  <2>1. closed \in BOOLEAN
    BY <1>1 DEF Documents
  <2>2. doc' = [doc EXCEPT ![i] = d] /\ UNCHANGED <<nodeVars, registry, reserved, pubsub>>
    BY <1>1, <1>5 DEF close
  <2> HIDE DEF closed
  <2>3. /\ d \in Documents /\ d.subscribed = doc[i].subscribed /\ d.on = doc[i].on
        /\ d.closing = doc[i].closing \cup {"called"} /\ d.opened = FALSE
        /\ d.validator = doc[i].validator /\ d.stranded = doc[i].stranded /\ d.activation = doc[i].activation
    BY <1>1, <2>1 DEF Documents
  <2> HIDE DEF d
  <2> QED
    BY <1>1, <2>2, <2>3, LocalKeeps DEF ReservedPath
<1> QED
  BY <1>3, <1>4, <1>5

\* What the end of a close leaves of the instance.
LEMMA AfterCloseTyped ==
    ASSUME NEW d \in Documents, NEW caller \in {"failed", "called"}
    PROVE  /\ AfterClose(d, caller) \in Documents /\ AfterClose(d, caller).subscribed = d.subscribed
           /\ AfterClose(d, caller).opened = d.opened /\ AfterClose(d, caller).on = d.on
           /\ AfterClose(d, caller).validator = d.validator
           /\ AfterClose(d, caller).closing = d.closing \ {caller}
           /\ AfterClose(d, caller).activation \in {"no", d.activation}
<1> DEFINE what == IF caller = "failed" THEN "no" ELSE d.activation
           left == d.closing \ {caller}
           e == [d EXCEPT !.closing = left, !.activation = what]
<1>1. AfterClose(d, caller) = e
  BY DEF AfterClose, Documents
<1>2. what \in {"no", d.activation}
  OBVIOUS
<1>3. left \in SUBSET {"failed", "called"}
  BY DEF Documents
<1> HIDE DEF what, left
<1>4. e \in Documents /\ e.closing = left /\ e.activation = what
  BY <1>2, <1>3 DEF Documents
<1>5. /\ e.subscribed = d.subscribed /\ e.opened = d.opened
      /\ e.on = d.on /\ e.validator = d.validator
  BY DEF Documents
<1> HIDE DEF e
<1> QED
  BY <1>1, <1>2, <1>4, <1>5 DEF left

\* A close takes away the route of its own instance only.
LEMMA CloseKeeps ==
    ASSUME SessionInv, NEW i \in Instances, NEW caller \in {"failed", "called"},
           CloseEnds(i, caller) \/ CloseThrows(i, caller)
    PROVE  /\ SessionInv'
           /\ \A j \in Instances : doc[j].subscribed /\ j # i =>
                /\ registry' = registry
                /\ pubsub'[doc[j].on].topic = pubsub[doc[j].on].topic
                /\ pubsub'[doc[j].on].validator = pubsub[doc[j].on].validator
<1> DEFINE d == doc[i]
           ended == AfterClose(d, caller)
<1>1. /\ d \in Documents /\ doc \in [Instances -> Documents] /\ caller \in d.closing
      /\ UNCHANGED <<node, nodes, initializing>> /\ RouteExact(i) /\ d.activation # "activating"
      /\ reserved \in Instances \cup {None} /\ reserved' \in {None, reserved}
  BY ShapeOf DEF CloseEnds, CloseThrows, MayEnd, ReservedAfter, nodeVars
<1>2. /\ ended \in Documents /\ ended.subscribed = d.subscribed /\ ended.opened = d.opened /\ ended.on = d.on
      /\ ended.validator = d.validator /\ ended.activation # "activating"
  BY <1>1, AfterCloseTyped
<1>3. ~d.opened
  BY <1>1 DEF RouteExact
<1> HIDE DEF ended
<1>4. CASE CloseThrows(i, caller)
  <2> DEFINE b == registry = i /\ ~d.subscribed
             e == [ended EXCEPT !.stranded = b]
  <2>1. /\ b \in BOOLEAN /\ doc' = [doc EXCEPT ![i] = e] /\ UNCHANGED <<registry, pubsub>>
        /\ (registry = i /\ ~d.subscribed => b)
    BY <1>4 DEF CloseThrows, ended
  <2> HIDE DEF b
  <2>2. /\ e \in Documents /\ e.subscribed = d.subscribed /\ e.opened = d.opened /\ e.on = d.on
        /\ e.validator = d.validator /\ e.activation # "activating" /\ e.stranded = b
    BY <1>2, <2>1 DEF Documents
  <2> HIDE DEF e
  <2>3. /\ doc' \in [Instances -> Documents] /\ doc'[i] = e
        /\ \A j \in Instances : j # i => doc'[j] = doc[j]
    BY <1>1, <2>1, <2>2
  <2>4. SessionShape'
    BY <1>1, <2>1, <2>3 DEF SessionInv, SessionShape
  <2>5. RouteExact(i)'
    BY <1>1, <1>3, <2>1, <2>2, <2>3 DEF RouteExact, Subscribed
  <2>6. RoutesExact'
    BY <2>1, <2>3, <2>5, OtherRoutes DEF RoutesExact
  <2> QED
    BY <1>1, <2>1, <2>4, <2>6 DEF SessionInv, ReservedPath
<1>5. CASE CloseEnds(i, caller)
  <2> DEFINE gone == [ended EXCEPT !.subscribed = FALSE, !.validator = FALSE, !.stranded = FALSE]
  <2>1. /\ doc' = [doc EXCEPT ![i] = gone] /\ registry' = (IF registry = i THEN None ELSE registry)
        /\ d.listening = 0 \/ node # 0
        /\ pubsub' = IF d.listening = 0 THEN pubsub
                     ELSE [pubsub EXCEPT ![node] =
                             [listeners |-> @.listeners \ {<<i, d.listening>>},
                              topic |-> TopicAfterClose(i),
                              validator |-> IF d.validator /\ @.validator = i THEN None ELSE @.validator]]
    BY <1>5 DEF CloseEnds, unregisterDocument, ended
  <2>2. /\ gone \in Documents /\ gone.subscribed = FALSE /\ gone.opened = FALSE /\ gone.validator = FALSE
        /\ gone.activation # "activating"
    BY <1>2, <1>3 DEF Documents
  <2> HIDE DEF gone
  <2>3. /\ doc' \in [Instances -> Documents] /\ doc'[i] = gone
        /\ \A j \in Instances : j # i => doc'[j] = doc[j]
    BY <1>1, <2>1, <2>2
  <2>4. registry' \in Instances \cup {None} /\ registry' # i
    BY <2>1, SessionConsts DEF SessionInv, SessionShape
  <2>5. pubsub' \in [1..MaxNodes -> Pubsubs]
    <3>1. CASE d.listening = 0
      BY <2>1, <3>1 DEF SessionInv, SessionShape
    <3>2. CASE d.listening # 0
      <4>1. node \in 1..MaxNodes /\ pubsub[node] \in Pubsubs /\ d.subscribed \in BOOLEAN
        BY <1>1, <2>1, <3>2, SessionConsts DEF SessionInv, SessionShape, Documents
      <4>2. TopicAfterClose(i) \in BOOLEAN
        BY <4>1 DEF TopicAfterClose, Pubsubs
      <4>3. [listeners |-> pubsub[node].listeners \ {<<i, d.listening>>}, topic |-> TopicAfterClose(i),
             validator |-> IF d.validator /\ pubsub[node].validator = i THEN None ELSE pubsub[node].validator]
            \in Pubsubs
        BY <4>1, <4>2 DEF Pubsubs
      <4> QED
        BY <2>1, <3>2, <4>1, <4>3 DEF SessionInv, SessionShape
    <3> QED
      BY <3>1, <3>2
  <2>6. ASSUME NEW j \in Instances, j # i, doc[j].subscribed
        PROVE  /\ registry' = registry /\ registry = j
               /\ pubsub'[doc[j].on].topic = pubsub[doc[j].on].topic
               /\ pubsub'[doc[j].on].validator = pubsub[doc[j].on].validator
               /\ \A h : <<j, h>> \in pubsub[doc[j].on].listeners => <<j, h>> \in pubsub'[doc[j].on].listeners
    <3>1. Subscribed(j)
      BY <2>6, ShapeOf DEF RouteExact
    <3>2. registry = j /\ ~d.subscribed /\ ~d.validator /\ registry' = registry
      BY <1>1, <2>1, <2>6, <3>1 DEF RouteExact, Subscribed
    <3>3. CASE d.listening = 0
      BY <2>1, <3>2, <3>3
    <3>4. CASE d.listening # 0
      <4>1. node \in 1..MaxNodes /\ pubsub \in [1..MaxNodes -> Pubsubs] /\ doc[j].on \in 1..MaxNodes
        BY <2>1, <3>1, <3>4, SessionConsts DEF Subscribed, SessionInv, SessionShape
      <4>2. /\ pubsub'[node].listeners = pubsub[node].listeners \ {<<i, d.listening>>}
            /\ pubsub'[node].topic = pubsub[node].topic
            /\ pubsub'[node].validator = pubsub[node].validator
            /\ \A n \in 1..MaxNodes : n # node => pubsub'[n] = pubsub[n]
        BY <2>1, <3>2, <3>4, <4>1 DEF TopicAfterClose
      <4>3. \A h : <<j, h>> # <<i, d.listening>>
        BY <2>6
      <4>4. CASE doc[j].on = node
        BY <3>2, <4>2, <4>3, <4>4
      <4>5. CASE doc[j].on # node
        BY <3>2, <4>1, <4>2, <4>5
      <4> QED
        BY <4>4, <4>5
    <3> QED
      BY <3>3, <3>4
  <2>7. SessionShape'
    BY <1>1, <2>3, <2>4, <2>5 DEF SessionInv, SessionShape
  <2>8. ASSUME NEW j \in Instances PROVE RouteExact(j)'
    <3>1. CASE j = i
      BY <2>2, <2>3, <2>4, <3>1 DEF RouteExact
    <3>2. CASE j # i
      <4>1. RouteExact(j) /\ doc'[j] = doc[j]
        BY <2>3, <3>2, ShapeOf
      <4>2. registry' = j <=> registry = j
        BY <2>1, <3>2, SessionConsts
      <4>3. doc[j].subscribed => Subscribed(j)'
        BY <2>6, <3>2, <4>1 DEF RouteExact, Subscribed
      <4> QED
        BY <4>1, <4>2, <4>3 DEF RouteExact
    <3> QED
      BY <3>1, <3>2
  <2>9. ReservedPath'
    BY <1>1, <2>1 DEF SessionInv, ReservedPath
  <2> QED
    BY <2>6, <2>7, <2>8, <2>9 DEF SessionInv, RoutesExact
<1> QED
  BY <1>4, <1>5

LEMMA SessionInvInit == SessionInit => SessionInv
<1> SUFFICES ASSUME SessionInit PROVE SessionInv
  OBVIOUS
<1>1. NoPubsub \in Pubsubs
  BY DEF NoPubsub, Pubsubs, None
<1>2. \A i \in Instances : doc[i] \in {NewDocument("legacy"), NewDocument("coordinated")}
  BY DEF SessionInit
<1>3. SessionShape
  BY <1>1, NewDocumentTyped, SessionConsts DEF SessionInit, SessionShape
<1>4. \A i \in Instances : /\ ~doc[i].subscribed /\ ~doc[i].opened /\ ~doc[i].validator /\ registry # i
                           /\ doc[i].activation = "no"
  BY <1>2, SessionConsts DEF SessionInit, NewDocument
<1> QED
  BY <1>3, <1>4 DEF SessionInit, SessionInv, RoutesExact, RouteExact, ReservedPath

LEMMA SessionInvStep == SessionInv /\ [SessionNext]_sessionVars => SessionInv'
<1> SUFFICES ASSUME SessionInv, [SessionNext]_sessionVars PROVE SessionInv'
  OBVIOUS
<1>1. CASE \/ initialize \/ NodeStopped \/ createAndStartHeliaNode \/ StartFails
           \/ _registerSharedProtocolHandlers
  BY <1>1, NodeKeeps
<1>2. ASSUME NEW i \in Instances, NEW answer \in BOOLEAN,
             \/ open(i) \/ LoadEnds(i, answer) \/ create(i) \/ ValidationEnds(i, answer)
             \/ FounderPublished(i, answer) \/ restoreCheckpoint(i) \/ BootstrapApplied(i)
             \/ _openCoordinated(i)
      PROVE  SessionInv'
  BY <1>2, ActivationKeeps
<1>3. ASSUME NEW i \in Instances, NEW answer \in BOOLEAN,
             AuthorizationEnds(i, answer) \/ EngineActivates(i, answer)
      PROVE  SessionInv'
  BY <1>3, CoordinatedKeeps
<1>4. ASSUME NEW i \in Instances, NEW ok \in BOOLEAN,
             acceptInvitation(i) \/ AcceptanceEnds(i, ok) \/ close(i)
      PROVE  SessionInv'
  BY <1>4, AnnouncementKeeps
<1>5. ASSUME NEW i \in Instances, NEW caller \in {"failed", "called"},
             CloseEnds(i, caller) \/ CloseThrows(i, caller)
      PROVE  SessionInv'
  BY <1>5, CloseKeeps
<1>6. CASE UNCHANGED sessionVars
  BY <1>6 DEF sessionVars, SessionInv, SessionShape, RoutesExact, RouteExact, Subscribed, ReservedPath
<1> QED
  BY <1>1, <1>2, <1>3, <1>4, <1>5, <1>6 DEF SessionNext

LEMMA SessionInvSafe == SessionInv => RegistryExact /\ ReservedPath /\ OpenListens
<1> SUFFICES ASSUME SessionInv PROVE RegistryExact /\ OpenListens
  BY DEF SessionInv
<1>1. RegistryExact
  BY DEF SessionInv, RoutesExact, RouteExact, RegistryExact, Quiet, Subscribed
<1>2. OpenListens
  BY DEF SessionInv, RoutesExact, RouteExact, OpenListens, Subscribed
<1> QED
  BY <1>1, <1>2

\* Only an instance itself, and a close of it, touch its route.
LEMMA SessionStepSafe ==
    ASSUME SessionInv, [SessionNext]_sessionVars, NEW i \in Instances,
           registry = i, doc[i].subscribed, doc'[i] = doc[i]
    PROVE  /\ registry' = i
           /\ pubsub'[doc[i].on].topic = pubsub[doc[i].on].topic
           /\ pubsub'[doc[i].on].validator = pubsub[doc[i].on].validator
<1>1. CASE UNCHANGED <<registry, pubsub>>
  BY <1>1
<1>2. ASSUME NEW j \in Instances, NEW d, NEW after, Register(j, d, after)
      PROVE  UNCHANGED <<registry, pubsub>>
  BY <1>2, SessionConsts DEF Register, CanRegister
<1>3. ASSUME NEW j \in Instances, NEW allowed \in BOOLEAN, AuthorizationEnds(j, allowed)
      PROVE  UNCHANGED <<registry, pubsub>>
  BY <1>3, SessionConsts DEF AuthorizationEnds, CanRegister
<1>4. ASSUME NEW j \in Instances, NEW ok \in BOOLEAN PROVE ~EngineActivates(j, ok)
  <2> SUFFICES ASSUME EngineActivates(j, ok) PROVE FALSE
    OBVIOUS
  <2>1. registry = j /\ ~doc[j].subscribed
    BY ShapeOf DEF EngineActivates, RouteExact
  <2> QED
    BY <2>1
<1>5. ASSUME NEW j \in Instances, NEW caller \in {"failed", "called"}, CloseEnds(j, caller)
      PROVE  /\ registry' = i
             /\ pubsub'[doc[i].on].topic = pubsub[doc[i].on].topic
             /\ pubsub'[doc[i].on].validator = pubsub[doc[i].on].validator
  <2>1. j # i
    <3> SUFFICES ASSUME j = i PROVE FALSE
      OBVIOUS
    <3>1. doc[i] \in Documents /\ doc \in [Instances -> Documents] /\ caller \in doc[i].closing
      BY <1>5, ShapeOf DEF CloseEnds, MayEnd
    <3> DEFINE ended == AfterClose(doc[i], caller)
               gone == [ended EXCEPT !.subscribed = FALSE, !.validator = FALSE, !.stranded = FALSE]
    <3>2. doc' = [doc EXCEPT ![i] = gone]
      BY <1>5 DEF CloseEnds
    <3>3. ended \in Documents /\ ended.closing = doc[i].closing \ {caller}
      BY <3>1, AfterCloseTyped
    <3> HIDE DEF ended
    <3>4. gone.closing = doc[i].closing \ {caller}
      BY <3>3 DEF Documents
    <3> HIDE DEF gone
    <3>5. caller \notin doc'[i].closing
      BY <3>1, <3>2, <3>4
    <3> QED
      BY <3>1, <3>5
  <2> QED
    BY <1>5, <2>1, CloseKeeps
<1> QED
  BY <1>1, <1>2, <1>3, <1>4, <1>5
     DEF SessionNext, sessionVars, initialize, NodeStopped, createAndStartHeliaNode, StartFails,
         _registerSharedProtocolHandlers, open, LoadEnds, create, ValidationEnds, FounderPublished,
         restoreCheckpoint, _openCoordinated, acceptInvitation, BootstrapApplied, AcceptanceEnds, close,
         CloseThrows, Activates

-----------------------------------------------------------------------------
(* Transactions                                                            *)

InOrder(s) == \A i, j \in 1..Len(s) : i < j => s[i] < s[j]
Elements(s) == {s[i] : i \in 1..Len(s)}
Before(s, t) == \A x \in Elements(s), y \in Elements(t) : x < y

\* Every function added is somewhere; what is committed, in the commit and still
\* pending follow each other in the order of addition.
FunctionsKept ==
    /\ 1..added \subseteq Elements(applied) \cup Elements(aborted) \cup Elements(pendingFns) \cup Elements(batch)
    /\ InOrder(applied) /\ InOrder(batch) /\ InOrder(pendingFns)
    /\ Before(applied, batch) /\ Before(applied, pendingFns)

\* Where functions may be pending, and how a batch is taken of them: a legacy
\* document leaves them pending until the commit ends, a coordinated one does not.
BatchShape ==
    /\ added \in Nat /\ ending \in Nat
    /\ {inTransaction, committing, coordinated} \subseteq BOOLEAN
    /\ applied \in Seq(Nat) /\ aborted \in Seq(Nat) /\ pendingFns \in Seq(Nat) /\ batch \in Seq(Nat)
    /\ Elements(applied) \cup Elements(pendingFns) \cup Elements(batch) \subseteq 1..added
    /\ ~inTransaction => pendingFns = <<>>
    /\ ~committing => batch = <<>>
    /\ committing => pendingFns = IF coordinated THEN <<>> ELSE batch
    /\ committing /\ ~coordinated => inTransaction
    /\ coordinated => ending = 0

TransactionInv == BatchShape /\ FunctionsKept

LEMMA EmptyOrder ==
    /\ Elements(<<>>) = {} /\ InOrder(<<>>)
    /\ \A s : Before(s, <<>>) /\ Before(<<>>, s)
<1>1. Elements(<<>>) = {}
  BY DEF Elements
<1> QED
  BY <1>1 DEF InOrder, Before

\* Appending the next number to an ordered sequence of earlier ones.
LEMMA AppendOrder ==
    ASSUME NEW s \in Seq(Nat), NEW n \in Nat, Elements(s) \subseteq 1..n, InOrder(s)
    PROVE  /\ Append(s, n + 1) \in Seq(Nat) /\ InOrder(Append(s, n + 1))
           /\ Elements(Append(s, n + 1)) = Elements(s) \cup {n + 1}
<1> DEFINE t == Append(s, n + 1)
<1>1. /\ t \in Seq(Nat) /\ Len(t) = Len(s) + 1 /\ t[Len(s) + 1] = n + 1
      /\ \A i \in 1..Len(s) : t[i] = s[i] /\ s[i] \in Nat
      /\ Len(s) \in Nat
  OBVIOUS
<1> HIDE DEF t
<1>2. \A i \in 1..Len(s) : s[i] <= n
  BY <1>1 DEF Elements
<1>3. InOrder(t)
  <2> SUFFICES ASSUME NEW i \in 1..Len(t), NEW j \in 1..Len(t), i < j
               PROVE  t[i] < t[j]
    BY DEF InOrder
  <2>1. i \in 1..Len(s) /\ t[i] = s[i] /\ s[i] <= n /\ s[i] \in Nat
    BY <1>1, <1>2
  <2>2. CASE ~(j <= Len(s))
    <3>1. j = Len(s) + 1
      BY <1>1, <2>2
    <3> QED
      BY <1>1, <2>1, <3>1
  <2>3. CASE j <= Len(s)
    <3>1. j \in 1..Len(s)
      BY <1>1, <2>3
    <3>2. t[j] = s[j]
      BY <1>1, <3>1
    <3> QED
      BY <2>1, <3>1, <3>2 DEF InOrder
  <2> QED
    BY <2>2, <2>3
<1>4. Elements(t) = Elements(s) \cup {n + 1}
  <2>1. \A i \in 1..Len(t) : t[i] \in Elements(s) \cup {n + 1}
    BY <1>1 DEF Elements
  <2>2. \A i \in 1..Len(s) : s[i] \in Elements(t)
    BY <1>1 DEF Elements
  <2>3. n + 1 \in Elements(t)
    BY <1>1 DEF Elements
  <2> QED
    BY <2>1, <2>2, <2>3 DEF Elements
<1> QED
  BY <1>1, <1>3, <1>4 DEF t

\* Of two ordered sequences, one before the other, the concatenation is ordered.
LEMMA ConcatOrder ==
    ASSUME NEW s \in Seq(Nat), NEW t \in Seq(Nat)
    PROVE  /\ s \o t \in Seq(Nat) /\ Elements(s \o t) = Elements(s) \cup Elements(t)
           /\ InOrder(s) /\ InOrder(t) /\ Before(s, t) => InOrder(s \o t)
<1> DEFINE u == s \o t
<1>1. /\ u \in Seq(Nat) /\ Len(u) = Len(s) + Len(t) /\ Len(s) \in Nat /\ Len(t) \in Nat
      /\ \A i \in 1..Len(u) : u[i] = IF i <= Len(s) THEN s[i] ELSE t[i - Len(s)]
  OBVIOUS
<1> HIDE DEF u
<1>2. \A i \in 1..Len(s) : i \in 1..Len(u) /\ u[i] = s[i]
  BY <1>1
<1>3. \A i \in 1..Len(t) : i + Len(s) \in 1..Len(u) /\ u[i + Len(s)] = t[i]
  <2> SUFFICES ASSUME NEW i \in 1..Len(t) PROVE i + Len(s) \in 1..Len(u) /\ u[i + Len(s)] = t[i]
    OBVIOUS
  <2>1. i + Len(s) \in 1..Len(u) /\ ~(i + Len(s) <= Len(s)) /\ (i + Len(s)) - Len(s) = i
    BY <1>1
  <2> QED
    BY <1>1, <2>1
<1>4. Elements(u) = Elements(s) \cup Elements(t)
  <2>1. \A i \in 1..Len(u) : u[i] \in Elements(s) \cup Elements(t)
    <3> SUFFICES ASSUME NEW i \in 1..Len(u) PROVE u[i] \in Elements(s) \cup Elements(t)
      OBVIOUS
    <3>1. CASE i <= Len(s)
      BY <1>1, <3>1 DEF Elements
    <3>2. CASE ~(i <= Len(s))
      <4>1. i - Len(s) \in 1..Len(t) /\ u[i] = t[i - Len(s)]
        BY <1>1, <3>2
      <4> QED
        BY <4>1 DEF Elements
    <3> QED
      BY <3>1, <3>2
  <2>2. \A i \in 1..Len(s) : s[i] \in Elements(u)
    BY <1>2 DEF Elements
  <2>3. \A i \in 1..Len(t) : t[i] \in Elements(u)
    BY <1>3 DEF Elements
  <2> QED
    BY <2>1, <2>2, <2>3 DEF Elements
<1>5. ASSUME InOrder(s), InOrder(t), Before(s, t)
      PROVE  InOrder(u)
  <2> SUFFICES ASSUME NEW i \in 1..Len(u), NEW j \in 1..Len(u), i < j
               PROVE  u[i] < u[j]
    BY DEF InOrder
  <2>1. CASE j <= Len(s)
    <3>1. i \in 1..Len(s) /\ j \in 1..Len(s)
      BY <1>1, <2>1
    <3>2. u[i] = s[i] /\ u[j] = s[j] /\ s[i] < s[j]
      BY <1>2, <1>5, <3>1 DEF InOrder
    <3> QED
      BY <3>2
  <2>2. CASE i <= Len(s) /\ ~(j <= Len(s))
    <3>1. i \in 1..Len(s) /\ j - Len(s) \in 1..Len(t) /\ u[i] = s[i] /\ u[j] = t[j - Len(s)]
      <4>1. i \in 1..Len(s) /\ j - Len(s) \in 1..Len(t)
        BY <1>1, <2>2
      <4> QED
        BY <1>1, <1>2, <2>2, <4>1
    <3>2. s[i] \in Elements(s) /\ t[j - Len(s)] \in Elements(t)
      BY <3>1 DEF Elements
    <3> QED
      BY <1>5, <3>1, <3>2 DEF Before
  <2>3. CASE ~(i <= Len(s))
    <3>1. /\ i - Len(s) \in 1..Len(t) /\ j - Len(s) \in 1..Len(t) /\ i - Len(s) < j - Len(s)
          /\ u[i] = t[i - Len(s)] /\ u[j] = t[j - Len(s)]
      <4>1. i - Len(s) \in 1..Len(t) /\ j - Len(s) \in 1..Len(t) /\ i - Len(s) < j - Len(s)
        BY <1>1, <2>3
      <4>2. ~(j <= Len(s))
        BY <1>1, <2>3
      <4> QED
        BY <1>1, <2>3, <4>1, <4>2
    <3> QED
      BY <1>5, <3>1 DEF InOrder
  <2> QED
    BY <1>1, <2>1, <2>2, <2>3
<1> QED
  BY <1>1, <1>4, <1>5 DEF u

LEMMA TransactionInvInit == TransactionInit => TransactionInv
<1> SUFFICES ASSUME TransactionInit PROVE TransactionInv
  OBVIOUS
<1>1. <<>> \in Seq(Nat) /\ 1..0 = {}
  OBVIOUS
<1> QED
  BY <1>1, EmptyOrder DEF TransactionInit, TransactionInv, BatchShape, FunctionsKept

LEMMA AddChangeKeeps ==
    ASSUME TransactionInv, addChange
    PROVE  TransactionInv'
<1>1. /\ inTransaction /\ ~committing /\ batch = <<>> /\ added' = added + 1
      /\ pendingFns' = Append(pendingFns, added + 1)
      /\ UNCHANGED <<coordinated, inTransaction, committing, ending, batch, applied, aborted>>
  BY DEF TransactionInv, BatchShape, addChange, MayAdd
<1>2. /\ added \in Nat /\ pendingFns \in Seq(Nat) /\ Elements(pendingFns) \subseteq 1..added
      /\ InOrder(pendingFns) /\ Elements(applied) \subseteq 1..added
  BY DEF TransactionInv, BatchShape, FunctionsKept
<1>3. /\ pendingFns' \in Seq(Nat) /\ InOrder(pendingFns')
      /\ Elements(pendingFns') = Elements(pendingFns) \cup {added + 1}
  BY <1>1, <1>2, AppendOrder
<1>4. 1..(added + 1) = (1..added) \cup {added + 1}
  BY <1>2
<1>5. Before(applied, pendingFns')
  <2>1. \A x \in Elements(applied) : x < added + 1
    BY <1>2
  <2> QED
    BY <1>3, <2>1 DEF Before, TransactionInv, FunctionsKept
<1>6. BatchShape'
  BY <1>1, <1>2, <1>3, <1>4 DEF TransactionInv, BatchShape
<1>7. FunctionsKept'
  <2>1. 1..added' \subseteq Elements(applied) \cup Elements(aborted) \cup Elements(pendingFns') \cup Elements(batch)
    BY <1>1, <1>3, <1>4 DEF TransactionInv, FunctionsKept
  <2> QED
    BY <1>1, <1>3, <1>5, <2>1 DEF TransactionInv, FunctionsKept
<1> QED
  BY <1>6, <1>7 DEF TransactionInv

\* Beginning and ending a transaction move what is pending into the batch, or
\* find nothing pending.
LEMMA BatchKeeps ==
    ASSUME TransactionInv, startChange \/ endChange \/ _endChangeUnlocked
    PROVE  TransactionInv'
<1>1. UNCHANGED <<coordinated, added, applied, aborted>>
  BY DEF startChange, endChange, _endChangeUnlocked
<1>2. \/ pendingFns' = pendingFns /\ batch' = batch
      \/ ~committing /\ pendingFns' = <<>> /\ batch' = pendingFns
      \/ ~committing /\ pendingFns' = pendingFns /\ batch' = pendingFns
  <2>1. CASE startChange
    BY <2>1 DEF startChange, TransactionInv, BatchShape
  <2>2. CASE endChange
    BY <2>2 DEF endChange
  <2>3. CASE _endChangeUnlocked
    BY <2>3 DEF _endChangeUnlocked
  <2> QED
    BY <2>1, <2>2, <2>3
<1>3. FunctionsKept'
  <2>1. ~committing => batch = <<>>
    BY DEF TransactionInv, BatchShape
  <2> QED
    BY <1>1, <1>2, <2>1, EmptyOrder DEF TransactionInv, FunctionsKept
<1>4. BatchShape'
  <2>1. /\ pendingFns' \in Seq(Nat) /\ batch' \in Seq(Nat)
        /\ Elements(pendingFns') \cup Elements(batch') \subseteq 1..added
    BY <1>2, EmptyOrder DEF TransactionInv, BatchShape
  <2>2. CASE startChange
    BY <1>1, <2>1, <2>2 DEF startChange, TransactionInv, BatchShape
  <2>a. /\ added \in Nat /\ ending \in Nat /\ {inTransaction, committing, coordinated} \subseteq BOOLEAN
        /\ applied \in Seq(Nat) /\ aborted \in Seq(Nat) /\ Elements(applied) \subseteq 1..added
        /\ ~inTransaction => pendingFns = <<>>
        /\ ~committing => batch = <<>>
        /\ committing => pendingFns = IF coordinated THEN <<>> ELSE batch
        /\ committing /\ ~coordinated => inTransaction
        /\ coordinated => ending = 0
    BY DEF TransactionInv, BatchShape
  <2>b. ASSUME /\ {inTransaction', committing'} \subseteq BOOLEAN /\ ending' \in Nat
               /\ ~inTransaction' => pendingFns' = <<>>
               /\ ~committing' => batch' = <<>>
               /\ committing' => pendingFns' = IF coordinated THEN <<>> ELSE batch'
               /\ committing' /\ ~coordinated => inTransaction'
               /\ coordinated => ending' = 0
        PROVE  BatchShape'
    BY <1>1, <2>1, <2>a, <2>b DEF BatchShape
  <2>3. CASE endChange
    <3>1. CASE /\ coordinated /\ inTransaction' = FALSE /\ pendingFns' = <<>>
               /\ committing' = (pendingFns # <<>>) /\ batch' = pendingFns /\ ending' = ending
      BY <2>a, <2>b, <3>1
    <3>2. CASE /\ ~coordinated /\ ending' = ending + 1
               /\ UNCHANGED <<inTransaction, pendingFns, committing, batch>>
      BY <2>a, <2>b, <3>2
    <3> QED
      BY <2>3, <3>1, <3>2 DEF endChange
  <2>4. CASE _endChangeUnlocked
    <3>a. ~committing /\ ending' = ending - 1 /\ ending > 0 /\ pendingFns' = pendingFns
      BY <2>4 DEF _endChangeUnlocked
    <3>1. ~committing /\ ending' \in Nat /\ ~coordinated /\ pendingFns' = pendingFns
      BY <2>a, <3>a
    <3>2. CASE /\ inTransaction /\ batch' = pendingFns /\ committing' = TRUE /\ inTransaction' = inTransaction
      BY <2>a, <2>b, <3>1, <3>2
    <3>3. CASE /\ ~inTransaction \/ pendingFns = <<>>
               /\ inTransaction' = FALSE /\ UNCHANGED <<batch, committing>>
      BY <2>a, <2>b, <3>1, <3>3
    <3> QED
      BY <2>4, <3>2, <3>3 DEF _endChangeUnlocked
  <2> QED
    BY <2>2, <2>3, <2>4
<1> QED
  BY <1>3, <1>4 DEF TransactionInv

LEMMA CommitEndsKeeps ==
    ASSUME TransactionInv, NEW succeeds \in BOOLEAN, CommitEnds(succeeds)
    PROVE  TransactionInv'
<1>1. /\ committing /\ ~committing' /\ committing' \in BOOLEAN /\ batch' = <<>>
      /\ UNCHANGED <<coordinated, ending, added>>
      /\ IF coordinated THEN UNCHANGED <<inTransaction, pendingFns>> ELSE inTransaction' = FALSE /\ pendingFns' = <<>>
      /\ \/ applied' = applied \o batch /\ aborted' = aborted
         \/ aborted' = aborted \o batch /\ applied' = applied
  BY DEF CommitEnds
<1>2. /\ applied \in Seq(Nat) /\ aborted \in Seq(Nat) /\ batch \in Seq(Nat)
      /\ InOrder(applied) /\ InOrder(batch) /\ Before(applied, batch)
  BY DEF TransactionInv, BatchShape, FunctionsKept
<1>3. pendingFns' = <<>>
  BY <1>1 DEF TransactionInv, BatchShape
<1>4. /\ applied' \in Seq(Nat) /\ aborted' \in Seq(Nat) /\ InOrder(applied')
      /\ Elements(applied') \cup Elements(aborted') = Elements(applied) \cup Elements(aborted) \cup Elements(batch)
      /\ Elements(applied') \subseteq Elements(applied) \cup Elements(batch)
  <2>1. CASE applied' = applied \o batch /\ aborted' = aborted
    BY <1>2, <2>1, ConcatOrder
  <2>2. CASE aborted' = aborted \o batch /\ applied' = applied
    BY <1>2, <2>2, ConcatOrder
  <2> QED
    BY <1>1, <2>1, <2>2
<1>5. Elements(pendingFns) \subseteq Elements(batch)
  BY <1>1, EmptyOrder DEF TransactionInv, BatchShape
<1>6. FunctionsKept'
  <2>1. 1..added \subseteq Elements(applied') \cup Elements(aborted')
    BY <1>4, <1>5 DEF TransactionInv, FunctionsKept
  <2> QED
    BY <1>1, <1>3, <1>4, <2>1, EmptyOrder DEF FunctionsKept
<1>7. BatchShape'
  <2>1. <<>> \in Seq(Nat)
    OBVIOUS
  <2> QED
    BY <1>1, <1>3, <1>4, <2>1, EmptyOrder DEF TransactionInv, BatchShape
<1> QED
  BY <1>6, <1>7 DEF TransactionInv

LEMMA TransactionInvStep == TransactionInv /\ [TransactionNext]_transactionVars => TransactionInv'
<1> SUFFICES ASSUME TransactionInv, [TransactionNext]_transactionVars PROVE TransactionInv'
  OBVIOUS
<1>1. CASE startChange \/ endChange \/ _endChangeUnlocked
  BY <1>1, BatchKeeps
<1>2. CASE addChange
  BY <1>2, AddChangeKeeps
<1>3. ASSUME NEW succeeds \in BOOLEAN, CommitEnds(succeeds) PROVE TransactionInv'
  BY <1>3, CommitEndsKeeps
<1>4. CASE UNCHANGED transactionVars
  BY <1>4 DEF transactionVars, TransactionInv, BatchShape, FunctionsKept
<1> QED
  BY <1>1, <1>2, <1>3, <1>4 DEF TransactionNext

LEMMA TransactionInvSafe == TransactionInv => NoChangeForgotten
<1> SUFFICES ASSUME TransactionInv PROVE NoChangeForgotten
  OBVIOUS
<1>1. ASSUME NEW f \in 1..added
      PROVE  \/ f \in {applied[i] : i \in 1 .. Len(applied)} \cup {aborted[i] : i \in 1 .. Len(aborted)}
             \/ Occurrences(f, pendingFns) \cup Occurrences(f, batch) # {}
  <2>1. f \in Elements(applied) \cup Elements(aborted) \cup Elements(pendingFns) \cup Elements(batch)
    BY DEF TransactionInv, FunctionsKept
  <2>2. \A s : f \in Elements(s) => Occurrences(f, s) # {}
    BY DEF Elements, Occurrences
  <2> QED
    BY <2>1, <2>2 DEF Elements
<1>2. \A i, j \in 1 .. Len(applied) : i < j => applied[i] < applied[j]
  BY DEF TransactionInv, FunctionsKept, InOrder
<1> QED
  BY <1>1, <1>2 DEF NoChangeForgotten

\* The inductive invariants of instances and transactions.
THEOREM SessionInvariant == SessionSpec => []SessionInv
BY SessionInvInit, SessionInvStep, PTL DEF SessionSpec

THEOREM TransactionInvariant == TransactionSpec => []TransactionInv
BY TransactionInvInit, TransactionInvStep, PTL DEF TransactionSpec

\* Of the instances for one path one is open at a time, registered and heard,
\* whatever the others do and whatever initialize() does meanwhile; every change
\* function is committed in order or aborted with its transaction
\* (registerDocument, unregisterDocument, open, close, endChange).
THEOREM SessionsAreExclusive == SessionSpec /\ TransactionSpec => SessionsExclusive
<1>1. SessionInv => RegistryExact /\ ReservedPath /\ OpenListens
  BY SessionInvSafe
<1>2. SessionInv /\ [SessionNext]_sessionVars =>
        [\A i \in Instances :
           registry = i /\ doc[i].subscribed /\ doc'[i] = doc[i] =>
               /\ registry' = i
               /\ pubsub'[doc[i].on].topic = pubsub[doc[i].on].topic
               /\ pubsub'[doc[i].on].validator = pubsub[doc[i].on].validator]_sessionVars
  BY SessionStepSafe
<1>3. TransactionInv => NoChangeForgotten
  BY TransactionInvSafe
<1> QED
  BY <1>1, <1>2, <1>3, SessionInvariant, TransactionInvariant, PTL
     DEF SessionSpec, SessionsExclusive, OthersUndisturbed

-----------------------------------------------------------------------------
(* Indexes                                                                 *)

IndexOperation == [kind : {"update", "remove"}, version : Nat, generation : Nat,
                   stage : {"queued", "waiting", "read"}, behind : Nat, existing : Nat]
Row == [version : Nat, generation : Nat]
Rows == [Paths -> Row]

IndexShape ==
    /\ content \in [Paths -> Nat] /\ tracked \subseteq Paths
    /\ live \in Nat /\ live <= Len(generations)
    /\ generations \in Seq({"pending", "ready", "failed"})
    /\ lifecycle \in Seq([kind : {"define", "remove"}, generation : Nat]) /\ broken \in BOOLEAN
    /\ work \in [Paths -> Seq(IndexOperation)]
    /\ rebuild \in [stage : {"none", "waiting", "writing"}, generation : Nat, docs : Rows,
                    prior : SUBSET Paths, left : SUBSET Paths]
    /\ {rebuilds, failures} \subseteq Nat /\ rows \in Rows /\ tainted \subseteq Paths
    /\ query \in [stage : {"asked", "answered", "shown", "rejected"}, generation : Nat, result : Rows]
    /\ shown \in [Paths -> Nat]
    /\ reader \in [stage : {"none", "flushing", "read"}, generation : Nat, ahead : [Paths -> Nat],
                   need : [Paths -> Nat], got : Rows]

IsReady(g) == g \in DOMAIN generations /\ generations[g] = "ready"
Removing == lifecycle # <<>> /\ lifecycle[1].kind = "remove"

\* A generation that is ready and in force, or about to be removed.
Active(g) == IsReady(g) /\ (live = g \/ (Removing /\ lifecycle[1].generation = g))

\* The generation in force is ready when nothing more is queued, or its
\* definition is the last thing queued.
LifecycleInOrder ==
    /\ \A i \in DOMAIN lifecycle : lifecycle[i].kind = "define" =>
           /\ lifecycle[i].generation \in DOMAIN generations
           /\ generations[lifecycle[i].generation] = "pending"
           /\ \A j \in DOMAIN lifecycle : lifecycle[j].kind = "define" /\ i # j =>
                  lifecycle[j].generation # lifecycle[i].generation
    /\ IsReady(live) => lifecycle = <<>> /\ ~broken
    /\ live # 0 => generations[live] # "failed"
    /\ live # 0 /\ generations[live] = "pending" =>
           lifecycle # <<>> /\ lifecycle[Len(lifecycle)] = [kind |-> "define", generation |-> live]

\* Rows of a generation that is gone are there only until the removal behind
\* which everything waits has run.
RowsOwned ==
    \A p \in Paths : rows[p] # NoRow =>
        IsReady(rows[p].generation) /\ (live = rows[p].generation \/ broken \/ Removing)

\* The operations of a path: only the first has begun, those of the generation in
\* force come last, and one that has read its row is the only one that can change it.
OperationsInOrder ==
    \A p \in Paths : \A i \in DOMAIN work[p] :
        /\ work[p][i].generation \in DOMAIN generations /\ work[p][i].version <= content[p]
        /\ work[p][i].kind = "remove" => work[p][i].version = 0
        /\ i # 1 => work[p][i].stage = "queued"
        /\ work[p][i].generation = live => \A j \in DOMAIN work[p] : i <= j => work[p][j].generation = live
        /\ work[p][i].stage = "read" =>
               /\ Active(work[p][i].generation) /\ work[p][i].kind = "update"
               /\ work[p][i].existing = rows[p].version

\* A rebuild that writes is alone: every operation of its generation that has
\* begun began before it, or waits for it.
RebuildExclusive ==
    rebuild.stage # "none" =>
        /\ rebuilds > 0 /\ rebuild.generation \in DOMAIN generations
        /\ \A p \in Paths :
               /\ rebuild.docs[p] # NoRow => rebuild.docs[p].generation = rebuild.generation
               /\ rebuild.docs[p].version <= content[p]
               /\ work[p] # <<>> /\ work[p][1].stage # "queued" /\ work[p][1].generation = rebuild.generation =>
                      p \in rebuild.prior \/ (work[p][1].stage = "waiting" /\ work[p][1].behind = rebuilds)
        /\ rebuild.stage = "writing" =>
               /\ Active(rebuild.generation) /\ rebuild.prior = {}
               /\ rebuild.left \subseteq {p \in Paths : rebuild.docs[p] # NoRow}
               /\ rebuild.generation = live => \A p \in Paths : rows[p] = NoRow \/ rows[p] = rebuild.docs[p]

Current(p, row) == row # NoRow => p \in tracked /\ row.version = content[p]
\* The last operation of p is one of the generation in force.
Owed(p) == work[p] # <<>> /\ work[p][Len(work[p])].generation = live
LastOf(p) == work[p][Len(work[p])]

\* A row, or one a rebuild will write, is current or will be: the last operation
\* of its path brings it up to date, after the rebuild.
RowsSettle ==
    live # 0 => \A p \in Paths :
        /\ Owed(p) => IF LastOf(p).kind = "update" THEN p \in tracked /\ LastOf(p).version = content[p]
                      ELSE p \notin tracked
        /\ IsReady(live) /\ p \notin tainted => Owed(p) \/ Current(p, rows[p])
        /\ rebuild.stage # "none" /\ rebuild.generation = live =>
               \/ Current(p, rebuild.docs[p])
               \/ Owed(p) /\ (LastOf(p).stage = "queued"
                              \/ (LastOf(p).stage = "waiting" /\ LastOf(p).behind = rebuilds))

VersionsBounded == \A p \in Paths : rows[p].version <= content[p]

\* As long as no call of the store failed, what the subscription was shown, or is
\* about to be, is what the rows say, unless it will be asked again.
Answer == IF query.stage = "answered" THEN Versions(query.result) ELSE shown
SubscriptionFollows ==
    /\ query.stage = "asked" => query.generation \in DOMAIN generations
    /\ failures = 0 =>
        /\ ~broken
        /\ query.stage \in {"answered", "shown"} =>
            /\ Answer = Versions(rows) \/ rebuild.stage = "writing" \/ Removing
            /\ Removing => Answer = Versions(NoRows)

\* What a reader is owed is in the row, or in an operation it still waits for.
ReaderOwed(p) ==
    LET w == work[p]
        n == reader.ahead[p]
    IN  /\ \A i \in DOMAIN w : i > n /\ w[i].generation = live /\ w[i].kind = "update" =>
               w[i].version >= reader.need[p]
        /\ IF n > 0 /\ w[n].generation = live THEN w[n].version = reader.need[p]
           ELSE rows[p].version >= reader.need[p] \/ reader.need[p] \in InvalidVersions
ReaderServed ==
    /\ reader.stage # "none" => IsReady(reader.generation)
    /\ \A p \in Paths : reader.ahead[p] <= Len(work[p]) /\ reader.need[p] <= content[p]
    /\ reader.stage = "flushing" /\ live = reader.generation /\ rebuilds = 0 =>
           \A p \in Paths : ReaderOwed(p)
    /\ reader.stage = "read" /\ rebuilds = 0 =>
           \A p \in Paths : reader.got[p].version >= reader.need[p] \/ reader.need[p] \in InvalidVersions

IndexInv ==
    /\ IndexShape /\ LifecycleInOrder /\ RowsOwned /\ OperationsInOrder /\ RebuildExclusive
    /\ RowsSettle /\ VersionsBounded /\ SubscriptionFollows /\ ReaderServed

LEMMA RowFacts ==
    /\ NoRow \in Row /\ NoRow.version = 0 /\ NoRows \in Rows /\ \A p \in Paths : NoRows[p] = NoRow
    /\ NoReader \in [stage : {"none", "flushing", "read"}, generation : Nat, ahead : [Paths -> Nat],
                     need : [Paths -> Nat], got : Rows]
    /\ NoReader.stage = "none" /\ \A p \in Paths : NoReader.ahead[p] = 0 /\ NoReader.need[p] = 0
    /\ NoRebuild \in [stage : {"none", "waiting", "writing"}, generation : Nat, docs : Rows,
                      prior : SUBSET Paths, left : SUBSET Paths]
    /\ NoRebuild.stage = "none" /\ NoRebuild.generation = 0
    /\ \A r \in Rows : Versions(r) \in [Paths -> Nat] /\ \A p \in Paths : Versions(r)[p] = r[p].version
BY DEF NoRow, NoRows, Row, Rows, NoReader, NoRebuild, Versions

LEMMA AppendFacts ==
    ASSUME NEW S, NEW s \in Seq(S), NEW e \in S, NEW t, t = Append(s, e)
    PROVE  /\ t \in Seq(S) /\ Len(s) \in Nat /\ DOMAIN s = 1..Len(s)
           /\ Len(t) = Len(s) + 1 /\ DOMAIN t = 1..(Len(s) + 1) /\ t[Len(s) + 1] = e
           /\ \A i \in DOMAIN s : t[i] = s[i]
           /\ t # <<>> /\ (s = <<>> <=> Len(s) = 0)
OBVIOUS

LEMMA TailFacts ==
    ASSUME NEW S, NEW s \in Seq(S), s # <<>>
    PROVE  LET t == Tail(s) IN
           /\ t \in Seq(S) /\ Len(s) \in Nat \ {0} /\ DOMAIN s = 1..Len(s) /\ Head(s) = s[1]
           /\ Len(t) = Len(s) - 1 /\ DOMAIN t = 1..(Len(s) - 1)
           /\ \A i \in DOMAIN t : t[i] = s[i + 1]
           /\ t = <<>> <=> Len(s) = 1
<1> DEFINE t == Tail(s)
<1>1. t \in Seq(S) /\ Len(s) \in Nat \ {0} /\ DOMAIN s = 1..Len(s) /\ Head(s) = s[1]
  OBVIOUS
<1>2. Len(t) = Len(s) - 1
  OBVIOUS
<1>3. \A i \in 1..(Len(s) - 1) : t[i] = s[i + 1]
  OBVIOUS
<1> HIDE DEF t
<1>4. DOMAIN t = 1..Len(t) /\ (t = <<>> <=> Len(t) = 0)
  BY <1>1
<1>5. DOMAIN t = 1..(Len(s) - 1) /\ (t = <<>> <=> Len(s) = 1)
  BY <1>1, <1>2, <1>4
<1>6. /\ t \in Seq(S) /\ Len(s) \in Nat \ {0} /\ DOMAIN s = 1..Len(s) /\ Head(s) = s[1]
      /\ Len(t) = Len(s) - 1 /\ DOMAIN t = 1..(Len(s) - 1)
      /\ \A i \in DOMAIN t : t[i] = s[i + 1]
      /\ t = <<>> <=> Len(s) = 1
  BY <1>1, <1>2, <1>3, <1>5
<1> QED
  BY <1>6 DEF t

LEMMA ShapeFacts ==
    ASSUME IndexShape
    PROVE  /\ live \in Nat /\ live <= Len(generations) /\ Len(generations) \in Nat
           /\ DOMAIN generations = 1..Len(generations) /\ 0 \notin DOMAIN generations
           /\ rebuilds \in Nat /\ failures \in Nat
           /\ \A p \in Paths :
               /\ {content[p], rows[p].version, rebuild.docs[p].version, reader.got[p].version} \subseteq Nat
               /\ reader.ahead[p] \in Nat /\ reader.need[p] \in Nat
               /\ work[p] \in Seq(IndexOperation) /\ Len(work[p]) \in Nat
               /\ DOMAIN work[p] = 1..Len(work[p]) /\ (work[p] = <<>> <=> Len(work[p]) = 0)
               /\ \A i \in DOMAIN work[p] : work[p][i] \in IndexOperation
<1>1. /\ live \in Nat /\ live <= Len(generations) /\ Len(generations) \in Nat
      /\ DOMAIN generations = 1..Len(generations) /\ 0 \notin DOMAIN generations
      /\ rebuilds \in Nat /\ failures \in Nat
  BY DEF IndexShape
<1>2. \A p \in Paths : content[p] \in Nat /\ reader.ahead[p] \in Nat /\ reader.need[p] \in Nat
  BY DEF IndexShape
<1>3. \A p \in Paths : {rows[p].version, rebuild.docs[p].version, reader.got[p].version} \subseteq Nat
  <2>1. rows \in Rows /\ rebuild.docs \in Rows /\ reader.got \in Rows
    BY DEF IndexShape
  <2>2. ASSUME NEW r \in Rows, NEW p \in Paths PROVE r[p].version \in Nat
    BY DEF Rows, Row
  <2> QED
    BY <2>1, <2>2
<1>4. work \in [Paths -> Seq(IndexOperation)]
  BY DEF IndexShape
<1>5. ASSUME NEW p \in Paths
      PROVE  /\ work[p] \in Seq(IndexOperation) /\ Len(work[p]) \in Nat
             /\ DOMAIN work[p] = 1..Len(work[p]) /\ (work[p] = <<>> <=> Len(work[p]) = 0)
             /\ \A i \in DOMAIN work[p] : work[p][i] \in IndexOperation
  BY <1>4
<1> QED
  BY <1>1, <1>2, <1>3, <1>5

LEMMA OperationFacts ==
    ASSUME NEW op \in IndexOperation
    PROVE  /\ op.kind \in {"update", "remove"} /\ {op.version, op.generation, op.behind, op.existing} \subseteq Nat
           /\ op.stage \in {"queued", "waiting", "read"}
BY DEF IndexOperation

LEMMA IndexInvInit == IndexInit => IndexInv
<1> SUFFICES ASSUME IndexInit PROVE IndexInv
  OBVIOUS
<1> USE DEF IndexInit
<1>0. query \in [stage : {"asked", "answered", "shown", "rejected"}, generation : Nat, result : Rows]
  BY RowFacts
<1>a. content \in [Paths -> Nat] /\ shown \in [Paths -> Nat] /\ work \in [Paths -> Seq(IndexOperation)]
  BY RowFacts
<1>b. live \in Nat /\ live <= Len(generations) /\ generations \in Seq({"pending", "ready", "failed"})
  BY Len(<<>>) = 0
<1>c. lifecycle \in Seq([kind : {"define", "remove"}, generation : Nat])
  OBVIOUS
<1>1. IndexShape
  BY <1>0, <1>a, <1>b, <1>c, RowFacts DEF IndexShape
<1>2. LifecycleInOrder /\ RowsOwned /\ OperationsInOrder /\ RebuildExclusive
  BY RowFacts DEF IndexInit, LifecycleInOrder, RowsOwned, OperationsInOrder, RebuildExclusive, IsReady
<1>3. RowsSettle /\ VersionsBounded
  BY RowFacts DEF IndexInit, RowsSettle, VersionsBounded
<1>4. SubscriptionFollows /\ ReaderServed
  BY RowFacts, Len(<<>>) = 0 DEF IndexInit, SubscriptionFollows, ReaderServed, Answer, Removing
<1> QED
  BY <1>1, <1>2, <1>3, <1>4 DEF IndexInv

\* While the generation in force is ready no other one has anything to do.
LEMMA ActiveIsLive ==
    ASSUME LifecycleInOrder, NEW g, Active(g), IsReady(live) PROVE live = g
BY DEF LifecycleInOrder, Active, Removing

\* Behind a definition that can run there are no rows, nor without any generation.
LEMMA RowsGone ==
    ASSUME IndexShape, LifecycleInOrder, RowsOwned, ~broken, ~Removing, live = 0 \/ lifecycle # <<>>
    PROVE  rows = NoRows
<1>0. 0 \notin DOMAIN generations
  BY DEF IndexShape
<1>1. \A p \in Paths : rows[p] = NoRow
  BY <1>0 DEF RowsOwned, LifecycleInOrder, IsReady
<1> QED
  BY <1>1, RowFacts DEF IndexShape, Rows, NoRows

\* Nothing that is active is left when a lifecycle operation other than a removal
\* of its generation runs.
LEMMA NothingActive ==
    ASSUME LifecycleInOrder, lifecycle # <<>>, NEW g, Active(g)
    PROVE  lifecycle[1].kind = "remove" /\ lifecycle[1].generation = g /\ live # g
BY DEF LifecycleInOrder, Active, Removing

LEMMA DefineKeeps == IndexInv /\ defineIndex => IndexInv'
<1> SUFFICES ASSUME IndexInv, defineIndex PROVE IndexInv'
  OBVIOUS
<1> DEFINE g == Len(generations) + 1
           item == [kind |-> "define", generation |-> g]
<1>1. /\ live = 0 /\ live' = g /\ generations' = Append(generations, "pending")
      /\ lifecycle' = Append(lifecycle, item)
      /\ UNCHANGED <<content, tracked, broken, work, rebuild, rebuilds, failures, rows, tainted, query, shown, reader>>
  BY DEF defineIndex
<1>2. /\ IndexShape /\ LifecycleInOrder /\ RowsOwned /\ OperationsInOrder /\ RebuildExclusive
      /\ RowsSettle /\ VersionsBounded /\ SubscriptionFollows /\ ReaderServed
  BY DEF IndexInv
<1>3. /\ g \in Nat \ {0} /\ generations' \in Seq({"pending", "ready", "failed"}) /\ Len(generations') = g
      /\ DOMAIN generations = 1..(g - 1) /\ DOMAIN generations' = 1..g /\ generations'[g] = "pending"
      /\ \A h \in DOMAIN generations : generations'[h] = generations[h]
  BY <1>1, <1>2 DEF IndexShape
<1>4. /\ item \in [kind : {"define", "remove"}, generation : Nat]
      /\ lifecycle' \in Seq([kind : {"define", "remove"}, generation : Nat])
      /\ Len(lifecycle) \in Nat /\ DOMAIN lifecycle = 1..Len(lifecycle)
      /\ Len(lifecycle') = Len(lifecycle) + 1 /\ DOMAIN lifecycle' = 1..(Len(lifecycle) + 1)
      /\ lifecycle'[Len(lifecycle) + 1] = item
      /\ \A i \in DOMAIN lifecycle : lifecycle'[i] = lifecycle[i]
      /\ lifecycle' # <<>> /\ (lifecycle = <<>> <=> Len(lifecycle) = 0)
  BY <1>1, <1>2, <1>3, AppendFacts DEF IndexShape
<1>5. /\ \A h : IsReady(h)' <=> IsReady(h)
      /\ Removing' <=> Removing
      /\ \A h : IsReady(h) => h # g
      /\ \A h : Active(h) => Active(h)'
  <2>1. \A h : IsReady(h)' <=> IsReady(h)
    BY <1>3 DEF IsReady
  <2>2. Removing' <=> Removing
    BY <1>4 DEF Removing
  <2>3. \A h : IsReady(h) => h # g /\ h # 0
    BY <1>3 DEF IsReady
  <2>4. \A h : Active(h) => Active(h)'
    BY <2>1, <2>2, <2>3, <1>1, <1>4 DEF Active, Removing
  <2> QED
    BY <2>1, <2>2, <2>3, <2>4
<1>6. IndexShape'
  BY <1>1, <1>2, <1>3, <1>4 DEF IndexShape
<1>7. LifecycleInOrder'
  <2>1. ASSUME NEW i \in DOMAIN lifecycle', lifecycle'[i].kind = "define"
        PROVE  /\ lifecycle'[i].generation \in DOMAIN generations'
               /\ generations'[lifecycle'[i].generation] = "pending"
               /\ \A j \in DOMAIN lifecycle' : lifecycle'[j].kind = "define" /\ i # j =>
                      lifecycle'[j].generation # lifecycle'[i].generation
    <3>1. \A j \in DOMAIN lifecycle : lifecycle[j].kind = "define" =>
              lifecycle[j].generation \in DOMAIN generations
      BY <1>2 DEF LifecycleInOrder
    <3>2. CASE i = Len(lifecycle) + 1
      BY <1>3, <1>4, <3>1, <3>2
    <3>3. CASE i \in DOMAIN lifecycle
      <4>1. /\ lifecycle'[i] = lifecycle[i] /\ lifecycle[i].generation \in DOMAIN generations
            /\ generations[lifecycle[i].generation] = "pending"
            /\ \A j \in DOMAIN lifecycle : lifecycle[j].kind = "define" /\ i # j =>
                   lifecycle[j].generation # lifecycle[i].generation
        BY <1>2, <1>4, <2>1, <3>3 DEF LifecycleInOrder
      <4>2. lifecycle[i].generation # g /\ lifecycle[i].generation \in DOMAIN generations'
        BY <1>3, <4>1
      <4>3. ASSUME NEW j \in DOMAIN lifecycle', lifecycle'[j].kind = "define", i # j
            PROVE  lifecycle'[j].generation # lifecycle[i].generation
        <5>1. j = Len(lifecycle) + 1 \/ j \in DOMAIN lifecycle
          BY <1>4
        <5> QED
          BY <1>4, <4>1, <4>2, <4>3, <5>1
      <4> QED
        BY <1>3, <4>1, <4>2, <4>3
    <3> QED
      BY <1>4, <3>2, <3>3
  <2>2. ~IsReady(live)'
    BY <1>1, <1>3 DEF IsReady
  <2> QED
    BY <2>1, <2>2, <1>1, <1>3, <1>4 DEF LifecycleInOrder
<1>8. RowsOwned'
  <2>1. \A h : IsReady(h) => h # 0
    BY <1>3 DEF IsReady
  <2> QED
    BY <1>1, <1>2, <1>5, <2>1 DEF RowsOwned
<1>9. OperationsInOrder'
  BY <1>1, <1>2, <1>3, <1>5 DEF OperationsInOrder
<1>10. RebuildExclusive'
  BY <1>1, <1>2, <1>3, <1>5 DEF RebuildExclusive
<1>11. RowsSettle' /\ VersionsBounded'
  <2>1. \A p \in Paths : ~Owed(p)'
    BY <1>1, <1>2, <1>3 DEF Owed, OperationsInOrder, IndexShape
  <2>2. ~IsReady(live)'
    BY <1>1, <1>3 DEF IsReady
  <2>3. rebuild.stage # "none" => rebuild.generation # g
    BY <1>2, <1>3 DEF RebuildExclusive
  <2> QED
    BY <1>1, <1>2, <2>1, <2>2, <2>3 DEF RowsSettle, VersionsBounded
<1>12. SubscriptionFollows'
  BY <1>1, <1>2, <1>3, <1>5 DEF SubscriptionFollows, Answer
<1>13. ReaderServed'
  BY <1>1, <1>2, <1>3, <1>5 DEF ReaderServed, ReaderOwed
<1> QED
  BY <1>6, <1>7, <1>8, <1>9, <1>10, <1>11, <1>12, <1>13 DEF IndexInv

LEMMA RemoveKeeps == IndexInv /\ removeIndex => IndexInv'
<1> SUFFICES ASSUME IndexInv, removeIndex PROVE IndexInv'
  OBVIOUS
<1> DEFINE item == [kind |-> "remove", generation |-> live]
<1>1. /\ live' = 0 /\ lifecycle' = Append(lifecycle, item)
      /\ IF live = 0 THEN UNCHANGED query ELSE _notifySubscribers(0)
      /\ UNCHANGED <<content, tracked, generations, broken, work, rebuild, rebuilds, failures, rows, tainted, shown, reader>>
  BY DEF removeIndex
<1>2. /\ IndexShape /\ LifecycleInOrder /\ RowsOwned /\ OperationsInOrder /\ RebuildExclusive
      /\ RowsSettle /\ VersionsBounded /\ SubscriptionFollows /\ ReaderServed
  BY DEF IndexInv
<1>3. DOMAIN generations = 1..Len(generations) /\ 0 \notin DOMAIN generations
  BY <1>2 DEF IndexShape
<1>4. /\ item \in [kind : {"define", "remove"}, generation : Nat]
      /\ lifecycle' \in Seq([kind : {"define", "remove"}, generation : Nat])
      /\ Len(lifecycle) \in Nat /\ DOMAIN lifecycle = 1..Len(lifecycle)
      /\ Len(lifecycle') = Len(lifecycle) + 1 /\ DOMAIN lifecycle' = 1..(Len(lifecycle) + 1)
      /\ lifecycle'[Len(lifecycle) + 1] = item
      /\ \A i \in DOMAIN lifecycle : lifecycle'[i] = lifecycle[i]
      /\ lifecycle' # <<>> /\ (lifecycle = <<>> <=> Len(lifecycle) = 0)
  <2>1. item \in [kind : {"define", "remove"}, generation : Nat]
    BY <1>2 DEF IndexShape
  <2> HIDE DEF item
  <2> QED
    BY <2>1, <1>1, <1>2, AppendFacts DEF IndexShape
<1>5. /\ \A h : (IsReady(h)' <=> IsReady(h)) /\ (IsReady(h) => h # 0)
      /\ Removing => Removing'
      /\ Removing' => Removing \/ lifecycle = <<>>
      /\ \A h : Active(h) => Active(h)' /\ Removing'
  <2>1. \A h : (IsReady(h)' <=> IsReady(h)) /\ (IsReady(h) => h # 0)
    BY <1>1, <1>3 DEF IsReady
  <2>2. (Removing => Removing') /\ (Removing' => Removing \/ lifecycle = <<>>)
    BY <1>4 DEF Removing
  <2>3. IsReady(live) => lifecycle = <<>>
    BY <1>2 DEF LifecycleInOrder
  <2>4. \A h : Active(h) => Active(h)' /\ Removing'
    BY <2>1, <2>2, <2>3, <1>4 DEF Active, Removing
  <2> QED
    BY <2>1, <2>2, <2>4
<1>6. IndexShape'
  <2>1. query' \in [stage : {"asked", "answered", "shown", "rejected"}, generation : Nat, result : Rows]
    BY <1>1, <1>2, RowFacts DEF IndexShape, _notifySubscribers
  <2> QED
    BY <2>1, <1>1, <1>2, <1>4 DEF IndexShape
<1>7. LifecycleInOrder'
  <2>1. ASSUME NEW i \in DOMAIN lifecycle', lifecycle'[i].kind = "define"
        PROVE  /\ lifecycle'[i].generation \in DOMAIN generations'
               /\ generations'[lifecycle'[i].generation] = "pending"
               /\ \A j \in DOMAIN lifecycle' : lifecycle'[j].kind = "define" /\ i # j =>
                      lifecycle'[j].generation # lifecycle'[i].generation
    BY <1>1, <1>2, <1>3, <1>4, <2>1 DEF LifecycleInOrder
  <2> QED
    BY <2>1, <1>1, <1>5 DEF LifecycleInOrder
<1>8. RowsOwned'
  BY <1>1, <1>2, <1>5 DEF RowsOwned, Active
<1>9. OperationsInOrder'
  BY <1>1, <1>2, <1>3, <1>5 DEF OperationsInOrder
<1>10. RebuildExclusive'
  BY <1>1, <1>2, <1>3, <1>5 DEF RebuildExclusive
<1>11. RowsSettle' /\ VersionsBounded'
  BY <1>1, <1>2 DEF RowsSettle, VersionsBounded
<1>12. SubscriptionFollows'
  <2>1. CASE live = 0
    <3>1. failures = 0 /\ lifecycle = <<>> => rows = NoRows /\ rebuild.stage # "writing"
      BY <1>2, <1>3, <2>1, RowsGone DEF SubscriptionFollows, Removing, RebuildExclusive, Active, IsReady
    <3> QED
      BY <3>1, <2>1, <1>1, <1>2, <1>5 DEF SubscriptionFollows, Answer, Removing
  <2>2. CASE live # 0
    <3>1. query'.stage = "answered" /\ query'.result = NoRows
      BY <1>1, <2>2 DEF _notifySubscribers
    <3>2. failures = 0 => rows = NoRows \/ Removing'
      BY <1>2, <1>4, <1>5, RowsGone DEF SubscriptionFollows, Removing
    <3> QED
      BY <3>1, <3>2, <1>1, <1>2 DEF SubscriptionFollows, Answer
  <2> QED
    BY <2>1, <2>2
<1>13. ReaderServed'
  BY <1>1, <1>2, <1>3, <1>5 DEF ReaderServed, ReaderOwed
<1> QED
  BY <1>6, <1>7, <1>8, <1>9, <1>10, <1>11, <1>12, <1>13 DEF IndexInv

\* A definition that settles, well or not, finds nothing of another generation.
LEMMA DefinitionSettles ==
    ASSUME IndexInv, lifecycle # <<>>, lifecycle[1].kind = "define", NEW outcome \in {"failed", "ready"},
           NEW g, g = lifecycle[1].generation, lifecycle' = Tail(lifecycle),
           generations' = [generations EXCEPT ![g] = outcome],
           live' = IF outcome = "failed" /\ live = g THEN 0 ELSE live,
           broken' \in BOOLEAN, broken => broken', outcome = "ready" => ~broken', rows' = rows,
           failures' \in Nat, failures' = 0 => failures = 0 /\ ~broken',
           UNCHANGED <<content, tracked, work, rebuild, rebuilds, tainted, query, shown, reader>>
    PROVE  IndexInv'
<1>2. /\ IndexShape /\ LifecycleInOrder /\ RowsOwned /\ OperationsInOrder /\ RebuildExclusive
      /\ RowsSettle /\ VersionsBounded /\ SubscriptionFollows /\ ReaderServed
  BY DEF IndexInv
<1>3. /\ DOMAIN generations = 1..Len(generations) /\ 0 \notin DOMAIN generations
      /\ Len(generations) \in Nat
      /\ g \in DOMAIN generations /\ generations[g] = "pending"
  <2>1. 1 \in DOMAIN lifecycle
    BY <1>2 DEF IndexShape
  <2> QED
    BY <1>2, <2>1 DEF IndexShape, LifecycleInOrder
<1>4. /\ generations' \in Seq({"pending", "ready", "failed"})
      /\ Len(generations') = Len(generations) /\ DOMAIN generations' = DOMAIN generations
      /\ \A h \in DOMAIN generations : h # g => generations'[h] = generations[h]
      /\ generations'[g] = outcome
  BY <1>2, <1>3 DEF IndexShape
<1>5. /\ lifecycle' \in Seq([kind : {"define", "remove"}, generation : Nat])
      /\ Len(lifecycle) \in Nat \ {0} /\ DOMAIN lifecycle = 1..Len(lifecycle)
      /\ Len(lifecycle') = Len(lifecycle) - 1 /\ DOMAIN lifecycle' = 1..(Len(lifecycle) - 1)
      /\ \A i \in DOMAIN lifecycle' : lifecycle'[i] = lifecycle[i + 1]
      /\ lifecycle' = <<>> <=> Len(lifecycle) = 1
  <2>1. lifecycle \in Seq([kind : {"define", "remove"}, generation : Nat])
    BY <1>2 DEF IndexShape
  <2> DEFINE S == [kind : {"define", "remove"}, generation : Nat]
  <2> HIDE DEF S
  <2> QED
    BY <2>1, TailFacts DEF S
<1>6. /\ \A h : ~Active(h)
      /\ ~IsReady(live) /\ ~Removing
      /\ \A h : IsReady(h) => IsReady(h)' /\ h # 0
      /\ \A h : IsReady(h)' => IsReady(h) \/ (h = g /\ outcome = "ready")
  <2>1. \A h : ~Active(h)
    BY <1>2, NothingActive
  <2>2. ~IsReady(live) /\ ~Removing
    BY <1>2 DEF LifecycleInOrder, Removing
  <2> QED
    BY <1>3, <1>4, <2>1, <2>2 DEF IsReady
<1>7. broken \/ rows = NoRows
  BY <1>2, <1>6, RowsGone
<1>8. live' \in {live, 0} /\ (live' # 0 => live' = live /\ (live = g => outcome = "ready"))
  OBVIOUS
<1>9. IndexShape'
  <2>1. live' \in Nat /\ live' <= Len(generations')
    BY <1>2, <1>3, <1>4, <1>8 DEF IndexShape
  <2> QED
    BY <1>2, <1>4, <1>5, <2>1 DEF IndexShape
<1>10. LifecycleInOrder'
  <2>1. ASSUME NEW i \in DOMAIN lifecycle', lifecycle'[i].kind = "define"
        PROVE  /\ lifecycle'[i].generation \in DOMAIN generations'
               /\ generations'[lifecycle'[i].generation] = "pending"
               /\ \A j \in DOMAIN lifecycle' : lifecycle'[j].kind = "define" /\ i # j =>
                      lifecycle'[j].generation # lifecycle'[i].generation
    <3>1. /\ i + 1 \in DOMAIN lifecycle /\ lifecycle[i + 1].kind = "define" /\ lifecycle'[i] = lifecycle[i + 1]
          /\ 1 \in DOMAIN lifecycle /\ i + 1 # 1
      <4>1. i \in 1..(Len(lifecycle) - 1) /\ Len(lifecycle) \in Nat \ {0} /\ DOMAIN lifecycle = 1..Len(lifecycle)
        BY <1>5
      <4>2. i + 1 \in DOMAIN lifecycle /\ 1 \in DOMAIN lifecycle /\ i + 1 # 1
        BY <4>1
      <4>3. lifecycle'[i] = lifecycle[i + 1]
        BY <1>5
      <4> QED
        BY <2>1, <4>2, <4>3
    <3>2. /\ lifecycle[i + 1].generation \in DOMAIN generations
          /\ generations[lifecycle[i + 1].generation] = "pending"
          /\ lifecycle[i + 1].generation # g
          /\ \A j \in DOMAIN lifecycle : lifecycle[j].kind = "define" /\ i + 1 # j =>
                  lifecycle[j].generation # lifecycle[i + 1].generation
      BY <1>2, <3>1 DEF LifecycleInOrder
    <3>3. ASSUME NEW j \in DOMAIN lifecycle', lifecycle'[j].kind = "define", i # j
          PROVE  lifecycle'[j].generation # lifecycle[i + 1].generation
      <4>0. j \in 1..(Len(lifecycle) - 1) /\ Len(lifecycle) \in Nat \ {0} /\ DOMAIN lifecycle = 1..Len(lifecycle)
        BY <1>5
      <4>a. lifecycle'[j] = lifecycle[j + 1]
        BY <1>5
      <4>b. j + 1 \in DOMAIN lifecycle
        BY <4>0
      <4>1. j + 1 \in DOMAIN lifecycle /\ lifecycle'[j] = lifecycle[j + 1]
        BY <4>a, <4>b
      <4>2. i + 1 # j + 1
        BY <1>5, <3>3
      <4> QED
        BY <3>2, <3>3, <4>1, <4>2
    <3> QED
      BY <1>4, <3>1, <3>2, <3>3
  <2>2. IsReady(live)' => lifecycle' = <<>> /\ ~broken'
    <3> SUFFICES ASSUME IsReady(live)' PROVE lifecycle' = <<>> /\ ~broken'
      OBVIOUS
    <3>1. live = g /\ outcome = "ready"
      BY <1>3, <1>4, <1>6, <1>8 DEF IsReady
    <3>2. lifecycle[Len(lifecycle)] = [kind |-> "define", generation |-> g]
      BY <1>2, <1>3, <3>1 DEF LifecycleInOrder
    <3>a. 1 \in DOMAIN lifecycle /\ Len(lifecycle) \in DOMAIN lifecycle
      BY <1>5
    <3>b. \A j \in DOMAIN lifecycle : lifecycle[j].kind = "define" /\ 1 # j => lifecycle[j].generation # g
      BY <1>2, <3>a DEF LifecycleInOrder
    <3>3. Len(lifecycle) = 1
      <4>1. lifecycle[Len(lifecycle)].kind = "define" /\ lifecycle[Len(lifecycle)].generation = g
        BY <3>2
      <4> QED
        BY <4>1, <3>a, <3>b, Zenon
    <3> QED
      BY <1>5, <3>1, <3>3
  <2>3. live' # 0 => generations'[live'] # "failed"
    BY <1>2, <1>3, <1>4, <1>8 DEF LifecycleInOrder, IndexShape
  <2>4. live' # 0 /\ generations'[live'] = "pending" =>
            lifecycle' # <<>> /\ lifecycle'[Len(lifecycle')] = [kind |-> "define", generation |-> live']
    <3> SUFFICES ASSUME live' # 0, generations'[live'] = "pending"
                 PROVE  lifecycle' # <<>> /\ lifecycle'[Len(lifecycle')] = [kind |-> "define", generation |-> live']
      OBVIOUS
    <3>1. live' = live /\ live # g /\ generations[live] = "pending"
      BY <1>2, <1>3, <1>4, <1>8 DEF IndexShape
    <3>2. lifecycle[Len(lifecycle)] = [kind |-> "define", generation |-> live]
      BY <1>2, <1>8, <3>1 DEF LifecycleInOrder
    <3>3. Len(lifecycle) # 1
      BY <3>1, <3>2
    <3> QED
      BY <1>5, <3>1, <3>2, <3>3
  <2> QED
    BY <2>1, <2>2, <2>3, <2>4 DEF LifecycleInOrder
<1>11. RowsOwned'
  <2>1. CASE rows = NoRows
    BY <2>1, RowFacts DEF RowsOwned
  <2>2. CASE broken
    BY <2>2, <1>2, <1>6 DEF RowsOwned
  <2> QED
    BY <1>7, <2>1, <2>2
<1>12. OperationsInOrder'
  BY <1>2, <1>3, <1>4, <1>6, <1>8 DEF OperationsInOrder
<1>13. RebuildExclusive'
  BY <1>2, <1>4, <1>6 DEF RebuildExclusive
<1>14. RowsSettle' /\ VersionsBounded'
  <2>1. broken' => ~IsReady(live)'
    BY <1>10 DEF LifecycleInOrder
  <2>2. IsReady(live)' => \A p \in Paths : Current(p, rows[p])'
    BY <1>7, <2>1, RowFacts DEF Current
  <2> QED
    BY <1>2, <1>8, <2>2 DEF RowsSettle, VersionsBounded, Owed, LastOf, Current
<1>15. SubscriptionFollows'
  <2>1. query.stage = "asked" => query.generation \in DOMAIN generations'
    BY <1>2, <1>4 DEF SubscriptionFollows
  <2>2. rebuild.stage # "writing"
    BY <1>2, <1>6 DEF RebuildExclusive
  <2>3. failures' = 0 => rows = NoRows
    BY <1>2, <1>7 DEF SubscriptionFollows
  <2> QED
    BY <1>2, <1>6, <2>1, <2>2, <2>3 DEF SubscriptionFollows, Answer
<1>16. ReaderServed'
  <2>1. reader.stage # "none" => live' # reader.generation
    BY <1>2, <1>6, <1>8 DEF ReaderServed
  <2> QED
    BY <1>2, <1>6, <2>1 DEF ReaderServed
<1> QED
  BY <1>9, <1>10, <1>11, <1>12, <1>13, <1>14, <1>15, <1>16 DEF IndexInv

LEMMA DefineRunsKeeps ==
    ASSUME NEW same \in BOOLEAN, NEW fails \in BOOLEAN, IndexInv, DefineRuns(same, fails) PROVE IndexInv'
<1>1. IndexShape /\ LifecycleInOrder /\ RowsOwned /\ SubscriptionFollows
  BY DEF IndexInv
<1>2. lifecycle # <<>> /\ Head(lifecycle) = lifecycle[1]
  BY <1>1, TailFacts DEF DefineRuns, IndexShape
<1>3. ~broken /\ lifecycle[1].kind = "define"
  BY <1>2 DEF DefineRuns, ChainRejected
<1>4. rows = NoRows
  BY <1>1, <1>2, <1>3, RowsGone DEF Removing
<1>5. rows' = rows
  BY <1>4 DEF DefineRuns, _initializeRows
<1>6. /\ failures' \in Nat /\ (failures' = 0 => failures = 0 /\ ~fails)
      /\ broken' \in BOOLEAN /\ (~fails => ~broken')
  BY <1>1 DEF IndexShape, DefineRuns, Failed
<1>7. /\ lifecycle' = Tail(lifecycle)
      /\ UNCHANGED <<content, tracked, work, rebuild, rebuilds, tainted, query, shown, reader>>
  BY DEF DefineRuns
<1>8. CASE fails
  <2>1. /\ generations' = [generations EXCEPT ![lifecycle[1].generation] = "failed"]
        /\ live' = IF "failed" = "failed" /\ live = lifecycle[1].generation THEN 0 ELSE live
    BY <1>2, <1>8 DEF DefineRuns
  <2> QED
    BY <1>2, <1>3, <1>5, <1>6, <1>7, <1>8, <2>1, DefinitionSettles, Zenon
<1>9. CASE ~fails
  <2>1. /\ generations' = [generations EXCEPT ![lifecycle[1].generation] = "ready"]
        /\ live' = IF "ready" = "failed" /\ live = lifecycle[1].generation THEN 0 ELSE live
    BY <1>2, <1>9 DEF DefineRuns
  <2> QED
    BY <1>2, <1>3, <1>5, <1>6, <1>7, <1>9, <2>1, DefinitionSettles, Zenon
<1> QED
  BY <1>8, <1>9

LEMMA DefineRejectedKeeps == IndexInv /\ DefineRejected => IndexInv'
<1> SUFFICES ASSUME IndexInv, DefineRejected PROVE IndexInv'
  OBVIOUS
<1>1. IndexShape /\ SubscriptionFollows
  BY DEF IndexInv
<1>2. lifecycle # <<>> /\ Head(lifecycle) = lifecycle[1]
  BY <1>1, TailFacts DEF DefineRejected, IndexShape
<1>3. broken /\ failures # 0 /\ failures \in Nat
  BY <1>1 DEF DefineRejected, ChainRejected, SubscriptionFollows, IndexShape
<1>4. generations' = [generations EXCEPT ![lifecycle[1].generation] = "failed"]
  BY <1>2 DEF DefineRejected
<1>5. /\ lifecycle' = Tail(lifecycle) /\ live' = IF "failed" = "failed" /\ live = lifecycle[1].generation THEN 0 ELSE live
      /\ lifecycle[1].kind = "define"
      /\ UNCHANGED <<content, tracked, broken, work, rebuild, rebuilds, failures, rows, tainted, query, shown, reader>>
  BY <1>2 DEF DefineRejected
<1>6. broken' \in BOOLEAN
  BY <1>1, <1>5 DEF IndexShape
<1> QED
  BY <1>2, <1>3, <1>4, <1>5, <1>6, DefinitionSettles, Zenon

LEMMA RemoveRunsKeeps ==
    ASSUME NEW fails \in BOOLEAN, IndexInv, RemoveRuns(fails) PROVE IndexInv'
<1>1. /\ IndexShape /\ LifecycleInOrder /\ RowsOwned /\ OperationsInOrder /\ RebuildExclusive
      /\ RowsSettle /\ VersionsBounded /\ SubscriptionFollows /\ ReaderServed
  BY DEF IndexInv
<1> DEFINE g == lifecycle[1].generation
<1>2. /\ lifecycle # <<>> /\ lifecycle[1].kind = "remove" /\ OperationsSettled(g)
      /\ lifecycle' = Tail(lifecycle) /\ broken' = fails /\ Failed(fails)
      /\ rows' = IF fails THEN rows ELSE NoRows
      /\ UNCHANGED <<content, tracked, live, generations, work, rebuild, rebuilds, tainted, query, shown, reader>>
  BY <1>1, TailFacts DEF RemoveRuns, IndexShape
<1>3. /\ lifecycle' \in Seq([kind : {"define", "remove"}, generation : Nat])
      /\ Len(lifecycle) \in Nat \ {0} /\ DOMAIN lifecycle = 1..Len(lifecycle)
      /\ Len(lifecycle') = Len(lifecycle) - 1 /\ DOMAIN lifecycle' = 1..(Len(lifecycle) - 1)
      /\ \A i \in DOMAIN lifecycle' : lifecycle'[i] = lifecycle[i + 1]
      /\ lifecycle' = <<>> <=> Len(lifecycle) = 1
  <2>1. lifecycle \in Seq([kind : {"define", "remove"}, generation : Nat])
    BY <1>1 DEF IndexShape
  <2> QED
    BY <1>2, <2>1, TailFacts
<1>4. /\ ~IsReady(live) /\ Removing /\ \A h : IsReady(h)' <=> IsReady(h)
      /\ \A h : Active(h) => h = g
  BY <1>1, <1>2, NothingActive DEF LifecycleInOrder, Removing, IsReady
<1>5. \A p \in Paths : \A i \in DOMAIN work[p] : work[p][i].stage # "read"
  <2> SUFFICES ASSUME NEW p \in Paths, NEW i \in DOMAIN work[p], work[p][i].stage = "read" PROVE FALSE
    OBVIOUS
  <2>1. i = 1 /\ work[p][1].generation = g /\ work[p] # <<>>
    BY <1>1, <1>4 DEF OperationsInOrder
  <2>2. Head(work[p]) = work[p][1]
    BY <1>1, <2>1, TailFacts DEF IndexShape
  <2> QED
    BY <1>2, <2>1, <2>2 DEF OperationsSettled, InFlight
<1>6. rebuild.stage # "writing"
  BY <1>1, <1>2, <1>4 DEF RebuildExclusive, OperationsSettled
<1>7. IndexShape'
  <2>1. failures' \in Nat /\ rows' \in Rows
    BY <1>1, <1>2, RowFacts DEF IndexShape, Failed
  <2> QED
    BY <1>1, <1>2, <1>3, <2>1 DEF IndexShape
<1>8. LifecycleInOrder'
  <2>1. ASSUME NEW i \in DOMAIN lifecycle', lifecycle'[i].kind = "define"
        PROVE  /\ lifecycle'[i].generation \in DOMAIN generations'
               /\ generations'[lifecycle'[i].generation] = "pending"
               /\ \A j \in DOMAIN lifecycle' : lifecycle'[j].kind = "define" /\ i # j =>
                      lifecycle'[j].generation # lifecycle'[i].generation
    <3>1. i + 1 \in DOMAIN lifecycle /\ lifecycle[i + 1].kind = "define" /\ lifecycle'[i] = lifecycle[i + 1]
      BY <1>3, <2>1
    <3>2. /\ lifecycle[i + 1].generation \in DOMAIN generations
          /\ generations[lifecycle[i + 1].generation] = "pending"
          /\ \A j \in DOMAIN lifecycle : lifecycle[j].kind = "define" /\ i + 1 # j =>
                  lifecycle[j].generation # lifecycle[i + 1].generation
      BY <1>1, <3>1 DEF LifecycleInOrder
    <3>3. ASSUME NEW j \in DOMAIN lifecycle', lifecycle'[j].kind = "define", i # j
          PROVE  lifecycle'[j].generation # lifecycle[i + 1].generation
      <4>1. j + 1 \in DOMAIN lifecycle /\ lifecycle'[j] = lifecycle[j + 1]
        BY <1>3, <3>3
      <4>2. i + 1 # j + 1
        BY <1>3, <3>3
      <4> QED
        BY <3>2, <3>3, <4>1, <4>2
    <3> QED
      BY <1>2, <3>1, <3>2, <3>3
  <2>2. live # 0 /\ generations[live] = "pending" =>
            lifecycle' # <<>> /\ lifecycle'[Len(lifecycle')] = [kind |-> "define", generation |-> live]
    <3> SUFFICES ASSUME live # 0, generations[live] = "pending"
                 PROVE  lifecycle' # <<>> /\ lifecycle'[Len(lifecycle')] = [kind |-> "define", generation |-> live]
      OBVIOUS
    <3>1. lifecycle[Len(lifecycle)] = [kind |-> "define", generation |-> live]
      BY <1>1 DEF LifecycleInOrder
    <3>2. Len(lifecycle) # 1
      BY <1>2, <3>1
    <3>3. Len(lifecycle) - 1 \in DOMAIN lifecycle' /\ Len(lifecycle') = Len(lifecycle) - 1
          /\ Len(lifecycle) - 1 + 1 = Len(lifecycle) /\ lifecycle' # <<>>
      BY <1>3, <3>2
    <3> QED
      BY <1>3, <3>1, <3>3
  <2> QED
    BY <1>1, <1>2, <1>4, <2>1, <2>2 DEF LifecycleInOrder
<1>9. RowsOwned'
  BY <1>1, <1>2, <1>4, RowFacts DEF RowsOwned
<1>10. OperationsInOrder'
  BY <1>1, <1>2, <1>5 DEF OperationsInOrder
<1>11. RebuildExclusive'
  BY <1>1, <1>2, <1>6 DEF RebuildExclusive
<1>12. RowsSettle' /\ VersionsBounded'
  <2>1. RowsSettle'
    BY <1>1, <1>2, <1>4 DEF RowsSettle, Owed, LastOf, Current
  <2>2. VersionsBounded'
    <3>1. \A p \in Paths : content[p] \in Nat
      BY <1>1 DEF IndexShape
    <3>2. \A p \in Paths : rows'[p].version = 0 \/ rows'[p] = rows[p]
      BY <1>2, RowFacts
    <3> QED
      BY <1>1, <1>2, <3>1, <3>2 DEF VersionsBounded
  <2> QED
    BY <2>1, <2>2
<1>13. SubscriptionFollows'
  <2>1. failures' = 0 => failures = 0 /\ ~fails
    BY <1>1, <1>2 DEF Failed, IndexShape
  <2> QED
    BY <1>1, <1>2, <1>4, <1>6, <2>1 DEF SubscriptionFollows, Answer
<1>14. ReaderServed'
  <2>1. reader.stage # "none" => live # reader.generation
    BY <1>1, <1>4 DEF ReaderServed
  <2> QED
    BY <1>1, <1>2, <1>4, <2>1 DEF ReaderServed
<1> QED
  BY <1>7, <1>8, <1>9, <1>10, <1>11, <1>12, <1>13, <1>14 DEF IndexInv

LEMMA EnqueueKeeps ==
    ASSUME IndexInv, NEW p \in Paths, NEW kind \in {"update", "remove"}, NEW version \in Nat,
           _enqueueDocumentOperation(p, kind, version),
           content' \in [Paths -> Nat], content[p] <= content'[p], \A q \in Paths \ {p} : content'[q] = content[q],
           tracked' \subseteq Paths, \A q \in Paths \ {p} : q \in tracked' <=> q \in tracked,
           kind = "update" => p \in tracked' /\ version = content'[p],
           kind = "remove" => p \notin tracked' /\ version = 0,
           UNCHANGED <<live, generations, lifecycle, broken, rebuild, rebuilds, failures, rows, tainted, query, shown, reader>>
    PROVE  IndexInv'
<1> DEFINE op == [kind |-> kind, version |-> version, generation |-> live,
                  stage |-> "queued", behind |-> 0, existing |-> 0]
           n == Len(work[p])
<1>1. /\ IndexShape /\ LifecycleInOrder /\ RowsOwned /\ OperationsInOrder /\ RebuildExclusive
      /\ RowsSettle /\ VersionsBounded /\ SubscriptionFollows /\ ReaderServed
  BY DEF IndexInv
<1>2. /\ work \in [Paths -> Seq(IndexOperation)] /\ work[p] \in Seq(IndexOperation) /\ op \in IndexOperation
      /\ live \in Nat /\ DOMAIN generations = 1..Len(generations) /\ live <= Len(generations)
  BY <1>1 DEF IndexShape, IndexOperation
<1>3. /\ n \in Nat /\ DOMAIN work[p] = 1..n /\ (work[p] = <<>> <=> n = 0)
  BY <1>2
<1>0. \A q \in Paths : content[q] \in Nat /\ content'[q] \in Nat /\ content[q] <= content'[q]
  <2>1. \A q \in Paths : content[q] \in Nat
    BY <1>1, ShapeFacts
  <2> QED
    BY <2>1
<1>4. /\ work' \in [Paths -> Seq(IndexOperation)] /\ \A q \in Paths \ {p} : work'[q] = work[q]
      /\ \A i \in DOMAIN work[p] : i \in DOMAIN work'[p] /\ work'[p][i] = work[p][i]
      /\ n <= Len(work'[p]) /\ (work[p] # <<>> => work'[p] # <<>>)
      /\ live = 0 => work' = work
      /\ live # 0 => /\ Len(work'[p]) = n + 1 /\ DOMAIN work'[p] = 1..(n + 1)
                     /\ work'[p] # <<>> /\ work'[p][n + 1] = op
  <2>1. CASE live = 0
    BY <2>1, <1>2, <1>3 DEF _enqueueDocumentOperation
  <2>2. CASE live # 0
    <3>1. work' = [work EXCEPT ![p] = Append(@, op)]
      BY <2>2 DEF _enqueueDocumentOperation
    <3>2. work'[p] = Append(work[p], op) /\ \A q \in Paths \ {p} : work'[q] = work[q]
      BY <3>1, <1>2
    <3> HIDE DEF op
    <3>3. /\ work'[p] \in Seq(IndexOperation) /\ Len(work'[p]) = n + 1 /\ DOMAIN work'[p] = 1..(n + 1)
          /\ work'[p][n + 1] = op /\ work'[p] # <<>>
          /\ \A i \in DOMAIN work[p] : work'[p][i] = work[p][i]
      <4>1. work[p] \in Seq(IndexOperation) /\ op \in IndexOperation
        BY <1>2
      <4> QED
        BY <3>2, <4>1, AppendFacts
    <3>4. work' \in [Paths -> Seq(IndexOperation)]
      BY <3>1, <3>2, <3>3, <1>2
    <3> QED
      BY <2>2, <3>2, <3>3, <3>4, <1>3
  <2> QED
    BY <2>1, <2>2
<1>5. \A i \in DOMAIN work'[p] : i \in DOMAIN work[p] \/ (live # 0 /\ i = n + 1)
  BY <1>3, <1>4
<1>6. IndexShape'
  BY <1>1, <1>4 DEF IndexShape
<1>7. LifecycleInOrder' /\ RowsOwned'
  BY <1>1 DEF LifecycleInOrder, RowsOwned, IsReady, Removing
<1>8. \A h : Active(h)' <=> Active(h)
  BY DEF Active, IsReady, Removing
<1>9. OperationsInOrder'
  <2> SUFFICES ASSUME NEW q \in Paths, NEW i \in DOMAIN work'[q]
               PROVE  /\ work'[q][i].generation \in DOMAIN generations /\ work'[q][i].version <= content'[q]
                      /\ work'[q][i].kind = "remove" => work'[q][i].version = 0
                      /\ i # 1 => work'[q][i].stage = "queued"
                      /\ work'[q][i].generation = live =>
                             \A j \in DOMAIN work'[q] : i <= j => work'[q][j].generation = live
                      /\ work'[q][i].stage = "read" =>
                             /\ Active(work'[q][i].generation) /\ work'[q][i].kind = "update"
                             /\ work'[q][i].existing = rows[q].version
    BY DEF OperationsInOrder, Active, IsReady, Removing
  <2>1. CASE q # p
    <3>1. work'[q] = work[q] /\ content'[q] = content[q]
      BY <2>1, <1>4
    <3> QED
      BY <3>1, <1>1 DEF OperationsInOrder
  <2>2. CASE q = p /\ i \in DOMAIN work[p]
    <3>1. /\ work'[q][i] = work[p][i] /\ work[p][i].version <= content[p] /\ work[p][i].version \in Nat
      BY <2>2, <1>1, <1>4, ShapeFacts, OperationFacts DEF OperationsInOrder
    <3>2. work'[q][i].version <= content'[q]
      BY <2>2, <3>1, <1>1, ShapeFacts
    <3>3. work[p][i].generation = live => \A j \in DOMAIN work'[p] : i <= j => work'[p][j].generation = live
      BY <2>2, <1>1, <1>3, <1>4, <1>5 DEF OperationsInOrder
    <3> QED
      BY <2>2, <3>1, <3>2, <3>3, <1>1 DEF OperationsInOrder
  <2>3. CASE q = p /\ live # 0 /\ i = n + 1
    <3>1. work'[q][i] = op /\ DOMAIN work'[q] = 1..(n + 1)
      BY <2>3, <1>4
    <3>2. version <= content'[p]
      OBVIOUS
    <3> QED
      BY <2>3, <3>1, <3>2, <1>2, <1>3
  <2> QED
    BY <2>1, <2>2, <2>3, <1>5
<1>10. RebuildExclusive'
  <2>1. \A q \in Paths : rebuild.docs[q].version <= content[q] => rebuild.docs[q].version <= content'[q]
    BY <1>0, <1>1, ShapeFacts
  <2>2. \A q \in Paths : work'[q] # <<>> /\ work'[q][1].stage # "queued" =>
            work[q] # <<>> /\ work'[q][1] = work[q][1]
    <3>1. \A i \in DOMAIN work'[p] : work'[p] # <<>> /\ i = 1 /\ work'[p][i].stage # "queued" =>
              work[p] # <<>> /\ work'[p][i] = work[p][i]
      BY <1>3, <1>4, <1>5
    <3>2. work'[p] # <<>> => 1 \in DOMAIN work'[p]
      BY <1>4
    <3> QED
      BY <1>4, <3>1, <3>2
  <2>3. rebuild.stage = "writing" => Active(rebuild.generation)
    BY <1>1 DEF RebuildExclusive
  <2> QED
    BY <1>1, <1>8, <2>1, <2>2 DEF RebuildExclusive
<1>11. RowsSettle'
  <2> SUFFICES ASSUME live # 0, NEW q \in Paths
               PROVE  /\ Owed(q)' => IF LastOf(q)'.kind = "update"
                                     THEN q \in tracked' /\ LastOf(q)'.version = content'[q] ELSE q \notin tracked'
                      /\ IsReady(live)' /\ q \notin tainted => Owed(q)' \/ Current(q, rows[q])'
                      /\ rebuild.stage # "none" /\ rebuild.generation = live =>
                             \/ Current(q, rebuild.docs[q])'
                             \/ Owed(q)' /\ (LastOf(q)'.stage = "queued"
                                            \/ (LastOf(q)'.stage = "waiting" /\ LastOf(q)'.behind = rebuilds))
    BY DEF RowsSettle
  <2>1. CASE q = p
    <3>1. Owed(p)' /\ LastOf(p)' = op
      BY <1>4 DEF Owed, LastOf
    <3> QED
      BY <2>1, <3>1
  <2>2. CASE q # p
    <3>1. (Owed(q)' <=> Owed(q)) /\ LastOf(q)' = LastOf(q) /\ content'[q] = content[q] /\ (q \in tracked' <=> q \in tracked)
      BY <2>2, <1>4 DEF Owed, LastOf
    <3> QED
      BY <3>1, <1>1 DEF RowsSettle, Current, IsReady
  <2> QED
    BY <2>1, <2>2
<1>12. VersionsBounded'
  BY <1>0, <1>1, ShapeFacts DEF VersionsBounded
<1>13. SubscriptionFollows'
  BY <1>1 DEF SubscriptionFollows, Answer, Removing
<1>14. ReaderServed'
  <2>1. \A q \in Paths : reader.ahead[q] <= Len(work'[q]) /\ reader.need[q] <= content'[q]
    <3>1. \A q \in Paths : Len(work'[q]) \in Nat /\ Len(work[q]) \in Nat /\ Len(work[q]) <= Len(work'[q])
      <4>1. \A q \in Paths : work'[q] \in Seq(IndexOperation) /\ work[q] \in Seq(IndexOperation)
        BY <1>2, <1>4
      <4>2. \A q \in Paths : Len(work'[q]) \in Nat /\ Len(work[q]) \in Nat
        BY <4>1
      <4> QED
        BY <4>2, <1>3, <1>4
    <3>2. \A q \in Paths : reader.ahead[q] \in Nat /\ reader.need[q] \in Nat /\ content[q] \in Nat /\ content'[q] \in Nat
                           /\ content[q] <= content'[q]
      BY <1>0, <1>1, ShapeFacts
    <3> QED
      BY <1>1, <3>1, <3>2 DEF ReaderServed
  <2>2. ASSUME reader.stage = "flushing", live = reader.generation, rebuilds = 0, NEW q \in Paths
        PROVE  ReaderOwed(q)'
    <3>0. ReaderOwed(q) /\ reader.ahead[q] <= Len(work[q]) /\ reader.ahead[q] \in Nat
      BY <2>2, <1>1, ShapeFacts DEF ReaderServed
    <3>1. CASE q # p
      BY <3>0, <3>1, <1>4 DEF ReaderOwed
    <3>2. CASE q = p
      <4>1. reader.ahead[p] > 0 => reader.ahead[p] \in DOMAIN work[p]
        BY <3>0, <3>2, <1>3
      <4>2. ASSUME NEW i \in DOMAIN work'[p], i > reader.ahead[p], work'[p][i].generation = live,
                   work'[p][i].kind = "update"
            PROVE  work'[p][i].version >= reader.need[p]
        <5>1. CASE i \in DOMAIN work[p]
          BY <5>1, <4>2, <3>0, <3>2, <1>4 DEF ReaderOwed
        <5>2. CASE live # 0 /\ i = n + 1
          <6>1. work'[p][i].version = content'[p] /\ reader.need[p] <= content'[p]
            BY <5>2, <4>2, <2>1, <1>4
          <6> QED
            BY <6>1, <1>1, <1>0, ShapeFacts
        <5> QED
          BY <5>1, <5>2, <1>5
      <4> QED
        BY <4>1, <4>2, <3>0, <3>2, <1>4 DEF ReaderOwed
    <3> QED
      BY <3>1, <3>2
  <2>3. \A h : IsReady(h)' <=> IsReady(h)
    BY DEF IsReady
  <2> QED
    BY <1>1, <2>1, <2>2, <2>3 DEF ReaderServed
<1> QED
  BY <1>6, <1>7, <1>9, <1>10, <1>11, <1>12, <1>13, <1>14 DEF IndexInv

LEMMA UntrackedKeeps ==
    ASSUME IndexInv, NEW p \in Paths \ tracked, content' = [content EXCEPT ![p] = @ + 1],
           UNCHANGED <<tracked, live, generations, lifecycle, broken, work, rebuild, rebuilds, failures, rows, tainted, query, shown, reader>>
    PROVE  IndexInv'
<1>1. /\ IndexShape /\ LifecycleInOrder /\ RowsOwned /\ OperationsInOrder /\ RebuildExclusive
      /\ RowsSettle /\ VersionsBounded /\ SubscriptionFollows /\ ReaderServed
  BY DEF IndexInv
<1>2. /\ content' \in [Paths -> Nat] /\ \A q \in Paths : content[q] \in Nat /\ content[q] <= content'[q]
      /\ \A q \in tracked : content'[q] = content[q]
  <2>1. content \in [Paths -> Nat] /\ tracked \subseteq Paths
    BY <1>1 DEF IndexShape
  <2>2. content[p] \in Nat /\ content[p] + 1 \in Nat
    BY <2>1
  <2>3. \A q \in Paths : content'[q] = IF q = p THEN content[p] + 1 ELSE content[q]
    BY <2>1
  <2> QED
    BY <2>1, <2>2, <2>3
<1>3. \A v \in Nat, q \in Paths : v <= content[q] => v <= content'[q]
  BY <1>2
<1>4. \A h : (IsReady(h)' <=> IsReady(h)) /\ (Active(h)' <=> Active(h))
  BY DEF IsReady, Active, Removing
<1>5. IndexShape' /\ LifecycleInOrder' /\ RowsOwned' /\ SubscriptionFollows'
  <2>1. IndexShape'
    BY <1>1, <1>2 DEF IndexShape
  <2> QED
    BY <1>1, <2>1 DEF LifecycleInOrder, RowsOwned, SubscriptionFollows, Answer, IsReady, Removing
<1>6. OperationsInOrder'
  <2>1. \A q \in Paths : \A i \in DOMAIN work[q] : work[q][i].version \in Nat
    BY <1>1, ShapeFacts, OperationFacts
  <2> QED
    BY <1>1, <1>3, <1>4, <2>1 DEF OperationsInOrder
<1>7. RebuildExclusive' /\ VersionsBounded'
  <2>1. \A q \in Paths : rebuild.docs[q].version \in Nat /\ rows[q].version \in Nat
    BY <1>1, ShapeFacts
  <2> QED
    BY <1>1, <1>3, <1>4, <2>1 DEF RebuildExclusive, VersionsBounded
<1>8. RowsSettle'
  <2>1. \A q \in Paths : /\ Owed(q)' <=> Owed(q)
                         /\ LastOf(q)' = LastOf(q)
                         /\ Current(q, rows[q])' <=> Current(q, rows[q])
                         /\ Current(q, rebuild.docs[q])' <=> Current(q, rebuild.docs[q])
    BY <1>2 DEF Owed, LastOf, Current
  <2> QED
    BY <1>1, <1>2, <1>4, <2>1 DEF RowsSettle
<1>9. ReaderServed'
  <2>1. \A q \in Paths : reader.need[q] \in Nat /\ (ReaderOwed(q)' <=> ReaderOwed(q))
    BY <1>1, ShapeFacts DEF ReaderOwed
  <2> QED
    BY <1>1, <1>3, <1>4, <2>1 DEF ReaderServed
<1> QED
  BY <1>5, <1>6, <1>7, <1>8, <1>9 DEF IndexInv

LEMMA DocumentKeeps ==
    ASSUME NEW p \in Paths, IndexInv, changes(p) \/ trackDocument(p) \/ untrackDocument(p) PROVE IndexInv'
<1>1. content \in [Paths -> Nat] /\ tracked \subseteq Paths
  BY DEF IndexInv, IndexShape
<1>2. CASE changes(p) /\ p \in tracked
  <2>1. /\ content' \in [Paths -> Nat] /\ content'[p] = content[p] + 1 /\ content[p] + 1 \in Nat /\ content[p] <= content'[p]
        /\ \A q \in Paths \ {p} : content'[q] = content[q]
    BY <1>1, <1>2 DEF changes
  <2> QED
    BY <1>1, <1>2, <2>1, EnqueueKeeps DEF changes
<1>3. CASE changes(p) /\ p \notin tracked
  BY <1>3, UntrackedKeeps DEF changes
<1>4. CASE trackDocument(p)
  <2>1. tracked' \subseteq Paths /\ p \in tracked' /\ \A q \in Paths \ {p} : q \in tracked' <=> q \in tracked
    BY <1>1, <1>4 DEF trackDocument
  <2>2. content[p] \in Nat /\ content' = content /\ content[p] <= content'[p]
    BY <1>1, <1>4 DEF trackDocument
  <2> QED
    BY <1>1, <1>4, <2>1, <2>2, EnqueueKeeps DEF trackDocument
<1>5. CASE untrackDocument(p)
  <2>1. tracked' \subseteq Paths /\ p \notin tracked' /\ \A q \in Paths \ {p} : q \in tracked' <=> q \in tracked
    BY <1>1, <1>5 DEF untrackDocument
  <2>2. content[p] \in Nat /\ content' = content /\ content[p] <= content'[p]
    BY <1>1, <1>5 DEF untrackDocument
  <2> QED
    BY <1>1, <1>5, <2>1, <2>2, EnqueueKeeps DEF untrackDocument
<1> QED
  BY <1>2, <1>3, <1>4, <1>5

\* The first operation of a path begins, or reads its row.
LEMMA HeadKeeps ==
    ASSUME IndexInv, NEW p \in Paths, work[p] # <<>>, NEW op \in IndexOperation,
           work' \in [Paths -> Seq(IndexOperation)], \A q \in Paths \ {p} : work'[q] = work[q],
           Len(work'[p]) = Len(work[p]), work'[p][1] = op,
           \A i \in DOMAIN work[p] : i # 1 => work'[p][i] = work[p][i],
           op.kind = work[p][1].kind, op.version = work[p][1].version,
           op.generation = live, work[p][1].generation = live, op.stage # "queued",
           op.stage = "read" => IsReady(live) /\ op.kind = "update" /\ op.existing = rows[p].version,
           rebuild.stage # "none" /\ rebuild.generation = live =>
               /\ p \in rebuild.prior \/ (op.stage = "waiting" /\ op.behind = rebuilds)
               /\ work[p][1].stage = "queued" \/ (work[p][1].stage = "waiting" /\ work[p][1].behind = rebuilds) =>
                      op.stage = "waiting" /\ op.behind = rebuilds,
           UNCHANGED <<content, tracked, live, generations, lifecycle, broken, rebuild, rebuilds, failures,
                       rows, tainted, query, shown, reader>>
    PROVE  IndexInv'
<1>1. /\ IndexShape /\ LifecycleInOrder /\ RowsOwned /\ OperationsInOrder /\ RebuildExclusive
      /\ RowsSettle /\ VersionsBounded /\ SubscriptionFollows /\ ReaderServed
  BY DEF IndexInv
<1>2. /\ Len(work[p]) \in Nat \ {0} /\ DOMAIN work[p] = 1..Len(work[p]) /\ 1 \in DOMAIN work[p]
      /\ DOMAIN work'[p] = DOMAIN work[p] /\ work'[p] # <<>>
  <2>1. /\ Len(work[p]) \in Nat \ {0} /\ DOMAIN work[p] = 1..Len(work[p])
    BY <1>1, ShapeFacts
  <2>2. work'[p] \in Seq(IndexOperation)
    OBVIOUS
  <2>3. DOMAIN work'[p] = 1..Len(work'[p]) /\ (work'[p] = <<>> <=> Len(work'[p]) = 0)
    BY <2>2
  <2> QED
    BY <2>1, <2>3
<1>3. /\ \A h : (IsReady(h)' <=> IsReady(h)) /\ (Active(h)' <=> Active(h))
      /\ Removing' <=> Removing
  BY DEF IsReady, Active, Removing
<1>4. \A q \in Paths : \A i \in DOMAIN work'[q] :
          /\ i \in DOMAIN work[q] /\ work'[q][i].kind = work[q][i].kind /\ work'[q][i].version = work[q][i].version
          /\ work'[q][i].generation = work[q][i].generation
          /\ i # 1 => work'[q][i] = work[q][i]
  BY <1>2
<1>5. \A q \in Paths : DOMAIN work'[q] = DOMAIN work[q] /\ Len(work'[q]) = Len(work[q]) /\ (work'[q] = <<>> <=> work[q] = <<>>)
  BY <1>2
<1>6. IndexShape' /\ LifecycleInOrder' /\ RowsOwned' /\ VersionsBounded' /\ SubscriptionFollows'
  <2>1. IndexShape'
    BY <1>1 DEF IndexShape
  <2> QED
    BY <1>1, <2>1 DEF LifecycleInOrder, RowsOwned, VersionsBounded, SubscriptionFollows, Answer, IsReady, Removing
<1>7. OperationsInOrder'
  <2> SUFFICES ASSUME NEW q \in Paths, NEW i \in DOMAIN work'[q]
               PROVE  /\ work'[q][i].generation \in DOMAIN generations /\ work'[q][i].version <= content[q]
                      /\ work'[q][i].kind = "remove" => work'[q][i].version = 0
                      /\ i # 1 => work'[q][i].stage = "queued"
                      /\ work'[q][i].generation = live =>
                             \A j \in DOMAIN work'[q] : i <= j => work'[q][j].generation = live
                      /\ work'[q][i].stage = "read" =>
                             /\ Active(work'[q][i].generation) /\ work'[q][i].kind = "update"
                             /\ work'[q][i].existing = rows[q].version
    BY DEF OperationsInOrder, Active, IsReady, Removing
  <2>1. /\ work[q][i].generation \in DOMAIN generations /\ work[q][i].version <= content[q]
        /\ work[q][i].kind = "remove" => work[q][i].version = 0
        /\ i # 1 => work[q][i].stage = "queued"
        /\ work[q][i].generation = live => \A j \in DOMAIN work[q] : i <= j => work[q][j].generation = live
        /\ work[q][i].stage = "read" =>
               /\ Active(work[q][i].generation) /\ work[q][i].kind = "update"
               /\ work[q][i].existing = rows[q].version
    BY <1>1, <1>4 DEF OperationsInOrder
  <2>2. work'[q][i].stage = "read" =>
            /\ Active(work'[q][i].generation) /\ work'[q][i].kind = "update"
            /\ work'[q][i].existing = rows[q].version
    <3>1. CASE q = p /\ i = 1
      BY <3>1 DEF Active
    <3>2. CASE ~(q = p /\ i = 1)
      <4>1. work'[q][i] = work[q][i]
        BY <3>2, <1>4
      <4> QED
        BY <2>1, <4>1
    <3> QED
      BY <3>1, <3>2
  <2> QED
    BY <1>4, <1>5, <2>1, <2>2
<1>8. RebuildExclusive'
  <2>1. ASSUME rebuild.stage # "none", NEW q \in Paths, work'[q] # <<>>, work'[q][1].stage # "queued",
               work'[q][1].generation = rebuild.generation
        PROVE  q \in rebuild.prior \/ (work'[q][1].stage = "waiting" /\ work'[q][1].behind = rebuilds)
    <3>1. CASE q = p
      BY <2>1, <3>1
    <3>2. CASE q # p
      BY <2>1, <3>2, <1>1 DEF RebuildExclusive
    <3> QED
      BY <3>1, <3>2
  <2>2. rebuild.stage = "writing" => Active(rebuild.generation)'
    BY <1>1, <1>3 DEF RebuildExclusive
  <2> QED
    BY <1>1, <2>1, <2>2 DEF RebuildExclusive
<1>9. RowsSettle'
  <2>1. \A q \in Paths : /\ Owed(q)' <=> Owed(q)
                         /\ Owed(q) => LastOf(q)'.kind = LastOf(q).kind /\ LastOf(q)'.version = LastOf(q).version
    <3>1. \A q \in Paths : work[q] # <<>> => Len(work[q]) \in DOMAIN work'[q]
      BY <1>1, <1>5, ShapeFacts
    <3> QED
      BY <1>4, <1>5, <3>1 DEF Owed, LastOf
  <2>2. ASSUME NEW q \in Paths, rebuild.stage # "none", rebuild.generation = live, Owed(q),
               LastOf(q).stage = "queued" \/ (LastOf(q).stage = "waiting" /\ LastOf(q).behind = rebuilds)
        PROVE  LastOf(q)'.stage = "queued" \/ (LastOf(q)'.stage = "waiting" /\ LastOf(q)'.behind = rebuilds)
    <3>1. CASE q = p /\ Len(work[p]) = 1
      BY <2>2, <3>1 DEF LastOf
    <3>2. CASE ~(q = p /\ Len(work[p]) = 1)
      <4>1. LastOf(q)' = LastOf(q)
        <5>1. CASE q # p
          BY <5>1 DEF LastOf
        <5>2. CASE q = p
          <6>1. Len(work[p]) \in DOMAIN work[p] /\ Len(work[p]) # 1
            BY <3>2, <5>2, <1>2
          <6>2. work'[p][Len(work[p])] = work[p][Len(work[p])]
            BY <6>1
          <6> QED
            BY <5>2, <6>2 DEF LastOf
        <5> QED
          BY <5>1, <5>2
      <4> QED
        BY <2>2, <4>1
    <3> QED
      BY <3>1, <3>2
  <2> QED
    BY <1>1, <1>3, <2>1, <2>2 DEF RowsSettle, Current
<1>10. ReaderServed'
  <2>1. \A q \in Paths : ReaderOwed(q) /\ reader.ahead[q] <= Len(work[q]) => ReaderOwed(q)'
    <3> SUFFICES ASSUME NEW q \in Paths, ReaderOwed(q), reader.ahead[q] <= Len(work[q]) PROVE ReaderOwed(q)'
      OBVIOUS
    <3>1. reader.ahead[q] > 0 => reader.ahead[q] \in DOMAIN work'[q]
      BY <1>1, <1>5, ShapeFacts
    <3> QED
      BY <1>4, <1>5, <3>1 DEF ReaderOwed
  <2> QED
    BY <1>1, <1>3, <1>5, <2>1 DEF ReaderServed
<1> QED
  BY <1>6, <1>7, <1>8, <1>9, <1>10 DEF IndexInv

LEMMA OperationBeginsKeeps ==
    ASSUME NEW p \in Paths, IndexInv, _runIndexOperation(p) \/ OperationReads(p) PROVE IndexInv'
<1>1. /\ IndexShape /\ OperationsInOrder /\ RebuildExclusive
  BY DEF IndexInv
<1> DEFINE op == work[p][1]
<1>2. /\ work[p] # <<>> /\ work \in [Paths -> Seq(IndexOperation)] /\ Head(work[p]) = op
      /\ op \in IndexOperation /\ 1 \in DOMAIN work[p] /\ work[p] \in Seq(IndexOperation)
  <2>1. work[p] # <<>> /\ work \in [Paths -> Seq(IndexOperation)] /\ work[p] \in Seq(IndexOperation)
    BY <1>1 DEF IndexShape, _runIndexOperation, OperationReads
  <2>2. 1 \in DOMAIN work[p]
    BY <1>1, <2>1, ShapeFacts
  <2> QED
    BY <2>1, <2>2
<1>3. ASSUME NEW e \in IndexOperation, work' = [work EXCEPT ![p] = [work[p] EXCEPT ![1] = e]]
      PROVE  /\ work' \in [Paths -> Seq(IndexOperation)] /\ \A q \in Paths \ {p} : work'[q] = work[q]
             /\ Len(work'[p]) = Len(work[p]) /\ work'[p][1] = e
             /\ \A i \in DOMAIN work[p] : i # 1 => work'[p][i] = work[p][i]
  <2>1. work'[p] = [work[p] EXCEPT ![1] = e]
    BY <1>2, <1>3
  <2>2. work'[p] \in Seq(IndexOperation) /\ Len(work'[p]) = Len(work[p]) /\ work'[p][1] = e
    BY <1>2, <2>1
  <2> QED
    BY <1>2, <1>3, <2>1, <2>2
<1>4. CASE _runIndexOperation(p)
  <2> DEFINE e == [op EXCEPT !.stage = "waiting", !.behind = IF rebuild.generation = live THEN rebuilds ELSE 0]
  <2>1. /\ op.stage = "queued" /\ live = op.generation
        /\ work' = [work EXCEPT ![p][1].stage = "waiting",
                                ![p][1].behind = IF rebuild.generation = live THEN rebuilds ELSE 0]
        /\ UNCHANGED <<content, tracked, live, generations, lifecycle, broken, rebuild, rebuilds, failures,
                       rows, tainted, query, shown, reader>>
    BY <1>2, <1>4 DEF _runIndexOperation
  <2>2. rebuilds \in Nat
    BY <1>1 DEF IndexShape
  <2>3. /\ e \in IndexOperation /\ e.kind = op.kind /\ e.version = op.version /\ e.generation = op.generation
        /\ e.stage = "waiting" /\ (rebuild.generation = live => e.behind = rebuilds)
    BY <1>2, <2>2 DEF IndexOperation
  <2>4. work' = [work EXCEPT ![p] = [work[p] EXCEPT ![1] = e]]
    BY <1>2, <2>1 DEF IndexOperation
  <2> HIDE DEF e
  <2> QED
    BY <1>2, <1>3, <2>1, <2>3, <2>4, HeadKeeps
<1>5. CASE OperationReads(p)
  <2> DEFINE e == [op EXCEPT !.stage = "read", !.existing = rows[p].version]
  <2>1. /\ op.stage = "waiting" /\ live = op.generation /\ MayRun(op) /\ op.kind = "update"
        /\ work' = [work EXCEPT ![p][1].stage = "read", ![p][1].existing = rows[p].version]
        /\ UNCHANGED <<content, tracked, live, generations, lifecycle, broken, rebuild, rebuilds, failures,
                       rows, tainted, query, shown, reader>>
    BY <1>2, <1>5 DEF OperationReads
  <2>2. rows[p].version \in Nat
    BY <1>1, ShapeFacts
  <2>3. /\ e \in IndexOperation /\ e.kind = op.kind /\ e.version = op.version /\ e.generation = op.generation
        /\ e.stage = "read" /\ e.existing = rows[p].version
    BY <1>2, <2>2 DEF IndexOperation
  <2>4. work' = [work EXCEPT ![p] = [work[p] EXCEPT ![1] = e]]
    BY <1>2, <2>1 DEF IndexOperation
  <2>5. IsReady(live)
    BY <1>1, <1>2, <2>1 DEF MayRun, IsReady, OperationsInOrder
  <2>6. rebuild.stage # "none" /\ rebuild.generation = live => p \in rebuild.prior /\ op.behind # rebuilds
    BY <1>1, <1>2, <2>1 DEF RebuildExclusive, MayRun
  <2> HIDE DEF e
  <2> QED
    BY <1>2, <1>3, <2>1, <2>3, <2>4, <2>5, <2>6, HeadKeeps
<1> QED
  BY <1>4, <1>5

Notified == query' = [stage |-> IF live = 0 THEN "answered" ELSE "asked", generation |-> live, result |-> NoRows]

\* The first operation of a path settles: without effect when its generation is gone,
\* else it has written or deleted its row, or failed.
LEMMA OperationSettlesKeeps ==
    ASSUME IndexInv, NEW p \in Paths, work[p] # <<>>, NEW h, h = work[p][1],
           NEW deletes \in BOOLEAN, NEW fails \in BOOLEAN, Settles(p, deletes, fails),
           rows' \in Rows, tainted' \subseteq Paths,
           \A q \in Paths \ {p} : rows'[q] = rows[q] /\ (q \in tainted' <=> q \in tainted),
           \/ rows'[p] = rows[p] \/ rows'[p] = NoRow
           \/ h.stage = "read" /\ rows'[p] = [version |-> h.version, generation |-> h.generation],
           h.generation = live => h.stage # "queued" /\ (h.stage = "waiting" => MayRun(h)),
           IsReady(live) /\ h.generation # live => rows'[p] = rows[p] /\ (p \in tainted' <=> p \in tainted),
           IsReady(live) /\ h.generation = live =>
               \/ fails /\ rows'[p] = rows[p] /\ p \in tainted'
               \/ /\ ~fails
                  /\ \/ deletes /\ rows'[p] = NoRow /\ (h.kind = "remove" \/ h.version \in InvalidVersions)
                     \/ ~deletes /\ h.kind = "update" /\ rows'[p].version = h.version,
           failures' \in Nat, failures' = 0 => failures = 0,
           Notified \/ (query' = query /\ (rows' = rows \/ failures' # 0)),
           UNCHANGED <<content, tracked, live, generations, lifecycle, broken, rebuilds, shown>>
    PROVE  IndexInv'
<1> DEFINE n == Len(work[p])
<1>1. /\ IndexShape /\ LifecycleInOrder /\ RowsOwned /\ OperationsInOrder /\ RebuildExclusive
      /\ RowsSettle /\ VersionsBounded /\ SubscriptionFollows /\ ReaderServed
  BY DEF IndexInv
<1>2. /\ n \in Nat \ {0} /\ DOMAIN work[p] = 1..n /\ 1 \in DOMAIN work[p] /\ n \in DOMAIN work[p]
      /\ h \in IndexOperation
  BY <1>1, ShapeFacts
<1>3. /\ work' \in [Paths -> Seq(IndexOperation)] /\ \A q \in Paths \ {p} : work'[q] = work[q]
      /\ Len(work'[p]) = n - 1 /\ DOMAIN work'[p] = 1..(n - 1) /\ (work'[p] = <<>> <=> n = 1)
      /\ \A i \in DOMAIN work'[p] : work'[p][i] = work[p][i + 1] /\ i + 1 \in DOMAIN work[p] /\ i + 1 # 1
  <2>1. work \in [Paths -> Seq(IndexOperation)] /\ work' = [work EXCEPT ![p] = Tail(@)]
    BY <1>1 DEF IndexShape, Settles
  <2>2. work[p] \in Seq(IndexOperation) /\ work'[p] = Tail(work[p]) /\ \A q \in Paths \ {p} : work'[q] = work[q]
    BY <2>1
  <2>3. /\ Len(work'[p]) = n - 1 /\ DOMAIN work'[p] = 1..(n - 1) /\ (work'[p] = <<>> <=> n = 1)
        /\ \A i \in DOMAIN work'[p] : work'[p][i] = work[p][i + 1]
        /\ work'[p] \in Seq(IndexOperation)
    BY <2>2, TailFacts
  <2>4. \A i \in DOMAIN work'[p] : i + 1 \in DOMAIN work[p] /\ i + 1 # 1
    BY <2>3, <1>2
  <2>5. work' \in [Paths -> Seq(IndexOperation)]
    BY <2>1, <2>2, <2>3
  <2> QED
    BY <2>2, <2>3, <2>4, <2>5
<1>4. /\ rebuild' = [rebuild EXCEPT !.prior = @ \ {p}]
      /\ rebuild'.stage = rebuild.stage /\ rebuild'.generation = rebuild.generation
      /\ rebuild'.docs = rebuild.docs /\ rebuild'.left = rebuild.left /\ rebuild'.prior = rebuild.prior \ {p}
      /\ rebuild' \in [stage : {"none", "waiting", "writing"}, generation : Nat, docs : Rows,
                       prior : SUBSET Paths, left : SUBSET Paths]
  <2>1. rebuild' = [rebuild EXCEPT !.prior = @ \ {p}]
    BY DEF Settles
  <2>2. rebuild \in [stage : {"none", "waiting", "writing"}, generation : Nat, docs : Rows,
                     prior : SUBSET Paths, left : SUBSET Paths]
    BY <1>1 DEF IndexShape
  <2> QED
    BY <2>1, <2>2
<1>5. /\ \A g : (IsReady(g)' <=> IsReady(g)) /\ (Active(g)' <=> Active(g)) /\ (IsReady(g) => g # 0)
      /\ Removing' <=> Removing
  BY <1>1, ShapeFacts DEF IsReady, Active, Removing
<1>6. h.stage = "read" => Active(h.generation)
  BY <1>1, <1>2 DEF OperationsInOrder
<1>7. query' \in [stage : {"asked", "answered", "shown", "rejected"}, generation : Nat, result : Rows]
  <2>1. query \in [stage : {"asked", "answered", "shown", "rejected"}, generation : Nat, result : Rows] /\ live \in Nat
    BY <1>1 DEF IndexShape
  <2>2. Notified => query' \in [stage : {"asked", "answered", "shown", "rejected"}, generation : Nat, result : Rows]
    BY <2>1, RowFacts DEF Notified
  <2> QED
    BY <2>1, <2>2
<1>8. LifecycleInOrder'
  BY <1>1 DEF LifecycleInOrder, IsReady
<1>9. RowsOwned'
  <2>1. ASSUME NEW q \in Paths, rows'[q] # NoRow
        PROVE  IsReady(rows'[q].generation) /\ (live = rows'[q].generation \/ broken \/ Removing)
    <3>1. CASE rows'[q] = rows[q]
      BY <2>1, <3>1, <1>1 DEF RowsOwned
    <3>2. CASE q = p /\ h.stage = "read" /\ rows'[p] = [version |-> h.version, generation |-> h.generation]
      BY <3>2, <1>6 DEF Active
    <3> QED
      BY <2>1, <3>1, <3>2
  <2> QED
    BY <2>1, <1>5 DEF RowsOwned
<1>10. OperationsInOrder'
  <2> SUFFICES ASSUME NEW q \in Paths, NEW i \in DOMAIN work'[q]
               PROVE  /\ work'[q][i].generation \in DOMAIN generations /\ work'[q][i].version <= content[q]
                      /\ work'[q][i].kind = "remove" => work'[q][i].version = 0
                      /\ i # 1 => work'[q][i].stage = "queued"
                      /\ work'[q][i].generation = live =>
                             \A j \in DOMAIN work'[q] : i <= j => work'[q][j].generation = live
                      /\ work'[q][i].stage = "read" =>
                             /\ Active(work'[q][i].generation) /\ work'[q][i].kind = "update"
                             /\ work'[q][i].existing = rows'[q].version
    BY DEF OperationsInOrder, Active, IsReady, Removing
  <2>1. CASE q # p
    <3>1. work'[q] = work[q] /\ rows'[q] = rows[q]
      BY <2>1, <1>3
    <3> QED
      BY <3>1, <1>1 DEF OperationsInOrder
  <2>2. CASE q = p
    <3>1. work'[q][i] = work[p][i + 1] /\ i + 1 \in DOMAIN work[p] /\ i + 1 # 1
      BY <2>2, <1>3
    <3>2. /\ work[p][i + 1].generation \in DOMAIN generations /\ work[p][i + 1].version <= content[p]
          /\ work[p][i + 1].kind = "remove" => work[p][i + 1].version = 0
          /\ work[p][i + 1].stage = "queued"
          /\ work[p][i + 1].generation = live => \A j \in DOMAIN work[p] : i + 1 <= j => work[p][j].generation = live
      BY <3>1, <1>1 DEF OperationsInOrder
    <3>3. ASSUME work'[q][i].generation = live, NEW j \in DOMAIN work'[q], i <= j
          PROVE  work'[q][j].generation = live
      <4>1. j + 1 \in DOMAIN work[p] /\ work'[q][j] = work[p][j + 1] /\ i + 1 <= j + 1
        BY <2>2, <3>3, <1>3
      <4> QED
        BY <3>1, <3>2, <3>3, <4>1
    <3> QED
      BY <2>2, <3>1, <3>2, <3>3
  <2> QED
    BY <2>1, <2>2
<1>11. work'[p] # <<>> => work'[p][1].stage = "queued"
  <2>1. work'[p] # <<>> => 1 \in DOMAIN work'[p]
    BY <1>2, <1>3
  <2> QED
    BY <1>1, <1>3, <2>1 DEF OperationsInOrder
<1>12. rebuild.stage = "writing" /\ rebuild.generation = live => rows'[p] = rows[p] \/ rows'[p] = NoRow
  <2> SUFFICES ASSUME rebuild.stage = "writing", rebuild.generation = live, h.stage = "read" PROVE FALSE
    OBVIOUS
  <2>1. Active(live) /\ rebuild.prior = {}
    BY <1>1 DEF RebuildExclusive
  <2>2. live = h.generation
    BY <1>1, <1>6, <2>1, ActiveIsLive DEF Active
  <2> QED
    BY <1>1, <2>1, <2>2 DEF RebuildExclusive
<1>13. RebuildExclusive'
  <2>1. ASSUME rebuild.stage # "none", NEW q \in Paths, work'[q] # <<>>, work'[q][1].stage # "queued",
               work'[q][1].generation = rebuild.generation
        PROVE  q \in rebuild'.prior \/ (work'[q][1].stage = "waiting" /\ work'[q][1].behind = rebuilds)
    <3>1. q # p /\ work'[q] = work[q]
      BY <2>1, <1>3, <1>11
    <3> QED
      BY <2>1, <3>1, <1>1, <1>4 DEF RebuildExclusive
  <2>2. ASSUME rebuild.stage = "writing"
        PROVE  /\ Active(rebuild.generation)' /\ rebuild'.prior = {}
               /\ rebuild'.left \subseteq {q \in Paths : rebuild'.docs[q] # NoRow}
               /\ rebuild'.generation = live => \A q \in Paths : rows'[q] = NoRow \/ rows'[q] = rebuild'.docs[q]
    <3>1. /\ Active(rebuild.generation) /\ rebuild.prior = {}
          /\ rebuild.left \subseteq {q \in Paths : rebuild.docs[q] # NoRow}
          /\ rebuild.generation = live => \A q \in Paths : rows[q] = NoRow \/ rows[q] = rebuild.docs[q]
      BY <2>2, <1>1 DEF RebuildExclusive
    <3>2. Active(rebuild.generation)'
      BY <3>1, <1>4, <1>5 DEF Active
    <3> QED
      BY <2>2, <3>1, <3>2, <1>4, <1>12
  <2>3. ASSUME rebuild.stage # "none"
        PROVE  /\ rebuilds > 0 /\ rebuild'.generation \in DOMAIN generations
               /\ \A q \in Paths : /\ rebuild'.docs[q] # NoRow => rebuild'.docs[q].generation = rebuild'.generation
                                   /\ rebuild'.docs[q].version <= content[q]
    BY <2>3, <1>1, <1>4 DEF RebuildExclusive
  <2> HIDE DEF Active
  <2> QED
    BY <1>4, <2>1, <2>2, <2>3 DEF RebuildExclusive
<1>14. RowsSettle'
  <2> SUFFICES ASSUME live # 0, NEW q \in Paths
               PROVE  /\ Owed(q)' => IF LastOf(q)'.kind = "update"
                                     THEN q \in tracked /\ LastOf(q)'.version = content[q] ELSE q \notin tracked
                      /\ IsReady(live) /\ q \notin tainted' => Owed(q)' \/ Current(q, rows'[q])
                      /\ rebuild.stage # "none" /\ rebuild.generation = live =>
                             \/ Current(q, rebuild.docs[q])
                             \/ Owed(q)' /\ (LastOf(q)'.stage = "queued"
                                            \/ (LastOf(q)'.stage = "waiting" /\ LastOf(q)'.behind = rebuilds))
    BY <1>4 DEF RowsSettle, Current, IsReady
  <2>0. /\ Owed(q) => IF LastOf(q).kind = "update" THEN q \in tracked /\ LastOf(q).version = content[q] ELSE q \notin tracked
        /\ IsReady(live) /\ q \notin tainted => Owed(q) \/ Current(q, rows[q])
        /\ rebuild.stage # "none" /\ rebuild.generation = live =>
               \/ Current(q, rebuild.docs[q])
               \/ Owed(q) /\ (LastOf(q).stage = "queued" \/ (LastOf(q).stage = "waiting" /\ LastOf(q).behind = rebuilds))
    BY <1>1 DEF RowsSettle
  <2>1. CASE q # p
    <3>1. (Owed(q)' <=> Owed(q)) /\ LastOf(q)' = LastOf(q) /\ rows'[q] = rows[q] /\ (q \in tainted' <=> q \in tainted)
      BY <2>1, <1>3 DEF Owed, LastOf
    <3> QED
      BY <2>0, <3>1
  <2>2. CASE q = p /\ n # 1
    <3>1. n - 1 \in DOMAIN work'[p] /\ n - 1 + 1 = n /\ Len(work'[p]) = n - 1 /\ work'[p] # <<>>
      BY <2>2, <1>2, <1>3
    <3>2. LastOf(p)' = LastOf(p) /\ (Owed(p)' <=> Owed(p))
      BY <3>1, <1>3 DEF Owed, LastOf
    <3>3. h.generation = live => Owed(p)
      BY <1>1, <1>2 DEF OperationsInOrder, Owed
    <3>4. IsReady(live) /\ p \notin tainted' => Owed(p) \/ Current(p, rows'[p])
      BY <2>0, <2>2, <3>3
    <3> QED
      BY <2>0, <2>2, <3>2, <3>4
  <2>3. CASE q = p /\ n = 1
    <3>1. LastOf(p) = h /\ (Owed(p) <=> h.generation = live) /\ ~Owed(p)'
      BY <2>3, <1>3 DEF Owed, LastOf
    <3>2. IsReady(live) /\ p \notin tainted' => Current(p, rows'[p])
      <4>1. CASE h.generation # live
        BY <2>0, <2>3, <3>1, <4>1
      <4>2. CASE h.generation = live
        BY <2>0, <2>3, <3>1, <4>2 DEF Current
      <4> QED
        BY <4>1, <4>2
    <3>3. rebuild.stage # "none" /\ rebuild.generation = live => Current(p, rebuild.docs[p])
      BY <2>0, <2>3, <3>1 DEF MayRun
    <3> QED
      BY <2>3, <3>1, <3>2, <3>3
  <2> QED
    BY <2>1, <2>2, <2>3
<1>15. VersionsBounded'
  <2>1. rows[p].version <= content[p] /\ h.version <= content[p] /\ 0 <= content[p] /\ NoRow.version = 0
    BY <1>1, <1>2, ShapeFacts, RowFacts DEF VersionsBounded, OperationsInOrder
  <2> QED
    BY <1>1, <2>1 DEF VersionsBounded
<1>16. SubscriptionFollows'
  <2>1. failures' = 0 => ~broken
    BY <1>1 DEF SubscriptionFollows
  <2>2. query'.stage = "asked" => query'.generation \in DOMAIN generations
    BY <1>1, ShapeFacts DEF SubscriptionFollows, Notified
  <2>3. ASSUME failures' = 0, query'.stage \in {"answered", "shown"}
        PROVE  /\ Answer' = Versions(rows') \/ rebuild'.stage = "writing" \/ Removing
               /\ Removing => Answer' = Versions(NoRows)
    <3>1. CASE Notified
      <4>1. live = 0 /\ Answer' = Versions(NoRows)
        BY <2>3, <3>1 DEF Notified, Answer
      <4>2. Removing \/ rows' = NoRows
        <5>1. ~Removing => \A q \in Paths : rows'[q] = NoRow
          BY <2>1, <2>3, <4>1, <1>5, <1>9 DEF RowsOwned
        <5> QED
          BY <5>1, RowFacts DEF Rows, NoRows
      <4> QED
        BY <4>1, <4>2
    <3>2. CASE query' = query /\ rows' = rows
      BY <2>3, <3>2, <1>1, <1>4 DEF SubscriptionFollows, Answer
    <3> QED
      BY <2>3, <3>1, <3>2
  <2> QED
    BY <1>5, <2>1, <2>2, <2>3 DEF SubscriptionFollows
<1>17. /\ reader' \in [stage : {"none", "flushing", "read"}, generation : Nat, ahead : [Paths -> Nat],
                       need : [Paths -> Nat], got : Rows]
       /\ \/ reader' = NoReader
          \/ /\ ~(fails /\ reader.ahead[p] = 1)
             /\ reader'.stage = reader.stage /\ reader'.generation = reader.generation /\ reader'.got = reader.got
             /\ \A q \in Paths \ {p} : reader'.ahead[q] = reader.ahead[q] /\ reader'.need[q] = reader.need[q]
             /\ reader'.ahead[p] = IF reader.ahead[p] > 0 THEN reader.ahead[p] - 1 ELSE 0
             /\ reader'.need[p] = IF deletes /\ reader.ahead[p] = 0 THEN 0 ELSE reader.need[p]
  <2>1. reader \in [stage : {"none", "flushing", "read"}, generation : Nat, ahead : [Paths -> Nat],
                    need : [Paths -> Nat], got : Rows]
    BY <1>1 DEF IndexShape
  <2>2. CASE fails /\ reader.ahead[p] = 1
    BY <2>2, RowFacts DEF Settles
  <2>3. CASE ~(fails /\ reader.ahead[p] = 1)
    <3> DEFINE a == IF reader.ahead[p] > 0 THEN reader.ahead[p] - 1 ELSE 0
               d == IF deletes /\ reader.ahead[p] = 0 THEN 0 ELSE reader.need[p]
    <3>1. reader' = [reader EXCEPT !.ahead = [reader.ahead EXCEPT ![p] = a], !.need = [reader.need EXCEPT ![p] = d]]
      BY <2>1, <2>3 DEF Settles
    <3>2. a \in Nat /\ d \in Nat
      BY <2>1
    <3>3. /\ reader.ahead \in [Paths -> Nat] /\ reader.need \in [Paths -> Nat]
          /\ reader'.ahead = [reader.ahead EXCEPT ![p] = a] /\ reader'.need = [reader.need EXCEPT ![p] = d]
          /\ reader'.stage = reader.stage /\ reader'.generation = reader.generation /\ reader'.got = reader.got
      BY <2>1, <3>1
    <3> HIDE DEF a, d
    <3>4. /\ reader'.ahead \in [Paths -> Nat] /\ reader'.need \in [Paths -> Nat]
          /\ reader'.ahead[p] = a /\ reader'.need[p] = d
          /\ \A q \in Paths \ {p} : reader'.ahead[q] = reader.ahead[q] /\ reader'.need[q] = reader.need[q]
      BY <3>2, <3>3
    <3>5. reader' \in [stage : {"none", "flushing", "read"}, generation : Nat, ahead : [Paths -> Nat],
                       need : [Paths -> Nat], got : Rows]
      BY <2>1, <3>1, <3>2
    <3> QED
      BY <2>3, <3>3, <3>4, <3>5 DEF a, d
  <2> QED
    BY <2>2, <2>3
<1>18. IndexShape'
  BY <1>1, <1>3, <1>4, <1>7, <1>17 DEF IndexShape
<1>19. ReaderServed'
  <2>1. CASE reader' = NoReader
    <3>1. \A q \in Paths : Len(work'[q]) \in Nat /\ content[q] \in Nat
      <4>1. \A q \in Paths : work'[q] \in Seq(IndexOperation)
        BY <1>3
      <4> QED
        BY <1>1, <4>1, ShapeFacts
    <3> QED
      BY <2>1, <3>1, RowFacts DEF ReaderServed
  <2>2. CASE reader' # NoReader
    <3>1. /\ ~(fails /\ reader.ahead[p] = 1)
          /\ reader'.stage = reader.stage /\ reader'.generation = reader.generation /\ reader'.got = reader.got
          /\ \A q \in Paths \ {p} : reader'.ahead[q] = reader.ahead[q] /\ reader'.need[q] = reader.need[q]
          /\ reader'.ahead[p] = IF reader.ahead[p] > 0 THEN reader.ahead[p] - 1 ELSE 0
          /\ reader'.need[p] = IF deletes /\ reader.ahead[p] = 0 THEN 0 ELSE reader.need[p]
      BY <2>2, <1>17
    <3>2. \A q \in Paths : /\ reader.ahead[q] \in Nat /\ reader.need[q] \in Nat /\ content[q] \in Nat
                           /\ reader.got[q].version \in Nat
                           /\ reader.ahead[q] <= Len(work[q]) /\ reader.need[q] <= content[q]
      BY <1>1, ShapeFacts DEF ReaderServed
    <3>3. \A q \in Paths : reader'.ahead[q] <= Len(work'[q]) /\ reader'.need[q] <= content[q]
      <4> SUFFICES ASSUME NEW q \in Paths PROVE reader'.ahead[q] <= Len(work'[q]) /\ reader'.need[q] <= content[q]
        OBVIOUS
      <4>1. CASE q # p
        BY <3>1, <3>2, <4>1, <1>3
      <4>2. CASE q = p
        <5>1. reader'.need[p] <= content[p]
          BY <3>1, <3>2
        <5>2. reader'.ahead[p] <= n - 1
          <6> HIDE DEF n
          <6>1. reader.ahead[p] \in Nat /\ reader.ahead[p] <= n
            BY <3>2 DEF n
          <6> QED
            BY <3>1, <6>1, <1>2
        <5> QED
          BY <4>2, <5>1, <5>2, <1>3
      <4> QED
        BY <4>1, <4>2
    <3>4. ASSUME reader.stage = "flushing", live = reader.generation, rebuilds = 0, NEW q \in Paths
          PROVE  ReaderOwed(q)'
      <4>1. ReaderOwed(q) /\ IsReady(live)
        BY <3>4, <1>1 DEF ReaderServed
      <4>2. CASE q # p
        BY <3>1, <4>1, <4>2, <1>3 DEF ReaderOwed
      <4>3. CASE q = p
        <5> DEFINE a == reader.ahead[p]
        <5>1. /\ \A i \in DOMAIN work[p] : i > a /\ work[p][i].generation = live /\ work[p][i].kind = "update" =>
                      work[p][i].version >= reader.need[p]
              /\ IF a > 0 /\ work[p][a].generation = live THEN work[p][a].version = reader.need[p]
                 ELSE rows[p].version >= reader.need[p] \/ reader.need[p] \in InvalidVersions
              /\ a \in Nat /\ reader.need[p] \in Nat /\ a <= n
          BY <3>2, <4>1, <4>3 DEF ReaderOwed
        <5>2. \A i \in DOMAIN work'[p] : i > reader'.ahead[p] /\ work'[p][i].generation = live
                  /\ work'[p][i].kind = "update" => work'[p][i].version >= reader'.need[p]
          <6> SUFFICES ASSUME NEW i \in DOMAIN work'[p], i > reader'.ahead[p], work'[p][i].generation = live,
                              work'[p][i].kind = "update"
                       PROVE  work'[p][i].version >= reader'.need[p]
            OBVIOUS
          <6>1. i + 1 \in DOMAIN work[p] /\ work'[p][i] = work[p][i + 1] /\ i + 1 > a
            BY <3>1, <5>1, <1>3
          <6>2. work'[p][i].version >= reader.need[p] /\ work[p][i + 1].version \in Nat
            BY <5>1, <6>1, <1>1, ShapeFacts, OperationFacts
          <6> QED
            BY <3>1, <5>1, <6>1, <6>2
        <5>3. h.generation # live => rows'[p] = rows[p]
          BY <4>1
        <5>4. CASE a > 1
          <6>1. a - 1 \in DOMAIN work'[p] /\ work'[p][a - 1] = work[p][a] /\ reader'.ahead[p] = a - 1
                /\ reader'.need[p] = reader.need[p] /\ a - 1 > 0 /\ a \in DOMAIN work[p]
            <7>1. a - 1 \in 1..(n - 1) /\ a \in 1..n /\ a - 1 + 1 = a
              BY <5>1, <5>4, <1>2
            <7> QED
              BY <3>1, <5>1, <5>4, <7>1, <1>2, <1>3
          <6>2. work[p][a].generation # live => h.generation # live
            BY <6>1, <5>4, <1>1, <1>2 DEF OperationsInOrder
          <6> QED
            BY <4>3, <5>1, <5>2, <5>3, <6>1, <6>2 DEF ReaderOwed
        <5>5. CASE a = 1
          <6>1. reader'.ahead[p] = 0 /\ reader'.need[p] = reader.need[p] /\ work[p][a] = h /\ ~fails
            BY <3>1, <5>5
          <6>2. rows'[p].version >= reader.need[p] \/ reader.need[p] \in InvalidVersions
            <7>1. CASE h.generation # live
              BY <5>1, <5>3, <5>5, <6>1, <7>1
            <7>2. CASE h.generation = live
              <8>1. h.version = reader.need[p] /\ (h.kind = "remove" => h.version = 0)
                BY <5>1, <5>5, <6>1, <7>2, <1>1, <1>2 DEF OperationsInOrder
              <8> QED
                BY <4>1, <5>1, <6>1, <7>2, <8>1, RowFacts
            <7> QED
              BY <7>1, <7>2
          <6> QED
            BY <4>3, <5>2, <6>1, <6>2 DEF ReaderOwed
        <5>6. CASE a = 0
          <6>1. reader'.ahead[p] = 0 /\ (rows[p].version >= reader.need[p] \/ reader.need[p] \in InvalidVersions)
            BY <3>1, <5>1, <5>6
          <6>2. rows'[p].version >= reader'.need[p] \/ reader'.need[p] \in InvalidVersions
            <7>1. CASE deletes
              <8>1. reader'.need[p] = 0 /\ rows'[p].version \in Nat
                BY <3>1, <5>6, <7>1 DEF Rows, Row
              <8> QED
                BY <8>1
            <7>2. CASE ~deletes
              <8>1. h.generation = live /\ h.kind = "update" => h.version >= reader.need[p]
                BY <5>1, <5>6, <1>2
              <8>2. reader'.need[p] = reader.need[p]
                BY <3>1, <7>2
              <8>3. rows[p].version >= reader.need[p] \/ reader.need[p] \in InvalidVersions
                BY <5>1, <5>6
              <8> QED
                BY <4>1, <5>3, <7>2, <8>1, <8>2, <8>3
            <7> QED
              BY <7>1, <7>2
          <6>3. reader'.ahead[p] = 0
            BY <3>1, <5>6
          <6> QED
            BY <4>3, <5>2, <6>2, <6>3 DEF ReaderOwed
        <5> QED
          BY <5>1, <5>4, <5>5, <5>6
      <4> QED
        BY <4>2, <4>3
    <3>5. ASSUME reader.stage = "read", rebuilds = 0, NEW q \in Paths
          PROVE  reader'.got[q].version >= reader'.need[q] \/ reader'.need[q] \in InvalidVersions
      <4>1. reader.got[q].version >= reader.need[q] \/ reader.need[q] \in InvalidVersions
        BY <3>5, <1>1 DEF ReaderServed
      <4> QED
        BY <3>1, <3>2, <4>1
    <3>6. reader.stage # "none" => IsReady(reader.generation)'
      BY <1>1, <3>1, <1>5 DEF ReaderServed
    <3> QED
      BY <3>1, <3>3, <3>4, <3>5, <3>6 DEF ReaderServed
  <2> QED
    BY <2>1, <2>2
<1> QED
  BY <1>8, <1>9, <1>10, <1>13, <1>14, <1>15, <1>16, <1>18, <1>19 DEF IndexInv

LEMMA FailedFacts ==
    ASSUME failures \in Nat, NEW fails \in BOOLEAN, Failed(fails)
    PROVE  failures' \in Nat /\ (failures' = 0 => failures = 0) /\ (fails => failures' # 0)
BY DEF Failed

LEMMA SettlingKeeps ==
    ASSUME NEW p \in Paths, NEW fails \in BOOLEAN, IndexInv,
           OperationSkipped(p) \/ OperationDeletes(p, fails) \/ OperationWrites(p, fails)
    PROVE  IndexInv'
<1> DEFINE h == work[p][1]
<1>1. IndexShape /\ LifecycleInOrder /\ OperationsInOrder
  BY DEF IndexInv
<1>2. /\ work[p] # <<>> /\ Head(work[p]) = h /\ 1 \in DOMAIN work[p] /\ h \in IndexOperation
      /\ rows \in [Paths -> Row] /\ tainted \subseteq Paths /\ failures \in Nat /\ rows \in Rows
  <2>1. work[p] # <<>>
    BY DEF OperationSkipped, OperationDeletes, OperationWrites
  <2>2. work[p] \in Seq(IndexOperation) /\ 1 \in DOMAIN work[p]
    BY <1>1, <2>1, ShapeFacts
  <2>3. rows \in [Paths -> Row] /\ tainted \subseteq Paths /\ failures \in Nat
    BY <1>1 DEF IndexShape, Rows
  <2> QED
    BY <2>1, <2>2, <2>3 DEF Rows
<1>3. h.stage = "read" => Active(h.generation) /\ h.kind = "update" /\ h.existing = rows[p].version
  BY <1>1, <1>2 DEF OperationsInOrder
<1>4. CASE OperationSkipped(p)
  <2> DEFINE rejected == h.stage = "waiting" /\ generations[h.generation] = "failed"
  <2>1. /\ live # h.generation /\ Settles(p, FALSE, rejected)
        /\ Notified \/ query' = query
        /\ UNCHANGED <<content, tracked, live, generations, lifecycle, broken, rebuilds, failures, rows, tainted, shown>>
    BY <1>2, <1>4 DEF OperationSkipped, _notifySubscribers, Notified
  <2>2. rejected \in BOOLEAN /\ FALSE \in BOOLEAN
    OBVIOUS
  <2>3. failures' \in Nat /\ rows' \in Rows /\ tainted' \subseteq Paths
    BY <1>2, <2>1
  <2> HIDE DEF rejected, h
  <2> QED
    BY <1>2, <2>1, <2>2, <2>3, OperationSettlesKeeps DEF h
<1>5. CASE OperationDeletes(p, fails)
  <2>1. /\ live = h.generation /\ h.stage = "waiting" /\ MayRun(h)
        /\ h.kind = "remove" \/ h.version \in InvalidVersions
        /\ Failed(fails) /\ Settles(p, TRUE, fails)
        /\ rows' = IF fails THEN rows ELSE [rows EXCEPT ![p] = NoRow]
        /\ tainted' = IF fails THEN tainted \cup {p} ELSE tainted \ {p}
        /\ IF fails THEN query' = query ELSE Notified
        /\ UNCHANGED <<content, tracked, live, generations, lifecycle, broken, rebuilds, shown>>
    BY <1>2, <1>5 DEF OperationDeletes, _notifySubscribers, Notified
  <2>2. /\ rows' \in Rows /\ rows'[p] = (IF fails THEN rows[p] ELSE NoRow)
        /\ \A q \in Paths \ {p} : rows'[q] = rows[q]
    BY <1>2, <2>1, RowFacts DEF Rows
  <2>3. /\ tainted' \subseteq Paths /\ (fails => p \in tainted')
        /\ \A q \in Paths \ {p} : q \in tainted' <=> q \in tainted
    BY <1>2, <2>1
  <2>4. failures' \in Nat /\ (failures' = 0 => failures = 0) /\ (fails => failures' # 0)
    BY <1>2, <2>1, FailedFacts
  <2>5. \/ fails /\ rows'[p] = rows[p] /\ p \in tainted'
        \/ ~fails /\ rows'[p] = NoRow
    BY <2>2, <2>3
  <2>6. Notified \/ (query' = query /\ (rows' = rows \/ failures' # 0))
    BY <2>1, <2>4
  <2>7. TRUE \in BOOLEAN
    OBVIOUS
  <2> HIDE DEF h
  <2> QED
    BY <1>2, <2>1, <2>2, <2>3, <2>4, <2>5, <2>6, <2>7, OperationSettlesKeeps DEF h
<1>6. CASE OperationWrites(p, fails)
  <2> DEFINE unchanged == h.existing = h.version
             row == [version |-> h.version, generation |-> h.generation]
  <2>1. /\ h.stage = "read" /\ Failed(fails) /\ ~(unchanged /\ fails) /\ Settles(p, FALSE, fails)
        /\ rows' = IF fails \/ unchanged THEN rows ELSE [rows EXCEPT ![p] = row]
        /\ tainted' = IF fails THEN tainted \cup {p} ELSE tainted \ {p}
        /\ IF fails \/ unchanged THEN query' = query ELSE Notified
        /\ UNCHANGED <<content, tracked, live, generations, lifecycle, broken, rebuilds, shown>>
    BY <1>2, <1>6 DEF OperationWrites, _notifySubscribers, Notified
  <2>2. row \in Row /\ row.version = h.version
    BY <1>2, OperationFacts DEF Row
  <2> HIDE DEF row
  <2>3. /\ rows' \in Rows /\ rows'[p] = (IF fails \/ unchanged THEN rows[p] ELSE row)
        /\ \A q \in Paths \ {p} : rows'[q] = rows[q]
    BY <1>2, <2>1, <2>2 DEF Rows
  <2>4. /\ tainted' \subseteq Paths /\ (fails => p \in tainted')
        /\ \A q \in Paths \ {p} : q \in tainted' <=> q \in tainted
    BY <1>2, <2>1
  <2>5. failures' \in Nat /\ (failures' = 0 => failures = 0) /\ (fails => failures' # 0)
    BY <1>2, <2>1, FailedFacts
  <2>6. \/ fails /\ rows'[p] = rows[p] /\ p \in tainted'
        \/ ~fails /\ h.kind = "update" /\ rows'[p].version = h.version
    BY <1>3, <2>1, <2>2, <2>3, <2>4
  <2>7. Notified \/ (query' = query /\ (rows' = rows \/ failures' # 0))
    BY <2>1, <2>5
  <2>8. IsReady(live) => h.generation = live
    BY <1>1, <1>3, <2>1, ActiveIsLive
  <2>9. rows'[p] = rows[p] \/ rows'[p] = [version |-> h.version, generation |-> h.generation]
    BY <2>3 DEF row
  <2> HIDE DEF unchanged
  <2>10. FALSE \in BOOLEAN /\ Settles(p, FALSE, fails)
    BY <2>1
  <2>11. \/ rows'[p] = rows[p] \/ rows'[p] = NoRow
         \/ h.stage = "read" /\ rows'[p] = [version |-> h.version, generation |-> h.generation]
    BY <2>1, <2>9
  <2>12. h.generation = live => h.stage # "queued" /\ (h.stage = "waiting" => MayRun(h))
    BY <2>1
  <2>13. IsReady(live) /\ h.generation # live => rows'[p] = rows[p] /\ (p \in tainted' <=> p \in tainted)
    BY <2>8
  <2>14. IsReady(live) /\ h.generation = live =>
            \/ fails /\ rows'[p] = rows[p] /\ p \in tainted'
            \/ /\ ~fails
               /\ \/ FALSE /\ rows'[p] = NoRow /\ (h.kind = "remove" \/ h.version \in InvalidVersions)
                  \/ ~FALSE /\ h.kind = "update" /\ rows'[p].version = h.version
    BY <2>6
  <2>15. /\ rows' \in Rows /\ tainted' \subseteq Paths
         /\ \A q \in Paths \ {p} : rows'[q] = rows[q] /\ (q \in tainted' <=> q \in tainted)
         /\ UNCHANGED <<content, tracked, live, generations, lifecycle, broken, rebuilds, shown>>
    BY <2>1, <2>3, <2>4
  <2>16. work[p] # <<>> /\ failures' \in Nat /\ (failures' = 0 => failures = 0)
    BY <1>2, <2>5
  <2> HIDE DEF h
  <2>17. h = work[p][1]
    BY DEF h
  <2> QED
    BY <2>7, <2>10, <2>11, <2>12, <2>13, <2>14, <2>15, <2>16, <2>17, OperationSettlesKeeps
<1> QED
  BY <1>4, <1>5, <1>6

\* An index in force that is not waiting for its definition is ready.
LEMMA LiveIsReady ==
    ASSUME IndexShape, LifecycleInOrder, live # 0, generations[live] # "pending"
    PROVE  IsReady(live) /\ lifecycle = <<>> /\ ~broken /\ ~Removing
<1>1. live \in DOMAIN generations /\ generations[live] \in {"pending", "ready", "failed"}
  <2>1. generations \in Seq({"pending", "ready", "failed"})
    BY DEF IndexShape
  <2>2. live \in DOMAIN generations
    BY ShapeFacts
  <2> QED
    BY <2>1, <2>2
<1>2. IsReady(live)
  BY <1>1 DEF IsReady, LifecycleInOrder
<1> QED
  BY <1>2 DEF LifecycleInOrder, Removing

LEMMA RebuildBeginsKeeps == IndexInv /\ rebuildIndex => IndexInv'
<1> SUFFICES ASSUME IndexInv, rebuildIndex PROVE IndexInv'
  OBVIOUS
<1> DEFINE docs == [p \in Paths |-> IF p \in tracked /\ content[p] \notin InvalidVersions
                                    THEN [version |-> content[p], generation |-> live] ELSE NoRow]
           prior == {p \in Paths : InFlight(p, live)}
<1>1. /\ IndexShape /\ LifecycleInOrder /\ RowsOwned /\ OperationsInOrder /\ RebuildExclusive
      /\ RowsSettle /\ VersionsBounded /\ SubscriptionFollows /\ ReaderServed
  BY DEF IndexInv
<1>2. /\ live # 0 /\ rebuild.stage = "none" /\ rebuilds' = rebuilds + 1
      /\ rebuild' = [stage |-> "waiting", generation |-> live, docs |-> docs, prior |-> prior, left |-> {}]
      /\ UNCHANGED <<content, tracked, live, generations, lifecycle, broken, work, failures, rows, tainted, query, shown, reader>>
  BY DEF rebuildIndex
<1>3. docs \in Rows
  BY <1>1, ShapeFacts, RowFacts DEF Rows, Row
<1>4. /\ rebuild'.stage = "waiting" /\ rebuild'.generation = live /\ rebuild'.docs = docs /\ rebuild'.prior = prior
      /\ \A p \in Paths : docs[p] = IF p \in tracked /\ content[p] \notin InvalidVersions
                                    THEN [version |-> content[p], generation |-> live] ELSE NoRow
  BY <1>2
<1> HIDE DEF docs
<1>a. \A p \in Paths : docs[p] = NoRow \/ (p \in tracked /\ docs[p].version = content[p] /\ docs[p].generation = live)
  <2> SUFFICES ASSUME NEW p \in Paths, docs[p] # NoRow
               PROVE  p \in tracked /\ docs[p].version = content[p] /\ docs[p].generation = live
    OBVIOUS
  <2>1. p \in tracked /\ docs[p] = [version |-> content[p], generation |-> live]
    BY <1>4
  <2> QED
    BY <2>1
<1>5. rebuild' \in [stage : {"none", "waiting", "writing"}, generation : Nat, docs : Rows,
                    prior : SUBSET Paths, left : SUBSET Paths]
  BY <1>1, <1>2, <1>3, ShapeFacts
<1>6. live \in DOMAIN generations /\ rebuilds \in Nat /\ rebuilds' \in Nat /\ rebuilds' > 0
  BY <1>1, <1>2, ShapeFacts
<1>7. IndexShape'
  BY <1>1, <1>2, <1>5, <1>6 DEF IndexShape
<1>8. \A h : (IsReady(h)' <=> IsReady(h)) /\ (Active(h)' <=> Active(h))
  BY <1>2 DEF IsReady, Active, Removing
<1>9. LifecycleInOrder' /\ RowsOwned' /\ OperationsInOrder' /\ VersionsBounded'
  BY <1>1, <1>2, <1>8 DEF LifecycleInOrder, RowsOwned, OperationsInOrder, VersionsBounded, IsReady, Removing
<1>10. RebuildExclusive'
  <2>1. \A p \in Paths : /\ docs[p] # NoRow => docs[p].generation = live
                         /\ docs[p].version <= content[p]
    <3>1. NoRow.version = 0 /\ \A p \in Paths : content[p] \in Nat
      BY <1>1, ShapeFacts, RowFacts
    <3> QED
      BY <1>a, <3>1
  <2>2. ASSUME NEW p \in Paths, work[p] # <<>>, work[p][1].stage # "queued", work[p][1].generation = live
        PROVE  p \in prior
    <3>1. Head(work[p]) = work[p][1]
      BY <1>1, <2>2, ShapeFacts
    <3> QED
      BY <2>2, <3>1 DEF InFlight
  <2> HIDE DEF prior
  <2> QED
    BY <1>2, <1>4, <1>6, <2>1, <2>2 DEF RebuildExclusive
<1>11. RowsSettle'
  <2>1. \A p \in Paths : Current(p, rebuild'.docs[p])
    BY <1>4, <1>a DEF Current
  <2>2. \A p \in Paths : /\ Owed(p)' <=> Owed(p)
                         /\ LastOf(p)' = LastOf(p)
                         /\ Current(p, rows[p])' <=> Current(p, rows[p])
                         /\ Current(p, rebuild.docs[p])'
    BY <1>2, <2>1 DEF Owed, LastOf, Current
  <2> QED
    BY <1>1, <1>2, <1>8, <2>2 DEF RowsSettle
<1>12. SubscriptionFollows' /\ ReaderServed'
  BY <1>1, <1>2, <1>4, <1>6, <1>8 DEF SubscriptionFollows, Answer, Removing, ReaderServed
<1> QED
  BY <1>7, <1>9, <1>10, <1>11, <1>12 DEF IndexInv

\* A rebuild that writes finds no operation that has read its row.
LEMMA RebuildIsAlone ==
    ASSUME IndexShape, LifecycleInOrder, OperationsInOrder, RebuildExclusive, rebuild.stage # "none",
           rebuild.generation = live, IsReady(live), rebuild.prior = {}
    PROVE  \A p \in Paths : \A i \in DOMAIN work[p] : work[p][i].stage # "read"
<1> SUFFICES ASSUME NEW p \in Paths, NEW i \in DOMAIN work[p], work[p][i].stage = "read" PROVE FALSE
  OBVIOUS
<1>1. i = 1 /\ Active(work[p][i].generation) /\ work[p] # <<>>
  BY DEF OperationsInOrder
<1>2. work[p][1].generation = live
  BY <1>1, ActiveIsLive
<1> QED
  BY <1>1, <1>2 DEF RebuildExclusive

\* A rebuild writes: it clears the rows, or puts one of its own.
LEMMA RebuildProceedsKeeps ==
    ASSUME IndexInv, rebuild.stage # "none", rebuild.generation = live, IsReady(live), rebuild.prior = {},
           rebuild'.stage = "writing", rebuild'.generation = rebuild.generation, rebuild'.docs = rebuild.docs,
           rebuild'.prior = {}, rebuild'.left \subseteq {p \in Paths : rebuild.docs[p] # NoRow},
           rebuild' \in [stage : {"none", "waiting", "writing"}, generation : Nat, docs : Rows,
                         prior : SUBSET Paths, left : SUBSET Paths],
           rows' \in Rows, \A p \in Paths : rows'[p] = NoRow \/ rows'[p] = rebuild.docs[p],
           UNCHANGED <<content, tracked, live, generations, lifecycle, broken, work, rebuilds, failures, tainted,
                       query, shown, reader>>
    PROVE  IndexInv'
<1>1. /\ IndexShape /\ LifecycleInOrder /\ RowsOwned /\ OperationsInOrder /\ RebuildExclusive
      /\ RowsSettle /\ VersionsBounded /\ SubscriptionFollows /\ ReaderServed
  BY DEF IndexInv
<1>2. /\ \A h : (IsReady(h)' <=> IsReady(h)) /\ (Active(h)' <=> Active(h))
      /\ Active(live) /\ ~Removing
  BY <1>1 DEF IsReady, Active, Removing, LifecycleInOrder
<1>3. \A p \in Paths : \A i \in DOMAIN work[p] : work[p][i].stage # "read"
  BY <1>1, RebuildIsAlone
<1>4. IndexShape' /\ LifecycleInOrder'
  <2>1. IndexShape'
    BY <1>1 DEF IndexShape
  <2> QED
    BY <1>1, <2>1 DEF LifecycleInOrder, IsReady
<1>5. /\ rebuilds > 0 /\ rebuild.generation \in DOMAIN generations
      /\ \A p \in Paths :
             /\ rebuild.docs[p] # NoRow => rebuild.docs[p].generation = live
             /\ rebuild.docs[p].version <= content[p]
             /\ work[p] # <<>> /\ work[p][1].stage # "queued" /\ work[p][1].generation = rebuild.generation =>
                    p \in rebuild.prior \/ (work[p][1].stage = "waiting" /\ work[p][1].behind = rebuilds)
  BY <1>1 DEF RebuildExclusive
<1>6. RowsOwned'
  BY <1>2, <1>5 DEF RowsOwned
<1>7. OperationsInOrder'
  BY <1>1, <1>2, <1>3 DEF OperationsInOrder
<1>8. RebuildExclusive'
  <2>1. Active(rebuild.generation)'
    BY <1>2
  <2> QED
    BY <1>5, <2>1 DEF RebuildExclusive
<1>9. RowsSettle'
  <2> SUFFICES ASSUME live # 0, NEW p \in Paths
               PROVE  /\ Owed(p) => IF LastOf(p).kind = "update" THEN p \in tracked /\ LastOf(p).version = content[p]
                                    ELSE p \notin tracked
                      /\ IsReady(live) /\ p \notin tainted => Owed(p) \/ Current(p, rows'[p])
                      /\ rebuild.stage # "none" /\ rebuild.generation = live =>
                             \/ Current(p, rebuild.docs[p])
                             \/ Owed(p) /\ (LastOf(p).stage = "queued"
                                            \/ (LastOf(p).stage = "waiting" /\ LastOf(p).behind = rebuilds))
    BY DEF RowsSettle, Owed, LastOf, Current, IsReady
  <2> QED
    BY <1>1 DEF RowsSettle, Current
<1>10. VersionsBounded'
  <2>1. NoRow.version = 0 /\ \A p \in Paths : content[p] \in Nat
    BY <1>1, ShapeFacts, RowFacts
  <2> QED
    BY <1>5, <2>1 DEF VersionsBounded
<1>11. SubscriptionFollows' /\ ReaderServed'
  <2>1. rebuilds # 0
    BY <1>1, <1>5, ShapeFacts
  <2>2. SubscriptionFollows'
    BY <1>1, <1>2 DEF SubscriptionFollows, Answer, Removing
  <2> QED
    BY <1>1, <1>2, <2>1, <2>2 DEF ReaderServed
<1> QED
  BY <1>4, <1>6, <1>7, <1>8, <1>9, <1>10, <1>11 DEF IndexInv

\* A rebuild is over: given up, failed, or with its rows written.
LEMMA RebuildStopsKeeps ==
    ASSUME IndexInv, rebuild.stage # "none", rebuild' = NoRebuild,
           tainted' \subseteq Paths, tainted \subseteq tainted' \/ rebuild.stage = "writing",
           failures' \in Nat, failures' = 0 => failures = 0,
           \/ /\ query' = query
              /\ failures' = 0 => rebuild.stage = "waiting" \/ live # rebuild.generation
           \/ Notified /\ rebuild.stage = "writing",
           UNCHANGED <<content, tracked, live, generations, lifecycle, broken, work, rebuilds, rows, shown, reader>>
    PROVE  IndexInv'
<1>1. /\ IndexShape /\ LifecycleInOrder /\ RowsOwned /\ OperationsInOrder /\ RebuildExclusive
      /\ RowsSettle /\ VersionsBounded /\ SubscriptionFollows /\ ReaderServed
  BY DEF IndexInv
<1>2. /\ \A h : (IsReady(h)' <=> IsReady(h)) /\ (Active(h)' <=> Active(h))
      /\ Removing' <=> Removing
  BY DEF IsReady, Active, Removing
<1>3. query' \in [stage : {"asked", "answered", "shown", "rejected"}, generation : Nat, result : Rows]
  <2>1. query \in [stage : {"asked", "answered", "shown", "rejected"}, generation : Nat, result : Rows] /\ live \in Nat
    BY <1>1 DEF IndexShape
  <2>2. Notified => query' \in [stage : {"asked", "answered", "shown", "rejected"}, generation : Nat, result : Rows]
    BY <2>1, RowFacts DEF Notified
  <2> QED
    BY <2>1, <2>2
<1>4. IndexShape'
  BY <1>1, <1>3, RowFacts DEF IndexShape
<1>5. LifecycleInOrder' /\ RowsOwned' /\ OperationsInOrder' /\ VersionsBounded' /\ ReaderServed'
  <2>1. \A p \in Paths : ReaderOwed(p)' <=> ReaderOwed(p)
    BY DEF ReaderOwed
  <2> QED
    BY <1>1, <1>2, <2>1 DEF LifecycleInOrder, RowsOwned, OperationsInOrder, VersionsBounded, ReaderServed
<1>6. RebuildExclusive'
  BY RowFacts DEF RebuildExclusive
<1>7. rebuild.stage = "writing" => Active(rebuild.generation) /\ rebuild.generation # 0
  BY <1>1, ShapeFacts DEF RebuildExclusive
<1>8. RowsSettle'
  <2> SUFFICES ASSUME live # 0, NEW p \in Paths
               PROVE  /\ Owed(p) => IF LastOf(p).kind = "update" THEN p \in tracked /\ LastOf(p).version = content[p]
                                    ELSE p \notin tracked
                      /\ IsReady(live) /\ p \notin tainted' => Owed(p) \/ Current(p, rows[p])
    BY RowFacts DEF RowsSettle, Owed, LastOf, Current, IsReady
  <2>1. /\ Owed(p) => IF LastOf(p).kind = "update" THEN p \in tracked /\ LastOf(p).version = content[p] ELSE p \notin tracked
        /\ IsReady(live) /\ p \notin tainted => Owed(p) \/ Current(p, rows[p])
        /\ rebuild.stage # "none" /\ rebuild.generation = live => Current(p, rebuild.docs[p]) \/ Owed(p)
    BY <1>1 DEF RowsSettle
  <2>2. IsReady(live) /\ rebuild.stage = "writing" => rows[p] = NoRow \/ rows[p] = rebuild.docs[p]
    <3>1. IsReady(live) /\ rebuild.stage = "writing" => rebuild.generation = live
      BY <1>1, <1>7, ActiveIsLive
    <3> QED
      BY <1>1, <3>1 DEF RebuildExclusive
  <2>3. IsReady(live) /\ rebuild.stage = "writing" => rebuild.generation = live
    BY <1>1, <1>7, ActiveIsLive
  <2>4. Current(p, NoRow)
    BY DEF Current
  <2> QED
    BY <2>1, <2>2, <2>3, <2>4
<1>9. SubscriptionFollows'
  <2>1. failures' = 0 => ~broken
    BY <1>1 DEF SubscriptionFollows
  <2>2. query'.stage = "asked" => query'.generation \in DOMAIN generations
    BY <1>1, ShapeFacts DEF SubscriptionFollows, Notified
  <2>3. ASSUME failures' = 0, query'.stage \in {"answered", "shown"}
        PROVE  /\ Answer' = Versions(rows) \/ Removing
               /\ Removing => Answer' = Versions(NoRows)
    <3>1. CASE Notified /\ rebuild.stage = "writing"
      BY <2>3, <3>1, <1>7 DEF Notified, Answer, Active
    <3>2. CASE query' = query /\ (rebuild.stage = "waiting" \/ live # rebuild.generation)
      <4>1. rebuild.stage # "writing" \/ Removing
        BY <3>2, <1>7 DEF Active
      <4> QED
        BY <2>3, <3>2, <4>1, <1>1 DEF SubscriptionFollows, Answer
    <3> QED
      BY <2>3, <3>1, <3>2
  <2> QED
    BY <1>2, <2>1, <2>2, <2>3 DEF SubscriptionFollows
<1> QED
  BY <1>4, <1>5, <1>6, <1>8, <1>9 DEF IndexInv

LEMMA RebuildKeeps ==
    ASSUME IndexInv, NEW p, NEW fails \in BOOLEAN, RebuildClears(fails) \/ RebuildWrites(p) \/ RebuildEnds(fails)
    PROVE  IndexInv'
<1>1. /\ IndexShape /\ LifecycleInOrder /\ RebuildExclusive
      /\ failures \in Nat /\ tainted \subseteq Paths /\ rows \in Rows
      /\ rebuild \in [stage : {"none", "waiting", "writing"}, generation : Nat, docs : Rows,
                      prior : SUBSET Paths, left : SUBSET Paths]
  BY DEF IndexInv, IndexShape
<1>2. rebuild.stage # "none" => rebuild.generation \in DOMAIN generations /\ rebuild.generation # 0
  BY <1>1, ShapeFacts DEF RebuildExclusive
<1>3. CASE RebuildClears(fails)
  <2>1. /\ rebuild.stage = "waiting" /\ generations[rebuild.generation] # "pending" /\ rebuild.prior = {}
        /\ Failed(fails) /\ (fails => live = rebuild.generation)
        /\ tainted' = IF fails THEN Paths ELSE tainted
        /\ IF live = rebuild.generation /\ ~fails
           THEN /\ rows' = NoRows
                /\ rebuild' = [rebuild EXCEPT !.stage = "writing", !.left = {q \in Paths : rebuild.docs[q] # NoRow}]
           ELSE rebuild' = NoRebuild /\ rows' = rows
        /\ UNCHANGED <<content, tracked, live, generations, lifecycle, broken, work, rebuilds, query, shown, reader>>
    BY <1>3 DEF RebuildClears
  <2>2. failures' \in Nat /\ (failures' = 0 => failures = 0) /\ (~fails => failures' = failures)
    BY <1>1, <2>1, FailedFacts DEF Failed
  <2>3. CASE live = rebuild.generation /\ ~fails
    <3>1. IsReady(live)
      BY <1>1, <1>2, <2>1, <2>3, LiveIsReady
    <3>2. /\ rebuild'.stage = "writing" /\ rebuild'.generation = rebuild.generation /\ rebuild'.docs = rebuild.docs
          /\ rebuild'.prior = {} /\ rebuild'.left \subseteq {q \in Paths : rebuild.docs[q] # NoRow}
          /\ rebuild' \in [stage : {"none", "waiting", "writing"}, generation : Nat, docs : Rows,
                           prior : SUBSET Paths, left : SUBSET Paths]
      BY <1>1, <2>1, <2>3
    <3>3. rows' \in Rows /\ \A q \in Paths : rows'[q] = NoRow
      BY <2>1, <2>3, RowFacts
    <3>4. tainted' = tainted /\ failures' = failures
      BY <2>1, <2>2, <2>3
    <3> QED
      BY <2>1, <2>3, <3>1, <3>2, <3>3, <3>4, RebuildProceedsKeeps
  <2>4. CASE ~(live = rebuild.generation /\ ~fails)
    <3>1. /\ tainted' \subseteq Paths /\ tainted \subseteq tainted' /\ rebuild' = NoRebuild /\ rows' = rows
          /\ query' = query /\ rebuild.stage # "none"
      BY <1>1, <2>1, <2>4
    <3> QED
      BY <2>1, <2>2, <3>1, RebuildStopsKeeps
  <2> QED
    BY <2>3, <2>4
<1>4. CASE RebuildWrites(p)
  <2>1. /\ rebuild.stage = "writing" /\ p \in rebuild.left
        /\ IF live = rebuild.generation
           THEN rows' = [rows EXCEPT ![p] = rebuild.docs[p]] /\ rebuild' = [rebuild EXCEPT !.left = @ \ {p}]
           ELSE rebuild' = NoRebuild /\ rows' = rows
        /\ UNCHANGED <<content, tracked, live, generations, lifecycle, broken, work, rebuilds, failures, tainted, query, shown, reader>>
    BY <1>4 DEF RebuildWrites
  <2>2. /\ Active(rebuild.generation) /\ rebuild.prior = {}
        /\ rebuild.left \subseteq {q \in Paths : rebuild.docs[q] # NoRow}
        /\ rebuild.generation = live => \A q \in Paths : rows[q] = NoRow \/ rows[q] = rebuild.docs[q]
    BY <1>1, <2>1 DEF RebuildExclusive
  <2>3. CASE live = rebuild.generation
    <3>1. IsReady(live)
      BY <2>2, <2>3 DEF Active
    <3>2. /\ rebuild'.stage = "writing" /\ rebuild'.generation = rebuild.generation /\ rebuild'.docs = rebuild.docs
          /\ rebuild'.prior = {} /\ rebuild'.left \subseteq {q \in Paths : rebuild.docs[q] # NoRow}
          /\ rebuild' \in [stage : {"none", "waiting", "writing"}, generation : Nat, docs : Rows,
                           prior : SUBSET Paths, left : SUBSET Paths]
      BY <1>1, <2>1, <2>2, <2>3
    <3>3. rows' \in Rows /\ \A q \in Paths : rows'[q] = IF q = p THEN rebuild.docs[p] ELSE rows[q]
      <4>1. p \in Paths /\ rows \in [Paths -> Row] /\ rebuild.docs[p] \in Row
        BY <1>1, <2>1 DEF Rows
      <4> QED
        BY <2>1, <2>3, <4>1 DEF Rows
    <3>4. \A q \in Paths : rows'[q] = NoRow \/ rows'[q] = rebuild.docs[q]
      BY <2>2, <2>3, <3>3
    <3> QED
      BY <2>1, <2>2, <2>3, <3>1, <3>2, <3>3, <3>4, RebuildProceedsKeeps
  <2>4. CASE live # rebuild.generation
    <3>1. rebuild.stage # "none" /\ rebuild' = NoRebuild /\ rows' = rows /\ query' = query /\ failures' \in Nat
          /\ tainted' \subseteq Paths /\ tainted \subseteq tainted'
      BY <1>1, <2>1, <2>4
    <3> QED
      BY <2>1, <2>4, <3>1, RebuildStopsKeeps
  <2> QED
    BY <2>3, <2>4
<1>5. CASE RebuildEnds(fails)
  <2>1. /\ rebuild.stage = "writing" /\ rebuild.stage # "none" /\ Failed(fails) /\ rebuild' = NoRebuild
        /\ tainted' = IF fails THEN Paths ELSE {}
        /\ IF fails THEN query' = query ELSE Notified
        /\ UNCHANGED <<content, tracked, live, generations, lifecycle, broken, work, rebuilds, rows, shown, reader>>
    BY <1>5 DEF RebuildEnds, _notifySubscribers, Notified
  <2>2. failures' \in Nat /\ (failures' = 0 => failures = 0) /\ (fails => failures' # 0) /\ tainted' \subseteq Paths
    BY <1>1, <2>1, FailedFacts
  <2> QED
    BY <2>1, <2>2, RebuildStopsKeeps
<1> QED
  BY <1>3, <1>4, <1>5

\* A query changes nothing but what the subscription sees.
LEMMA QueryKeeps == IndexInv /\ (QueryExecutes \/ QueryAnswered) => IndexInv'
<1> SUFFICES ASSUME IndexInv, QueryExecutes \/ QueryAnswered PROVE IndexInv'
  OBVIOUS
<1>1. /\ IndexShape /\ LifecycleInOrder /\ RowsOwned /\ OperationsInOrder /\ RebuildExclusive
      /\ RowsSettle /\ VersionsBounded /\ SubscriptionFollows /\ ReaderServed
      /\ rows \in Rows /\ shown \in [Paths -> Nat]
      /\ query \in [stage : {"asked", "answered", "shown", "rejected"}, generation : Nat, result : Rows]
  BY DEF IndexInv, IndexShape
<1>2. UNCHANGED <<content, tracked, live, generations, lifecycle, broken, work, rebuild, rebuilds, failures, rows, tainted, reader>>
  BY DEF QueryExecutes, QueryAnswered
<1>3. /\ query' \in [stage : {"asked", "answered", "shown", "rejected"}, generation : Nat, result : Rows]
      /\ shown' \in [Paths -> Nat]
      /\ query'.stage # "asked" /\ (query'.stage \in {"answered", "shown"} =>
             \/ Answer' = Versions(rows) /\ ~Removing
             \/ query.stage = "answered" /\ Answer' = Answer)
  <2>1. CASE QueryExecutes
    <3>1. /\ query.stage = "asked" /\ generations[query.generation] # "pending" /\ shown' = shown
          /\ query' = IF live = query.generation THEN [query EXCEPT !.stage = "answered", !.result = rows]
                      ELSE [query EXCEPT !.stage = "rejected"]
      BY <2>1 DEF QueryExecutes
    <3>2. query.generation \in DOMAIN generations /\ query.generation # 0
      BY <1>1, <3>1, ShapeFacts DEF SubscriptionFollows
    <3>3. CASE live = query.generation
      <4>1. ~Removing
        BY <1>1, <3>1, <3>2, <3>3, LiveIsReady
      <4>2. query'.stage = "answered" /\ query'.result = rows
            /\ query' \in [stage : {"asked", "answered", "shown", "rejected"}, generation : Nat, result : Rows]
        BY <1>1, <3>1, <3>3
      <4> QED
        BY <1>1, <1>2, <3>1, <4>1, <4>2 DEF Answer
    <3>4. CASE live # query.generation
      <4>1. query'.stage = "rejected"
            /\ query' \in [stage : {"asked", "answered", "shown", "rejected"}, generation : Nat, result : Rows]
        BY <1>1, <3>1, <3>4
      <4> QED
        BY <1>1, <3>1, <4>1
    <3> QED
      BY <3>3, <3>4
  <2>2. CASE QueryAnswered
    <3>1. /\ query.stage = "answered"
          /\ \/ shown' = Versions(query.result) /\ query' = [query EXCEPT !.stage = "shown"]
             \/ shown' = shown /\ query' = [query EXCEPT !.stage = "rejected"]
      BY <2>2 DEF QueryAnswered
    <3>2. Versions(query.result) \in [Paths -> Nat]
      BY <1>1, RowFacts
    <3>3. CASE shown' = Versions(query.result) /\ query' = [query EXCEPT !.stage = "shown"]
      <4>1. query'.stage = "shown"
            /\ query' \in [stage : {"asked", "answered", "shown", "rejected"}, generation : Nat, result : Rows]
        BY <1>1, <3>3
      <4> QED
        BY <3>1, <3>2, <3>3, <4>1 DEF Answer
    <3>4. CASE shown' = shown /\ query' = [query EXCEPT !.stage = "rejected"]
      <4>1. query'.stage = "rejected"
            /\ query' \in [stage : {"asked", "answered", "shown", "rejected"}, generation : Nat, result : Rows]
        BY <1>1, <3>4
      <4> QED
        BY <1>1, <3>4, <4>1
    <3> QED
      BY <3>1, <3>3, <3>4
  <2> QED
    BY <2>1, <2>2
<1>4. /\ \A h : (IsReady(h)' <=> IsReady(h)) /\ (Active(h)' <=> Active(h))
      /\ Removing' <=> Removing
      /\ \A p \in Paths : ReaderOwed(p)' <=> ReaderOwed(p)
  BY <1>2 DEF IsReady, Active, Removing, ReaderOwed
<1>5. IndexShape'
  BY <1>1, <1>2, <1>3 DEF IndexShape
<1>6. LifecycleInOrder' /\ RowsOwned' /\ OperationsInOrder' /\ VersionsBounded' /\ ReaderServed' /\ RebuildExclusive'
  BY <1>1, <1>2, <1>4 DEF LifecycleInOrder, RowsOwned, OperationsInOrder, VersionsBounded, ReaderServed, RebuildExclusive
<1>7. RowsSettle'
  BY <1>1, <1>2, <1>4 DEF RowsSettle, Owed, LastOf, Current
<1>8. SubscriptionFollows'
  BY <1>1, <1>2, <1>3, <1>4 DEF SubscriptionFollows
<1> QED
  BY <1>5, <1>6, <1>7, <1>8 DEF IndexInv

\* A reader changes nothing but itself.
LEMMA ReaderKeeps == IndexInv /\ (ReaderAsks \/ ReaderReads) => IndexInv'
<1> SUFFICES ASSUME IndexInv, ReaderAsks \/ ReaderReads PROVE IndexInv'
  OBVIOUS
<1>1. /\ IndexShape /\ LifecycleInOrder /\ RowsOwned /\ OperationsInOrder /\ RebuildExclusive
      /\ RowsSettle /\ VersionsBounded /\ SubscriptionFollows /\ ReaderServed
      /\ rows \in Rows /\ live \in Nat
      /\ reader \in [stage : {"none", "flushing", "read"}, generation : Nat, ahead : [Paths -> Nat],
                     need : [Paths -> Nat], got : Rows]
  BY DEF IndexInv, IndexShape
<1>2. UNCHANGED <<content, tracked, live, generations, lifecycle, broken, work, rebuild, rebuilds, failures, rows, tainted, query, shown>>
  BY DEF ReaderAsks, ReaderReads
<1>3. /\ \A h : (IsReady(h)' <=> IsReady(h)) /\ (Active(h)' <=> Active(h))
      /\ Removing' <=> Removing
  BY <1>2 DEF IsReady, Active, Removing
<1>4. /\ reader' \in [stage : {"none", "flushing", "read"}, generation : Nat, ahead : [Paths -> Nat],
                      need : [Paths -> Nat], got : Rows]
      /\ reader'.stage # "none" => IsReady(reader'.generation)
      /\ \A p \in Paths : reader'.ahead[p] <= Len(work[p]) /\ reader'.need[p] <= content[p]
      /\ reader'.stage = "flushing" => \A p \in Paths : ReaderOwed(p)'
      /\ reader'.stage = "read" /\ rebuilds = 0 =>
             \A p \in Paths : reader'.got[p].version >= reader'.need[p] \/ reader'.need[p] \in InvalidVersions
  <2>1. CASE ReaderAsks
    <3> DEFINE ahead == [p \in Paths |-> Len(work[p])]
               need == [p \in Paths |-> IF work[p] # <<>> /\ work[p][Len(work[p])].generation = live
                                        THEN work[p][Len(work[p])].version ELSE rows[p].version]
    <3>1. /\ live # 0 /\ generations[live] = "ready"
          /\ reader' = [stage |-> "flushing", generation |-> live, ahead |-> ahead, need |-> need, got |-> NoRows]
      BY <2>1 DEF ReaderAsks
    <3>2. \A p \in Paths : /\ Len(work[p]) \in Nat /\ DOMAIN work[p] = 1..Len(work[p])
                           /\ (work[p] # <<>> => Len(work[p]) \in DOMAIN work[p])
                           /\ rows[p].version \in Nat /\ rows[p].version <= content[p]
      BY <1>1, ShapeFacts DEF VersionsBounded
    <3>3. \A p \in Paths : \A i \in DOMAIN work[p] : work[p][i].version \in Nat /\ work[p][i].version <= content[p]
      BY <1>1, ShapeFacts, OperationFacts DEF OperationsInOrder
    <3>4. \A p \in Paths : need[p] \in Nat /\ need[p] <= content[p] /\ ahead[p] = Len(work[p])
      BY <3>2, <3>3
    <3>5. ahead \in [Paths -> Nat] /\ need \in [Paths -> Nat]
      BY <3>2, <3>3
    <3>6. IsReady(live)
      BY <1>1, <3>1, ShapeFacts DEF IsReady
    <3>7. ASSUME NEW p \in Paths
          PROVE  /\ \A i \in DOMAIN work[p] : ~(i > ahead[p])
                 /\ IF ahead[p] > 0 /\ work[p][ahead[p]].generation = live THEN work[p][ahead[p]].version = need[p]
                    ELSE rows[p].version >= need[p]
      <4>1. work[p] # <<>> <=> Len(work[p]) > 0
        BY <1>1, ShapeFacts
      <4> QED
        BY <3>2, <4>1
    <3> HIDE DEF ahead, need
    <3>8. /\ reader'.stage = "flushing" /\ reader'.generation = live /\ reader'.ahead = ahead /\ reader'.need = need
          /\ reader' \in [stage : {"none", "flushing", "read"}, generation : Nat, ahead : [Paths -> Nat],
                          need : [Paths -> Nat], got : Rows]
      BY <1>1, <3>1, <3>5, RowFacts
    <3>9. \A p \in Paths : ReaderOwed(p)'
      BY <1>2, <3>7, <3>8 DEF ReaderOwed
    <3>10. \A p \in Paths : reader'.ahead[p] <= Len(work[p]) /\ reader'.need[p] <= content[p]
      BY <3>2, <3>4, <3>8
    <3> QED
      BY <3>6, <3>8, <3>9, <3>10
  <2>2. CASE ReaderReads
    <3>1. /\ reader.stage = "flushing" /\ \A p \in Paths : reader.ahead[p] = 0
          /\ reader' = IF live = reader.generation THEN [reader EXCEPT !.stage = "read", !.got = rows] ELSE NoReader
      BY <2>2 DEF ReaderReads, flush
    <3>2. CASE live = reader.generation
      <4>1. /\ reader'.stage = "read" /\ reader'.generation = reader.generation /\ reader'.ahead = reader.ahead
            /\ reader'.need = reader.need /\ reader'.got = rows
            /\ reader' \in [stage : {"none", "flushing", "read"}, generation : Nat, ahead : [Paths -> Nat],
                            need : [Paths -> Nat], got : Rows]
        BY <1>1, <3>1, <3>2
      <4>2. rebuilds = 0 => \A p \in Paths : rows[p].version >= reader.need[p] \/ reader.need[p] \in InvalidVersions
        BY <1>1, <3>1, <3>2 DEF ReaderServed, ReaderOwed
      <4> QED
        BY <1>1, <3>1, <4>1, <4>2 DEF ReaderServed
    <3>3. CASE live # reader.generation
      <4>1. reader' = NoReader /\ \A p \in Paths : Len(work[p]) \in Nat /\ content[p] \in Nat
        BY <1>1, <3>1, <3>3, ShapeFacts
      <4> QED
        BY <4>1, RowFacts
    <3> QED
      BY <3>2, <3>3
  <2> QED
    BY <2>1, <2>2
<1>5. IndexShape'
  BY <1>1, <1>2, <1>4 DEF IndexShape
<1>6. LifecycleInOrder' /\ RowsOwned' /\ OperationsInOrder' /\ VersionsBounded' /\ RebuildExclusive'
  BY <1>1, <1>2, <1>3 DEF LifecycleInOrder, RowsOwned, OperationsInOrder, VersionsBounded, RebuildExclusive
<1>7. RowsSettle' /\ SubscriptionFollows'
  BY <1>1, <1>2, <1>3 DEF RowsSettle, Owed, LastOf, Current, SubscriptionFollows, Answer
<1>8. ReaderServed'
  BY <1>2, <1>4 DEF ReaderServed, IsReady
<1> QED
  BY <1>5, <1>6, <1>7, <1>8 DEF IndexInv

LEMMA IndexInvStep == IndexInv /\ [IndexNext]_indexVars => IndexInv'
<1> SUFFICES ASSUME IndexInv, [IndexNext]_indexVars PROVE IndexInv'
  OBVIOUS
<1>1. CASE defineIndex \/ removeIndex \/ DefineRejected \/ rebuildIndex
  BY <1>1, DefineKeeps, RemoveKeeps, DefineRejectedKeeps, RebuildBeginsKeeps
<1>2. CASE \E same, fails \in BOOLEAN : DefineRuns(same, fails)
  BY <1>2, DefineRunsKeeps
<1>3. CASE \E fails \in BOOLEAN : RemoveRuns(fails)
  BY <1>3, RemoveRunsKeeps
<1>4. CASE \E p \in Paths : changes(p) \/ trackDocument(p) \/ untrackDocument(p)
  BY <1>4, DocumentKeeps
<1>5. CASE \E p \in Paths : _runIndexOperation(p) \/ OperationReads(p)
  BY <1>5, OperationBeginsKeeps
<1>6. CASE \E p \in Paths, fails \in BOOLEAN : OperationDeletes(p, fails) \/ OperationWrites(p, fails)
  BY <1>6, SettlingKeeps
<1>7. CASE \E p \in Paths : OperationSkipped(p)
  <2>1. TRUE \in BOOLEAN
    OBVIOUS
  <2> QED
    BY <1>7, <2>1, SettlingKeeps
<1>8. CASE \E p \in Paths : RebuildWrites(p)
  <2>1. TRUE \in BOOLEAN
    OBVIOUS
  <2> QED
    BY <1>8, <2>1, RebuildKeeps
<1>9. CASE \E fails \in BOOLEAN : RebuildClears(fails) \/ RebuildEnds(fails)
  <2>1. PICK fails \in BOOLEAN : RebuildClears(fails) \/ RebuildEnds(fails)
    BY <1>9
  <2> QED
    BY <2>1, RebuildKeeps
<1>10. CASE QueryExecutes \/ QueryAnswered
  BY <1>10, QueryKeeps
<1>11. CASE ReaderAsks \/ ReaderReads
  BY <1>11, ReaderKeeps
<1>12. CASE UNCHANGED indexVars
  BY <1>12 DEF indexVars, IndexInv, IndexShape, LifecycleInOrder, RowsOwned, OperationsInOrder, RebuildExclusive,
               RowsSettle, VersionsBounded, SubscriptionFollows, ReaderServed, ReaderOwed, Answer, Owed, LastOf,
               Current, IsReady, Removing, Active
<1> QED
  BY <1>1, <1>2, <1>3, <1>4, <1>5, <1>6, <1>7, <1>8, <1>9, <1>10, <1>11, <1>12 DEF IndexNext

LEMMA IndexInvSafe == IndexInv => IndexFollows
<1> SUFFICES ASSUME IndexInv PROVE IndexFollows
  OBVIOUS
<1>1. /\ IndexShape /\ LifecycleInOrder /\ RowsOwned /\ RowsSettle /\ SubscriptionFollows /\ ReaderServed
  BY DEF IndexInv
<1>2. IndexConverges
  <2> SUFFICES ASSUME Settled, live # 0, NEW p \in Paths \ tainted, rows[p] # NoRow
               PROVE  p \in tracked /\ rows[p].version = content[p]
    BY DEF IndexConverges
  <2>1. IsReady(live)
    BY <1>1, LiveIsReady DEF Settled, LifecycleInOrder
  <2>2. ~Owed(p)
    BY DEF Settled, Owed
  <2> QED
    BY <1>1, <2>1, <2>2 DEF RowsSettle, Current
<1>3. NoRowsOfRemovedIndex
  <2>1. ASSUME live # 0, generations[live] = "ready", NEW p \in Paths, rows[p] # NoRow
        PROVE  rows[p].generation = live
    BY <1>1, <2>1, LiveIsReady DEF RowsOwned
  <2>2. live = 0 /\ Settled /\ ~broken => rows = NoRows
    BY <1>1, RowsGone DEF Settled, Removing
  <2> QED
    BY <2>1, <2>2 DEF NoRowsOfRemovedIndex
<1>4. ShownIsCurrent
  BY <1>1 DEF ShownIsCurrent, Settled, SubscriptionFollows, Answer, Removing
<1>5. ReadsIndexed
  BY <1>1 DEF ReadsIndexed, ReaderServed
<1> QED
  BY <1>2, <1>3, <1>4, <1>5 DEF IndexFollows

\* The inductive invariant of an index: definitions, removals, updates, rebuilds,
\* queries and failures of the store, in any order, keep what each relies on.
THEOREM IndexInvariant == IndexSpec => []IndexInv
BY IndexInvInit, IndexInvStep, PTL DEF IndexSpec

\* Once everything asked of an index has settled it holds current versions of
\* tracked documents and nothing else, whatever was changed, redefined, rebuilt
\* or removed meanwhile; an 'indexed' query sees what was indexed before it, and
\* a subscription was shown the rows (updateIndex, removeFromIndex, rebuildIndex,
\* removeIndex, query).
THEOREM IndexFollowsDocuments == IndexSpec => []IndexFollows
BY IndexInvariant, IndexInvSafe, PTL
=============================================================================
