------------------------- MODULE Invitation_proofs -------------------------
(***************************************************************************)
(* What Invitation promises, for every set of offers, recipients and        *)
(* streams, every lifetime and every number of attempts: an offer is a      *)
(* one-time link for one recipient, whose acceptance attests what it will   *)
(* insist on, whose leaf can be revoked, and whose repeated request gets    *)
(* the same answer.                                                        *)
(*                                                                         *)
(* The inductive invariant InvitationInv says which request holds the claim *)
(* of an offer (Claims), that one stream claims at a time and never for a   *)
(* request already being onboarded or answered (Turns), that an operation   *)
(* changes the membership only at the head of the mutation queue            *)
(* (Exclusive), that whoever was let in keeps a leaf (Membership), and that *)
(* bundles and remembered answers attest the membership (Answers).          *)
(***************************************************************************)
EXTENDS Invitation, FiniteSetTheorems, SequenceTheorems, TLAPS

-----------------------------------------------------------------------------
(* The inductive invariant                                                  *)

Requests == InvitationJoinRequests
JobPhase == {"free", "verify", "queued", "claim", "attached"}
OpPhase == {"idle", "queued", "addReader", "publishReader", "addWriter", "attest", "sign"}

\* Operations past the head of the mutation queue, until they release it.
Working == {"addReader", "publishReader", "addWriter", "attest"}

Bundles == [request : Requests, attempt : Nat, readers : SUBSET Recipients,
            writers : SUBSET Recipients] \cup {NoAcceptance}
Claimants == Requests \cup {NoRequest}
Streams == [pc : JobPhase, req : Claimants, aborted : BOOLEAN]
Operations == [phase : OpPhase, admitted : BOOLEAN, by : Jobs \cup {"none"}, bundle : Bundles]
Tasks == [kind : {"join"}, req : Requests]
             \cup [kind : {"removeReader", "removeWriter"}, req : Recipients]
Documents == [pc : {"idle", "dialing", "bootstrap", "apply", "catchUp", "joined"},
              request : Claimants, accepted : Bundles, reserved : BOOLEAN,
              registered : BOOLEAN, state : {"pristine", "pending", "complete"}]
Processes == [life : 1..MaxLives, outbound : SUBSET Requests, seen : SUBSET Bundles,
              sent : SUBSET Requests, doc : Documents]

\* The shape of the variables, as far as the properties need it.
InvitationShape ==
    /\ guard \in [Offers -> [claim : Claimants, accepted : Bundles]]
    /\ waiting \in [Offers -> Seq(Jobs)] /\ mutations \in Seq(Tasks)
    /\ job \in [Jobs -> Streams] /\ \A j \in Jobs : job[j].pc # "free" => job[j].req \in Requests
    /\ op \in [Requests -> Operations] /\ attempts \in [Requests -> Nat]
    /\ cached \subseteq Bundles /\ replies \subseteq Bundles
    /\ leaf \in [Recipients -> {"none", "live", "blank"}] /\ members \subseteq Recipients
    /\ node \in [Recipients -> Processes]

\* The claim of an offer is a request that can be onboarded, and every operation
\* was started for the claim.
Claims ==
    /\ \A o \in Offers : guard[o].claim # NoRequest =>
          guard[o].claim \in Requests /\ guard[o].claim.form = "sound"
    /\ \A j \in Jobs : job[j].pc \in {"queued", "claim"} => job[j].req.form = "sound"
    /\ \A q \in Requests : /\ attempts[q] > 0 => guard[q.offer].claim = q
                           /\ InFlight(q) => attempts[q] > 0

\* One stream at a time claims an offer, and while it does, or while the request
\* is being onboarded, there is no answer to the request yet.
Turns ==
    /\ \A j \in Jobs : job[j].pc = "claim" =>
          AtFront(j) /\ ~InFlight(job[j].req) /\ Cached(job[j].req) = {}
    /\ \A q \in Requests : InFlight(q) => Cached(q) = {}

\* An operation changes the membership only as the head of the mutation queue,
\* and a reader is published into an empty slot.
Exclusive ==
    \A q \in Requests :
        /\ op[q].phase \in Working => HoldsMutationQueue(JoinTask(q))
        /\ op[q].phase = "publishReader" => readers = {} /\ \A r \in Recipients : leaf[r] = "none"

\* Whoever was ever let in has a leaf; there is one at most.
Membership ==
    /\ \A r \in Recipients : r \in members <=> leaf[r] # "none"
    /\ \A r, s \in members : r = s
    /\ readers \subseteq members /\ writers \subseteq members

\* A bundle attests the membership of its request; what was accepted is what the
\* coordinator remembers.
Attested(a) == classifyAcceptedMembership(a.request.recipient, a.request.offer, a.readers, a.writers)
Answers ==
    /\ \A q \in Requests : op[q].phase = "sign" =>
          op[q].bundle.request = q /\ Attested(op[q].bundle)
    /\ \A o \in Offers : guard[o].accepted # NoAcceptance =>
          /\ guard[o].accepted \in cached
          /\ guard[o].accepted.request \in Requests
          /\ guard[o].accepted.request.form = "sound"

InvitationInv ==
    /\ InvitationShape /\ Claims /\ Turns /\ Exclusive /\ Membership /\ Answers
    /\ AcceptanceComplete /\ ReadersHaveLeaves /\ PathReleased

-----------------------------------------------------------------------------
(* Values                                                                   *)

LEMMA RequestFacts ==
    /\ NoRequest \notin Requests
    /\ \A q \in Requests : q.offer \in Offers /\ q.recipient \in Recipients
    /\ \A q \in Requests : VerifiedRequest(q) => q.form = "sound"
    /\ \A q \in Requests : q.form = "sound" => VerifiedRequest(q)
<1>1. NoRequest \notin Requests
  <2>1. "recipient" \notin DOMAIN NoRequest
    BY DEF NoRequest
  <2>2. \A q \in Requests : "recipient" \in DOMAIN q
    BY DEF Requests, InvitationJoinRequests
  <2> QED
    BY <2>1, <2>2
<1>2. \A q \in Requests : /\ q.offer \in Offers /\ q.recipient \in Recipients
                          /\ q.form \in {"sound"} \cup Defects
  BY DEF Requests, InvitationJoinRequests
<1> QED
  BY <1>1, <1>2, InvitationAssumption
     DEF VerifiedRequest, verifyInvitationJoinRequest, importEciesPublicKey

LEMMA ValueFacts ==
    /\ NoAcceptance \in Bundles /\ NoAcceptance.request = NoRequest
    /\ IdleOp \in Operations /\ IdleOp.phase = "idle"
    /\ FreeJob \in Streams /\ FreeJob.pc = "free"
    /\ \A q \in Requests : JoinTask(q) \in Tasks
    /\ \A q, p \in Requests : JoinTask(q) = JoinTask(p) => q = p
    /\ \A q \in Requests, r \in Recipients, k \in {"removeReader", "removeWriter"} :
          RoleTask(k, r) \in Tasks /\ RoleTask(k, r) # JoinTask(q)
    /\ \A q \in Requests, n \in Nat, rs, ws \in SUBSET Recipients :
          /\ InvitationAcceptance(q, n, rs, ws) \in Bundles
          /\ InvitationAcceptance(q, n, rs, ws).request = q
          /\ InvitationAcceptance(q, n, rs, ws).readers = rs
          /\ InvitationAcceptance(q, n, rs, ws).writers = ws
BY DEF NoAcceptance, Bundles, NoRequest, IdleOp, Operations, OpPhase, FreeJob, Streams,
       JobPhase, Claimants, JoinTask, RoleTask, Tasks, InvitationAcceptance

\* A stream that ends is free, the others go on.
LEMMA ReturnEffect ==
    ASSUME InvitationShape, NEW js \in SUBSET Jobs, NEW as \in SUBSET Bundles, Return(js, as)
    PROVE  /\ job' \in [Jobs -> Streams] /\ replies' \subseteq Bundles
           /\ \A j \in Jobs : job'[j] = IF j \in js THEN FreeJob ELSE job[j]
           /\ \A j \in Jobs : job'[j].pc # "free" => job'[j] = job[j] /\ j \notin js
BY ValueFacts DEF Return, Free, InvitationShape

LEMMA ReturnOneEffect ==
    ASSUME InvitationShape, NEW j \in Jobs, NEW as \in SUBSET Bundles, Return({j}, as)
    PROVE  /\ job' \in [Jobs -> Streams] /\ \A k \in Jobs : k # j => job'[k] = job[k]
           /\ job'[j].pc = "free" /\ replies' \subseteq Bundles
<1>1. {j} \in SUBSET Jobs
  OBVIOUS
<1>2. /\ job' \in [Jobs -> Streams] /\ replies' \subseteq Bundles
      /\ \A k \in Jobs : job'[k] = IF k \in {j} THEN FreeJob ELSE job[k]
  BY <1>1, ReturnEffect
<1> QED
  BY <1>2, ValueFacts

\* Sequences: what a queue looks like after one more and one less.
LEMMA QueueFacts ==
    ASSUME NEW T, NEW s \in Seq(T)
    PROVE  /\ \A e \in T : Append(s, e) \in Seq(T) /\ Append(s, e) # << >>
                           /\ (s # << >> => Head(Append(s, e)) = Head(s))
           /\ s # << >> => Tail(s) \in Seq(T)
<1>1. \A e \in T : Append(s, e) \in Seq(T) /\ Append(s, e) # << >>
                   /\ (s # << >> => Head(Append(s, e)) = Head(s))
  <2> SUFFICES ASSUME NEW e \in T
               PROVE  Append(s, e) \in Seq(T) /\ Append(s, e) # << >>
                      /\ (s # << >> => Head(Append(s, e)) = Head(s))
    OBVIOUS
  <2>1. Len(s) \in Nat /\ Append(s, e) \in Seq(T) /\ Len(Append(s, e)) = Len(s) + 1
    BY LenProperties, AppendProperties
  <2>2. Append(s, e) # << >>
    BY <2>1, EmptySeq
  <2>3. ASSUME s # << >>
        PROVE  Head(Append(s, e)) = Head(s)
    <3>1. Len(s) \in Nat \ {0}
      BY <2>1, <2>3, EmptySeq
    <3> QED
      BY <3>1, <2>1, AppendProperties
  <2> QED
    BY <2>1, <2>2, <2>3
<1> QED
  BY <1>1, HeadTailProperties

\* Another stream's turn is not touched by the queue of a different offer.
LEMMA OneTurn ==
    ASSUME InvitationShape, NEW j \in Jobs, NEW k \in Jobs, AtFront(j), AtFront(k),
           job[j].req.offer = job[k].req.offer
    PROVE  j = k
BY DEF AtFront

-----------------------------------------------------------------------------
(* Steps that leave the founder or the recipients alone                     *)

core == <<guard, cached, waiting, job, op, attempts, mutations, readers, writers, leaf, members>>

LEMMA CoreStays ==
    ASSUME InvitationInv, UNCHANGED <<core, replies>>, node' \in [Recipients -> Processes],
           PathReleased'
    PROVE  InvitationInv'
<1> USE DEF InvitationInv
<1>1. InvitationShape'
  BY DEF InvitationShape, core
<1>2. Claims' /\ Turns'
  BY DEF Claims, Turns, InFlight, Cached, AtFront, core
<1>3. Exclusive' /\ Membership' /\ ReadersHaveLeaves'
  BY DEF Exclusive, HoldsMutationQueue, Membership, ReadersHaveLeaves, core
<1>4. Answers' /\ AcceptanceComplete'
  BY DEF Answers, AcceptanceComplete, core
<1> QED
  BY <1>1, <1>2, <1>3, <1>4

\* The recipients stand still while the founder works.
LEMMA PathStays ==
    ASSUME InvitationInv, UNCHANGED node
    PROVE  PathReleased' /\ node' \in [Recipients -> Processes]
BY DEF InvitationInv, PathReleased, Candidate, InvitationShape

LEMMA OffersKeep ==
    ASSUME InvitationInv,
           \/ \E o \in Offers : createInvitationForDocument(o) \/ registerInvitationOffer(o)
           \/ unregisterDocument \/ Tick
    PROVE  InvitationInv'
<1>1. UNCHANGED <<core, replies, node>>
  BY DEF createInvitationForDocument, registerInvitationOffer, unregisterDocument, Tick, core, founderVars
<1> QED
  BY <1>1, PathStays, CoreStays

-----------------------------------------------------------------------------
(* Streams                                                                  *)

\* A step of one stream that starts no operation.
LEMMA StreamStep ==
    ASSUME InvitationInv, NEW j \in Jobs,
           job' \in [Jobs -> Streams], \A k \in Jobs : k # j => job'[k] = job[k],
           job'[j].pc # "free" => job'[j].req \in Requests,
           job'[j].pc \in {"queued", "claim"} => job'[j].req.form = "sound",
           job'[j].pc = "claim" => AtFront(j)' /\ ~InFlight(job'[j].req) /\ Cached(job'[j].req) = {},
           waiting' \in [Offers -> Seq(Jobs)],
           \A k \in Jobs : k # j /\ job[k].pc = "claim" => AtFront(k)',
           replies' \subseteq Bundles,
           UNCHANGED <<guard, cached, op, attempts, mutations, readers, writers, leaf, members, node>>
    PROVE  InvitationInv'
<1> USE DEF InvitationInv
<1>1. InvitationShape'
  BY DEF InvitationShape
<1>2. Claims'
  BY DEF Claims, InFlight
<1>3. Turns'
  <2>1. \A q : (InFlight(q) <=> InFlight(q)') /\ Cached(q)' = Cached(q)
    BY DEF InFlight, Cached
  <2> QED
    BY <2>1 DEF Turns
<1>4. Exclusive' /\ Membership' /\ ReadersHaveLeaves'
  BY DEF Exclusive, HoldsMutationQueue, Membership, ReadersHaveLeaves
<1>5. Answers' /\ AcceptanceComplete'
  BY DEF Answers, AcceptanceComplete
<1>6. PathReleased'
  BY PathStays
<1> QED
  BY <1>1, <1>2, <1>3, <1>4, <1>5, <1>6

LEMMA ProcessJoinKeeps ==
    ASSUME InvitationInv, NEW j \in Jobs, NEW q \in Delivered, _processInvitationJoin(j, q)
    PROVE  InvitationInv'
<1> USE DEF InvitationInv
<1>1. q \in Requests
  BY DEF Delivered, Requests
<1>2. /\ job' = [job EXCEPT ![j] = [pc |-> "verify", req |-> q, aborted |-> FALSE]]
      /\ UNCHANGED <<guard, cached, waiting, op, attempts, mutations, readers, writers, leaf,
                     members, replies, node>>
  BY DEF _processInvitationJoin
<1>3. [pc |-> "verify", req |-> q, aborted |-> FALSE] \in Streams
  BY <1>1 DEF Streams, JobPhase, Claimants
<1>4. \A k \in Jobs : k # j /\ job[k].pc = "claim" => AtFront(k)'
  BY <1>2 DEF Turns, AtFront, InvitationShape
<1> QED
  BY <1>1, <1>2, <1>3, <1>4, StreamStep DEF InvitationShape

LEMMA AbortKeeps ==
    ASSUME InvitationInv, NEW j \in Jobs, abortStream(j)
    PROVE  InvitationInv'
<1> USE DEF InvitationInv
<1>1. /\ job' = [job EXCEPT ![j].aborted = TRUE]
      /\ UNCHANGED <<guard, cached, waiting, op, attempts, mutations, readers, writers, leaf,
                     members, replies, node>>
  BY DEF abortStream
<1>2. /\ job' \in [Jobs -> Streams] /\ \A k \in Jobs : k # j => job'[k] = job[k]
      /\ job'[j].pc = job[j].pc /\ job'[j].req = job[j].req
  BY <1>1 DEF InvitationShape, Streams
<1>3. \A k \in Jobs : job[k].pc = "claim" => AtFront(k)'
  BY <1>1, <1>2 DEF Turns, AtFront, InvitationShape
<1> QED
  BY <1>1, <1>2, <1>3, StreamStep DEF InvitationShape, Claims, Turns

LEMMA VerifiedKeeps ==
    ASSUME InvitationInv, NEW j \in Jobs, runVerified(j)
    PROVE  InvitationInv'
<1> USE DEF InvitationInv
<1> DEFINE q == job[j].req
           o == q.offer
<1>1. /\ job[j].pc = "verify" /\ q \in Requests /\ o \in Offers
      /\ UNCHANGED <<guard, cached, op, attempts, mutations, readers, writers, leaf, members, node>>
  BY RequestFacts DEF runVerified, InvitationShape
<1>2. CASE \E as \in SUBSET Bundles : Return({j}, as) /\ UNCHANGED waiting
  <2>1. PICK as \in SUBSET Bundles : Return({j}, as)
    BY <1>2
  <2>2. /\ job' \in [Jobs -> Streams] /\ \A k \in Jobs : k # j => job'[k] = job[k]
        /\ job'[j].pc = "free" /\ replies' \subseteq Bundles
    BY <2>1, ReturnOneEffect
  <2>3. \A k \in Jobs : k # j /\ job[k].pc = "claim" => AtFront(k)'
    BY <1>2, <2>2 DEF Turns, AtFront
  <2> QED
    BY <1>1, <1>2, <2>2, <2>3, StreamStep DEF InvitationShape
<1>3. CASE job' = [job EXCEPT ![j].pc = "attached"] /\ UNCHANGED <<waiting, replies>>
  <2>1. /\ job' \in [Jobs -> Streams] /\ \A k \in Jobs : k # j => job'[k] = job[k]
        /\ job'[j].pc = "attached" /\ job'[j].req = q
    BY <1>3 DEF InvitationShape, Streams, JobPhase
  <2>2. \A k \in Jobs : k # j /\ job[k].pc = "claim" => AtFront(k)'
    BY <1>3, <2>1 DEF Turns, AtFront
  <2> QED
    BY <1>1, <1>3, <2>1, <2>2, StreamStep DEF InvitationShape
<1>4. CASE /\ VerifiedRequest(q) /\ job' = [job EXCEPT ![j].pc = "queued"]
           /\ waiting' = [waiting EXCEPT ![o] = Append(@, j)] /\ UNCHANGED replies
  <2>1. /\ job' \in [Jobs -> Streams] /\ \A k \in Jobs : k # j => job'[k] = job[k]
        /\ job'[j].pc = "queued" /\ job'[j].req = q /\ q.form = "sound"
    BY <1>1, <1>4, RequestFacts DEF InvitationShape, Streams, JobPhase
  <2>2. /\ waiting[o] \in Seq(Jobs) /\ Append(waiting[o], j) \in Seq(Jobs)
        /\ Append(waiting[o], j) # << >>
        /\ waiting[o] # << >> => Head(Append(waiting[o], j)) = Head(waiting[o])
    BY <1>1, QueueFacts DEF InvitationShape
  <2>3. /\ waiting' \in [Offers -> Seq(Jobs)]
        /\ \A p \in Offers : waiting[p] # << >> =>
              waiting'[p] # << >> /\ Head(waiting'[p]) = Head(waiting[p])
    BY <1>1, <1>4, <2>2 DEF InvitationShape
  <2>4. \A k \in Jobs : k # j /\ job[k].pc = "claim" => AtFront(k)'
    BY <2>1, <2>3, RequestFacts DEF Turns, AtFront, InvitationShape
  <2> QED
    BY <1>1, <1>4, <2>1, <2>3, <2>4, StreamStep DEF InvitationShape
<1>5. Cached(q) \in SUBSET Bundles /\ {} \in SUBSET Bundles
  BY DEF Cached, InvitationShape
<1> QED
  BY <1>2, <1>3, <1>4, <1>5 DEF runVerified

\* The front of a queue leaves it: the claim of another offer stays in front.
LEMMA ReleaseKeepsFronts ==
    ASSUME InvitationInv, NEW j \in Jobs, job[j].pc \in {"queued", "claim"}, AtFront(j),
           waiting' = release(job[j].req.offer),
           \A k \in Jobs : k # j /\ job[k].pc = "claim" => job'[k] = job[k]
    PROVE  /\ waiting' \in [Offers -> Seq(Jobs)]
           /\ \A k \in Jobs : k # j /\ job[k].pc = "claim" => AtFront(k)'
<1> USE DEF InvitationInv
<1> DEFINE o == job[j].req.offer
<1>1. o \in Offers /\ waiting[o] # << >> /\ waiting[o] \in Seq(Jobs)
  BY RequestFacts DEF InvitationShape, AtFront
<1>2. Tail(waiting[o]) \in Seq(Jobs)
  BY <1>1, QueueFacts
<1>3. waiting' \in [Offers -> Seq(Jobs)] /\ \A p \in Offers : p # o => waiting'[p] = waiting[p]
  BY <1>1, <1>2 DEF InvitationShape, release
<1>4. ASSUME NEW k \in Jobs, k # j, job[k].pc = "claim"
      PROVE  AtFront(k)'
  <2>1. AtFront(k) /\ job'[k] = job[k] /\ job[k].req.offer \in Offers
    BY <1>4, RequestFacts DEF Turns, InvitationShape
  <2>2. job[k].req.offer # o
    BY <1>4, <2>1, OneTurn
  <2> QED
    BY <1>3, <2>1, <2>2 DEF AtFront
<1> QED
  BY <1>3, <1>4

LEMMA QueuedKeeps ==
    ASSUME InvitationInv, NEW j \in Jobs, runQueued(j)
    PROVE  InvitationInv'
<1> USE DEF InvitationInv
<1> DEFINE q == job[j].req
           o == q.offer
<1>1. /\ job[j].pc = "queued" /\ AtFront(j) /\ q \in Requests /\ o \in Offers
      /\ q.form = "sound"
      /\ UNCHANGED <<guard, cached, op, attempts, mutations, readers, writers, leaf, members, node>>
  BY RequestFacts DEF runQueued, InvitationShape, Claims
<1>2. CASE \E as \in SUBSET Bundles : Return({j}, as) /\ waiting' = release(o)
  <2>1. PICK as \in SUBSET Bundles : Return({j}, as)
    BY <1>2
  <2>2. /\ job' \in [Jobs -> Streams] /\ \A k \in Jobs : k # j => job'[k] = job[k]
        /\ job'[j].pc = "free" /\ replies' \subseteq Bundles
    BY <2>1, ReturnOneEffect
  <2>3. /\ waiting' \in [Offers -> Seq(Jobs)]
        /\ \A k \in Jobs : k # j /\ job[k].pc = "claim" => AtFront(k)'
    BY <1>1, <1>2, <2>2, ReleaseKeepsFronts
  <2> QED
    BY <1>1, <2>2, <2>3, StreamStep
<1>3. CASE /\ job' = [job EXCEPT ![j].pc = "attached"] /\ waiting' = release(o)
           /\ UNCHANGED replies
  <2>1. /\ job' \in [Jobs -> Streams] /\ \A k \in Jobs : k # j => job'[k] = job[k]
        /\ job'[j].pc = "attached" /\ job'[j].req = q
    BY <1>3 DEF InvitationShape, Streams, JobPhase
  <2>2. /\ waiting' \in [Offers -> Seq(Jobs)]
        /\ \A k \in Jobs : k # j /\ job[k].pc = "claim" => AtFront(k)'
    BY <1>1, <1>3, <2>1, ReleaseKeepsFronts
  <2> QED
    BY <1>1, <1>3, <2>1, <2>2, StreamStep DEF InvitationShape
<1>4. CASE /\ Cached(q) = {} /\ ~InFlight(q) /\ job' = [job EXCEPT ![j].pc = "claim"]
           /\ UNCHANGED <<waiting, replies>>
  <2>1. /\ job' \in [Jobs -> Streams] /\ \A k \in Jobs : k # j => job'[k] = job[k]
        /\ job'[j].pc = "claim" /\ job'[j].req = q
    BY <1>4 DEF InvitationShape, Streams, JobPhase
  <2>2. \A k \in Jobs : k # j /\ job[k].pc = "claim" => AtFront(k)'
    BY <1>4, <2>1 DEF Turns, AtFront
  <2>3. AtFront(j)'
    BY <1>1, <1>4, <2>1 DEF AtFront
  <2> QED
    BY <1>1, <1>4, <2>1, <2>2, <2>3, StreamStep DEF InvitationShape
<1>5. Cached(q) \in SUBSET Bundles /\ {} \in SUBSET Bundles
  BY DEF Cached, InvitationShape
<1> QED
  BY <1>2, <1>3, <1>4, <1>5 DEF runQueued

\* The one-time claim: it is recorded for a request that can be onboarded, and an
\* operation starts for the request that holds it and for no other.
LEMMA ClaimedKeeps ==
    ASSUME InvitationInv, NEW j \in Jobs, runClaimed(j)
    PROVE  InvitationInv'
<1> USE DEF InvitationInv
<1> DEFINE q == job[j].req
           o == q.offer
           decision == observeJoin(o, q)
<1>1. /\ job[j].pc = "claim" /\ AtFront(j) /\ q \in Requests /\ o \in Offers
      /\ q.form = "sound" /\ ~InFlight(q) /\ Cached(q) = {}
      /\ guard' = IF decision = "accepted" THEN recordInvitationReplayJoin(o, q) ELSE guard
      /\ waiting' = release(o)
      /\ UNCHANGED <<cached, readers, writers, leaf, members, node>>
  BY RequestFacts DEF runClaimed, InvitationShape, Claims, Turns
<1>2. /\ decision = "accepted" => guard[o].claim = NoRequest
      /\ decision = "replay" => guard[o].claim = q
  BY DEF observeJoin, decideJoinReplay
<1>3. /\ guard' \in [Offers -> [claim : Claimants, accepted : Bundles]]
      /\ \A p \in Offers : guard'[p].accepted = guard[p].accepted
      /\ \A p \in Offers : guard'[p].claim = guard[p].claim
                           \/ (p = o /\ guard[p].claim = NoRequest /\ guard'[p].claim = q)
      /\ decision \in {"accepted", "replay"} => guard'[o].claim = q
  BY <1>1, <1>2 DEF InvitationShape, recordInvitationReplayJoin, Claimants
<1> HIDE DEF decision
<1>4. CASE /\ Return({j}, {}) /\ UNCHANGED <<op, attempts, mutations>>
  <2>1. /\ job' \in [Jobs -> Streams] /\ \A k \in Jobs : k # j => job'[k] = job[k]
        /\ job'[j].pc = "free" /\ replies' \subseteq Bundles
    BY <1>4, ReturnOneEffect
  <2>2. /\ waiting' \in [Offers -> Seq(Jobs)]
        /\ \A k \in Jobs : k # j /\ job[k].pc = "claim" => AtFront(k)'
    BY <1>1, <2>1, ReleaseKeepsFronts
  <2>3. InvitationShape'
    BY <1>1, <1>3, <1>4, <2>1, <2>2 DEF InvitationShape
  <2>4. Claims'
    BY <1>1, <1>3, <1>4, <2>1, RequestFacts DEF Claims, InFlight
  <2>5. Turns'
    <3>1. \A p : (InFlight(p) <=> InFlight(p)') /\ Cached(p)' = Cached(p)
      BY <1>1, <1>4 DEF InFlight, Cached
    <3> QED
      BY <2>1, <2>2, <3>1 DEF Turns
  <2>6. Exclusive' /\ Membership' /\ ReadersHaveLeaves'
    BY <1>1, <1>4 DEF Exclusive, HoldsMutationQueue, Membership, ReadersHaveLeaves
  <2>7. Answers' /\ AcceptanceComplete'
    BY <1>1, <1>3, <1>4 DEF Answers, AcceptanceComplete
  <2> QED
    BY <1>1, <2>3, <2>4, <2>5, <2>6, <2>7, PathStays
<1>5. CASE /\ decision \in {"accepted", "replay"}
           /\ op' = [op EXCEPT ![q].phase = "queued", ![q].by = j]
           /\ attempts' = [attempts EXCEPT ![q] = @ + 1]
           /\ mutations' = Append(mutations, [kind |-> "join", req |-> q])
           /\ job' = [job EXCEPT ![j].pc = "attached"]
           /\ UNCHANGED replies
  <2>1. /\ job' \in [Jobs -> Streams] /\ \A k \in Jobs : k # j => job'[k] = job[k]
        /\ job'[j].pc = "attached" /\ job'[j].req = q
    BY <1>5 DEF InvitationShape, Streams, JobPhase
  <2>2. /\ waiting' \in [Offers -> Seq(Jobs)]
        /\ \A k \in Jobs : k # j /\ job[k].pc = "claim" => AtFront(k)'
    BY <1>1, <2>1, ReleaseKeepsFronts
  <2>3. /\ mutations' \in Seq(Tasks)
        /\ mutations # << >> => mutations' # << >> /\ Head(mutations') = Head(mutations)
    BY <1>1, <1>5, QueueFacts, ValueFacts DEF InvitationShape, JoinTask
  <2>4. /\ op' \in [Requests -> Operations] /\ attempts' \in [Requests -> Nat]
        /\ op'[q].phase = "queued" /\ attempts'[q] > 0
        /\ \A p \in Requests : p # q => op'[p] = op[p] /\ attempts'[p] = attempts[p]
    <3>1. op[q] \in Operations /\ attempts[q] \in Nat
      BY <1>1 DEF InvitationShape
    <3>2. [op[q] EXCEPT !.phase = "queued", !.by = j] \in Operations
      BY <3>1 DEF Operations, OpPhase
    <3>3. op' = [op EXCEPT ![q] = [op[q] EXCEPT !.phase = "queued", !.by = j]]
      BY <1>1, <1>5 DEF InvitationShape
    <3>4. [op[q] EXCEPT !.phase = "queued", !.by = j].phase = "queued"
      BY <3>1 DEF Operations
    <3>5. op' \in [Requests -> Operations] /\ op'[q].phase = "queued"
      BY <1>1, <3>2, <3>3, <3>4 DEF InvitationShape
    <3>6. attempts' \in [Requests -> Nat] /\ attempts'[q] > 0
      BY <1>1, <1>5, <3>1 DEF InvitationShape
    <3>7. \A p \in Requests : p # q => op'[p] = op[p] /\ attempts'[p] = attempts[p]
      BY <1>1, <1>5, <3>3 DEF InvitationShape
    <3> QED
      BY <3>5, <3>6, <3>7
  <2>5. InvitationShape'
    BY <1>1, <1>3, <1>5, <2>1, <2>2, <2>3, <2>4 DEF InvitationShape
  <2>6. Claims'
    <3>1. \A p \in Offers : guard'[p].claim # NoRequest =>
             guard'[p].claim \in Requests /\ guard'[p].claim.form = "sound"
      BY <1>1, <1>3 DEF Claims
    <3>2. \A k \in Jobs : job'[k].pc \in {"queued", "claim"} => job'[k].req.form = "sound"
      BY <2>1 DEF Claims
    <3>3. ASSUME NEW p \in Requests, p # q
          PROVE  /\ attempts'[p] > 0 => guard'[p.offer].claim = p
                 /\ op'[p].phase # "idle" => attempts'[p] > 0
      <4>1. p.offer \in Offers /\ op'[p] = op[p] /\ attempts'[p] = attempts[p]
        BY <2>4, <3>3, RequestFacts
      <4>2. /\ attempts[p] > 0 => guard[p.offer].claim = p
            /\ op[p].phase # "idle" => attempts[p] > 0
        BY DEF Claims, InFlight
      <4>3. guard[p.offer].claim = p => guard'[p.offer].claim = p
        BY <1>3, <4>1, RequestFacts
      <4> QED
        BY <4>1, <4>2, <4>3
    <3>4. guard'[o].claim = q /\ attempts'[q] > 0
      BY <1>3, <1>5, <2>4
    <3> QED
      BY <3>1, <3>2, <3>3, <3>4 DEF Claims, InFlight
  <2>7. Turns'
    <3>1. \A p : Cached(p)' = Cached(p)
      BY <1>1 DEF Cached
    <3>2. ASSUME NEW k \in Jobs, job'[k].pc = "claim"
          PROVE  AtFront(k)' /\ op'[job'[k].req].phase = "idle" /\ Cached(job[k].req)' = {}
      <4>1. k # j /\ job'[k] = job[k] /\ AtFront(k)' /\ AtFront(k) /\ job[k].req \in Requests
        BY <2>1, <2>2, <3>2 DEF Turns, InvitationShape
      <4>2. job[k].req # q
        BY <1>1, <4>1, OneTurn
      <4>3. op[job[k].req].phase = "idle" /\ Cached(job[k].req) = {}
        BY <3>2, <4>1 DEF Turns, InFlight
      <4>4. op'[job[k].req] = op[job[k].req]
        BY <2>4, <4>1, <4>2
      <4> QED
        BY <1>1, <4>1, <4>3, <4>4 DEF Cached
    <3>3. ASSUME NEW p \in Requests, op'[p].phase # "idle"
          PROVE  Cached(p)' = {}
      BY <1>1, <2>4, <3>1, <3>3 DEF Turns, InFlight
    <3> QED
      BY <3>2, <3>3 DEF Turns, InFlight
  <2>8. Exclusive'
    <3>1. \A p \in Requests : op'[p].phase \in Working => op'[p] = op[p]
      BY <2>4 DEF Working
    <3> QED
      BY <1>1, <2>3, <3>1 DEF Exclusive, HoldsMutationQueue, Working
  <2>9. Membership' /\ ReadersHaveLeaves'
    BY <1>1 DEF Membership, ReadersHaveLeaves
  <2>10. Answers' /\ AcceptanceComplete'
    BY <1>1, <1>3, <2>4 DEF Answers, AcceptanceComplete
  <2> QED
    BY <1>1, <2>5, <2>6, <2>7, <2>8, <2>9, <2>10, PathStays
<1> QED
  BY <1>4, <1>5 DEF runClaimed, decision

-----------------------------------------------------------------------------
(* Onboarding                                                               *)

\* A step of the operation of q: the streams that are claiming another request
\* are not disturbed, and the claim stays.
LEMMA OperationKeeps ==
    ASSUME InvitationInv, NEW q \in Requests, InFlight(q), UNCHANGED <<waiting, attempts, node>>,
           \A p \in Requests : p # q => op'[p] = op[p],
           \A k \in Jobs : job'[k].pc # "free" => job'[k] = job[k],
           \A o \in Offers : guard'[o].claim = guard[o].claim,
           \A p \in Requests : p # q => Cached(p)' = Cached(p),
           op'[q].phase # "idle" => UNCHANGED cached
    PROVE  Claims' /\ Turns' /\ PathReleased'
<1> USE DEF InvitationInv
<1>1. Claims'
  <2>1. \A k \in Jobs : job'[k].pc \in {"queued", "claim"} => job'[k].req.form = "sound"
    BY DEF Claims
  <2>2. \A o \in Offers : guard'[o].claim # NoRequest =>
           guard'[o].claim \in Requests /\ guard'[o].claim.form = "sound"
    BY DEF Claims
  <2>3. ASSUME NEW p \in Requests
        PROVE  /\ attempts'[p] > 0 => guard'[p.offer].claim = p
               /\ op'[p].phase # "idle" => attempts'[p] > 0
    <3>1. p.offer \in Offers
      BY RequestFacts
    <3>2. attempts[q] > 0 /\ attempts' = attempts
      BY DEF Claims
    <3>3. /\ attempts[p] > 0 => guard[p.offer].claim = p
          /\ op[p].phase # "idle" => attempts[p] > 0
      BY DEF Claims, InFlight
    <3> QED
      BY <3>1, <3>2, <3>3
  <2> QED
    BY <2>1, <2>2, <2>3 DEF Claims, InFlight
<1>2. Turns'
  <2>1. ASSUME NEW k \in Jobs, job'[k].pc = "claim"
        PROVE  AtFront(k)' /\ op'[job'[k].req].phase = "idle" /\ Cached(job[k].req)' = {}
    <3>1. job'[k] = job[k] /\ job[k].req \in Requests
      BY <2>1 DEF InvitationShape
    <3>2. AtFront(k) /\ ~InFlight(job[k].req) /\ Cached(job[k].req) = {}
      BY <2>1, <3>1 DEF Turns
    <3>3. job[k].req # q
      BY <3>2
    <3>4. op'[job[k].req] = op[job[k].req] /\ Cached(job[k].req)' = Cached(job[k].req)
      <4>1. PICK p \in Requests : p = job[k].req
        BY <3>1
      <4>2. p # q /\ op'[p] = op[p] /\ Cached(p)' = Cached(p)
        BY <3>3, <4>1
      <4>3. cached' = cached \/ cached' # cached
        OBVIOUS
      <4> QED
        BY <3>1, <4>1, <4>2 DEF Cached
    <3> QED
      BY <3>1, <3>2, <3>4 DEF AtFront, InFlight
  <2>2. ASSUME NEW p \in Requests, op'[p].phase # "idle"
        PROVE  Cached(p)' = {}
    <3>1. CASE p = q
      <4>1. cached' = cached /\ Cached(p) = {}
        BY <2>2, <3>1 DEF Turns
      <4> QED
        BY <4>1 DEF Cached
    <3>2. CASE p # q
      <4>1. Cached(p)' = Cached(p) /\ InFlight(p)
        BY <2>2, <3>2 DEF InFlight
      <4> QED
        BY <4>1 DEF Turns
    <3> QED
      BY <3>1, <3>2
  <2>3. \A k \in Jobs : job'[k].pc = "claim" => job'[k] = job[k]
    OBVIOUS
  <2> QED
    BY <2>1, <2>2, <2>3 DEF Turns, InFlight, Cached
<1> QED
  BY <1>1, <1>2, PathStays

\* Nobody else is at work while the head of the mutation queue runs.
LEMMA Alone ==
    ASSUME InvitationInv, NEW q \in Requests, HoldsMutationQueue(JoinTask(q)),
           NEW p \in Requests, op[p].phase \in Working
    PROVE  p = q
<1>1. HoldsMutationQueue(JoinTask(p))
  BY DEF InvitationInv, Exclusive
<1> QED
  BY <1>1, ValueFacts DEF HoldsMutationQueue

\* A failed operation releases the queue and the streams attached to it.
LEMMA FailKeeps ==
    ASSUME InvitationInv, NEW q \in Requests, HoldsMutationQueue(JoinTask(q)), InFlight(q),
           OpFails(q), OpUnchanged, UNCHANGED <<guard, cached, readers, writers, leaf, members>>
    PROVE  InvitationInv'
<1> USE DEF InvitationInv
<1>1. /\ op' = [op EXCEPT ![q] = IdleOp] /\ mutations' = Tail(mutations)
      /\ Return(Attached(q), {}) /\ UNCHANGED <<waiting, attempts, node>>
  BY DEF OpFails, Dequeued, OpUnchanged
<1>2. Attached(q) \in SUBSET Jobs /\ {} \in SUBSET Bundles
  BY DEF Attached
<1>3. /\ job' \in [Jobs -> Streams] /\ replies' \subseteq Bundles
      /\ \A k \in Jobs : job'[k].pc # "free" => job'[k] = job[k]
  BY <1>1, <1>2, ReturnEffect
<1>4. /\ op' \in [Requests -> Operations] /\ op'[q].phase = "idle"
      /\ \A p \in Requests : p # q => op'[p] = op[p]
  BY <1>1, ValueFacts DEF InvitationShape
<1>5. mutations' \in Seq(Tasks)
  BY <1>1, QueueFacts DEF InvitationShape, HoldsMutationQueue
<1>6. InvitationShape'
  BY <1>1, <1>3, <1>4, <1>5 DEF InvitationShape
<1>7. Claims' /\ Turns' /\ PathReleased'
  <2>1. \A p \in Requests : Cached(p)' = Cached(p)
    BY DEF Cached
  <2> QED
    BY <1>1, <1>3, <1>4, <2>1, OperationKeeps
<1>8. Exclusive'
  <2>1. \A p \in Requests : op'[p].phase \notin Working
    BY <1>4, Alone DEF Working
  <2> QED
    BY <2>1 DEF Exclusive, Working
<1>9. Membership' /\ ReadersHaveLeaves'
  BY DEF Membership, ReadersHaveLeaves
<1>10. Answers' /\ AcceptanceComplete'
  BY <1>4 DEF Answers, AcceptanceComplete
<1> QED
  BY <1>6, <1>7, <1>8, <1>9, <1>10

\* An operation that goes on keeps the queue.
LEMMA AdvanceKeeps ==
    ASSUME InvitationInv, NEW q \in Requests, HoldsMutationQueue(JoinTask(q)), InFlight(q),
           NEW phase \in Working, OpAdvances(q, phase), OpUnchanged, UNCHANGED <<guard, cached>>,
           phase = "publishReader" => readers' = {} /\ \A r \in Recipients : leaf'[r] = "none",
           leaf' \in [Recipients -> {"none", "live", "blank"}], members' \subseteq Recipients,
           Membership', ReadersHaveLeaves'
    PROVE  InvitationInv'
<1> USE DEF InvitationInv
<1>1. /\ op' = [op EXCEPT ![q] = [op[q] EXCEPT !.phase = phase,
                                     !.admitted = @ \/ phase = "publishReader"]]
      /\ UNCHANGED <<mutations, job, replies, waiting, attempts, node>>
  <2>1. op \in [Requests -> Operations]
    BY DEF InvitationShape
  <2> QED
    BY <2>1 DEF OpAdvances, OpUnchanged
<1>2. op[q] \in Operations
  BY DEF InvitationShape
<1>3. [op[q] EXCEPT !.phase = phase, !.admitted = @ \/ phase = "publishReader"] \in Operations
  BY <1>2 DEF Operations, OpPhase, Working
<1>4. /\ op' \in [Requests -> Operations] /\ op'[q].phase = phase
      /\ \A p \in Requests : p # q => op'[p] = op[p]
  BY <1>1, <1>2, <1>3 DEF InvitationShape, Operations
<1>5. InvitationShape'
  BY <1>1, <1>4 DEF InvitationShape
<1>6. Claims' /\ Turns' /\ PathReleased'
  <2>1. \A p \in Requests : Cached(p)' = Cached(p)
    BY DEF Cached
  <2> QED
    BY <1>1, <1>4, <2>1, OperationKeeps
<1>7. Exclusive'
  <2>1. HoldsMutationQueue(JoinTask(q))'
    BY <1>1 DEF HoldsMutationQueue, JoinTask
  <2>2. ASSUME NEW p \in Requests, op'[p].phase \in Working
        PROVE  p = q
    BY <1>4, <2>2, Alone
  <2> QED
    BY <1>4, <2>1, <2>2 DEF Exclusive, Working
<1>8. Answers' /\ AcceptanceComplete'
  BY <1>4 DEF Answers, AcceptanceComplete, Working
<1> QED
  BY <1>5, <1>6, <1>7, <1>8

LEMMA BuildKeeps ==
    ASSUME InvitationInv, NEW q \in Requests, _buildInvitationBootstrapUnlocked(q)
    PROVE  InvitationInv'
<1>1. /\ HoldsMutationQueue(JoinTask(q)) /\ InFlight(q) /\ OpUnchanged
      /\ UNCHANGED <<guard, cached, readers, writers, leaf, members>>
  BY DEF _buildInvitationBootstrapUnlocked, InFlight
<1>2. /\ leaf' \in [Recipients -> {"none", "live", "blank"}] /\ members' \subseteq Recipients
      /\ Membership' /\ ReadersHaveLeaves'
  BY <1>1 DEF InvitationInv, InvitationShape, Membership, ReadersHaveLeaves
<1>3. CASE OpAdvances(q, "addReader")
  BY <1>1, <1>2, <1>3, AdvanceKeeps DEF Working
<1>4. CASE OpFails(q)
  BY <1>1, <1>4, FailKeeps
<1> QED
  BY <1>3, <1>4 DEF _buildInvitationBootstrapUnlocked

LEMMA AddReaderKeeps ==
    ASSUME InvitationInv, NEW q \in Requests, _addReaderUnlocked(q)
    PROVE  InvitationInv'
<1>1. /\ op[q].phase = "addReader" /\ InFlight(q) /\ OpUnchanged
      /\ UNCHANGED <<guard, cached, readers, writers, leaf, members>>
  BY DEF _addReaderUnlocked, InFlight
<1>2. HoldsMutationQueue(JoinTask(q))
  BY <1>1 DEF InvitationInv, Exclusive, Working
<1>3. /\ leaf' \in [Recipients -> {"none", "live", "blank"}] /\ members' \subseteq Recipients
      /\ Membership' /\ ReadersHaveLeaves'
  BY <1>1 DEF InvitationInv, InvitationShape, Membership, ReadersHaveLeaves
<1>4. CASE q.recipient \in readers /\ OpAdvances(q, AfterReader(q))
  <2>1. AfterReader(q) \in Working /\ AfterReader(q) # "publishReader"
    BY DEF AfterReader, Working
  <2> QED
    BY <1>1, <1>2, <1>3, <1>4, <2>1, AdvanceKeeps
<1>5. CASE q.recipient \notin readers /\ ReaderSlot(q) /\ OpAdvances(q, "publishReader")
  <2>1. readers' = {} /\ \A r \in Recipients : leaf'[r] = "none"
    BY <1>1, <1>5 DEF ReaderSlot
  <2>2. "publishReader" \in Working
    BY DEF Working
  <2> QED
    BY <1>1, <1>2, <1>3, <1>5, <2>1, <2>2, AdvanceKeeps
<1>6. CASE OpFails(q)
  BY <1>1, <1>2, <1>6, FailKeeps
<1> QED
  BY <1>4, <1>5, <1>6 DEF _addReaderUnlocked

\* A reader is published into an empty slot: it is the first and only member.
LEMMA PublishKeeps ==
    ASSUME InvitationInv, NEW q \in Requests, _publishPreparedReaderChange(q)
    PROVE  InvitationInv'
<1>1. /\ op[q].phase = "publishReader" /\ InFlight(q) /\ OpUnchanged
      /\ UNCHANGED <<guard, cached, writers>>
  BY DEF _publishPreparedReaderChange, InFlight
<1>2. /\ HoldsMutationQueue(JoinTask(q))
      /\ readers = {} /\ \A r \in Recipients : leaf[r] = "none"
  BY <1>1 DEF InvitationInv, Exclusive, Working
<1>3. CASE InstallReader(q) /\ OpAdvances(q, AfterReader(q))
  <2>1. q.recipient \in Recipients
    BY RequestFacts
  <2>2. members = {} /\ writers = {}
    BY <1>2 DEF InvitationInv, InvitationShape, Membership
  <2>3. /\ readers' = {q.recipient} /\ members' = {q.recipient} /\ writers' = {}
        /\ leaf' = [leaf EXCEPT ![q.recipient] = "live"]
    BY <1>1, <1>2, <1>3, <2>2 DEF InstallReader
  <2>4. leaf \in [Recipients -> {"none", "live", "blank"}]
    BY DEF InvitationInv, InvitationShape
  <2>5. /\ leaf' \in [Recipients -> {"none", "live", "blank"}] /\ members' \subseteq Recipients
        /\ \A r \in Recipients : leaf'[r] = IF r = q.recipient THEN "live" ELSE "none"
    BY <1>2, <2>1, <2>3, <2>4
  <2>6. Membership' /\ ReadersHaveLeaves'
    BY <2>1, <2>3, <2>5 DEF Membership, ReadersHaveLeaves
  <2>7. AfterReader(q) \in Working /\ AfterReader(q) # "publishReader"
    BY DEF AfterReader, Working
  <2> QED
    BY <1>1, <1>2, <1>3, <2>5, <2>6, <2>7, AdvanceKeeps
<1>4. CASE OpFails(q) /\ UNCHANGED <<readers, leaf, members>>
  BY <1>1, <1>2, <1>4, FailKeeps
<1> QED
  BY <1>3, <1>4 DEF _publishPreparedReaderChange

LEMMA AddWriterKeeps ==
    ASSUME InvitationInv, NEW q \in Requests, _addWriterUnlocked(q)
    PROVE  InvitationInv'
<1>1. /\ op[q].phase = "addWriter" /\ InFlight(q) /\ OpUnchanged
      /\ UNCHANGED <<guard, cached, readers, leaf, members>>
  BY DEF _addWriterUnlocked, InFlight
<1>2. HoldsMutationQueue(JoinTask(q))
  BY <1>1 DEF InvitationInv, Exclusive, Working
<1>3. CASE /\ q.recipient \in readers /\ OpAdvances(q, "attest")
           /\ writers' \in {writers, writers \cup {q.recipient}}
  <2>1. /\ leaf' \in [Recipients -> {"none", "live", "blank"}] /\ members' \subseteq Recipients
        /\ ReadersHaveLeaves'
    BY <1>1 DEF InvitationInv, InvitationShape, ReadersHaveLeaves
  <2>2. Membership'
    BY <1>1, <1>3 DEF InvitationInv, Membership
  <2>3. "attest" \in Working /\ "attest" # "publishReader"
    BY DEF Working
  <2> QED
    BY <1>1, <1>2, <1>3, <2>1, <2>2, <2>3, AdvanceKeeps
<1>4. CASE OpFails(q) /\ UNCHANGED writers
  BY <1>1, <1>2, <1>4, FailKeeps
<1> QED
  BY <1>3, <1>4 DEF _addWriterUnlocked

\* The bundle attests the founder's ACL of this turn, which holds the recipient
\* in the offered role and nobody else.
LEMMA PrepareKeeps ==
    ASSUME InvitationInv, NEW q \in Requests, prepareInitialInvitationMembership(q)
    PROVE  InvitationInv'
<1> USE DEF InvitationInv
<1>1. /\ op[q].phase = "attest" /\ InFlight(q) /\ OpUnchanged
      /\ UNCHANGED <<guard, cached, readers, writers, leaf, members>>
  BY DEF prepareInitialInvitationMembership, InFlight
<1>2. HoldsMutationQueue(JoinTask(q))
  BY <1>1 DEF Exclusive, Working
<1> DEFINE a == InvitationAcceptance(q, attempts[q], readers, writers)
<1>3. CASE /\ classifyInitialMembership(q, TRUE) /\ mutations' = Tail(mutations)
           /\ op' = [op EXCEPT ![q] = [op[q] EXCEPT !.phase = "sign", !.bundle = a]]
           /\ UNCHANGED <<job, replies>>
  <2>1. /\ a \in Bundles /\ a.request = q /\ a.readers = readers /\ a.writers = writers
    BY ValueFacts DEF InvitationShape, Membership
  <2>2. Attested(a)
    BY <1>3, <2>1 DEF Attested, classifyAcceptedMembership, classifyInitialMembership
  <2> HIDE DEF a
  <2>3. op[q] \in Operations
    BY DEF InvitationShape
  <2>4. [op[q] EXCEPT !.phase = "sign", !.bundle = a] \in Operations
    BY <2>1, <2>3 DEF Operations, OpPhase
  <2>5. /\ op' \in [Requests -> Operations] /\ op'[q].phase = "sign" /\ op'[q].bundle = a
        /\ \A p \in Requests : p # q => op'[p] = op[p]
    BY <1>3, <2>3, <2>4 DEF InvitationShape, Operations
  <2>6. mutations' \in Seq(Tasks)
    BY <1>2, <1>3, QueueFacts DEF InvitationShape, HoldsMutationQueue
  <2>7. InvitationShape'
    BY <1>1, <1>3, <2>5, <2>6 DEF InvitationShape, OpUnchanged
  <2>8. Claims' /\ Turns' /\ PathReleased'
    <3>1. \A p \in Requests : Cached(p)' = Cached(p)
      BY <1>1 DEF Cached
    <3>2. UNCHANGED <<waiting, attempts, node>>
      BY <1>1 DEF OpUnchanged
    <3> QED
      BY <1>1, <1>3, <2>5, <3>1, <3>2, OperationKeeps
  <2>9. Exclusive'
    <3>1. \A p \in Requests : op'[p].phase \notin Working
      BY <1>2, <2>5, Alone DEF Working
    <3> QED
      BY <3>1 DEF Exclusive, Working
  <2>10. Membership' /\ ReadersHaveLeaves' /\ AcceptanceComplete'
    BY <1>1 DEF Membership, ReadersHaveLeaves, AcceptanceComplete
  <2>11. Answers'
    <3>1. \A p \in Requests : op'[p].phase = "sign" =>
             op'[p].bundle.request = p /\ Attested(op'[p].bundle)
      BY <2>1, <2>2, <2>5 DEF Answers
    <3> QED
      BY <1>1, <3>1 DEF Answers, Attested, classifyAcceptedMembership
  <2> QED
    BY <2>7, <2>8, <2>9, <2>10, <2>11
<1>4. CASE OpFails(q)
  BY <1>1, <1>2, <1>4, FailKeeps
<1>5. ASSUME NEW m \in {AttestedMembership(q)},
             op' = [op EXCEPT ![q].phase = "sign",
                              ![q].bundle = InvitationAcceptance(q, attempts[q], m[1], m[2])]
      PROVE  op' = [op EXCEPT ![q] = [op[q] EXCEPT !.phase = "sign", !.bundle = a]]
  <2>1. m[1] = readers /\ m[2] = writers
    BY DEF AttestedMembership
  <2>2. op \in [Requests -> Operations]
    BY DEF InvitationShape
  <2> HIDE DEF InvitationInv
  <2> QED
    BY <1>5, <2>1, <2>2
<1>6. \/ /\ classifyInitialMembership(q, TRUE) /\ mutations' = Tail(mutations)
         /\ \E m \in {AttestedMembership(q)} :
               op' = [op EXCEPT ![q].phase = "sign",
                                ![q].bundle = InvitationAcceptance(q, attempts[q], m[1], m[2])]
         /\ UNCHANGED <<job, replies>>
      \/ OpFails(q)
  BY DEF prepareInitialInvitationMembership, Dequeued
<1> HIDE DEF InvitationInv, a
<1> QED
  BY <1>3, <1>4, <1>5, <1>6

\* The claim is turned into the acceptance that the coordinator remembers.
LEMMA ObserveKeeps ==
    ASSUME InvitationInv, NEW q \in Requests, observeAcceptance(q)
    PROVE  InvitationInv'
<1> USE DEF InvitationInv
<1> DEFINE a == op[q].bundle
           o == q.offer
<1>1. /\ op[q].phase = "sign" /\ InFlight(q) /\ op' = [op EXCEPT ![q] = IdleOp]
      /\ UNCHANGED <<waiting, attempts, node, mutations, readers, writers, leaf, members>>
  BY DEF observeAcceptance, InFlight, OpUnchanged
<1>2. /\ a \in Bundles /\ a.request = q /\ Attested(a) /\ o \in Offers
      /\ guard[o].claim = q /\ q.form = "sound"
  <2>1. op[q] \in Operations /\ o \in Offers
    BY RequestFacts DEF InvitationShape
  <2>2. a \in Bundles /\ a.request = q /\ Attested(a)
    BY <1>1, <2>1 DEF Answers, Operations
  <2>3. attempts[q] > 0
    BY <1>1 DEF Claims
  <2>4. guard[o].claim = q
    BY <2>3 DEF Claims
  <2> QED
    BY <2>1, <2>2, <2>4, RequestFacts DEF Claims
<1>3. /\ op' \in [Requests -> Operations] /\ op'[q].phase = "idle"
      /\ \A p \in Requests : p # q => op'[p] = op[p]
  BY <1>1, ValueFacts DEF InvitationShape
<1>4. Exclusive' /\ Membership' /\ ReadersHaveLeaves'
  <2>1. \A p \in Requests : op'[p].phase \in Working => op'[p] = op[p]
    BY <1>3 DEF Working
  <2> QED
    BY <1>1, <2>1 DEF Exclusive, HoldsMutationQueue, Membership, ReadersHaveLeaves, Working
<1>5. \A p \in Requests : op'[p].phase = "sign" =>
         op'[p].bundle.request = p /\ Attested(op'[p].bundle)
  BY <1>3 DEF Answers
<1>6. CASE /\ guard' = recordInvitationReplayAcceptance(o, q, a) /\ cached' = cached \cup {a}
           /\ Return(Attached(q), {a})
  <2>1. Attached(q) \in SUBSET Jobs /\ {a} \in SUBSET Bundles
    BY <1>2 DEF Attached
  <2>2. /\ job' \in [Jobs -> Streams] /\ replies' \subseteq Bundles
        /\ \A k \in Jobs : job'[k].pc # "free" => job'[k] = job[k]
    BY <1>6, <2>1, ReturnEffect
  <2> HIDE DEF a
  <2>3. /\ guard' \in [Offers -> [claim : Claimants, accepted : Bundles]]
        /\ \A p \in Offers : guard'[p].claim = guard[p].claim
        /\ \A p \in Offers : guard'[p].accepted = IF p = o THEN a ELSE guard[p].accepted
    BY <1>2, <1>6 DEF InvitationShape, recordInvitationReplayAcceptance, Claimants
  <2>4. InvitationShape'
    BY <1>1, <1>2, <1>3, <1>6, <2>2, <2>3 DEF InvitationShape
  <2>5. Claims' /\ Turns' /\ PathReleased'
    <3>1. \A p \in Requests : p # q => Cached(p)' = Cached(p)
      BY <1>2, <1>6 DEF Cached
    <3> QED
      BY <1>1, <1>3, <2>2, <2>3, <3>1, OperationKeeps
  <2>6. AcceptanceComplete'
    BY <1>2, <1>6 DEF AcceptanceComplete, Attested
  <2>7. Answers'
    <3>1. \A p \in Offers : guard'[p].accepted # NoAcceptance =>
             /\ guard'[p].accepted \in cached'
             /\ guard'[p].accepted.request \in Requests
             /\ guard'[p].accepted.request.form = "sound"
      BY <1>2, <1>6, <2>3 DEF Answers
    <3> QED
      BY <1>5, <3>1 DEF Answers, Attested, classifyAcceptedMembership
  <2> QED
    BY <1>4, <2>4, <2>5, <2>6, <2>7
<1>7. CASE Return(Attached(q), {}) /\ UNCHANGED <<guard, cached>>
  <2>1. Attached(q) \in SUBSET Jobs /\ {} \in SUBSET Bundles
    BY DEF Attached
  <2>2. /\ job' \in [Jobs -> Streams] /\ replies' \subseteq Bundles
        /\ \A k \in Jobs : job'[k].pc # "free" => job'[k] = job[k]
    BY <1>7, <2>1, ReturnEffect
  <2>3. InvitationShape'
    BY <1>1, <1>3, <1>7, <2>2 DEF InvitationShape
  <2>4. Claims' /\ Turns' /\ PathReleased'
    <3>1. \A p \in Requests : Cached(p)' = Cached(p)
      BY <1>7 DEF Cached
    <3> QED
      BY <1>1, <1>3, <1>7, <2>2, <3>1, OperationKeeps
  <2>5. AcceptanceComplete' /\ Answers'
    BY <1>5, <1>7 DEF AcceptanceComplete, Answers, Attested, classifyAcceptedMembership
  <2> QED
    BY <1>4, <2>3, <2>4, <2>5
<1> QED
  BY <1>6, <1>7 DEF observeAcceptance, remember

-----------------------------------------------------------------------------
(* Taking a role back                                                       *)

\* A task joins the queue at its end.
LEMMA EnqueueKeeps ==
    ASSUME InvitationInv, NEW r \in Recipients, removeReader(r) \/ removeWriter(r)
    PROVE  InvitationInv'
<1> USE DEF InvitationInv
<1>1. /\ mutations' \in Seq(Tasks)
      /\ mutations # << >> => mutations' # << >> /\ Head(mutations') = Head(mutations)
  <2>1. PICK k \in {"removeReader", "removeWriter"} :
           mutations' = Append(mutations, RoleTask(k, r))
    BY DEF removeReader, removeWriter, Enqueue
  <2>2. RoleTask(k, r) \in Tasks
    BY DEF RoleTask, Tasks
  <2> QED
    BY <2>1, <2>2, QueueFacts DEF InvitationShape
<1>2. UNCHANGED <<guard, cached, waiting, job, op, attempts, readers, writers, leaf, members,
                  replies, node>>
  BY DEF removeReader, removeWriter, Enqueue
<1>3. InvitationShape'
  BY <1>1, <1>2 DEF InvitationShape
<1>4. Claims' /\ Turns'
  BY <1>2 DEF Claims, Turns, InFlight, Cached, AtFront
<1>5. Exclusive' /\ Membership' /\ ReadersHaveLeaves'
  BY <1>1, <1>2 DEF Exclusive, HoldsMutationQueue, Membership, ReadersHaveLeaves
<1>6. Answers' /\ AcceptanceComplete'
  BY <1>2 DEF Answers, AcceptanceComplete
<1> QED
  BY <1>2, <1>3, <1>4, <1>5, <1>6, PathStays

\* A role task runs while no operation is at work, and blanks the leaf of the
\* reader it takes out of the ACL.
LEMMA RoleKeeps ==
    ASSUME InvitationInv, NEW r \in Recipients, RoleStep(r)
    PROVE  InvitationInv'
<1> USE DEF InvitationInv
<1>1. /\ \E k \in {"removeReader", "removeWriter"} : HoldsMutationQueue(RoleTask(k, r))
      /\ mutations' = Tail(mutations)
      /\ UNCHANGED <<guard, cached, waiting, job, op, attempts, members, replies, node>>
  BY DEF RoleStep, _removeReaderUnlocked, _removeWriterUnlocked, RoleUnchanged, Dequeued
<1>2. \/ UNCHANGED <<readers, leaf>> /\ writers' \subseteq writers
      \/ /\ UNCHANGED writers /\ r \in readers \ writers
         /\ readers' = readers \ {r} /\ leaf' = [leaf EXCEPT ![r] = "blank"]
  BY DEF RoleStep, _removeReaderUnlocked, _removeWriterUnlocked, BlankLeaf
<1>3. mutations' \in Seq(Tasks)
  BY <1>1, QueueFacts DEF InvitationShape, HoldsMutationQueue
<1>4. leaf \in [Recipients -> {"none", "live", "blank"}]
  BY DEF InvitationShape
<1>5. /\ leaf' \in [Recipients -> {"none", "live", "blank"}]
      /\ \A s \in Recipients : leaf'[s] = "none" <=> leaf[s] = "none"
      /\ \A s \in Recipients : s \in readers' <=> leaf'[s] = "live"
  BY <1>2, <1>4 DEF ReadersHaveLeaves
<1>6. InvitationShape'
  BY <1>1, <1>3, <1>5 DEF InvitationShape
<1>7. Claims' /\ Turns'
  BY <1>1 DEF Claims, Turns, InFlight, Cached, AtFront
<1>8. Exclusive'
  <2>1. \A q \in Requests : op[q].phase \notin Working
    BY <1>1, ValueFacts DEF Exclusive, HoldsMutationQueue
  <2> QED
    BY <1>1, <2>1 DEF Exclusive, Working
<1>9. Membership'
  <2>1. \A s \in Recipients : s \in members' <=> leaf'[s] # "none"
    BY <1>1, <1>5 DEF Membership
  <2>2. readers' \subseteq members' /\ writers' \subseteq members'
    BY <1>1, <1>2 DEF Membership
  <2> QED
    BY <1>1, <2>1, <2>2 DEF Membership
<1>10. ReadersHaveLeaves'
  BY <1>5 DEF ReadersHaveLeaves
<1>11. Answers' /\ AcceptanceComplete'
  BY <1>1 DEF Answers, AcceptanceComplete
<1> QED
  BY <1>1, <1>6, <1>7, <1>8, <1>9, <1>10, <1>11, PathStays

-----------------------------------------------------------------------------
(* Recipients                                                               *)

LEMMA CandidateFacts ==
    /\ FreshCandidate \in Documents /\ FreshCandidate.pc = "idle"
    /\ ~FreshCandidate.reserved /\ ~FreshCandidate.registered
    /\ \A q \in Requests : ReservedCandidate(q) \in Documents /\ ReservedCandidate(q).pc = "dialing"
    /\ \A n \in 1..MaxLives : FreshProcess(n) \in Processes /\ FreshProcess(n).doc = FreshCandidate
<1>1. /\ FreshCandidate \in Documents /\ FreshCandidate.pc = "idle"
      /\ ~FreshCandidate.reserved /\ ~FreshCandidate.registered
  BY ValueFacts DEF FreshCandidate, Documents, Claimants
<1>2. ASSUME NEW q \in Requests
      PROVE  ReservedCandidate(q) \in Documents /\ ReservedCandidate(q).pc = "dialing"
  BY ValueFacts DEF ReservedCandidate, FreshCandidate, Documents, Claimants
<1>3. ASSUME NEW n \in 1..MaxLives
      PROVE  FreshProcess(n) \in Processes /\ FreshProcess(n).doc = FreshCandidate
  BY <1>1, <1>3 DEF FreshProcess, Processes
<1> QED
  BY <1>1, <1>2, <1>3

\* One process changes: its candidate is idle and unreserved, on its way, or
\* complete.
LEMMA NodeStep ==
    ASSUME InvitationInv, NEW r \in Recipients, NEW n \in Processes,
           node' = [node EXCEPT ![r] = n], RecipientUnchanged,
           n.doc.pc = "idle" => ~n.doc.reserved /\ ~n.doc.registered,
           n.doc.pc = "joined" => n.doc.state = "complete"
    PROVE  InvitationInv'
<1>1. node \in [Recipients -> Processes]
  BY DEF InvitationInv, InvitationShape
<1>2. node' \in [Recipients -> Processes]
  BY <1>1
<1>3. PathReleased'
  BY <1>1 DEF InvitationInv, PathReleased, Candidate
<1>4. UNCHANGED <<core, replies>>
  BY DEF RecipientUnchanged, founderVars, core
<1> QED
  BY <1>2, <1>3, <1>4, CoreStays

LEMMA CandidateStep ==
    ASSUME InvitationInv, NEW r \in Recipients, NEW d \in Documents,
           SetCandidate(r, d), RecipientUnchanged,
           d.pc = "idle" => ~d.reserved /\ ~d.registered,
           d.pc = "joined" => d.state = "complete"
    PROVE  InvitationInv'
<1>1. node \in [Recipients -> Processes]
  BY DEF InvitationInv, InvitationShape
<1>2. node[r] \in Processes
  BY <1>1
<1>3. [node[r] EXCEPT !.doc = d] \in Processes /\ [node[r] EXCEPT !.doc = d].doc = d
  BY <1>2 DEF Processes
<1>4. node' = [node EXCEPT ![r] = [node[r] EXCEPT !.doc = d]]
  BY <1>1 DEF SetCandidate
<1> QED
  BY <1>3, <1>4, NodeStep

LEMMA AcceptKeeps ==
    ASSUME InvitationInv, NEW r \in Recipients, NEW o \in Offers, acceptInvitation(r, o)
    PROVE  InvitationInv'
<1>1. node[r] \in Processes /\ node \in [Recipients -> Processes]
  BY DEF InvitationInv, InvitationShape
<1>2. Retained(r) \subseteq Requests
  BY <1>1 DEF Retained, Processes
<1>3. [offer |-> o, recipient |-> r, nonce |-> node[r].life, form |-> "sound"] \in Requests
  BY <1>1 DEF Processes, Requests, InvitationJoinRequests
<1>4. PICK q \in Requests :
         node' = [node EXCEPT ![r].outbound = Retained(r) \cup {q},
                              ![r].sent = @ \cup {q},
                              ![r].doc = ReservedCandidate(q)]
  BY <1>2, <1>3 DEF acceptInvitation
<1>5. RecipientUnchanged
  BY DEF acceptInvitation
<1> DEFINE n == [node[r] EXCEPT !.outbound = Retained(r) \cup {q},
                                !.sent = @ \cup {q},
                                !.doc = ReservedCandidate(q)]
<1>6. node' = [node EXCEPT ![r] = n]
  BY <1>1, <1>4
<1>7. n \in Processes /\ n.doc = ReservedCandidate(q)
  BY <1>1, <1>2, CandidateFacts DEF Processes
<1> HIDE DEF n
<1> QED
  BY <1>5, <1>6, <1>7, CandidateFacts, NodeStep

LEMMA AcceptOfferKeeps ==
    ASSUME InvitationInv, NEW r \in Recipients, NEW a \in replies, _acceptInvitationOffer(r, a)
    PROVE  InvitationInv'
<1>1. node[r] \in Processes /\ node \in [Recipients -> Processes] /\ a \in Bundles
  BY DEF InvitationInv, InvitationShape
<1>2. RecipientUnchanged /\ node' = [node EXCEPT ![r].seen = _pruneExpired(r) \cup {a},
                                                 ![r].doc.pc = "bootstrap",
                                                 ![r].doc.accepted = a]
  BY DEF _acceptInvitationOffer
<1> DEFINE d == [node[r].doc EXCEPT !.pc = "bootstrap", !.accepted = a]
           n == [node[r] EXCEPT !.seen = _pruneExpired(r) \cup {a}, !.doc = d]
<1>3. d \in Documents /\ d.pc = "bootstrap"
  BY <1>1 DEF Processes, Documents
<1>4. _pruneExpired(r) \subseteq Bundles
  BY <1>1 DEF _pruneExpired, Processes
<1>5. node' = [node EXCEPT ![r] = n]
  BY <1>1, <1>2 DEF Processes
<1> HIDE DEF d
<1>6. n \in Processes /\ n.doc = d
  BY <1>1, <1>3, <1>4 DEF Processes
<1> HIDE DEF n
<1> QED
  BY <1>2, <1>3, <1>5, <1>6, NodeStep

LEMMA RestartKeeps ==
    ASSUME InvitationInv, NEW r \in Recipients, Restart(r)
    PROVE  InvitationInv'
<1>1. node[r] \in Processes /\ node \in [Recipients -> Processes] /\ node[r].life < MaxLives
  BY DEF InvitationInv, InvitationShape, Restart
<1>2. node[r].life + 1 \in 1..MaxLives
  BY <1>1, InvitationAssumption DEF Processes
<1> DEFINE n == [FreshProcess(node[r].life + 1) EXCEPT !.sent = node[r].sent]
<1>3. n \in Processes /\ n.doc = FreshCandidate
  BY <1>1, <1>2, CandidateFacts DEF Processes
<1>4. RecipientUnchanged /\ node' = [node EXCEPT ![r] = n]
  BY DEF Restart
<1> HIDE DEF n
<1> QED
  BY <1>3, <1>4, CandidateFacts, NodeStep

LEMMA RecipientKeeps ==
    ASSUME InvitationInv, NEW r \in Recipients, RecipientStep(r)
    PROVE  InvitationInv'
<1>1. Candidate(r) \in Documents
  BY DEF InvitationInv, InvitationShape, Candidate, Processes
<1> DEFINE pending == [Candidate(r) EXCEPT !.pc = "apply", !.state = "pending"]
           installed == [Candidate(r) EXCEPT !.pc = "catchUp", !.registered = TRUE]
           complete == [Candidate(r) EXCEPT !.pc = "joined", !.state = "complete",
                                            !.reserved = FALSE]
<1>2. /\ pending \in Documents /\ pending.pc = "apply"
      /\ installed \in Documents /\ installed.pc = "catchUp"
      /\ complete \in Documents /\ complete.pc = "joined" /\ complete.state = "complete"
  BY <1>1 DEF Documents
<1>3. CASE /\ RecipientUnchanged
           /\ \E d \in {FreshCandidate, pending, installed, complete} : SetCandidate(r, d)
  <2>1. PICK d \in {FreshCandidate, pending, installed, complete} : SetCandidate(r, d)
    BY <1>3
  <2>2. /\ d \in Documents
        /\ d.pc = "idle" => ~d.reserved /\ ~d.registered
        /\ d.pc = "joined" => d.state = "complete"
    BY <1>2, <2>1, CandidateFacts
  <2> QED
    BY <1>3, <2>1, <2>2, CandidateStep
<1>4. \/ \E o \in Offers : acceptInvitation(r, o)
      \/ \E a \in replies : _acceptInvitationOffer(r, a)
      \/ Restart(r)
      \/ /\ RecipientUnchanged
         /\ \E d \in {FreshCandidate, pending, installed, complete} : SetCandidate(r, d)
  BY DEF RecipientStep, firstSuccessfulInvitationRendezvous, acceptInvitationBootstrap,
         _markBootstrapStateApplicationPending, _runInvitationBootstrapStateApplication,
         _activateAcceptedInvitationBootstrap, _markBootstrapStateApplicationComplete, Discarded
<1> QED
  BY <1>3, <1>4, AcceptKeeps, AcceptOfferKeeps, RestartKeeps

-----------------------------------------------------------------------------
(* The invariant and the one-time link                                      *)

LEMMA InitKeeps == Init => InvitationInv
<1> SUFFICES ASSUME Init
             PROVE  InvitationInv
  OBVIOUS
<1>1. EmptyGuard \in [claim : Claimants, accepted : Bundles] /\ EmptyGuard.claim = NoRequest
      /\ EmptyGuard.accepted = NoAcceptance
  BY ValueFacts DEF EmptyGuard, Claimants
<1>2. 1 \in 1..MaxLives
  BY InvitationAssumption
<1>3. << >> \in Seq(Jobs) /\ << >> \in Seq(Tasks)
  OBVIOUS
<1>4. InvitationShape
  BY <1>1, <1>2, <1>3, ValueFacts, CandidateFacts DEF Init, InvitationShape, Requests
<1>5. Claims
  BY <1>1, ValueFacts DEF Init, Claims, InFlight, Requests
<1>6. Turns /\ Exclusive
  BY ValueFacts DEF Init, Turns, Exclusive, InFlight, Working, Requests
<1>7. Membership /\ ReadersHaveLeaves
  BY DEF Init, Membership, ReadersHaveLeaves
<1>8. Answers /\ AcceptanceComplete
  BY <1>1, ValueFacts DEF Init, Answers, AcceptanceComplete, Requests
<1>9. PathReleased
  BY <1>2, CandidateFacts DEF Init, PathReleased, Candidate
<1> QED
  BY <1>4, <1>5, <1>6, <1>7, <1>8, <1>9 DEF InvitationInv

LEMMA NextKeeps == InvitationInv /\ [Next]_vars => InvitationInv'
<1> SUFFICES ASSUME InvitationInv, [Next]_vars
             PROVE  InvitationInv'
  OBVIOUS
<1>1. CASE \/ \E o \in Offers : createInvitationForDocument(o) \/ registerInvitationOffer(o)
           \/ unregisterDocument \/ Tick
  BY <1>1, OffersKeep
<1>2. ASSUME NEW j \in Jobs, NEW q \in Delivered, _processInvitationJoin(j, q)
      PROVE  InvitationInv'
  BY <1>2, ProcessJoinKeeps
<1>3. ASSUME NEW j \in Jobs, JobStep(j) \/ abortStream(j)
      PROVE  InvitationInv'
  BY <1>3, VerifiedKeeps, QueuedKeeps, ClaimedKeeps, AbortKeeps DEF JobStep
<1>4. ASSUME NEW q \in Requests, OpStep(q)
      PROVE  InvitationInv'
  BY <1>4, BuildKeeps, AddReaderKeeps, PublishKeeps, AddWriterKeeps, PrepareKeeps,
     ObserveKeeps DEF OpStep
<1>5. ASSUME NEW r \in Recipients, removeReader(r) \/ removeWriter(r) \/ RoleStep(r)
      PROVE  InvitationInv'
  BY <1>5, EnqueueKeeps, RoleKeeps
<1>6. ASSUME NEW r \in Recipients, RecipientStep(r)
      PROVE  InvitationInv'
  BY <1>6, RecipientKeeps
<1>7. CASE UNCHANGED vars
  <2>1. UNCHANGED <<core, replies, node>>
    BY <1>7 DEF vars, founderVars, core
  <2> QED
    BY <2>1, PathStays, CoreStays
<1> QED
  BY <1>1, <1>2, <1>3, <1>4, <1>5, <1>6, <1>7 DEF Next, Requests

\* The inductive invariant holds in every reachable state: the claim of an offer,
\* the turns of the streams and the head of the mutation queue keep concurrent
\* join streams from onboarding two recipients (peerborne.ts, peerborne-document.ts).
THEOREM InvitationInvariant == Spec => []InvitationInv
BY InitKeeps, NextKeeps, PTL DEF Spec

\* What the invariant says of one state: one claimant, an offer that no bad
\* request burns, and the founder plus one.
LEMMA InvitationStates ==
    InvitationInv => SoleClaimant /\ OfferNotBurned /\ FounderPlusOne /\ ReadersHaveLeaves
                     /\ AcceptanceComplete /\ PathReleased
<1> SUFFICES ASSUME InvitationInv
             PROVE  SoleClaimant /\ OfferNotBurned /\ FounderPlusOne
  BY DEF InvitationInv
<1> USE DEF InvitationInv
<1>1. SoleClaimant
  BY DEF Claims, SoleClaimant, Requests
<1>2. OfferNotBurned
  BY DEF Claims, OfferNotBurned
<1>3. Cardinality(members) <= 1
  <2>1. CASE members = {}
    BY <2>1, FS_EmptySet
  <2>2. CASE members # {}
    <3>1. PICK r : r \in members
      BY <2>2
    <3>2. members = {r}
      BY <3>1 DEF Membership
    <3>3. Cardinality({r}) = 1
      BY FS_Singleton
    <3> QED
      BY <3>2, <3>3
  <2> QED
    BY <2>1, <2>2
<1> QED
  BY <1>1, <1>2, <1>3 DEF FounderPlusOne, Membership

\* A stream is answered with the acceptance of its request: only the two steps
\* that look the request up first can end it, and both find the acceptance.
LEMMA RetryStep ==
    ASSUME InvitationInv, [Next]_vars, NEW j \in Jobs, NEW o \in Offers,
           guard[o].accepted # NoAcceptance, job[j].pc # "free",
           job[j].req = guard[o].accepted.request, ~job[j].aborted, job'[j].pc = "free"
    PROVE  guard[o].accepted \in replies'
<1> USE DEF InvitationInv
<1> DEFINE a == guard[o].accepted
           q == job[j].req
<1>1. /\ a \in Cached(q) /\ Cached(q) # {} /\ q \in Requests
      /\ VerifiedRequest(q) /\ ~InFlight(q)
  <2>1. a \in cached /\ q \in Requests /\ q.form = "sound"
    BY DEF Answers
  <2>2. a \in Cached(q)
    BY <2>1 DEF Cached
  <2>3. VerifiedRequest(q)
    BY <2>1, RequestFacts
  <2>4. ~InFlight(q)
    BY <2>1, <2>2 DEF Turns
  <2> QED
    BY <2>1, <2>2, <2>3, <2>4
<1>2. \A as : Return({j}, as) /\ a \in as => a \in replies'
  BY DEF Return
<1>3. job'[j] # job[j]
  OBVIOUS
<1> HIDE DEF a, q
<1>4. ASSUME NEW k \in Jobs, NEW p \in Delivered, _processInvitationJoin(k, p)
      PROVE  FALSE
  BY <1>3, <1>4 DEF _processInvitationJoin, InvitationShape
<1>5. ASSUME NEW k \in Jobs, runVerified(k)
      PROVE  a \in replies'
  <2>1. k = j
    BY <1>3, <1>5, ValueFacts DEF runVerified, Return, Free, InvitationShape
  <2>2. Return({j}, Cached(q))
    BY <1>1, <1>5, <2>1 DEF runVerified, InvitationShape, q
  <2> QED
    BY <1>1, <1>2, <2>2
<1>6. ASSUME NEW k \in Jobs, runQueued(k)
      PROVE  a \in replies'
  <2>1. k = j
    BY <1>3, <1>6 DEF runQueued, Return, Free, InvitationShape
  <2>2. Return({j}, Cached(q))
    BY <1>1, <1>6, <2>1 DEF runQueued, InvitationShape, q
  <2> QED
    BY <1>1, <1>2, <2>2
<1>7. ASSUME NEW k \in Jobs, runClaimed(k)
      PROVE  FALSE
  <2>1. k = j
    BY <1>3, <1>7 DEF runClaimed, Return, Free, InvitationShape
  <2> QED
    BY <1>1, <1>7, <2>1 DEF runClaimed, Turns, q
<1>8. ASSUME NEW k \in Jobs, abortStream(k)
      PROVE  FALSE
  <2>1. job' = [job EXCEPT ![k].aborted = TRUE]
    BY <1>8 DEF abortStream
  <2> QED
    BY <2>1 DEF InvitationShape, Streams
<1>9. ASSUME NEW p \in Requests, OpStep(p)
      PROVE  FALSE
  <2>1. InFlight(p)
    BY <1>9 DEF OpStep, _buildInvitationBootstrapUnlocked, _addReaderUnlocked,
       _publishPreparedReaderChange, _addWriterUnlocked, prepareInitialInvitationMembership,
       observeAcceptance, InFlight
  <2>2. j \notin Attached(p)
    BY <1>1, <2>1 DEF Attached, q
  <2>3. UNCHANGED job \/ \E as : Return(Attached(p), as)
    BY <1>9 DEF OpStep, _buildInvitationBootstrapUnlocked, _addReaderUnlocked,
       _publishPreparedReaderChange, _addWriterUnlocked, prepareInitialInvitationMembership,
       observeAcceptance, OpAdvances, OpFails
  <2> QED
    BY <1>3, <2>2, <2>3 DEF Return, Free
<1>10. ASSUME \/ \E p \in Offers : createInvitationForDocument(p) \/ registerInvitationOffer(p)
              \/ unregisterDocument \/ Tick
              \/ \E r \in Recipients : removeReader(r) \/ removeWriter(r) \/ RoleStep(r)
              \/ \E r \in Recipients : RecipientStep(r)
              \/ UNCHANGED vars
       PROVE  FALSE
  <2>1. CASE \/ \E p \in Offers : createInvitationForDocument(p) \/ registerInvitationOffer(p)
             \/ unregisterDocument \/ Tick \/ UNCHANGED vars
    <3>1. UNCHANGED job
      BY <2>1 DEF createInvitationForDocument, registerInvitationOffer, unregisterDocument,
         Tick, founderVars, vars
    <3> QED
      BY <3>1, <1>3
  <2>2. CASE \E r \in Recipients : removeReader(r) \/ removeWriter(r) \/ RoleStep(r)
    <3>1. UNCHANGED job
      BY <2>2 DEF removeReader, removeWriter, Enqueue, RoleStep, _removeReaderUnlocked,
         _removeWriterUnlocked, RoleUnchanged
    <3> QED
      BY <3>1, <1>3
  <2>3. CASE \E r \in Recipients : RecipientStep(r)
    <3>1. PICK r \in Recipients : RecipientStep(r)
      BY <2>3
    <3>2. RecipientUnchanged
      <4>1. CASE \E p \in Offers : acceptInvitation(r, p)
        BY <4>1 DEF acceptInvitation
      <4>2. CASE \E b \in replies : _acceptInvitationOffer(r, b)
        BY <4>2 DEF _acceptInvitationOffer
      <4> QED
        BY <3>1, <4>1, <4>2 DEF RecipientStep, firstSuccessfulInvitationRendezvous,
           acceptInvitationBootstrap, _runInvitationBootstrapStateApplication,
           _activateAcceptedInvitationBootstrap, Restart
    <3>3. UNCHANGED job
      BY <3>2 DEF RecipientUnchanged, founderVars
    <3> QED
      BY <3>3, <1>3
  <2> QED
    BY <1>10, <2>1, <2>2, <2>3
<1> HIDE DEF InvitationInv
<1>11. a \in replies'
  BY <1>4, <1>5, <1>6, <1>7, <1>8, <1>9, <1>10 DEF Next, JobStep, Requests
<1> QED
  BY <1>11 DEF a

\* An offer lets one recipient in and no other: one claimant and one member at
\* most, with a leaf that can be revoked and an acceptance that attests the
\* membership, whatever the order in which streams verify, queue, abort and claim,
\* and a repeated request gets the answer it had.
THEOREM LinkIsOneTime == Spec => OneTimeLink
<1>1. InvitationInv /\ [Next]_vars =>
         [\A j \in Jobs : \A a \in {guard[o].accepted : o \in Offers} \ {NoAcceptance} :
             /\ job[j].pc # "free" /\ job[j].req = a.request /\ ~job[j].aborted
             /\ job'[j].pc = "free"
             => a \in replies']_vars
  BY RetryStep
<1> QED
  BY InvitationInvariant, InvitationStates, <1>1, PTL DEF Spec, OneTimeLink, RetryAnswered
=============================================================================
