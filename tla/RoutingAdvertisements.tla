----------------------- MODULE RoutingAdvertisements -----------------------
(***************************************************************************)
(* The registry of routing advertisements of the distributed search        *)
(* (packages/index/src/routing-advertisement.ts): one replacement snapshot *)
(* per advertising peer, with the last sequence and issue time of a peer   *)
(* kept as a tombstone after its snapshot expired.  accept() validates an  *)
(* advertisement, awaits its authorization and signature, and only then    *)
(* compares it with the registry, which other accepts changed meanwhile.   *)
(* An advertisement is its peer, sequence, issue and expiry times; one     *)
(* that is malformed, of another manifest or saturated changes nothing     *)
(* and is not enumerated.                                                  *)
(***************************************************************************)
EXTENDS Integers, Sequences, SequencesExt, FiniteSets

CONSTANTS AdvertisingPeers, \* the peers that advertise, one state key each
          maxPeers,         \* bound on the snapshots, and on the tombstones
          minUpdateInterval,\* least distance of two issue times of one peer
          AdvertisementTtl, \* the manifest's advertisementTtlMs
          IssueSkew,        \* how far ahead of the clock an issue time may lie
          MaxNow, MaxSequence, MaxAccepting

ASSUME RoutingAssumption ==
    /\ maxPeers \in Nat \ {0}
    /\ {minUpdateInterval, AdvertisementTtl, IssueSkew, MaxNow, MaxSequence,
        MaxAccepting} \subseteq Nat

VARIABLES now,            \* Date.now()
          states,         \* _states: the snapshot retained for a peer
          tombstones,     \* _lastSequences' keys, in insertion order
          lastSequences,  \* _lastSequences
          lastIssuedAt,   \* _lastIssuedAt
          accepting       \* the accepts awaiting authorizer and signature

routingVars == <<now, states, tombstones, lastSequences, lastIssuedAt, accepting>>

Advertisements ==
    [peer : AdvertisingPeers, sequence : 0 .. MaxSequence,
     issuedAt : 0 .. MaxNow + IssueSkew,
     expiresAt : 1 .. MaxNow + IssueSkew + AdvertisementTtl]

RoutingInit ==
    /\ now = 0
    /\ states = << >>
    /\ tombstones = << >>
    /\ lastSequences = << >>
    /\ lastIssuedAt = << >>
    /\ accepting = {}

(* _prune: the snapshots that outlive the clock.                           *)
_prune(snapshots) ==
    [p \in {q \in DOMAIN snapshots : snapshots[q].expiresAt > now} |-> snapshots[p]]

(* validateAdvertisement: the validity window.                             *)
validateAdvertisement(adv) ==
    /\ adv.issuedAt <= now + IssueSkew
    /\ adv.expiresAt > now
    /\ adv.expiresAt > adv.issuedAt
    /\ adv.expiresAt <= adv.issuedAt + AdvertisementTtl

(* accept() up to its first await: prune, and validate against the clock.  *)
AcceptBegins(adv) ==
    /\ Cardinality(accepting) < MaxAccepting
    /\ states' = _prune(states)
    /\ accepting' = IF validateAdvertisement(adv) THEN accepting \cup {adv} ELSE accepting
    /\ UNCHANGED <<now, tombstones, lastSequences, lastIssuedAt>>

(* The authorizer refuses, or the signature does not verify.               *)
AcceptRefused(adv) ==
    /\ accepting' = accepting \ {adv}
    /\ UNCHANGED <<now, states, tombstones, lastSequences, lastIssuedAt>>

(* The tombstone _makeTombstoneRoom gives up: the oldest without snapshot. *)
Evictable == {i \in DOMAIN tombstones : tombstones[i] \notin DOMAIN states}
_makeTombstoneRoom(peer) ==
    IF peer \in DOMAIN lastSequences \/ Len(tombstones) < maxPeers \/ Evictable = {}
    THEN tombstones
    ELSE RemoveAt(tombstones, CHOOSE i \in Evictable : \A j \in Evictable : i <= j)

AcceptsNewer(adv) ==
    \/ adv.peer \notin DOMAIN lastSequences
    \/ adv.sequence > lastSequences[adv.peer]

RateAllows(adv) ==
    \/ adv.peer \notin DOMAIN lastIssuedAt
    \/ adv.issuedAt - lastIssuedAt[adv.peer] >= minUpdateInterval

HasCapacity(adv) ==
    adv.peer \in DOMAIN states \/ Cardinality(DOMAIN states) < maxPeers

Keeping(f, keys, peer, value) ==
    [p \in keys |-> IF p = peer THEN value ELSE f[p]]

(* accept() after its awaits, in one synchronous stretch.                  *)
AcceptCommits(adv) ==
    LET kept  == _makeTombstoneRoom(adv.peer)
        order == IF adv.peer \in DOMAIN lastSequences THEN kept ELSE Append(kept, adv.peer)
        keys  == ToSet(order)
    IN /\ accepting' = accepting \ {adv}
       /\ IF AcceptsNewer(adv) /\ RateAllows(adv) /\ HasCapacity(adv)
          THEN /\ tombstones' = order
               /\ lastSequences' = Keeping(lastSequences, keys, adv.peer, adv.sequence)
               /\ lastIssuedAt' = Keeping(lastIssuedAt, keys, adv.peer, adv.issuedAt)
               /\ states' = Keeping(states, DOMAIN states \cup {adv.peer}, adv.peer, adv)
          ELSE UNCHANGED <<states, tombstones, lastSequences, lastIssuedAt>>
       /\ UNCHANGED now

(* get(): an expired snapshot is dropped as it is read.                    *)
get(peer) ==
    /\ peer \in DOMAIN states
    /\ states[peer].expiresAt <= now
    /\ states' = [p \in DOMAIN states \ {peer} |-> states[p]]
    /\ UNCHANGED <<now, tombstones, lastSequences, lastIssuedAt, accepting>>

RoutingTick ==
    /\ now < MaxNow
    /\ now' = now + 1
    /\ UNCHANGED <<states, tombstones, lastSequences, lastIssuedAt, accepting>>

RoutingNext ==
    \/ \E adv \in Advertisements : AcceptBegins(adv)
    \/ \E adv \in accepting : AcceptRefused(adv)
    \/ \E adv \in accepting : AcceptCommits(adv)
    \/ \E peer \in AdvertisingPeers : get(peer)
    \/ RoutingTick

RoutingSpec == RoutingInit /\ [][RoutingNext]_routingVars

-----------------------------------------------------------------------------
(* The registry stays within maxPeers in all its maps, and no snapshot is  *)
(* without the tombstone that guards it against an older advertisement:    *)
(* the capacity check is what always leaves _makeTombstoneRoom a victim.   *)
RoutingGuarded ==
    /\ Len(tombstones) <= maxPeers
    /\ ToSet(tombstones) = DOMAIN lastSequences
    /\ DOMAIN lastIssuedAt = DOMAIN lastSequences
    /\ \A p \in DOMAIN states :
          p \in DOMAIN lastSequences /\ lastSequences[p] = states[p].sequence

(* A peer's retained snapshot is only ever replaced by one of a higher     *)
(* sequence, although accepts of that peer finish their awaits in any      *)
(* order and snapshots of other peers push tombstones out.                 *)
SnapshotsAdvance ==
    [][\A p \in DOMAIN states \cap DOMAIN states' :
          states'[p] = states[p] \/ states'[p].sequence > states[p].sequence]_routingVars
=============================================================================
