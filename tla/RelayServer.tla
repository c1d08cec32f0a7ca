---------------------------- MODULE RelayServer ----------------------------
(***************************************************************************)
(* The relay server (relay-server/src), two parts that share no state.     *)
(*                                                                         *)
(* The dynamic topic subscriptions (auto-topic-registry.ts, topic-policy.ts *)
(* and the handlers of index.ts): which remote peer caused which           *)
(* subscription, kept in both directions, under a cap on the topics and    *)
(* one per peer.  GossipSub's own view of the remote subscriptions changes *)
(* with or without an event reaching the relay; a periodic reconciliation  *)
(* is the backstop.                                                        *)
(*                                                                         *)
(* The metered gateway in front of the relay (relay-gateway.ts and         *)
(* gateway-limits.ts): an authenticated upgrade is admitted by attempt     *)
(* windows and connection caps, opens a tunnel, and every chunk in either  *)
(* direction is metered against the session's token bucket, the session's  *)
(* bytes and a process-wide budget whose exhaustion closes every tunnel.   *)
(* Header checks are the upgrade's precondition.                           *)
(***************************************************************************)
EXTENDS Integers, FiniteSets

-----------------------------------------------------------------------------
(* The topic registry                                                      *)


CONSTANTS RelayPeers,
          DynamicTopics,    \* topics shouldAutoSubscribe admits
          PermanentTopics,  \* seed and operator-configured topics
          RefusedTopics,    \* system topics and topics outside the allowlist
          maxAutoTopics, maxAutoTopicsPerPeer

ASSUME RelayAssumption ==
    /\ {maxAutoTopics, maxAutoTopicsPerPeer} \subseteq Nat
    /\ DynamicTopics \cap (PermanentTopics \cup RefusedTopics) = {}

VARIABLES remote,      \* GossipSub: the topics each remote peer subscribes to
          topicPeers,  \* #topicPeers: tracked topic -> peers that caused it
          peerTopics,  \* #peerTopics: peer -> tracked topics
          forwarded    \* the relay's own pubsub subscriptions

relayVars == <<remote, topicPeers, peerTopics, forwarded>>

RelayTopicNames == DynamicTopics \cup PermanentTopics \cup RefusedTopics

RelayInit ==
    /\ remote = [p \in RelayPeers |-> {}]
    /\ topicPeers = << >>
    /\ peerTopics = << >>
    /\ forwarded = PermanentTopics

TopicsOf(p) == IF p \in DOMAIN peerTopics THEN peerTopics[p] ELSE {}

PeerHasCapacity(p) == Cardinality(TopicsOf(p)) < maxAutoTopicsPerPeer

(* shouldAutoSubscribe for a topic the registry does not track yet.        *)
shouldAutoSubscribe(t) ==
    /\ t \notin PermanentTopics \cup RefusedTopics
    /\ Cardinality(DOMAIN topicPeers) < maxAutoTopics

(* Both indexes after the peers of some topics changed: an entry that      *)
(* holds nothing is deleted (#recordPeerTopic, #removePeerFromTopic,       *)
(* #replaceTopicPeers and the deletions that follow them).                 *)
PeersOf(t, causes) == {p \in RelayPeers : <<p, t>> \in causes}
Causes == {pt \in RelayPeers \X RelayTopicNames :
              pt[2] \in DOMAIN topicPeers /\ pt[1] \in topicPeers[pt[2]]}

SetTopicPeers(causes) ==
    topicPeers' = [t \in {t \in RelayTopicNames : PeersOf(t, causes) # {}}
                     |-> PeersOf(t, causes)]

SetPeerTopics(removed, added) ==
    LET left(p) == (TopicsOf(p) \ {t \in RelayTopicNames : <<p, t>> \in removed})
                     \cup {t \in RelayTopicNames : <<p, t>> \in added}
    IN peerTopics' = [p \in {p \in RelayPeers : left(p) # {}} |-> left(p)]

(* What the registry's answer makes the relay do: subscribe to a topic it  *)
(* starts to track, unsubscribe from one it no longer tracks.              *)
Forward(before, after) ==
    forwarded' = (forwarded \ (before \ after)) \cup (after \ before)

(* A bug: a removal leaves the reverse index alone.                        *)
TracksOneWay(removed, added) ==
    LET causes == (Causes \ removed) \cup added
    IN /\ SetTopicPeers(causes)
       /\ SetPeerTopics({}, added)
       /\ Forward(DOMAIN topicPeers, {pt[2] : pt \in causes})

Track(removed, added) ==
    LET causes == (Causes \ removed) \cup added
    IN /\ SetTopicPeers(causes)
       /\ SetPeerTopics(removed, added)
       /\ Forward(DOMAIN topicPeers, {pt[2] : pt \in causes})

(* subscription-change, the peer subscribes: recorded with a tracked topic *)
(* or with one the policy admits, within the peer's cap.                   *)
Admits(p, t) ==
    /\ t \in DOMAIN topicPeers \/ shouldAutoSubscribe(t)
    /\ PeerHasCapacity(p)

subscriptionChanged(p, t, subscribe) ==
    IF subscribe
    THEN Track({}, IF Admits(p, t) THEN {<<p, t>>} ELSE {})
    ELSE Track({<<p, t>>} \cap Causes, {})

PeerChanges(p, t, subscribe) ==
    /\ subscribe <=> t \notin remote[p]
    /\ remote' = [remote EXCEPT ![p] = IF subscribe THEN @ \cup {t} ELSE @ \ {t}]

RemoteChange(p, t, subscribe) ==
    /\ PeerChanges(p, t, subscribe)
    /\ subscriptionChanged(p, t, subscribe)

(* The same change of GossipSub's state without the event.                 *)
MissedChange(p, t, subscribe) ==
    /\ PeerChanges(p, t, subscribe)
    /\ UNCHANGED <<topicPeers, peerTopics, forwarded>>

(* peer:disconnect reclaims every topic recorded for the peer.             *)
peerDisconnected(p) ==
    /\ remote' = [remote EXCEPT ![p] = {}]
    /\ Track({p} \X TopicsOf(p), {})

ReconciledPeers(t) ==
    {p \in RelayPeers : t \in remote[p] /\ (p \in topicPeers[t] \/ PeerHasCapacity(p))}

(* One topic of the reconciliation pass: GossipSub's subscribers replace   *)
(* the recorded peers, a peer at its cap staying out.                      *)
reconcileTopic(t) ==
    /\ t \in DOMAIN topicPeers
    /\ Track(topicPeers[t] \X {t}, ReconciledPeers(t) \X {t})
    /\ UNCHANGED remote

RelayNext ==
    \/ \E p \in RelayPeers, t \in RelayTopicNames, s \in BOOLEAN : RemoteChange(p, t, s)
    \/ \E p \in RelayPeers, t \in RelayTopicNames, s \in BOOLEAN : MissedChange(p, t, s)
    \/ \E p \in RelayPeers : peerDisconnected(p)
    \/ \E t \in RelayTopicNames : reconcileTopic(t)

(* The reconciliation timer keeps firing while the relay runs.             *)
RelayFairness == \A t \in DynamicTopics : WF_relayVars(reconcileTopic(t))

RelaySpec == RelayInit /\ [][RelayNext]_relayVars /\ RelayFairness

-----------------------------------------------------------------------------
(* The two indexes stay inverses of each other without empty entries       *)
(* through subscribe, unsubscribe, disconnect and reconciliation, and the  *)
(* relay subscribes exactly to its permanent and its tracked topics.       *)
IndexesInverse ==
    /\ \A p \in RelayPeers, t \in RelayTopicNames :
          (t \in TopicsOf(p)) <=> (<<p, t>> \in Causes)
    /\ \A p \in DOMAIN peerTopics : peerTopics[p] # {}
    /\ \A t \in DOMAIN topicPeers : topicPeers[t] # {}
    /\ forwarded = PermanentTopics \cup DOMAIN topicPeers

(* No sequence of events, missed events and reconciliations takes the      *)
(* registry past its topic cap or a peer past its own.                     *)
WithinCaps ==
    /\ Cardinality(DOMAIN topicPeers) <= maxAutoTopics
    /\ \A p \in RelayPeers : Cardinality(TopicsOf(p)) <= maxAutoTopicsPerPeer

(* A dynamic subscription nobody remote uses is given up or used again,    *)
(* whatever events were missed: the comment of reconcileTopic.             *)
StrandedReclaimed ==
    \A t \in DynamicTopics :
        (t \in forwarded /\ \A p \in RelayPeers : t \notin remote[p])
            ~> (t \notin forwarded \/ \E p \in RelayPeers : t \in remote[p])

-----------------------------------------------------------------------------
(* The gateway                                                             *)


CONSTANTS Sessions,   \* identities of the sessions ever admitted
          Addresses,  \* client addresses
          maxConnections, maxConnectionsPerIp,
          attemptsPerMinute, attemptsPerIpPerMinute, attemptsPerIpPerTenSeconds,
          maxTrackedIps,
          sessionBytes, totalBytes, bytesPerTick, burstBytes,
          Minute, TenSeconds, \* the window lengths in ticks of the clock
          MaxClock, MaxChunk,
          MaxExcess   \* attempts counted in one window beyond attemptsPerMinute

ASSUME GatewayAssumption ==
    {maxConnections, maxConnectionsPerIp, attemptsPerMinute, attemptsPerIpPerMinute,
     attemptsPerIpPerTenSeconds, maxTrackedIps, sessionBytes, totalBytes, bytesPerTick,
     burstBytes, Minute, TenSeconds, MaxClock, MaxChunk, MaxExcess} \subseteq Nat

VARIABLES clock,
          attempts,   \* the process-wide attempt window
          addresses,  \* address -> its minute and burst windows
          session,    \* GatewaySession of every identity
          limiterSessions, \* GatewayLimiter.sessions
          tunnel,     \* "none", "connecting", "open", "closed"
          used,       \* GatewayLimiter.bytes
          exhausted,
          carried,    \* bytes of each session passed on by its meters
          openedAt    \* when the session was admitted

gatewayVars == <<clock, attempts, addresses, session, limiterSessions, tunnel, used,
                 exhausted, carried, openedAt>>

GatewayInit ==
    /\ clock = 0
    /\ attempts = [start |-> -Minute, count |-> 0]
    /\ addresses = << >>
    /\ session = [s \in Sessions |-> [ip |-> "none", bytes |-> 0, tokens |-> 0, refilledAt |-> 0]]
    /\ limiterSessions = {}
    /\ tunnel = [s \in Sessions |-> "none"]
    /\ used = 0
    /\ exhausted = FALSE
    /\ carried = [s \in Sessions |-> 0]
    /\ openedAt = [s \in Sessions |-> 0]

increment(window, duration) ==
    IF clock - window.start >= duration
    THEN [start |-> clock, count |-> 1]
    ELSE [window EXCEPT !.count = @ + 1]

(* The addresses admit() still tracks once the expired ones are dropped.   *)
Tracked == {a \in DOMAIN addresses : clock - addresses[a].minute.start < Minute}

FreshWindows == [minute |-> [start |-> clock, count |-> 0],
                 burst |-> [start |-> clock, count |-> 0]]

(* The windows of an attempt from ip.                                      *)
Windows(ip) ==
    LET w == IF ip \in Tracked THEN addresses[ip] ELSE FreshWindows
    IN [minute |-> increment(w.minute, Minute), burst |-> increment(w.burst, TenSeconds)]

Connections(ip) == {s \in limiterSessions : session[s].ip = ip}

(* admit(), the conditions after the attempt was counted.                  *)
MayOpen(ip, windows) ==
    /\ windows.minute.count <= attemptsPerIpPerMinute
    /\ windows.burst.count <= attemptsPerIpPerTenSeconds
    /\ Cardinality(limiterSessions) < maxConnections
    /\ Cardinality(Connections(ip)) < maxConnectionsPerIp

(* An upgrade request: refused while exhausted, over the attempt window,   *)
(* for a new address beyond maxTrackedIps, or by MayOpen; otherwise a      *)
(* session and its tunnel, connecting to the relay, exist.                 *)
Upgrade(s, ip) ==
    LET counted == increment(attempts, Minute)
        tracks  == ip \in Tracked \/ Cardinality(Tracked) < maxTrackedIps
        windows == Windows(ip)
    IN /\ tunnel[s] = "none"
       /\ ~exhausted
       /\ counted.count <= attemptsPerMinute + MaxExcess
       /\ attempts' = counted
       /\ IF counted.count > attemptsPerMinute
          THEN UNCHANGED addresses
          ELSE addresses' = [a \in Tracked \cup (IF tracks THEN {ip} ELSE {})
                               |-> IF a = ip THEN windows ELSE addresses[a]]
       /\ IF counted.count <= attemptsPerMinute /\ tracks /\ MayOpen(ip, windows)
          THEN /\ session' = [session EXCEPT ![s] =
                      [ip |-> ip, bytes |-> 0, tokens |-> burstBytes, refilledAt |-> clock]]
               /\ limiterSessions' = limiterSessions \cup {s}
               /\ tunnel' = [tunnel EXCEPT ![s] = "connecting"]
               /\ openedAt' = [openedAt EXCEPT ![s] = clock]
          ELSE UNCHANGED <<session, limiterSessions, tunnel, openedAt>>
       /\ UNCHANGED <<clock, used, exhausted, carried>>

(* The relay accepted the upstream connection: the pipes are set up.       *)
UpstreamConnected(s) ==
    /\ tunnel[s] = "connecting"
    /\ tunnel' = [tunnel EXCEPT ![s] = "open"]
    /\ UNCHANGED <<clock, attempts, addresses, session, limiterSessions, used, exhausted,
                   carried, openedAt>>

Live == {s \in Sessions : tunnel[s] \in {"connecting", "open"}}

(* close() of the given tunnels: the slot is released once.                *)
Closing(stopped) ==
    /\ tunnel' = [s \in Sessions |-> IF s \in stopped THEN "closed" ELSE tunnel[s]]
    /\ limiterSessions' = limiterSessions \ stopped

(* An error or close of either socket, an idle timeout, the session timer. *)
TunnelCloses(s) ==
    /\ s \in Live
    /\ Closing({s})
    /\ UNCHANGED <<clock, attempts, addresses, session, used, exhausted, carried, openedAt>>

Least(a, b) == IF a < b THEN a ELSE b

Refilled(s) ==
    Least(burstBytes,
          session[s].tokens + (clock - session[s].refilledAt) * bytesPerTick)

(* The tunnels a refused chunk stops: its own, or all at the budget's end. *)
Stopped(s, spent) == IF spent THEN Live ELSE {s}
(* consume() and the meter around it, for a chunk in either direction.     *)
Chunk(s, bytes) ==
    LET over   == bytes > totalBytes - used
        spent  == over \/ used + bytes >= totalBytes
        total  == session[s].bytes + bytes
        tokens == Refilled(s) - bytes
        passes == ~spent /\ total <= sessionBytes /\ tokens >= 0
    IN /\ tunnel[s] = "open"
       /\ s \in limiterSessions /\ ~exhausted
       /\ exhausted' = spent
       /\ used' = IF over THEN used ELSE used + bytes
       /\ session' = IF over THEN session
                     ELSE [session EXCEPT ![s].bytes = total, ![s].tokens = tokens,
                                          ![s].refilledAt = clock]
       /\ IF passes
          THEN /\ carried' = [carried EXCEPT ![s] = @ + bytes]
               /\ UNCHANGED <<tunnel, limiterSessions>>
          ELSE /\ Closing(Stopped(s, spent))
               /\ UNCHANGED carried
       /\ UNCHANGED <<clock, attempts, addresses, openedAt>>

GatewayTick ==
    /\ clock < MaxClock
    /\ clock' = clock + 1
    /\ UNCHANGED <<attempts, addresses, session, limiterSessions, tunnel, used, exhausted,
                   carried, openedAt>>

GatewayNext ==
    \/ \E s \in Sessions, ip \in Addresses : Upgrade(s, ip)
    \/ \E s \in Sessions : UpstreamConnected(s)
    \/ \E s \in Sessions : TunnelCloses(s)
    \/ \E s \in Sessions, bytes \in 1 .. MaxChunk : Chunk(s, bytes)
    \/ GatewayTick

GatewaySpec == GatewayInit /\ [][GatewayNext]_gatewayVars

-----------------------------------------------------------------------------
(* A connection slot is held exactly while its tunnel lives: every way a   *)
(* tunnel ends, before or after the upstream connected, gives it back, and *)
(* the caps hold of the live tunnels.                                      *)
SlotsExact ==
    /\ limiterSessions = Live
    /\ Cardinality(Live) <= maxConnections
    /\ \A ip \in Addresses : Cardinality(Connections(ip)) <= maxConnectionsPerIp

(* What a session carried keeps to its rate from its admission on, to its  *)
(* own limit, and all sessions together to the process budget.             *)
CarriedWithinLimits ==
    /\ \A s \in Sessions :
          /\ carried[s] <= sessionBytes
          /\ carried[s] <= burstBytes + (clock - openedAt[s]) * bytesPerTick
    /\ used <= totalBytes

(* Once the budget is exhausted no tunnel is left, the connecting ones     *)
(* included.                                                               *)
ExhaustionStopsAll == exhausted => Live = {}

(* The relay keeps its topic, connection and traffic limits exactly,       *)
(* whatever events, failures and endings it misses or meets.               *)
RelayBounded ==
    /\ [](IndexesInverse /\ WithinCaps)
    /\ [](SlotsExact /\ CarriedWithinLimits /\ ExhaustionStopsAll)
=============================================================================
