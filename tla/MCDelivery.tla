------------------------------ MODULE MCDelivery ------------------------------
(* What is delivered, searched and relayed between nodes: components             *)
(* which share no state, side by side: a behaviour is one of the chosen       *)
(* component, the others stay in their initial state.                         *)
EXTENDS SharedProtocols, UpdateNotifications, FederatedSearch, IndexQuery,
        RelayServer, RoutingAdvertisements, DocumentWelcome

VARIABLE component

(* Sources that agree, overlap, repeat a document or know an older revision.  *)
Hint(p, r) == [path |-> p, revision |-> r]
SmallAnswers ==
    {[candidates |-> <<Hint("x", 1), Hint("y", 0)>>, exhausted |-> TRUE],
     [candidates |-> <<Hint("x", 2), Hint("y", 1), Hint("z", 0)>>, exhausted |-> FALSE],
     [candidates |-> <<Hint("x", 1), Hint("x", 2)>>, exhausted |-> TRUE]}
FirstWorld == [revision |-> [x |-> 2, y |-> 1, z |-> 0], matches |-> {"x", "y", "z"}, indexed |-> {}]
SecondWorld == [revision |-> [x |-> 1, y |-> 1, z |-> 1], matches |-> {"x", "z"}, indexed |-> {"z"}]
SmallWorlds == {FirstWorld, SecondWorld}

(* Queries over two physical indexes, and rows with an optional field.        *)
Row(x, y, z) == [a |-> x, b |-> y, c |-> z]
SmallRows == {Row(0, 0, -1), Row(0, 1, 1), Row(1, 1, -1), Row(2, 0, 1)}
SmallIndexes == <<<<"a">>, <<"a", "b">>>>

Field(p, o, v) == [kind |-> "field", path |-> p, operator |-> o, value |-> v, values |-> {v}]
OneOf(p, vs) == [kind |-> "field", path |-> p, operator |-> "in", value |-> 0, values |-> vs]
Both(l, r) == [kind |-> "and", expressions |-> <<l, r>>]
Either(l, r) == [kind |-> "or", expressions |-> <<l, r>>]

SmallConditions ==
    {Absent,
     Field("a", "prefix", 0),
     Both(Field("a", "gte", 0), Field("a", "lt", 2)),
     Both(Field("a", "eq", 1), Field("b", "lte", 0)),
     Both(OneOf("a", {0, 2}), Field("b", "gt", 0)),
     Both(Field("a", "lte", 1), Field("c", "neq", 1)),
     Either(Field("a", "eq", 0), Both(Field("a", "gt", 0), Field("b", "eq", 1))),
     Either(Field("a", "eq", 0), Field("c", "eq", 1)),
     Both(Field("a", "contains", 2), Either(Field("b", "eq", 0), Field("c", "eq", 1)))}

Ascending(p) == [path |-> p, direction |-> "asc"]
Descending(p) == [path |-> p, direction |-> "desc"]
SmallOrders == {<<>>, <<Ascending("b")>>, <<Descending("b")>>, <<Ascending("a"), Ascending("b")>>,
                <<Descending("c"), Ascending("a")>>}

(* A first invitation, the re-invitation in the next commit, which reaches    *)
(* the member as a rotation too, and what a stranger sends under the epoch of *)
(* the first and under another.                                               *)
Sent(epoch, at, by, bytes) ==
    [epoch |-> epoch, generation |-> at, keys |-> {epoch}, by |-> by, bytes |-> bytes]
SmallWelcomes ==
    {Sent(1, 1, "writer", 1), [Sent(2, 2, "writer", 1) EXCEPT !.keys = 1 .. 2],
     Sent(1, 9, "stranger", 3), Sent(7, 9, "stranger", 1)}
SmallRotations == {<<2, 2>>, <<3, 3>>}

Init ==
    /\ component \in {"protocols", "notifications", "search", "query", "relay", "gateway", "routing", "welcome"}
    /\ SharedProtocolInit
    /\ NotificationInit
    /\ SearchInit
    /\ component # "search" => world = FirstWorld
    /\ QueryInit
    /\ RelayInit
    /\ GatewayInit
    /\ RoutingInit
    /\ WelcomeInit

Next ==
    \/ component = "protocols" /\ SharedProtocolNext
       /\ UNCHANGED <<component, notificationVars, searchVars, queryVars, relayVars, gatewayVars, routingVars, welcomeVars>>
    \/ component = "notifications" /\ NotificationNext
       /\ UNCHANGED <<component, protocolVars, searchVars, queryVars, relayVars, gatewayVars, routingVars, welcomeVars>>
    \/ component = "search" /\ SearchNext
       /\ UNCHANGED <<component, protocolVars, notificationVars, queryVars, relayVars, gatewayVars, routingVars, welcomeVars>>
    \/ component = "query" /\ QueryNext
       /\ UNCHANGED <<component, protocolVars, notificationVars, searchVars, relayVars, gatewayVars, routingVars, welcomeVars>>
    \/ component = "relay" /\ RelayNext
       /\ UNCHANGED <<component, protocolVars, notificationVars, searchVars, queryVars, gatewayVars, routingVars, welcomeVars>>
    \/ component = "gateway" /\ GatewayNext
       /\ UNCHANGED <<component, protocolVars, notificationVars, searchVars, queryVars, relayVars, routingVars, welcomeVars>>
    \/ component = "routing" /\ RoutingNext
       /\ UNCHANGED <<component, protocolVars, notificationVars, searchVars, queryVars, relayVars, gatewayVars, welcomeVars>>
    \/ component = "welcome" /\ WelcomeNext
       /\ UNCHANGED <<component, protocolVars, notificationVars, searchVars, queryVars, relayVars, gatewayVars, routingVars>>

vars == <<component, protocolVars, notificationVars, searchVars, queryVars, relayVars, gatewayVars, routingVars, welcomeVars>>

Spec == Init /\ [][Next]_vars /\ SharedProtocolFairness /\ NotificationFairness /\ SearchFairness /\ RelayFairness /\ WelcomeFairness

-------------------------------------------------------------------------------
(* Properties: what is asked of each part, by theme. *)

(* A stream is reset under a commit only after its grace period, commits      *)
(* nothing after its deadline and is not called completed when it was late;   *)
(* observers hear of every change once, in order, and never of a partly       *)
(* loaded document.                                                           *)
ObserversServed ==
    /\ [](ResetAfterCommits /\ LateIsNotCompleted)
    /\ CommitsInTime
    /\ [](ToldInOrder /\ NoneDropped /\ ToldOfWhole)

(* A planned query returns what a scan would, page by page without gap or     *)
(* repetition; a federated search returns only documents it verified, with a  *)
(* coverage that is not better than what was searched; and the registry of    *)
(* peers it may ask never goes back to an older snapshot, full as it may be.  *)
SearchesExact ==
    /\ [](PlanEqualsScan /\ PagesComplete /\ OnlyVerified /\ CoverageHonest)
    /\ []RoutingGuarded /\ SnapshotsAdvance

(* Parked Welcomes stay within their limits without displacing an             *)
(* authenticated one, no key of the epochs a member takes part in is skipped, *)
(* the ratchet only moves forward, and after a failed application nothing     *)
(* changes any more.                                                          *)
WelcomesKept ==
    /\ [](BufferBounded /\ NoKeyGap)
    /\ AuthenticatedKept /\ RatchetForward /\ FrozenAfterFailure

(* Every stream is released, every queue of notifications drained, every      *)
(* search ended, every unused topic reclaimed and every Welcome served in the *)
(* end.                                                                       *)
DeliveryEnds ==
    StreamsReleased /\ QueueDrains /\ SearchTerminates /\ StrandedReclaimed /\ WelcomeServed
===============================================================================
