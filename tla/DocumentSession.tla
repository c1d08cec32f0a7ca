--------------------------- MODULE DocumentSession ---------------------------
(***************************************************************************)
(* The life of a node and of the document instances it has for one path:    *)
(* initialize, registerDocument and unregisterDocument of core/src/         *)
(* peerborne.ts; open, create and close of core/src/peerborne-document.ts,  *)
(* of a legacy and of a coordinated document; and the transactions of an    *)
(* instance, startChange to endChange.                                      *)
(*                                                                          *)
(* An await is a point where any other call may run, initialize() included. *)
(* Loading, validating, founding, activating and starting a node may fail.  *)
(* A node's pubsub is its message listeners, whether the topic is           *)
(* subscribed and the topic's validator; one that was stopped refuses to    *)
(* subscribe and to unsubscribe.  Documents' contents, and progress         *)
(* reports, are left out.                                                   *)
(***************************************************************************)
EXTENDS Integers, Sequences

CONSTANTS
    Instances,      \* PeerborneDocument objects for the path
    MaxNodes,       \* bound: nodes started
    MaxHandlers,    \* bound: message handlers an instance makes
    MaxFns,         \* bound: change functions
    MaxCommits      \* bound: endChange calls waiting at a time

ASSUME SessionAssumption == MaxNodes \in Nat /\ MaxHandlers \in Nat /\ "none" \notin Instances
ASSUME TransactionAssumption == MaxFns \in Nat /\ MaxCommits \in Nat

VARIABLES
    node,           \* _heliaNode, 0 for none
    nodes,          \* nodes started so far
    initializing,   \* what initialize() awaits, "no" outside it
    registry,       \* _documentRegistry
    reserved,       \* _pendingInvitationDocuments
    pubsub,         \* of each node
    doc             \* the fields of each instance

sessionVars == <<node, nodes, initializing, registry, reserved, pubsub, doc>>
nodeVars == <<node, nodes, initializing>>

None == "none"
NoPubsub == [listeners |-> {}, topic |-> FALSE, validator |-> None]

(* activation is what the instance's open, create or invitation awaits;     *)
(* closing holds the close calls that have not reached their synchronous    *)
(* part, that of a failed activation and the application's own; on is the   *)
(* node whose pubsub it subscribes; engineClosed is the coordinated engine's *)
(* closed.  stranded records that a close threw and left the registration.  *)
NewDocument(kind) ==
    [kind |-> kind, activation |-> "no", handlers |-> 0, listening |-> 0, on |-> 0,
     subscribed |-> FALSE, validator |-> FALSE, closing |-> {}, state |-> FALSE, ready |-> FALSE,
     created |-> FALSE, opened |-> FALSE, engineClosed |-> FALSE, stranded |-> FALSE]

-----------------------------------------------------------------------------
(* The node                                                                 *)

CanInitialize == initializing = "no" /\ registry = None /\ reserved = None

initialize ==
    /\ CanInitialize /\ nodes < MaxNodes
    /\ initializing' = IF node = 0 THEN "starting" ELSE "stopping"
    /\ reserved' = None
    /\ UNCHANGED <<node, nodes, registry, pubsub, doc>>

NodeStopped ==
    /\ initializing = "stopping"
    /\ node' = 0
    /\ initializing' = "starting"
    /\ UNCHANGED <<nodes, registry, reserved, pubsub, doc>>

createAndStartHeliaNode ==
    /\ initializing = "starting"
    /\ nodes' = nodes + 1 /\ node' = nodes + 1
    /\ initializing' = "registering"
    /\ UNCHANGED <<registry, reserved, pubsub, doc>>

(* The configuration is refused, or the new node does not start.            *)
StartFails ==
    /\ initializing = "starting"
    /\ initializing' = "no"
    /\ UNCHANGED <<node, nodes, registry, reserved, pubsub, doc>>

(* The handlers are registered, or a protocol refuses one.                  *)
_registerSharedProtocolHandlers ==
    /\ initializing = "registering"
    /\ initializing' = "no"
    /\ UNCHANGED <<node, nodes, registry, reserved, pubsub, doc>>

-----------------------------------------------------------------------------
(* Registration and subscription                                            *)

CanRegister(i) == registry = None /\ reserved \in {None, i}

(* The close of a failed activation, which ends a coordinated engine.       *)
OpenFails(d) == [d EXCEPT !.activation = "failing", !.closing = @ \cup {"failed"}, !.opened = FALSE,
                          !.engineClosed = @ \/ d.kind = "coordinated"]

Listens(d) == [d EXCEPT !.handlers = @ + 1, !.listening = d.handlers + 1]

(* The synchronous end of _open once the state is there: a new handler, and *)
(* then the registration, the subscription and the validator, or the close  *)
(* of whatever part of it was done.  Without a node nothing is closed.      *)
Register(i, d, after) ==
    LET made == Listens(d)
    IN  /\ d.handlers < MaxHandlers
        /\ \/ /\ node = 0
              /\ doc' = [doc EXCEPT ![i] = [made EXCEPT !.activation = "no"]]
              /\ UNCHANGED <<registry, pubsub>>
           \/ /\ node # 0 /\ ~CanRegister(i)
              /\ doc' = [doc EXCEPT ![i] = OpenFails(made)]
              /\ UNCHANGED <<registry, pubsub>>
           \/ /\ node # 0 /\ CanRegister(i)
              /\ registry' = i
              /\ pubsub' = [pubsub EXCEPT ![node].listeners = @ \cup {<<i, made.listening>>}]
              /\ doc' = [doc EXCEPT ![i] = OpenFails(made)]
           \/ /\ node # 0 /\ CanRegister(i)
              /\ registry' = i
              /\ pubsub' = [pubsub EXCEPT ![node] =
                     [listeners |-> @.listeners \cup {<<i, made.listening>>}, topic |-> TRUE, validator |-> i]]
              /\ doc' = [doc EXCEPT ![i] = [made EXCEPT !.activation = after, !.on = node, !.subscribed = TRUE,
                                                        !.validator = TRUE, !.opened = (after = "no" /\ d.closing = {})]]
        /\ UNCHANGED <<nodeVars, reserved>>

Activates(i, what) ==
    /\ doc' = [doc EXCEPT ![i].activation = what]
    /\ UNCHANGED <<nodeVars, registry, reserved, pubsub>>

(* An instance is constructed on a node; the application knows it unless an *)
(* invitation is still being accepted with it.                              *)
MayActivate(i, kind) == nodes > 0 /\ doc[i].kind = kind /\ doc[i].activation = "no" /\ reserved # i

(* open(): restored state activates at once, anything else is loaded.       *)
open(i) ==
    /\ MayActivate(i, "legacy")
    /\ IF doc[i].ready
       THEN Register(i, [doc[i] EXCEPT !.ready = FALSE, !.state = TRUE], "no")
       ELSE Activates(i, "loading")

(* load() answers or rejects; without state there is nothing to open.       *)
LoadEnds(i, found) ==
    /\ doc[i].activation = "loading"
    /\ \/ (found \/ doc[i].state) /\ Register(i, [doc[i] EXCEPT !.state = TRUE], "no")
       \/ ~found /\ Activates(i, "no")

create(i) ==
    /\ MayActivate(i, "legacy") /\ ~doc[i].subscribed /\ ~doc[i].state /\ ~doc[i].created
    /\ Activates(i, "validating")

ValidationEnds(i, allowed) ==
    /\ doc[i].activation = "validating"
    /\ IF allowed THEN Register(i, doc[i], "founding") ELSE Activates(i, "no")

FounderPublished(i, published) ==
    /\ doc[i].activation = "founding"
    /\ doc' = [doc EXCEPT ![i] =
           IF published THEN [@ EXCEPT !.activation = "no", !.created = TRUE, !.state = TRUE,
                                       !.opened = doc[i].subscribed /\ doc[i].closing = {}]
           ELSE [OpenFails(@) EXCEPT !.created = TRUE]]
    /\ UNCHANGED <<nodeVars, registry, reserved, pubsub>>

(* A checkpoint is restored into an instance nothing has happened to.       *)
restoreCheckpoint(i) ==
    /\ MayActivate(i, "legacy") /\ ~doc[i].subscribed /\ ~doc[i].state /\ ~doc[i].ready /\ ~doc[i].created
    /\ doc' = [doc EXCEPT ![i].ready = TRUE, ![i].state = TRUE]
    /\ UNCHANGED <<nodeVars, registry, reserved, pubsub>>

-----------------------------------------------------------------------------
(* A coordinated document registers first, and subscribes the pubsub of the *)
(* node it registered on once its engine has activated.                     *)

_openCoordinated(i) ==
    /\ MayActivate(i, "coordinated") /\ ~doc[i].subscribed
    /\ Activates(i, "authorizing")

(* A document that could not register closes its engine and nothing else;   *)
(* an engine that was closed refuses to activate.                           *)
AuthorizationEnds(i, allowed) ==
    /\ doc[i].activation = "authorizing"
    /\ \/ /\ ~allowed \/ node = 0
          /\ doc' = [doc EXCEPT ![i].activation = "no"]
          /\ UNCHANGED registry
       \/ /\ allowed /\ node # 0 /\ ~CanRegister(i)
          /\ doc' = [doc EXCEPT ![i].activation = "no", ![i].engineClosed = TRUE]
          /\ UNCHANGED registry
       \/ /\ allowed /\ node # 0 /\ CanRegister(i)
          /\ registry' = i
          /\ doc' = [doc EXCEPT ![i] = IF @.engineClosed THEN OpenFails(@)
                                       ELSE [@ EXCEPT !.activation = "activating", !.on = node]]
    /\ UNCHANGED <<nodeVars, reserved, pubsub>>

EngineActivates(i, ok) ==
    LET d == doc[i]
        made == Listens(d)
        heard == pubsub[d.on].listeners \cup {<<i, made.listening>>}
    IN  /\ d.activation = "activating"
        /\ \/ /\ ~ok
              /\ doc' = [doc EXCEPT ![i] = OpenFails(d)]
              /\ UNCHANGED pubsub
           \/ /\ ok /\ d.handlers < MaxHandlers
              /\ pubsub' = [pubsub EXCEPT ![d.on].listeners = heard]
              /\ doc' = [doc EXCEPT ![i] = OpenFails(made)]
           \/ /\ ok /\ d.handlers < MaxHandlers /\ d.on = node
              /\ pubsub' = [pubsub EXCEPT ![d.on].listeners = heard, ![d.on].topic = TRUE]
              /\ doc' = [doc EXCEPT ![i] = [made EXCEPT !.activation = "no", !.subscribed = TRUE,
                                                        !.opened = (d.closing = {})]]
        /\ UNCHANGED <<nodeVars, registry, reserved>>

-----------------------------------------------------------------------------
(* Invitations reserve the path                                             *)

acceptInvitation(i) ==
    /\ initializing = "no" /\ node # 0 /\ registry = None /\ reserved = None
    /\ doc[i] = NewDocument("legacy")
    /\ reserved' = i
    /\ doc' = [doc EXCEPT ![i].activation = "accepting"]
    /\ UNCHANGED <<nodeVars, registry, pubsub>>

(* The bootstrap is applied and _open runs to its end.                      *)
BootstrapApplied(i) ==
    /\ doc[i].activation = "accepting"
    /\ Register(i, [doc[i] EXCEPT !.state = TRUE], "catching")

AcceptanceEnds(i, ok) ==
    /\ IF ok THEN doc[i].activation = "catching" ELSE doc[i].activation \in {"accepting", "catching"}
    /\ reserved' = IF ok /\ reserved = i THEN None ELSE reserved
    /\ doc' = [doc EXCEPT ![i] =
           IF ok THEN [@ EXCEPT !.activation = "no", !.opened = doc[i].subscribed /\ doc[i].closing = {}] ELSE OpenFails(@)]
    /\ UNCHANGED <<nodeVars, registry, pubsub>>

-----------------------------------------------------------------------------
(* close()                                                                  *)

close(i) ==
    /\ nodes > 0 /\ "called" \notin doc[i].closing /\ reserved # i
    /\ doc' = [doc EXCEPT ![i].closing = @ \cup {"called"}, ![i].opened = FALSE,
                          ![i].engineClosed = @ \/ doc[i].kind = "coordinated"]
    /\ UNCHANGED <<nodeVars, registry, reserved, pubsub>>

(* A coordinated document's close waits for the activation under way.       *)
MayEnd(i, caller) == caller \in doc[i].closing /\ doc[i].activation # "activating"

AfterClose(d, caller) ==
    [d EXCEPT !.closing = @ \ {caller}, !.activation = IF caller = "failed" THEN "no" ELSE @]

ReservedAfter(i, caller) == IF caller = "failed" /\ reserved = i THEN None ELSE reserved

(* Closed before the synchronous part: only what this instance did.         *)
UnregistersAny(i) == None
unregisterDocument(i) == IF registry = i THEN None ELSE registry

TopicAfterClose(i) == IF doc[i].subscribed THEN FALSE ELSE pubsub[node].topic

CloseEnds(i, caller) ==
    LET d == doc[i]
    IN  /\ MayEnd(i, caller) /\ (d.listening = 0 \/ node # 0)
        /\ doc' = [doc EXCEPT ![i] = [AfterClose(d, caller) EXCEPT !.subscribed = FALSE, !.validator = FALSE,
                                                               !.stranded = FALSE]]
        /\ registry' = unregisterDocument(i)
        /\ pubsub' = IF d.listening = 0 THEN pubsub
                     ELSE [pubsub EXCEPT ![node] =
                         [listeners |-> @.listeners \ {<<i, d.listening>>},
                          topic |-> TopicAfterClose(i),
                          validator |-> IF d.validator /\ @.validator = i THEN None ELSE @.validator]]
        /\ reserved' = ReservedAfter(i, caller)
        /\ UNCHANGED nodeVars

(* There is no node, its pubsub is stopped, or the engine does not close:   *)
(* the subscription and the registration stay as they are.                  *)
CloseThrows(i, caller) ==
    LET d == doc[i]
    IN  /\ MayEnd(i, caller)
        /\ \/ d.kind = "coordinated"
           \/ d.listening # 0 /\ node = 0
           \/ d.subscribed /\ initializing = "stopping"
        /\ doc' = [doc EXCEPT ![i] = [AfterClose(d, caller) EXCEPT !.stranded = registry = i /\ ~d.subscribed]]
        /\ reserved' = ReservedAfter(i, caller)
        /\ UNCHANGED <<nodeVars, registry, pubsub>>

-----------------------------------------------------------------------------
SessionInit ==
    /\ node = 0 /\ nodes = 0 /\ initializing = "no"
    /\ registry = None /\ reserved = None
    /\ pubsub = [n \in 1 .. MaxNodes |-> NoPubsub]
    /\ doc \in [Instances -> {NewDocument("legacy"), NewDocument("coordinated")}]

SessionNext ==
    \/ initialize
    \/ NodeStopped
    \/ createAndStartHeliaNode
    \/ StartFails
    \/ _registerSharedProtocolHandlers
    \/ \E i \in Instances : open(i)
    \/ \E i \in Instances, found \in BOOLEAN : LoadEnds(i, found)
    \/ \E i \in Instances : create(i)
    \/ \E i \in Instances, allowed \in BOOLEAN : ValidationEnds(i, allowed)
    \/ \E i \in Instances, published \in BOOLEAN : FounderPublished(i, published)
    \/ \E i \in Instances : restoreCheckpoint(i)
    \/ \E i \in Instances : _openCoordinated(i)
    \/ \E i \in Instances, allowed \in BOOLEAN : AuthorizationEnds(i, allowed)
    \/ \E i \in Instances, ok \in BOOLEAN : EngineActivates(i, ok)
    \/ \E i \in Instances : acceptInvitation(i)
    \/ \E i \in Instances : BootstrapApplied(i)
    \/ \E i \in Instances, ok \in BOOLEAN : AcceptanceEnds(i, ok)
    \/ \E i \in Instances : close(i)
    \/ \E i \in Instances, caller \in {"failed", "called"} : CloseEnds(i, caller)
    \/ \E i \in Instances, caller \in {"failed", "called"} : CloseThrows(i, caller)

SessionSpec == SessionInit /\ [][SessionNext]_sessionVars

-----------------------------------------------------------------------------
Quiet(i) == doc[i].closing = {} /\ doc[i].activation # "activating"

(* An instance that is subscribed is the one the shared handlers route to,  *)
(* and the other way round: neither a failed open nor a close that another  *)
(* instance overtook leaves half of it behind.  Only a close() that threw   *)
(* may leave a registration nobody listens for.                             *)
RegistryExact ==
    \A i \in Instances :
        /\ doc[i].subscribed => registry = i
        /\ registry = i /\ Quiet(i) /\ ~doc[i].stranded => doc[i].subscribed

(* Whatever another instance for the path does, opening, failing, being     *)
(* closed late, the registered one keeps its route, its subscription and    *)
(* its validator.                                                           *)
OthersUndisturbed ==
    [][\A i \in Instances :
         registry = i /\ doc[i].subscribed /\ doc'[i] = doc[i] =>
             /\ registry' = i
             /\ pubsub'[doc[i].on].topic = pubsub[doc[i].on].topic
             /\ pubsub'[doc[i].on].validator = pubsub[doc[i].on].validator]_sessionVars

(* From the moment an invitation is accepted nobody else opens its path.    *)
ReservedPath == reserved # None => registry \in {None, reserved}

(* A document that was opened and not closed hears its topic on the node it *)
(* was opened on.                                                           *)
OpenListens ==
    \A i \in Instances :
        doc[i].opened => /\ \E h \in 1 .. MaxHandlers : <<i, h>> \in pubsub[doc[i].on].listeners
                         /\ pubsub[doc[i].on].topic

-----------------------------------------------------------------------------
(* Transactions: a legacy document's endChange waits for the mutation       *)
(* queue, a coordinated one's takes the batch at once.  Change functions    *)
(* are numbered in the order the application adds them.                     *)

VARIABLES
    coordinated,    \* the kind of document
    inTransaction, pendingFns, committing,
    ending,         \* endChange calls waiting for the mutation queue
    batch,          \* the functions of the commit in flight
    added,          \* functions the application has added
    applied,        \* functions committed, in order
    aborted         \* functions of failed transactions

transactionVars == <<coordinated, inTransaction, pendingFns, committing, ending, batch, added, applied, aborted>>

startChange ==
    /\ ~inTransaction
    /\ inTransaction' = TRUE /\ pendingFns' = <<>>
    /\ UNCHANGED <<coordinated, committing, ending, batch, added, applied, aborted>>

MayAdd == inTransaction /\ ~committing

addChange ==
    /\ MayAdd /\ added < MaxFns
    /\ added' = added + 1
    /\ pendingFns' = Append(pendingFns, added + 1)
    /\ UNCHANGED <<coordinated, inTransaction, committing, ending, batch, applied, aborted>>

endChange ==
    \/ /\ coordinated /\ inTransaction /\ ~committing
       /\ inTransaction' = FALSE /\ pendingFns' = <<>>
       /\ committing' = (pendingFns # <<>>)
       /\ batch' = pendingFns
       /\ UNCHANGED <<coordinated, ending, added, applied, aborted>>
    \/ /\ ~coordinated /\ ending < MaxCommits
       /\ ending' = ending + 1
       /\ UNCHANGED <<coordinated, inTransaction, pendingFns, committing, batch, added, applied, aborted>>

(* The mutation queue reaches an endChange of a legacy document.            *)
_endChangeUnlocked ==
    /\ ending > 0 /\ ~committing
    /\ ending' = ending - 1
    /\ IF inTransaction /\ pendingFns # <<>>
       THEN batch' = pendingFns /\ committing' = TRUE /\ UNCHANGED inTransaction
       ELSE inTransaction' = FALSE /\ UNCHANGED <<batch, committing>>
    /\ UNCHANGED <<coordinated, pendingFns, added, applied, aborted>>

CommitEnds(succeeds) ==
    /\ committing
    /\ committing' = FALSE /\ batch' = <<>>
    /\ IF succeeds THEN applied' = applied \o batch /\ UNCHANGED aborted
       ELSE aborted' = aborted \o batch /\ UNCHANGED applied
    /\ IF coordinated THEN UNCHANGED <<inTransaction, pendingFns>>
       ELSE inTransaction' = FALSE /\ pendingFns' = <<>>
    /\ UNCHANGED <<coordinated, ending, added>>

TransactionInit ==
    /\ coordinated \in BOOLEAN
    /\ inTransaction = FALSE /\ pendingFns = <<>> /\ committing = FALSE /\ ending = 0
    /\ batch = <<>> /\ added = 0 /\ applied = <<>> /\ aborted = <<>>

TransactionNext ==
    \/ startChange
    \/ addChange
    \/ endChange
    \/ _endChangeUnlocked
    \/ \E succeeds \in BOOLEAN : CommitEnds(succeeds)

TransactionSpec == TransactionInit /\ [][TransactionNext]_transactionVars

-----------------------------------------------------------------------------
Occurrences(f, s) == {i \in 1 .. Len(s) : s[i] = f}

(* A change function the application added is committed once, in order, or  *)
(* aborted with its whole transaction, or still waits: one added while an   *)
(* earlier endChange awaits its turn is part of that batch or of none.      *)
NoChangeForgotten ==
    /\ \A f \in 1 .. added :
           \/ f \in {applied[i] : i \in 1 .. Len(applied)} \cup {aborted[i] : i \in 1 .. Len(aborted)}
           \/ Occurrences(f, pendingFns) \cup Occurrences(f, batch) # {}
    /\ \A i, j \in 1 .. Len(applied) : i < j => applied[i] < applied[j]

(* Of several instances for one path one is open at a time, registered,       *)
(* routed to and subscribed, undisturbed by the others, by failing opens and  *)
(* by late closes, and no change function of its transactions is forgotten.   *)
SessionsExclusive ==
    /\ [](RegistryExact /\ ReservedPath /\ OpenListens /\ NoChangeForgotten)
    /\ OthersUndisturbed
===============================================================================
