------------------------- MODULE UpdateNotifications -------------------------
(***************************************************************************)
(* What the observers of a document are told of remote changes:             *)
(* core/src/peerborne-document.ts.  Changes are applied while holding the   *)
(* document's mutation queue.  A notification first reads both ACLs; when   *)
(* one of them is busy with an operation of its own the notification waits  *)
(* in a queue behind which every later one lines up.  While a first load is *)
(* pending, hashes are only collected.                                      *)
(*                                                                          *)
(* Changes are numbered in the order they are applied.                      *)
(***************************************************************************)
EXTENDS Integers, Sequences

CONSTANTS
    Handlers,       \* identifiers handlers subscribe under
    MaxChanges,     \* bound: changes applied
    MaxACL          \* bound: ACL operations outside the mutation queue

ASSUME NotificationAssumption == MaxChanges \in Nat /\ MaxACL \in Nat

VARIABLES
    version,        \* changes in the document
    since,          \* _remoteHandlers: the version each subscribed at, -1 when it is not
    load,           \* _bootstrapLoadApplicationState
    deferred,       \* _pendingBootstrapRemoteUpdateHashes
    slot,           \* what holds _mutationQueue
    waiting,        \* _remoteUpdateNotificationTail: the notifications in it
    aclWork,            \* the ACL operations begun and settled
    told,           \* the deliveries to each handler
    failed          \* changes whose notification could not be prepared

notificationVars == <<version, since, load, deferred, slot, waiting, aclWork, told, failed>>

Free == [holder |-> "free", change |-> 0, to |-> {}]
Holds(who, change, to) == [holder |-> who, change |-> change, to |-> to]

_remoteHandlers == {h \in Handlers : since[h] >= 0}
IncompleteLoad == load \in {"pending", "poisoned"}
Busy == aclWork.begun > aclWork.settled

(* Handlers run at once, with the document as it is now.                    *)
_dispatchRemoteUpdateHandlers(to, changes, state) ==
    told' = [h \in Handlers |->
        IF h \in to THEN Append(told[h], [changes |-> changes, version |-> version, load |-> state]) ELSE told[h]]

-----------------------------------------------------------------------------
subscribe(h) ==
    /\ since[h] < 0 /\ ~IncompleteLoad
    /\ since' = [since EXCEPT ![h] = version]
    /\ UNCHANGED <<version, load, deferred, slot, waiting, aclWork, told, failed>>

unsubscribe(h) ==
    /\ since[h] >= 0
    /\ since' = [since EXCEPT ![h] = -1]
    /\ UNCHANGED <<version, load, deferred, slot, waiting, aclWork, told, failed>>

ACLBegins ==
    /\ ~Busy /\ aclWork.begun < MaxACL
    /\ aclWork' = [aclWork EXCEPT !.begun = @ + 1]
    /\ UNCHANGED <<version, since, load, deferred, slot, waiting, told, failed>>

ACLSettles ==
    /\ Busy
    /\ aclWork' = [aclWork EXCEPT !.settled = @ + 1]
    /\ UNCHANGED <<version, since, load, deferred, slot, waiting, told, failed>>

-----------------------------------------------------------------------------
(* Firing, at the end of a step that applied changes.                       *)

_enqueueRemoteUpdateNotification(change, to, conflict) ==
    waiting' = Append(waiting, [change |-> change, to |-> to, conflict |-> conflict])

FiresAtOnce(change) == slot' = Holds("preparing", change, _remoteHandlers) /\ UNCHANGED waiting
_fireRemoteUpdateHandlers(change) ==
    \/ /\ _remoteHandlers = {}
       /\ slot' = Free
       /\ UNCHANGED waiting
    \/ /\ _remoteHandlers # {} /\ waiting # <<>>
       /\ slot' = Free
       /\ _enqueueRemoteUpdateNotification(change, _remoteHandlers, 0)
    \/ /\ _remoteHandlers # {} /\ waiting = <<>>
       /\ slot' = Holds("preparing", change, _remoteHandlers)
       /\ UNCHANGED waiting

_fireOrDeferRemoteUpdateHandlers(change, state) ==
    \/ state = "poisoned" /\ deferred' = {} /\ UNCHANGED <<slot, waiting>>
    \/ state = "pending" /\ deferred' = deferred \cup {change} /\ UNCHANGED <<slot, waiting>>
    \/ state \notin {"poisoned", "pending"} /\ _fireRemoteUpdateHandlers(change) /\ UNCHANGED deferred

(* A synced change; applying it may leave the ACLs in an unknown state.     *)
SyncApplies(poisons) ==
    /\ slot = Free /\ ~IncompleteLoad /\ version < MaxChanges
    /\ version' = version + 1
    /\ load' = IF poisons THEN "poisoned" ELSE load
    /\ _fireOrDeferRemoteUpdateHandlers(version + 1, load')
    /\ UNCHANGED <<since, aclWork, told, failed>>

(* The ACLs are read: both idle, or one busy, or failing.                   *)
_prepareRemoteUpdateNotification ==
    /\ slot.holder = "preparing"
    /\ slot' = Free
    /\ \/ /\ Busy
          /\ _enqueueRemoteUpdateNotification(slot.change, slot.to, aclWork.begun)
          /\ UNCHANGED <<told, failed>>
       \/ /\ ~Busy
          /\ _dispatchRemoteUpdateHandlers(slot.to, {slot.change}, load)
          /\ UNCHANGED <<waiting, failed>>
       \/ /\ ~Busy
          /\ failed' = failed \cup {slot.change}
          /\ UNCHANGED <<waiting, told>>
    /\ UNCHANGED <<version, since, load, deferred, aclWork>>

-----------------------------------------------------------------------------
(* The queue of notifications that met a conflict                           *)

waitForSettlement(conflict) == aclWork.settled >= conflict

TaskRuns ==
    /\ slot = Free /\ waiting # <<>>
    /\ waitForSettlement(Head(waiting).conflict)
    /\ slot' = Holds("task", Head(waiting).change, Head(waiting).to)
    /\ UNCHANGED <<version, since, load, deferred, waiting, aclWork, told, failed>>

_appendRemoteUpdateNotificationTask == Tail(waiting)

(* A failing task, also one that finds the load incomplete, is dropped; the *)
(* next one runs all the same.                                              *)
TaskEnds ==
    /\ slot.holder = "task"
    /\ slot' = Free
    /\ \/ /\ Busy /\ ~IncompleteLoad
          /\ waiting' = [waiting EXCEPT ![1].conflict = aclWork.begun]
          /\ UNCHANGED <<told, failed>>
       \/ /\ ~Busy /\ ~IncompleteLoad
          /\ _dispatchRemoteUpdateHandlers(slot.to, {slot.change}, load)
          /\ waiting' = Tail(waiting)
          /\ UNCHANGED failed
       \/ /\ ~Busy /\ ~IncompleteLoad
          /\ waiting' = _appendRemoteUpdateNotificationTask
          /\ failed' = failed \cup {slot.change}
          /\ UNCHANGED told
       \/ /\ IncompleteLoad
          /\ waiting' = Tail(waiting)
          /\ UNCHANGED <<told, failed>>
    /\ UNCHANGED <<version, since, load, deferred, aclWork>>

-----------------------------------------------------------------------------
(* Loads that apply a first, or an issuer's, state                          *)

MayBeginLoad == slot = Free /\ ~IncompleteLoad /\ waiting = <<>>

LoadBegins ==
    /\ MayBeginLoad /\ version < MaxChanges
    /\ load' = "pending"
    /\ slot' = Holds("loading", 0, {})
    /\ UNCHANGED <<version, since, deferred, waiting, aclWork, told, failed>>

LoadApplies(poisons) ==
    /\ slot.holder = "loading" /\ version < MaxChanges
    /\ version' = version + 1
    /\ load' = IF poisons THEN "poisoned" ELSE load
    /\ _fireOrDeferRemoteUpdateHandlers(version + 1, load')
    /\ UNCHANGED <<since, aclWork, told, failed>>

(* The message is applied and the slot released; finalization takes it      *)
(* again, unless the load failed: the document then stays closed.           *)
LoadApplied ==
    /\ slot.holder = "loading"
    /\ slot' = Free
    /\ UNCHANGED <<version, since, load, deferred, waiting, aclWork, told, failed>>

DeferredUpdates == deferred
_completeBootstrapStateApplicationUnlocked ==
    /\ slot = Free /\ load = "pending" /\ ~Busy
    /\ load' = "complete"
    /\ deferred' = {}
    /\ IF deferred = {} THEN UNCHANGED told
       ELSE _dispatchRemoteUpdateHandlers(_remoteHandlers, DeferredUpdates, "complete")
    /\ UNCHANGED <<version, since, slot, waiting, aclWork, failed>>

-----------------------------------------------------------------------------
NotificationInit ==
    /\ version = 0 /\ since = [h \in Handlers |-> -1] /\ load = "pristine" /\ deferred = {}
    /\ slot = Free /\ waiting = <<>> /\ aclWork = [begun |-> 0, settled |-> 0]
    /\ told = [h \in Handlers |-> <<>>] /\ failed = {}

NotificationNext ==
    \/ \E h \in Handlers : subscribe(h)
    \/ \E h \in Handlers : unsubscribe(h)
    \/ ACLBegins
    \/ ACLSettles
    \/ \E poisons \in BOOLEAN : SyncApplies(poisons)
    \/ _prepareRemoteUpdateNotification
    \/ TaskRuns
    \/ TaskEnds
    \/ LoadBegins
    \/ \E poisons \in BOOLEAN : LoadApplies(poisons)
    \/ LoadApplied
    \/ _completeBootstrapStateApplicationUnlocked

NotificationFairness ==
    /\ WF_notificationVars(ACLSettles)
    /\ WF_notificationVars(_prepareRemoteUpdateNotification)
    /\ WF_notificationVars(TaskRuns)
    /\ WF_notificationVars(TaskEnds)
    /\ WF_notificationVars(LoadApplied)

NotificationSpec == NotificationInit /\ [][NotificationNext]_notificationVars /\ NotificationFairness

-----------------------------------------------------------------------------
ToldChanges(h) == UNION {told[h][i].changes : i \in 1 .. Len(told[h])}

(* An observer hears of changes in the order they were applied, each once:  *)
(* neither a busy ACL nor a load lets a later change overtake an earlier    *)
(* notification.                                                            *)
ToldInOrder ==
    \A h \in Handlers : \A i, j \in 1 .. Len(told[h]) :
        i < j => \A a \in told[h][i].changes, b \in told[h][j].changes : a < b

(* A change applied since a handler subscribed was told to it, or still     *)
(* waits to be, unless its notification failed or the document is poisoned. *)
NoneDropped ==
    \A h \in _remoteHandlers : \A k \in since[h] + 1 .. version :
        \/ k \in ToldChanges(h) \cup deferred \cup failed
        \/ slot.change = k /\ h \in slot.to
        \/ \E i \in 1 .. Len(waiting) : waiting[i].change = k /\ h \in waiting[i].to
        \/ load = "poisoned"

(* Nobody is shown a document that a load has only partly applied.          *)
ToldOfWhole ==
    \A h \in Handlers : \A i \in 1 .. Len(told[h]) : told[h][i].load \notin {"pending", "poisoned"}

(* The queue of notifications drains once the ACLs settle; one that fails   *)
(* does not hold up the rest.                                               *)
QueueDrains == waiting # <<>> ~> waiting = <<>>
===============================================================================
