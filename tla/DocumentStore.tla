---------------------------- MODULE DocumentStore ----------------------------
(***************************************************************************)
(* createDocumentStore of packages/store/src/index.ts: one store per        *)
(* document, shared by the consumers that render it.                        *)
(*                                                                          *)
(* Calls of start, stop and change are appended to the promise tail and run *)
(* one after the other; each await of the running one is a point where the  *)
(* document changes, a notification arrives or another call is made.        *)
(* Documents, readers and writers are the number of the update they belong  *)
(* to, errors are a flag.                                                   *)
(***************************************************************************)
EXTENDS Integers, Sequences

CONSTANTS
    MaxConsumers,   \* bound: consumers connected at once
    MaxStoreCalls,  \* bound: calls made of the store
    MaxUpdates      \* bound: updates of the document

ASSUME StoreAssumption == MaxConsumers \in Nat /\ MaxStoreCalls \in Nat /\ MaxUpdates \in Nat

VARIABLES
    manageLifecycle,    \* the option
    storeSnapshot,           \* what getSnapshot returns
    opened, connected,  \* the store's own
    latest,             \* readers and writers of the last notification since start, or Unread
    tail,               \* calls not finished, the first one running
    step,               \* what the first one awaits, "no" before it begins
    read,               \* what getReaders and getWriters returned to it
    microtasks,         \* releases whose microtask has not run
    storeCalls,         \* calls made
    byHand,             \* which of start and stop the application called itself
    handle              \* the document

storeVars == <<manageLifecycle, storeSnapshot, opened, connected, latest, tail, step, read, microtasks,
               storeCalls, byHand, handle>>

Unread == -1
Initial == [status |-> "idle", data |-> 0, readers |-> 0, writers |-> 0, error |-> FALSE]
NothingRead == [readers |-> Unread, writers |-> Unread]

(* The handle: told counts the updates whose notification was delivered.    *)
(* stuck: a close of it failed.                                             *)
NewHandle(managed) == [open |-> ~managed, subscribed |-> FALSE, version |-> 0, told |-> 0, stuck |-> FALSE]

-----------------------------------------------------------------------------
enqueue(calls) == tail' = tail \o calls

Calls(calls, hand) ==
    /\ storeCalls < MaxStoreCalls
    /\ storeCalls' = storeCalls + 1
    /\ byHand' = byHand \cup hand
    /\ enqueue(calls)
    /\ UNCHANGED <<manageLifecycle, storeSnapshot, opened, latest, step, read, handle>>

start == Calls(<<"start">>, {"start"}) /\ UNCHANGED <<connected, microtasks>>
stop == Calls(<<"stop">>, {"stop"}) /\ UNCHANGED <<connected, microtasks>>
change == Calls(<<"start", "change">>, {"start"}) /\ UNCHANGED <<connected, microtasks>>

connect ==
    /\ connected < MaxConsumers
    /\ connected' = connected + 1
    /\ Calls(IF connected = 0 THEN <<"start">> ELSE <<>>, {})
    /\ UNCHANGED microtasks

release ==
    /\ connected > 0
    /\ connected' = connected - 1
    /\ microtasks' = microtasks + 1
    /\ UNCHANGED <<manageLifecycle, storeSnapshot, opened, latest, tail, step, read, storeCalls, byHand, handle>>

LastReleased == connected = 0

Microtask ==
    /\ microtasks > 0
    /\ microtasks' = microtasks - 1
    /\ enqueue(IF LastReleased THEN <<"stop">> ELSE <<>>)
    /\ UNCHANGED <<manageLifecycle, storeSnapshot, opened, connected, latest, step, read, storeCalls, byHand, handle>>

-----------------------------------------------------------------------------
(* The running call                                                         *)

Running(call, at) == tail # <<>> /\ Head(tail) = call /\ step = at
Finish == tail' = Tail(tail) /\ step' = "no"
Await(at) == step' = at /\ UNCHANGED tail
publish(next) == storeSnapshot' = next

RunUnchanged == UNCHANGED <<manageLifecycle, connected, microtasks, storeCalls, byHand>>

StartBegins ==
    /\ Running("start", "no")
    /\ IF opened
       THEN Finish /\ UNCHANGED <<storeSnapshot, latest, read, handle>>
       ELSE /\ publish([Initial EXCEPT !.status = "opening"])
            /\ latest' = Unread
            /\ read' = NothingRead
            /\ handle' = [handle EXCEPT !.subscribed = TRUE]
            /\ Await(IF manageLifecycle THEN "opening" ELSE "reading")
    /\ UNCHANGED opened /\ RunUnchanged

DocumentOpened ==
    /\ Running("start", "opening")
    /\ handle' = [handle EXCEPT !.open = TRUE]
    /\ Await("reading")
    /\ UNCHANGED <<storeSnapshot, opened, latest, read>> /\ RunUnchanged

ListRead(list) ==
    /\ Running("start", "reading")
    /\ read[list] = Unread
    /\ read' = [read EXCEPT ![list] = handle.version]
    /\ UNCHANGED <<storeSnapshot, opened, latest, tail, step, handle>> /\ RunUnchanged

IgnoresLatest(list) == read[list]
Current(list) == IF latest = Unread THEN read[list] ELSE latest

StartEnds ==
    /\ Running("start", "reading")
    /\ \A list \in DOMAIN read : read[list] # Unread
    /\ opened' = TRUE
    /\ publish([status |-> "ready", data |-> handle.version, readers |-> Current("readers"),
                writers |-> Current("writers"), error |-> FALSE])
    /\ Finish
    /\ UNCHANGED <<latest, read, handle>> /\ RunUnchanged

(* open, getReaders or getWriters failed: the subscription goes and, if it  *)
(* is the store's to do, the document is closed; then the error is shown.   *)
Abandoned == /\ publish([Initial EXCEPT !.status = "error", !.error = TRUE]) /\ Finish

StoreStartFails ==
    /\ Running("start", "opening") \/ Running("start", "reading")
    /\ opened' = FALSE
    /\ handle' = [handle EXCEPT !.subscribed = FALSE]
    /\ IF manageLifecycle THEN Await("abandoning") /\ UNCHANGED storeSnapshot ELSE Abandoned
    /\ UNCHANGED <<latest, read>> /\ RunUnchanged

CloseAbandoned(ok) ==
    /\ Running("start", "abandoning")
    /\ handle' = [handle EXCEPT !.open = @ /\ ~ok, !.stuck = @ \/ ~ok]
    /\ Abandoned
    /\ UNCHANGED <<opened, latest, read>> /\ RunUnchanged

Unsubscribed(h) == [h EXCEPT !.subscribed = FALSE]

StopBegins ==
    /\ Running("stop", "no")
    /\ opened' = FALSE
    /\ handle' = Unsubscribed(handle)
    /\ IF opened /\ manageLifecycle
       THEN Await("closing") /\ UNCHANGED storeSnapshot
       ELSE publish([Initial EXCEPT !.status = "closed"]) /\ Finish
    /\ UNCHANGED <<latest, read>> /\ RunUnchanged

StopEnds(ok) ==
    /\ Running("stop", "closing")
    /\ handle' = [handle EXCEPT !.open = ~ok, !.stuck = @ \/ ~ok]
    /\ publish([Initial EXCEPT !.status = IF ok THEN "closed" ELSE "error", !.error = ~ok])
    /\ Finish
    /\ UNCHANGED <<opened, latest, read>> /\ RunUnchanged

(* The start a change is queued behind has failed, or the change begins.    *)
ChangeBegins ==
    /\ Running("change", "no")
    /\ IF opened THEN Await("changing") ELSE Finish
    /\ UNCHANGED <<storeSnapshot, opened, latest, read, handle>> /\ RunUnchanged

ChangeEnds(ok) ==
    /\ Running("change", "changing")
    /\ ok => handle.version < MaxUpdates
    /\ handle' = IF ok THEN [handle EXCEPT !.version = @ + 1] ELSE handle
    /\ publish([storeSnapshot EXCEPT !.error = ~ok])
    /\ Finish
    /\ UNCHANGED <<opened, latest, read>> /\ RunUnchanged

-----------------------------------------------------------------------------
(* The document                                                             *)

RemoteUpdate ==
    /\ handle.open /\ handle.version < MaxUpdates
    /\ handle' = [handle EXCEPT !.version = @ + 1]
    /\ UNCHANGED <<storeSnapshot, opened, latest, tail, step, read>> /\ RunUnchanged

(* The handler given to document.subscribe; updates nobody is subscribed to *)
(* pass by.                                                                 *)
Notify ==
    LET update == handle.told + 1
    IN  /\ handle.told < handle.version
        /\ handle' = [handle EXCEPT !.told = update]
        /\ latest' = IF handle.subscribed THEN update ELSE latest
        /\ IF handle.subscribed /\ opened
           THEN publish([status |-> "ready", data |-> update, readers |-> update, writers |-> update,
                         error |-> FALSE])
           ELSE UNCHANGED storeSnapshot
        /\ UNCHANGED <<opened, tail, step, read>> /\ RunUnchanged

-----------------------------------------------------------------------------
StoreInit ==
    /\ manageLifecycle \in BOOLEAN
    /\ storeSnapshot = Initial /\ opened = FALSE /\ connected = 0 /\ latest = Unread
    /\ tail = <<>> /\ step = "no" /\ read = NothingRead /\ microtasks = 0
    /\ storeCalls = 0 /\ byHand = {}
    /\ handle = NewHandle(manageLifecycle)

StoreNext ==
    \/ start \/ stop \/ change
    \/ connect \/ release \/ Microtask
    \/ StartBegins \/ DocumentOpened \/ StartEnds \/ StoreStartFails
    \/ \E list \in {"readers", "writers"} : ListRead(list)
    \/ \E ok \in BOOLEAN : CloseAbandoned(ok)
    \/ StopBegins
    \/ \E ok \in BOOLEAN : StopEnds(ok)
    \/ ChangeBegins
    \/ \E ok \in BOOLEAN : ChangeEnds(ok)
    \/ RemoteUpdate \/ Notify

StoreSpec == StoreInit /\ [][StoreNext]_storeVars

-----------------------------------------------------------------------------
StoreSettled == tail = <<>> /\ microtasks = 0

(* Once every call has run, the store is ready exactly if it holds the      *)
(* document open with its subscription, and otherwise it has left neither   *)
(* behind, however starts, stops, failures and releases were interleaved.   *)
StoreHoldsDocument ==
    StoreSettled =>
        /\ opened <=> storeSnapshot.status = "ready"
        /\ opened => handle.open /\ handle.subscribed
        /\ ~opened => ~handle.subscribed /\ (manageLifecycle /\ ~handle.stuck => ~handle.open)

(* The document is held while a consumer is connected and released with the *)
(* last of them, also when one connects between a release and its           *)
(* microtask; only a failed start leaves consumers without it.              *)
ConsumersHold ==
    StoreSettled =>
        /\ connected > 0 /\ "stop" \notin byHand => opened \/ storeSnapshot.status = "error"
        /\ connected = 0 /\ byHand = {} => ~opened

(* When the document is at rest the snapshot shows its last update, data,   *)
(* readers and writers alike: an update that arrived while start was        *)
(* reading is not overwritten by what it read.                              *)
SnapshotSettles ==
    StoreSettled /\ opened /\ handle.told = handle.version =>
        \A part \in {"data", "readers", "writers"} : storeSnapshot[part] = handle.version
===============================================================================
