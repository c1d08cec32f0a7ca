---------------------------- MODULE ReactDocuments ----------------------------
(***************************************************************************)
(* usePeerborneDocumentState of packages/react/src/hooks.ts: the effects of *)
(* the components mounted for one document path, sharing the caches of      *)
(* packages/react/src/hooks-cache.ts.                                       *)
(*                                                                          *)
(* A task is an activation promise; the reactions to one that has settled,  *)
(* the waiting effects' and the cleanups', run in any order, between other  *)
(* mounts and unmounts.  A change of a hook's arguments is an unmount and a *)
(* mount.  The node accepts one open document per path (registerDocument);  *)
(* a document is named after the task that made it.                         *)
(***************************************************************************)
EXTENDS Integers, FiniteSets, FiniteSetsExt

CONSTANTS
    Components,     \* the components that use the hook
    MaxTasks,       \* bound: activation promises made
    MaxMounts       \* bound: mounts

ASSUME ReactAssumption == IsFiniteSet(Components) /\ MaxTasks \in Nat /\ MaxMounts \in Nat

VARIABLES
    tasks,              \* every promise: mode, phase, document and the promise it follows
    openTask,           \* openTasks.get(documentPath), 0 for none
    openTaskResult,     \* openTaskResults.get(documentPath).docRef, 0 for none
    activationRetries,  \* activationRetries.get(documentPath)
    hooks,              \* each component's effect
    reactions,          \* reactions of unmounted effects to a task: <<why, task>>
    registered,         \* external: the document open in the node, 0 for none
    closing,            \* documents whose close has not reached unregisterDocument
    mounts              \* mounts so far

reactVars == <<tasks, openTask, openTaskResult, activationRetries, hooks, reactions, registered, closing, mounts>>

Modes == {"open", "create"}
Unmounted == [state |-> "unmounted", mode |-> "open", task |-> 0, docRef |-> 0]

Tasks == 1 .. Cardinality({t \in 1 .. MaxTasks : tasks[t].phase # "unused"})
Rejected(t) == tasks[t].phase = "rejected"
Fulfilled(t) == tasks[t].phase = "fulfilled"
Mounted == {c \in Components : hooks[c].state # "unmounted"}

-----------------------------------------------------------------------------
(* joinActivation: the shared task, one that follows it when it is of the   *)
(* other mode, or a new one.  The state is h, so that several can join.     *)
NewTask(h) == Cardinality({t \in 1 .. MaxTasks : h.tasks[t].phase # "unused"}) + 1

Waits(h, c, t) == [h EXCEPT !.hooks[c].state = "waiting", !.hooks[c].task = t]

shareTask(h, c, task) ==
    LET t == NewTask(h)
    IN  Waits([h EXCEPT !.tasks[t] = task, !.openTask = t], c, t)

activate(h, mode) == [mode |-> mode, phase |-> "opening", docRef |-> NewTask(h), follows |-> 0]
AfterCatch(h, mode) == [mode |-> mode, phase |-> "following", docRef |-> 0, follows |-> h.openTask]

joinActivation(h, c) ==
    LET mode == h.hooks[c].mode
    IN  IF h.openTask = 0 THEN shareTask(h, c, activate(h, mode))
        ELSE IF h.tasks[h.openTask].mode # mode THEN shareTask(h, c, AfterCatch(h, mode))
        ELSE Waits(h, c, h.openTask)

Caches == [tasks |-> tasks, openTask |-> openTask, hooks |-> hooks]
Becomes(h) ==
    /\ NewTask(h) <= MaxTasks + 1
    /\ tasks' = h.tasks /\ openTask' = h.openTask /\ hooks' = h.hooks

Mount(c, mode) ==
    /\ c \notin Mounted /\ mounts < MaxMounts /\ NewTask(Caches) <= MaxTasks
    /\ mounts' = mounts + 1
    /\ Becomes(joinActivation([Caches EXCEPT !.hooks[c].mode = mode], c))
    /\ UNCHANGED <<openTaskResult, activationRetries, reactions, registered, closing>>

-----------------------------------------------------------------------------
(* The activation                                                           *)

TaskSettles(t, phase) == tasks' = [tasks EXCEPT ![t].phase = phase]
TaskUnchanged == UNCHANGED <<openTask, openTaskResult, activationRetries, hooks, reactions, mounts>>

(* open or create resolves, or fails: the node may already hold a document  *)
(* for the path.                                                            *)
Opened(t) ==
    /\ tasks[t].phase = "opening" /\ registered = 0
    /\ registered' = tasks[t].docRef
    /\ TaskSettles(t, "reading")
    /\ UNCHANGED closing /\ TaskUnchanged

OpenFailed(t) ==
    /\ tasks[t].phase = "opening"
    /\ TaskSettles(t, "rejected")
    /\ UNCHANGED <<registered, closing>> /\ TaskUnchanged

(* The members are read; if that fails the document is closed again.        *)
MembersRead(t, ok) ==
    /\ tasks[t].phase = "reading"
    /\ TaskSettles(t, IF ok THEN "fulfilled" ELSE "abandoning")
    /\ closing' = IF ok THEN closing ELSE closing \cup {tasks[t].docRef}
    /\ UNCHANGED registered /\ TaskUnchanged

(* existing.catch(() => activate(initialization))                           *)
Follow(t) ==
    LET existing == tasks[t].follows
    IN  /\ tasks[t].phase = "following"
        /\ \/ /\ Fulfilled(existing)
              /\ tasks' = [tasks EXCEPT ![t].phase = "fulfilled", ![t].docRef = tasks[existing].docRef]
           \/ /\ Rejected(existing)
              /\ tasks' = [tasks EXCEPT ![t].phase = "opening", ![t].docRef = t]
        /\ UNCHANGED <<registered, closing>> /\ TaskUnchanged

(* External: close() of a document reaches its end.                         *)
DocumentClosed(d) ==
    /\ d \in closing
    /\ closing' = closing \ {d}
    /\ registered' = IF registered = d THEN 0 ELSE registered
    /\ tasks' = [t \in DOMAIN tasks |->
           IF tasks[t].phase = "abandoning" /\ tasks[t].docRef = d THEN [tasks[t] EXCEPT !.phase = "rejected"]
           ELSE tasks[t]]
    /\ TaskUnchanged

-----------------------------------------------------------------------------
(* run() of a mounted effect goes on once its task has settled              *)

(* On success it subscribes, and the effects that failed earlier try again. *)
CachedOrResult(c) == IF openTaskResult # 0 THEN openTaskResult ELSE tasks[hooks[c].task].docRef

Retried(c) == activationRetries \ {c}

Subscribe(c) ==
    LET docRef == CachedOrResult(c)
        subscribed == [Caches EXCEPT !.hooks[c].state = "subscribed", !.hooks[c].docRef = docRef]
    IN  /\ hooks[c].state = "waiting" /\ Fulfilled(hooks[c].task)
        /\ openTaskResult' = docRef
        /\ activationRetries' = {}
        /\ Becomes(FoldSet(LAMBDA other, h : joinActivation(h, other), subscribed, Retried(c)))
        /\ UNCHANGED <<reactions, registered, closing, mounts>>

(* On failure the task is evicted; a waiter follows what superseded it, or  *)
(* fails, and is counted among the retries.                                 *)
Evicted(t) == IF openTask = t THEN 0 ELSE openTask

ActivationFailed(c) ==
    LET t == hooks[c].task
    IN  /\ hooks[c].state = "waiting" /\ Rejected(t)
        /\ openTask' = Evicted(t)
        /\ IF openTask \in {0, t}
           THEN /\ hooks' = [hooks EXCEPT ![c].state = "failed"]
                /\ activationRetries' = activationRetries \cup {c}
           ELSE /\ hooks' = [hooks EXCEPT ![c].task = openTask]
                /\ UNCHANGED activationRetries
        /\ UNCHANGED <<tasks, openTaskResult, reactions, registered, closing, mounts>>

-----------------------------------------------------------------------------
(* The cleanup of an effect; its run() may still be waiting.                *)
Unmount(c) ==
    LET last == Mounted = {c}
    IN  /\ c \in Mounted
        /\ hooks' = [hooks EXCEPT ![c] = Unmounted]
        /\ activationRetries' = activationRetries \ {c}
        /\ openTaskResult' = IF last THEN 0 ELSE openTaskResult
        /\ reactions' = reactions
               \cup (IF hooks[c].state = "waiting" THEN {<<"run", hooks[c].task>>} ELSE {})
               \cup (IF last /\ openTask # 0 THEN {<<"release", openTask>>} ELSE {})
        /\ UNCHANGED <<tasks, openTask, registered, closing, mounts>>

Releases(t) == Mounted = {} /\ openTask = t

(* What is left of an unmounted effect evicts a failed task, and the last   *)
(* one's cleanup closes the document if nobody came back for it.            *)
React(why, t) ==
    /\ <<why, t>> \in reactions /\ (Fulfilled(t) \/ Rejected(t))
    /\ reactions' = reactions \ {<<why, t>>}
    /\ IF Rejected(t)
       THEN openTask' = Evicted(t) /\ UNCHANGED closing
       ELSE IF why = "release" /\ Releases(t)
       THEN openTask' = 0 /\ closing' = closing \cup {tasks[t].docRef}
       ELSE UNCHANGED <<openTask, closing>>
    /\ UNCHANGED <<tasks, openTaskResult, activationRetries, hooks, registered, mounts>>

-----------------------------------------------------------------------------
ReactInit ==
    /\ tasks = [t \in 1 .. MaxTasks + 1 |-> [mode |-> "open", phase |-> "unused", docRef |-> 0, follows |-> 0]]
    /\ openTask = 0 /\ openTaskResult = 0 /\ activationRetries = {}
    /\ hooks = [c \in Components |-> Unmounted]
    /\ reactions = {} /\ registered = 0 /\ closing = {} /\ mounts = 0

ReactNext ==
    \/ \E c \in Components, mode \in Modes : Mount(c, mode)
    \/ \E t \in Tasks : Opened(t)
    \/ \E t \in Tasks : OpenFailed(t)
    \/ \E t \in Tasks, ok \in BOOLEAN : MembersRead(t, ok)
    \/ \E t \in Tasks : Follow(t)
    \/ \E d \in closing : DocumentClosed(d)
    \/ \E c \in Components : Subscribe(c)
    \/ \E c \in Components : ActivationFailed(c)
    \/ \E c \in Components : Unmount(c)
    \/ \E r \in reactions : React(r[1], r[2])

ReactSpec == ReactInit /\ [][ReactNext]_reactVars

-----------------------------------------------------------------------------
AtRest ==
    /\ \A t \in Tasks : Fulfilled(t) \/ Rejected(t)
    /\ reactions = {} /\ closing = {}
    /\ \A c \in Components : hooks[c].state # "waiting"

(* A component is subscribed to the document that is open, never to one the *)
(* cleanup of another component is closing.                                 *)
SubscribedIsOpen ==
    \A c \in Components :
        hooks[c].state = "subscribed" => hooks[c].docRef = registered /\ registered \notin closing

(* When the last component is gone and everything has settled, no document  *)
(* stays open and no promise is cached, whatever was in flight when it left.*)
NothingLeftOpen == AtRest /\ Mounted = {} => registered = 0 /\ openTask = 0

(* If one component got the document, so did all the others that are        *)
(* mounted, those whose own activation had failed included.                 *)
AllFollow ==
    AtRest /\ (\E c \in Components : hooks[c].state = "subscribed") =>
        \A c \in Mounted : hooks[c].state = "subscribed"

(* At most one activation is under way: a component of the other mode waits *)
(* for the one that is, instead of racing it for the path.                  *)
OneActivation == Cardinality({t \in Tasks : tasks[t].phase \in {"opening", "reading", "abandoning"}}) <= 1
===============================================================================
