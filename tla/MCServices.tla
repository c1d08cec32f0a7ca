------------------------------ MODULE MCServices ------------------------------
(* The services of a document on its node and in an application,               *)
(* which share no state, side by side: a behaviour is one of the chosen       *)
(* component, the others stay in their initial state.                         *)
EXTENDS SyncRequests, DocumentSession, IndexMaintenance, BeeKEM, DocumentStore,
        ReactDocuments, ReduxDocuments

VARIABLE component

(* Devices of the key tree other than the founder, requesters, and instances  *)
(* for a path are interchangeable.                                            *)
Symmetry == Permutations(Members \ {Founder}) \cup Permutations(Requesters) \cup Permutations(Instances)

Init ==
    /\ component \in {"requests", "session", "transaction", "index", "tree", "store", "react", "redux"}
    /\ SyncRequestInit
    /\ SessionInit
    /\ TransactionInit
    /\ component # "transaction" => coordinated
    /\ component # "session" => doc = [i \in Instances |-> NewDocument("legacy")]
    /\ IndexInit
    /\ TreeInit
    /\ StoreInit
    /\ component # "store" => manageLifecycle
    /\ ReactInit
    /\ ReduxInit

Next ==
    \/ component = "requests" /\ SyncRequestNext
       /\ UNCHANGED <<component, sessionVars, transactionVars, indexVars, treeVars, storeVars, reactVars, reduxVars>>
    \/ component = "session" /\ SessionNext
       /\ UNCHANGED <<component, requestVars, transactionVars, indexVars, treeVars, storeVars, reactVars, reduxVars>>
    \/ component = "transaction" /\ TransactionNext
       /\ UNCHANGED <<component, requestVars, sessionVars, indexVars, treeVars, storeVars, reactVars, reduxVars>>
    \/ component = "index" /\ IndexNext
       /\ UNCHANGED <<component, requestVars, sessionVars, transactionVars, treeVars, storeVars, reactVars, reduxVars>>
    \/ component = "tree" /\ TreeNext
       /\ UNCHANGED <<component, requestVars, sessionVars, transactionVars, indexVars, storeVars, reactVars, reduxVars>>
    \/ component = "store" /\ StoreNext
       /\ UNCHANGED <<component, requestVars, sessionVars, transactionVars, indexVars, treeVars, reactVars, reduxVars>>
    \/ component = "react" /\ ReactNext
       /\ UNCHANGED <<component, requestVars, sessionVars, transactionVars, indexVars, treeVars, storeVars, reduxVars>>
    \/ component = "redux" /\ ReduxNext
       /\ UNCHANGED <<component, requestVars, sessionVars, transactionVars, indexVars, treeVars, storeVars, reactVars>>

vars == <<component, requestVars, sessionVars, transactionVars, indexVars, treeVars, storeVars, reactVars, reduxVars>>

Spec == Init /\ [][Next]_vars

-------------------------------------------------------------------------------
(* Properties: what is asked of each part, by theme, in the behaviours in     *)
(* which that part takes steps.                                               *)

(* The BeeKEM tree gives every member exactly the keys of its path, refuses   *)
(* no honest update, keeps later secrets from removed and earlier ones from   *)
(* added members, and survives a restart.                                     *)
TreeKeepsSecrets ==
    component = "tree" =>
        PathOwned /\ UpdatesApply /\ Confidential /\ RestoresExactly /\ TreeMathAgrees

(* Once the calls of the framework bindings have run, the store, the React    *)
(* hooks and the Redux reducers hold the document the node has open,          *)
(* subscribed and current, or have left nothing behind.                       *)
BindingsSettle ==
    /\ StoreHoldsDocument /\ ConsumersHold /\ SnapshotSettles
    /\ SubscribedIsOpen /\ NothingLeftOpen /\ AllFollow /\ OneActivation
    /\ StoreMatchesNode /\ RemoteShown
===============================================================================
