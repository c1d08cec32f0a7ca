---------------------------- MODULE ReduxDocuments ----------------------------
(***************************************************************************)
(* openDocumentAsync, closeDocumentAsync and changeDocumentAsync of         *)
(* packages/redux/src/actions.ts for one document id, and the part of       *)
(* peerborneReducer (packages/redux/src/reducers.ts) their actions reach.   *)
(*                                                                          *)
(* Thunks of one id may overlap; an await is a point where others run.  A   *)
(* document reference is numbered in the order of node.doc, its content is  *)
(* the number of updates applied to it.  The node is initialized and        *)
(* accepts one open document per path; a close that a thunk awaits may      *)
(* reject, the one after a failed open releases the document.  The list of  *)
(* peers is left out.                                                       *)
(***************************************************************************)
EXTENDS Integers, Sequences

CONSTANTS
    Thunks,         \* bound: the thunks dispatched
    MaxUpdatesSeen,     \* bound: updates of one reference
    SlowCloses      \* whether a close may outlast the opening of another reference

ASSUME ReduxAssumption == MaxUpdatesSeen \in Nat /\ SlowCloses \in BOOLEAN

VARIABLES
    documents,      \* documents[documentId], NoDocument for none
    refs,           \* every documentRef
    thunks,         \* what each dispatched thunk awaits
    held            \* external: the reference open in the node, 0 for none

reduxVars == <<documents, refs, thunks, held>>

(* of: the reference whose content is shown.                                *)
NoDocument == [documentRef |-> 0, document |-> 0, of |-> 0]
RefIds == 1 .. Len(refs)

(* remote: the content after the last remote update.  untold: the contents  *)
(* of the remote updates the handler has not been told of yet.  rejected: a *)
(* close of it has rejected.                                                *)
NewRef == [subscribed |-> TRUE, version |-> 0, remote |-> 0, untold |-> <<>>, rejected |-> FALSE]
Unsubscribe(r) == [refs EXCEPT ![r].subscribed = FALSE, ![r].untold = <<>>]

-----------------------------------------------------------------------------
(* The reducer                                                              *)

OPEN_DOCUMENT(r) == [documentRef |-> r, document |-> refs[r].version, of |-> r]
CLOSE_DOCUMENT == NoDocument
SYNC_DOCUMENT(r, document) ==
    IF documents = NoDocument THEN documents ELSE [documents EXCEPT !.document = document, !.of = r]

-----------------------------------------------------------------------------
(* The thunks                                                               *)

Ended == [kind |-> "ended", await |-> "nothing", documentRef |-> 0]
IsIdle(k) == thunks[k].await = "not dispatched"

ThunkAwaits(k, kind, what, r) == thunks' = [thunks EXCEPT ![k] = [kind |-> kind, await |-> what, documentRef |-> r]]
ThunkEnds(k) == thunks' = [thunks EXCEPT ![k] = Ended]

(* node.doc and subscribe, before the first await of open or create.        *)
Begins(k) ==
    /\ refs' = Append(refs, NewRef)
    /\ ThunkAwaits(k, "open", "open", Len(refs) + 1)

openDocumentAsync(k) ==
    /\ IsIdle(k)
    /\ IF documents # NoDocument
       THEN refs' = Unsubscribe(documents.documentRef) /\ ThunkAwaits(k, "open", "close", documents.documentRef)
       ELSE Begins(k)
    /\ UNCHANGED <<documents, held>>

closeDocumentAsync(k) ==
    /\ IsIdle(k)
    /\ IF documents # NoDocument
       THEN refs' = Unsubscribe(documents.documentRef) /\ ThunkAwaits(k, "close", "close", documents.documentRef)
       ELSE ThunkEnds(k) /\ UNCHANGED refs
    /\ UNCHANGED <<documents, held>>

Closed(r) == IF held = r THEN 0 ELSE held

PreviousClosed(k) ==
    /\ thunks[k].await = "close"
    /\ held' = Closed(thunks[k].documentRef)
    /\ documents' = CLOSE_DOCUMENT
    /\ IF thunks[k].kind = "open" THEN Begins(k) ELSE ThunkEnds(k) /\ UNCHANGED refs

(* A close that rejects ends the thunk: the store keeps a reference that is *)
(* no longer subscribed, whether or not the node still holds it.            *)
CloseRejects(k) ==
    LET r == thunks[k].documentRef
    IN  /\ thunks[k].await = "close"
        /\ refs' = [refs EXCEPT ![r].rejected = TRUE]
        /\ held' \in {held, Closed(r)}
        /\ ThunkEnds(k)
        /\ UNCHANGED documents

CanOpen == held = 0 /\ (SlowCloses \/ \A k \in Thunks : thunks[k].await # "close")

DocumentOpens(k) ==
    LET r == thunks[k].documentRef
    IN  /\ thunks[k].await = "open" /\ CanOpen
        /\ held' = r
        /\ documents' = OPEN_DOCUMENT(r)
        /\ ThunkEnds(k)
        /\ UNCHANGED refs

DocumentFails(k) ==
    /\ thunks[k].await = "open"
    /\ refs' = Unsubscribe(thunks[k].documentRef)
    /\ ThunkEnds(k)
    /\ UNCHANGED <<documents, held>>

(* The content is dispatched as it is when change() returns its promise,    *)
(* before the change is applied, and not again.                             *)
changeDocumentAsync(k) ==
    /\ IsIdle(k)
    /\ IF documents = NoDocument
       THEN ThunkEnds(k) /\ UNCHANGED documents
       ELSE /\ documents' = SYNC_DOCUMENT(documents.documentRef, refs[documents.documentRef].version)
            /\ ThunkAwaits(k, "change", "change", documents.documentRef)
    /\ UNCHANGED <<refs, held>>

ChangeApplied(k) ==
    LET r == thunks[k].documentRef
    IN  /\ thunks[k].await = "change" /\ refs[r].version < MaxUpdatesSeen
        /\ refs' = [refs EXCEPT ![r].version = @ + 1]
        /\ ThunkEnds(k)
        /\ UNCHANGED <<documents, held>>

-----------------------------------------------------------------------------
(* A remote update reaches a reference being loaded or open, and its        *)
(* handler, for remote updates only, later.                                 *)
RemoteChange(r) ==
    LET version == refs[r].version + 1
    IN  /\ refs[r].version < MaxUpdatesSeen
        /\ held = r \/ \E k \in Thunks : thunks[k].await = "open" /\ thunks[k].documentRef = r
        /\ refs' = [refs EXCEPT ![r].version = version, ![r].remote = version,
                                ![r].untold = IF refs[r].subscribed THEN Append(@, version) ELSE @]
        /\ UNCHANGED <<documents, thunks, held>>

RemoteTold(r) ==
    /\ refs[r].untold # <<>>
    /\ refs' = [refs EXCEPT ![r].untold = Tail(@)]
    /\ documents' = SYNC_DOCUMENT(r, Head(refs[r].untold))
    /\ UNCHANGED <<thunks, held>>

-----------------------------------------------------------------------------
ReduxInit ==
    /\ documents = NoDocument /\ refs = <<>> /\ held = 0
    /\ thunks = [k \in Thunks |-> [kind |-> "none", await |-> "not dispatched", documentRef |-> 0]]

ReduxNext ==
    \/ \E k \in Thunks : openDocumentAsync(k)
    \/ \E k \in Thunks : closeDocumentAsync(k)
    \/ \E k \in Thunks : changeDocumentAsync(k)
    \/ \E k \in Thunks : PreviousClosed(k)
    \/ \E k \in Thunks : CloseRejects(k)
    \/ \E k \in Thunks : DocumentOpens(k)
    \/ \E k \in Thunks : DocumentFails(k)
    \/ \E k \in Thunks : ChangeApplied(k)
    \/ \E r \in RefIds : RemoteChange(r)
    \/ \E r \in RefIds : RemoteTold(r)

ReduxSpec == ReduxInit /\ [][ReduxNext]_reduxVars

-----------------------------------------------------------------------------
ThunksEnded == \A k \in Thunks : thunks[k].await \in {"not dispatched", "nothing"}

(* When the thunks have ended, the reference the node has open, if any, is  *)
(* the one in the store, so that a thunk can still close it: overlapping    *)
(* opens leave exactly one, and neither a lost race nor a failure leaves a  *)
(* document behind.  It is subscribed, and no other is.  Only a close that  *)
(* rejected leaves a reference in the store that the node does not hold, or *)
(* one that is held and not subscribed.                                     *)
StoreMatchesNode ==
    ThunksEnded =>
        /\ held # 0 => documents.documentRef = held
        /\ documents.documentRef \notin {0, held} => refs[documents.documentRef].rejected
        /\ \A r \in RefIds : refs[r].subscribed <=> r = held /\ ~refs[r].rejected

(* Once the handlers have been told, the store shows a content that has the *)
(* last remote update, also one that arrived while the document was being   *)
(* opened and was dispatched to a store that did not have it yet.  Only the *)
(* loser of two overlapping opens may be shown in its place, until the next *)
(* update.                                                                  *)
RemoteShown ==
    \A r \in RefIds :
        documents.documentRef = r /\ documents.of = r /\ refs[r].subscribed /\ refs[r].untold = <<>> =>
            documents.document >= refs[r].remote
===============================================================================
