---------------------------- MODULE MemberList ----------------------------
(***************************************************************************)
(* The replicated member lists behind writers and readers: AutomergeACL in  *)
(* automerge/src/peerborne-automerge.ts and YjsACL in                       *)
(* yjs/src/peerborne-yjs.ts, as PreparedACLChange of core/src/acl.ts uses   *)
(* them.  Replicas stage additions and removals, publish what they staged   *)
(* before or without committing it, queue mutations, and merge each other's *)
(* changes in any order, deltas before the history they depend on included. *)
(*                                                                          *)
(* An operation is known by its number.  `past' is the history its author   *)
(* had, `needs' the operations the CRDT keeps it pending for.  Claim and    *)
(* finalization of a prepared change are one step, as PreparedCommitClaim   *)
(* asks of its callers.  Byte limits, encodings and undecodable changes are *)
(* left out; the counts of changes and members are kept.                    *)
(***************************************************************************)
EXTENDS Integers, FiniteSets, Sequences, SequencesExt

CONSTANTS
    Lists,              \* the replicas, numbered; the number is a Yjs client id too
    Callers,            \* bound: the replicas whose callers prepare changes
    Members,            \* public keys
    MAX_ACL_CHANGES,    \* retained changes, and reserved identifiers, per replica
    MAX_ACL_MEMBERS,
    MaxOps              \* bound: operations authored

ASSUME MemberListAssumption ==
    /\ Lists \subseteq Nat \ {0} /\ Callers \subseteq Lists
    /\ {MAX_ACL_CHANGES, MAX_ACL_MEMBERS, MaxOps} \subseteq Nat

VARIABLES
    crdt,       \* "automerge" or "yjs"
    ops,        \* every operation staged, in the order of their numbers
    acl,        \* _acl: the numbers each replica retains
    client,     \* the client id of each replica's live Yjs document
    reserved,   \* the <<client, clock>> identifiers each replica has burned
    prepared,   \* the change each replica has prepared, or NoneStaged
    queued      \* the mutation each replica has queued, or NoneQueued

listVars == <<crdt, ops, acl, client, reserved, prepared, queued>>

NoneStaged == [on |-> FALSE, new |-> {}, current |-> FALSE]
NoneQueued == [on |-> FALSE]

-----------------------------------------------------------------------------
(* Documents                                                                *)

Numbers == DOMAIN ops
On(key, doc) == {n \in doc : ops[n].key = key}
Adds(key, doc) == {n \in On(key, doc) : ops[n].effect = "add"}

(* What the CRDT has integrated; the rest waits for what it needs.          *)
Applied(doc) == {n \in doc : ops[n].needs \subseteq doc}
Complete(doc) == Applied(doc) = doc

(* A value stands until an operation that saw it replaces it.               *)
AutomergeHas(key, doc) ==
    \E a \in Adds(key, doc) : \A n \in On(key, doc) : a \notin ops[n].past

(* Concurrent values are ordered by client along their origins; the last    *)
(* one is the entry of the map.                                             *)
Later(a, b) ==
    LET x == ops[a].chain
        y == ops[b].chain
    IN  \/ IsStrictPrefix(y, x)
        \/ \E i \in DOMAIN x \cap DOMAIN y : x[i] > y[i] /\ \A j \in 1 .. i - 1 : x[j] = y[j]
Winner(key, doc) == {a \in Adds(key, doc) : \A b \in Adds(key, doc) \ {a} : Later(a, b)}
YjsHas(key, doc) ==
    \E a \in Winner(key, doc) : \A n \in On(key, doc) : ops[n].effect = "remove" => a \notin ops[n].needs

Has(key, doc) == IF crdt = "automerge" THEN AutomergeHas(key, doc) ELSE YjsHas(key, doc)
UsersIn(doc) == {key \in Members : Has(key, Applied(doc))}

(* The writes of a key that no other write of it has seen.                  *)
Frontier(key, doc) == {n \in On(key, doc) : \A m \in On(key, doc) : n \notin ops[m].past}

(* Concurrent changes of a key must not disagree about it.                  *)
_assertValidUsersHistory(doc) ==
    \A key \in Members : \A n, m \in Frontier(key, Applied(doc)) : ops[n].effect = ops[m].effect

(* Pending additions count as members.                                      *)
PendingMembers(doc) == {ops[n].key : n \in {m \in doc \ Applied(doc) : ops[m].effect = "add"}}

assertAutomergeACLResourceLimits(doc) ==
    /\ Cardinality(doc) <= MAX_ACL_CHANGES
    /\ Cardinality(UsersIn(doc) \cup PendingMembers(doc)) <= MAX_ACL_MEMBERS

snapshotBoundedYjsACLState(doc) ==
    /\ Cardinality(doc) <= MAX_ACL_CHANGES
    /\ Cardinality(UsersIn(doc) \cup PendingMembers(doc)) <= MAX_ACL_MEMBERS

-----------------------------------------------------------------------------
(* Staging                                                                  *)

Clock(c, doc) == Cardinality({n \in doc : ops[n].effect = "add" /\ ops[n].id[1] = c})
FreshClient == 10 + Len(ops)

(* Yjs: the live client's next clock, unless a staged addition had it.      *)
_reserveStagedAdditionClientID(r) ==
    LET next == <<client[r], Clock(client[r], acl[r])>>
    IN  IF next \in reserved[r] THEN <<FreshClient, 0>> ELSE next

(* Automerge: a new actor for every staged addition.                        *)
_reserveStagedAdditionActor(r) == <<FreshClient, 0>>

AutomergeAddition(r, key) ==
    [key |-> key, effect |-> "add", past |-> acl[r], needs |-> acl[r],
     id |-> _reserveStagedAdditionActor(r), chain |-> << >>]

AutomergeRemoval(r, key) ==
    [key |-> key, effect |-> "remove", past |-> acl[r], needs |-> acl[r],
     id |-> <<FreshClient, 0>>, chain |-> << >>]

(* A Yjs item needs the item it follows and the earlier items of its client.*)
YjsAddition(r, key) ==
    LET id == _reserveStagedAdditionClientID(r)
        origin == Winner(key, acl[r])
    IN  [key |-> key, effect |-> "add", past |-> acl[r],
         needs |-> origin \cup {n \in acl[r] : ops[n].effect = "add" /\ ops[n].id[1] = id[1]},
         id |-> id,
         chain |-> Append(IF origin = {} THEN << >> ELSE ops[CHOOSE o \in origin : TRUE].chain, id[1])]

(* A bug: the removal deletes the first entry of the key, not the current.  *)
DeletesOldestItem(r, key) ==
    [key |-> key, effect |-> "remove", past |-> acl[r],
     needs |-> {CHOOSE a \in Adds(key, acl[r]) : \A b \in Adds(key, acl[r]) : a <= b},
     id |-> <<0, Len(ops)>>, chain |-> << >>]

(* A deletion names the entry it deletes.                                   *)
YjsRemoval(r, key) ==
    [key |-> key, effect |-> "remove", past |-> acl[r], needs |-> Winner(key, acl[r]),
     id |-> <<0, Len(ops)>>, chain |-> << >>]

Addition(r, key) == IF crdt = "automerge" THEN AutomergeAddition(r, key) ELSE YjsAddition(r, key)
Removal(r, key) == IF crdt = "automerge" THEN AutomergeRemoval(r, key) ELSE YjsRemoval(r, key)

(* An addition of a member, or a removal of no member, stages no change.    *)
NothingToDo(r, effect, key) == Has(key, acl[r]) <=> effect = "add"

CanStage(r, effect, key) ==
    /\ Complete(acl[r])
    /\ NothingToDo(r, effect, key)
       \/ /\ Len(ops) < MaxOps
          /\ Cardinality(acl[r]) < MAX_ACL_CHANGES
          /\ effect = "add" => /\ Cardinality(UsersIn(acl[r])) < MAX_ACL_MEMBERS
                               /\ Cardinality(reserved[r]) < MAX_ACL_CHANGES

(* The staged operation gets the next number; an addition burns its id.     *)
StageOp(r, effect, key) ==
    IF NothingToDo(r, effect, key) THEN UNCHANGED <<ops, reserved>>
    ELSE LET op == IF effect = "add" THEN Addition(r, key) ELSE Removal(r, key)
         IN  /\ ops' = Append(ops, op)
             /\ reserved' = [reserved EXCEPT ![r] = @ \cup (IF effect = "add" THEN {op.id} ELSE {})]

StagedNumbers(r, effect, key) == IF NothingToDo(r, effect, key) THEN {} ELSE {Len(ops) + 1}

prepareAdd(r, key) ==
    /\ ~prepared[r].on /\ r \in Callers
    /\ CanStage(r, "add", key)
    /\ StageOp(r, "add", key)
    /\ prepared' = [prepared EXCEPT ![r] =
           [on |-> TRUE, new |-> StagedNumbers(r, "add", key), current |-> TRUE]]
    /\ UNCHANGED <<crdt, acl, client, queued>>

prepareRemove(r, key) ==
    /\ ~prepared[r].on /\ r \in Callers
    /\ CanStage(r, "remove", key)
    /\ StageOp(r, "remove", key)
    /\ prepared' = [prepared EXCEPT ![r] =
           [on |-> TRUE, new |-> StagedNumbers(r, "remove", key), current |-> TRUE]]
    /\ UNCHANGED <<crdt, acl, client, queued>>

-----------------------------------------------------------------------------
(* Committing                                                               *)

(* A new document makes other stages stale.                    *)
Replace(r, doc, live) ==
    /\ acl' = [acl EXCEPT ![r] = doc]
    /\ client' = [client EXCEPT ![r] = live]

LiveClient(r, doc, ledger) ==
    LET added == {n \in doc \ acl[r] : ledger[n].effect = "add"}
    IN  IF crdt = "yjs" /\ added # {} THEN ledger[CHOOSE n \in added : TRUE].id[1] ELSE client[r]

claimCommit(r) == prepared[r].on /\ prepared[r].current /\ ~queued[r].on

(* What was staged becomes the live document.                               *)
CommitPrepared(r) ==
    /\ claimCommit(r)
    /\ LET doc == (IF prepared[r].new = {} THEN acl[r]
                   ELSE ops[CHOOSE n \in prepared[r].new : TRUE].past) \cup prepared[r].new
       IN  Replace(r, doc, LiveClient(r, doc, ops))
    /\ prepared' = [prepared EXCEPT ![r] = NoneStaged]
    /\ UNCHANGED <<crdt, ops, reserved, queued>>

AbandonPrepared(r) ==
    /\ prepared[r].on
    /\ prepared' = [prepared EXCEPT ![r] = NoneStaged]
    /\ UNCHANGED <<crdt, ops, acl, client, reserved, queued>>

(* add, remove: from here on merges and other claims are refused.           *)
QueueMutation(r, effect, key) ==
    /\ ~queued[r].on
    /\ queued' = [queued EXCEPT ![r] = [on |-> TRUE, effect |-> effect, key |-> key]]
    /\ UNCHANGED <<crdt, ops, acl, client, reserved, prepared>>

RunMutation(r) ==
    /\ queued[r].on
    /\ CanStage(r, queued[r].effect, queued[r].key)
    /\ StageOp(r, queued[r].effect, queued[r].key)
    /\ LET doc == acl[r] \cup StagedNumbers(r, queued[r].effect, queued[r].key)
       IN  /\ Replace(r, doc, LiveClient(r, doc, ops'))
           /\ prepared' = [prepared EXCEPT ![r].current = @ /\ doc = acl[r]]
    /\ queued' = [queued EXCEPT ![r] = NoneQueued]
    /\ UNCHANGED crdt

MutationFails(r) ==
    /\ queued[r].on
    /\ ~CanStage(r, queued[r].effect, queued[r].key)
    /\ queued' = [queued EXCEPT ![r] = NoneQueued]
    /\ UNCHANGED <<crdt, ops, acl, client, reserved, prepared>>

-----------------------------------------------------------------------------
(* Merging                                                                  *)

(* A change alone, or everything a complete replica has.                    *)
Changes == {{n} : n \in Numbers} \cup {acl[r] : r \in {q \in Lists : Complete(acl[q])}}

AutomergeMergeStaged(r, changes) ==
    LET doc == acl[r] \cup changes
    IN  /\ crdt = "automerge"
        /\ ~queued[r].on
        /\ doc # acl[r]
        /\ _assertValidUsersHistory(doc)
        /\ assertAutomergeACLResourceLimits(doc)
        /\ Replace(r, doc, client[r])

YjsMergeStaged(r, changes) ==
    LET doc == acl[r] \cup changes
    IN  /\ crdt = "yjs"
        /\ ~queued[r].on
        /\ doc # acl[r]
        /\ snapshotBoundedYjsACLState(doc)
        /\ Replace(r, doc, client[r])

MergeAutomerge(r) ==
    /\ \E changes \in Changes : AutomergeMergeStaged(r, changes)
    /\ prepared' = [prepared EXCEPT ![r].current = FALSE]
    /\ UNCHANGED <<crdt, ops, reserved, queued>>

MergeYjs(r) ==
    /\ \E changes \in Changes : YjsMergeStaged(r, changes)
    /\ prepared' = [prepared EXCEPT ![r].current = FALSE]
    /\ UNCHANGED <<crdt, ops, reserved, queued>>

MemberListInit ==
    /\ crdt \in {"automerge", "yjs"}
    /\ ops = << >>
    /\ acl = [r \in Lists |-> {}]
    /\ client = [r \in Lists |-> r]
    /\ reserved = [r \in Lists |-> {}]
    /\ prepared = [r \in Lists |-> NoneStaged]
    /\ queued = [r \in Lists |-> NoneQueued]

MemberListNext ==
    \/ \E r \in Lists, key \in Members : prepareAdd(r, key)
    \/ \E r \in Lists, key \in Members : prepareRemove(r, key)
    \/ \E r \in Lists : CommitPrepared(r)
    \/ \E r \in Lists : AbandonPrepared(r)
    \/ \E r \in Lists, effect \in {"add", "remove"}, key \in Members : QueueMutation(r, effect, key)
    \/ \E r \in Lists : RunMutation(r)
    \/ \E r \in Lists : MutationFails(r)
    \/ \E r \in Lists : MergeAutomerge(r)
    \/ \E r \in Lists : MergeYjs(r)

MemberListSpec == MemberListInit /\ [][MemberListNext]_listVars

-----------------------------------------------------------------------------
(* Properties                                                               *)

(* Two operations never leave a replica under one identifier, whatever was  *)
(* staged, published and abandoned before: a receiver of both would keep    *)
(* whichever came first.                                                    *)
IdentifiersUnique == \A n, m \in Numbers : ops[n].id = ops[m].id => n = m

(* A removal whose author had seen every addition of a key that a replica   *)
(* has integrated leaves the key out there: no member comes back by the     *)
(* order in which changes arrive.                                           *)
RemovalEffective ==
    \A r \in Lists, key \in Members :
        (\E n \in On(key, Applied(acl[r])) : /\ ops[n].effect = "remove"
                                             /\ Adds(key, Applied(acl[r])) \subseteq ops[n].past)
        => key \notin UsersIn(acl[r])

(* Nobody the Automerge list names as a member was removed by a change that *)
(* no later change of theirs overrides: whether somebody is a member never  *)
(* depends on the winner the CRDT picks among concurrent changes.           *)
MembershipUnambiguous ==
    crdt = "automerge" =>
        \A r \in Lists : \A key \in UsersIn(acl[r]) :
            \A n \in Frontier(key, Applied(acl[r])) : ops[n].effect = "add"

(* Retained changes and members stay within the limits of the adapter, with *)
(* the members that a change still waiting for its history will add: no     *)
(* order of arrival puts more of them into a list than it may hold.         *)
ListBounded ==
    \A r \in Lists : /\ Cardinality(acl[r]) <= MAX_ACL_CHANGES
                     /\ Cardinality(UsersIn(acl[r]) \cup PendingMembers(acl[r])) <= MAX_ACL_MEMBERS

(* A change a replica has taken in is never dropped: a prepared change that *)
(* was staged before a merge does not overwrite it.                         *)
ChangesKept == [][\A r \in Lists : acl[r] \subseteq acl'[r]]_listVars
=============================================================================
